----------------------------- MODULE ExternalWork -----------------------------
(***************************************************************************)
(* The external work of one Agent: messages of a platform come in, Turns   *)
(* handle them, and replies, proactive messages and reads go out through   *)
(* one Connection.                                                         *)
(***************************************************************************)
EXTENDS InboxHandling, ConnectorDelivery

vars == <<records, handling, connector, spent>>

Init == RecordsInit /\ HandlingInit /\ ConnectorInit /\ BudgetInit

(* The process dies and the next one loads the records (loadInboxState); the  *)
(* gateway lives on.                                                          *)
Crash ==
  /\ Fault /\ StreamLost
  /\ workers' = [w \in Workers |-> IdleWorker] /\ turn' = NoTurn /\ unsaved' = {}
  /\ inbox' = [i \in Items |-> Reconciled(Loaded(inbox[i]), commands[i])]
  /\ UNCHANGED <<commands, address, hand, journal, platform>>

Next ==
  \/ InboxStep /\ UNCHANGED connector
  \/ ConnectorStep /\ UNCHANGED handling
  \/ UpdateAddress /\ UNCHANGED <<handling, connector>>
  \/ Crash

Spec == Init /\ [][Next]_vars

Inbox(step)     == step /\ UNCHANGED connector
Connector(step) == step /\ UNCHANGED handling

Taken(i) == \E w \in Workers : ClaimInbox(w, i) \/ RefuseInbox(w, i)

Working(w) == SendRefused(w) \/ ReserveTurn(w) \/ StartAnswered(w) \/ Repair(w)

(* The inbox loop ticks every 2 seconds and after each Turn; calls to Codex    *)
(* time out and Turns end; the stream looks for work at each event and ping;   *)
(* gateways reconnect after a second; leases run out.                         *)
FairSpec ==
  /\ Spec
  /\ \A i \in Items : WF_vars(Inbox(Taken(i))) /\ WF_vars(Inbox(Activate(i)))
  /\ \A w \in Workers : WF_vars(Inbox(Working(w)))
  /\ WF_vars(Inbox(EndOther \/ \E completed, answered \in BOOLEAN : EndTurn(completed, answered)))
  /\ WF_vars(Connector(Connect)) /\ WF_vars(Connector(ClaimStep)) /\ WF_vars(Connector(GatewayStep))
  /\ \A c \in Commands : WF_vars(Connector(Lapse(c)))

----------------------------------------------------------------------------
(* Records, workers, Turn, stream, gateway and platform have their types.     *)
TypeOK == RecordsOK /\ HandlingOK /\ ConnectorOK /\ BudgetOK

(* However the claims of outbox and operations interleave with lapses and     *)
(* results, the Connection never has two unexpired ones.                      *)
OneCommandInFlight == \A c, d \in Commands : InFlight(c) /\ InFlight(d) => c = d

Sent(c) == \E m \in platform : m[1] = c

(* No item is closed as answered before the platform has taken its reply.     *)
HandledReplyWasSent ==
  \A i \in Items : inbox[i].state = "handled" /\ inbox[i].outcome = "reply"
                     => commands[i].state = "sent" /\ Sent(i)

(* An item that waits for the delivery of its reply has a reply, whatever was *)
(* saved before a failure.                                                    *)
AwaitingHasReply ==
  \A i \in Items : inbox[i].state = "awaiting_delivery" => commands[i].state # "unused"

(* What the Hub takes for the end of a command is the end of its last attempt: *)
(* nobody is still to carry that attempt out.                                 *)
FinishedByItsAttempt ==
  \A c \in Commands : commands[c].state \in {"sent", "failed"} =>
    /\ ~(Current(c, hand) /\ hand.phase \in {"received", "posted"})
    /\ \A n \in DOMAIN queue : ~Current(c, queue[n])

(* A claimed item gets a decision, a failure or its place in the queue back,  *)
(* unless the end of its attempt could not be written.                        *)
HandlingEnds ==
  \A i \in Items : inbox[i].state = "handling" ~> inbox[i].state # "handling" \/ i \in unsaved

(* An item in the queue is taken out of it. *)
QueueMoves == \A i \in Items : inbox[i].state = "queued" ~> inbox[i].state # "queued"

(* Every command of an enabled address is sent or fails, through lapses,      *)
(* reconnections and lost results.                                            *)
CommandsEnd ==
  \A c \in Commands :
    commands[c].state \in {"pending", "sending"}
      ~> commands[c].state \in {"sent", "failed"} \/ ~address.enabled

(* One message on the platform for each reply.                                *)
OneReplyPerItem ==
  \A m, n \in platform : m[1] = n[1] /\ m[1] \in Items => m = n
=============================================================================
