--------------------------- MODULE ExternalRecords ---------------------------
(***************************************************************************)
(* The durable records of one Agent's external work on one Connection: the *)
(* Inbox items made of the messages of a platform, and the commands its    *)
(* Connector is to carry out, which are Outbox items and provider          *)
(* operations.  InboxHandling changes the first, ConnectorDelivery the     *)
(* second, each touches the other's; ExternalWork composes them.           *)
(***************************************************************************)
EXTENDS Naturals, Sequences, FiniteSets, Budget

CONSTANTS Items,  \* Inbox items, in the order of their ingestion
          Sends,  \* proactive Outbox items
          Reads   \* provider operations

ASSUME ItemsAssumption == Items \subseteq Nat \ {0}

VARIABLES inbox,    \* h.inbox: Inbox items
          commands, \* h.outbox and h.providerOperations; an item's reply has its id
          address   \* the Agent's address on the Connection

records == <<inbox, commands, address>>

Outbox   == Items \cup Sends
Commands == Outbox \cup Reads
NoItem   == 0

Policies == {"explicit", "final_answer", "none"}

InboxStates == {"unused", "pending_access", "queued", "handling", "deferred",
                "awaiting_delivery", "handled", "failed", "interrupted"}

Outcomes == {"", "reply", "no_reply"}

(* "closed" is the outcome of the last terminal record in the item's file.    *)
InboxItem == [state: InboxStates, outcome: Outcomes, closed: Outcomes]

(* The states of an Outbox item; an operation says running and succeeded for  *)
(* sending and sent.  The token of a claim is the number of the attempt;      *)
(* "lapsed" says that the claim's lease has run out.                          *)
Command_ == [state: {"unused", "pending", "sending", "sent", "failed"},
             token: Nat, lapsed: BOOLEAN]

RecordsInit ==
  /\ inbox = [i \in Items |-> [state |-> "unused", outcome |-> "", closed |-> ""]]
  /\ commands = [c \in Commands |-> [state |-> "unused", token |-> 0, lapsed |-> FALSE]]
  /\ address \in [enabled: {TRUE}, policy: Policies]

RecordsOK ==
  /\ inbox \in [Items -> InboxItem]
  /\ commands \in [Commands -> Command_]
  /\ address \in [enabled: BOOLEAN, policy: Policies]

(* commitInboxLocked: a terminal record is the last the loader believes.      *)
Committed(r) == IF r.state = "handled" THEN [r EXCEPT !.closed = r.outcome] ELSE r

Decided(r, outcome) ==
  Committed([r EXCEPT !.outcome = outcome,
                      !.state = IF outcome = "reply" THEN "awaiting_delivery" ELSE "handled"])

(* createReplyOutboxLocked: an item has one reply, made when its address      *)
(* allows one and found again afterwards.                                     *)
CanReply(i) == commands[i].state # "unused" \/ (address.enabled /\ address.policy # "none")

Pending(cs, c) == [cs EXCEPT ![c].state = "pending", ![c].lapsed = FALSE]

WithReply(i) == IF commands[i].state = "unused" THEN Pending(commands, i) ELSE commands

(* Mutant: a reply that failed also closes its item. *)
ReconciledAny(r, c) ==
  IF r.outcome = "reply" /\ c.state \in {"sent", "failed"}
  THEN Committed([r EXCEPT !.state = "handled"]) ELSE r

(* reconcileInboxDeliveryLocked: the end of a reply's delivery is the end of  *)
(* its item.                                                                  *)
Reconciled(r, c) ==
  CASE r.outcome = "reply" /\ c.state = "sent"   -> Committed([r EXCEPT !.state = "handled"])
    [] r.outcome = "reply" /\ c.state = "failed" -> [r EXCEPT !.state = "failed"]
    [] OTHER -> r

(* loadInboxState: what a new process makes of an item.                       *)
Loaded(r) ==
  CASE r.closed # "" -> [r EXCEPT !.state = "handled", !.outcome = r.closed]
    [] r.closed = "" /\ r.state = "handling" -> [r EXCEPT !.state = "interrupted"]
    [] OTHER -> r

(* UpdateAddress *)
UpdateAddress ==
  /\ Command
  /\ \E a \in [enabled: BOOLEAN, policy: Policies] : a # address /\ address' = a
  /\ UNCHANGED <<inbox, commands>>
=============================================================================
