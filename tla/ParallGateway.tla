----------------------------- MODULE ParallGateway -----------------------------
(***************************************************************************)
(* gateway/parall.mjs with parall-protocol.mjs: Parall keeps a dispatch    *)
(* for each message until it is acknowledged, which the gateway does only  *)
(* when the Agent is done with it; frames of a WebSocket and a catch-up    *)
(* bring the same dispatches, and their handlers run at the same time.     *)
(***************************************************************************)
EXTENDS LarkGateway

Parall == provider = "parall"

(* A dispatch that is pending; "received" ones are left to their monitor.     *)
Pending(e) == source[e] = "held" /\ MessageOf[e] \notin mark

(* Parall makes a dispatch of a message, whatever the gateway is doing.       *)
DispatchMade(e) ==
  /\ Parall /\ source[e] = "coming" /\ source' = [source EXCEPT ![e] = "held"]
  /\ UNCHANGED <<provider, gateway, catchUp, mark, posted, inbox, reply, spent>>

Noted(e) == monitor[MessageOf[e]] # "none" \/ state.monitors[MessageOf[e]] # "none"

TakenBy(h, e) ==
  /\ ingest[h] = Nobody /\ ~Noted(e)
  /\ ingest' = [ingest EXCEPT ![h] = [event |-> e, pc |-> "posting"]]

----------------------------------------------------------------------------
(* runParallLoop: catchUpDispatches, then connectWebSocket, and again from    *)
(* the start when the one has failed or the other is over.                    *)

ParallLoop == SlackLoop

(* The pending dispatches are listed, *)
ListDispatches ==
  /\ Parall /\ up /\ catchUp = Due
  /\ catchUp' = [phase |-> "running", left |-> {e \in Events : Pending(e)}]
  /\ UNCHANGED <<provider, gateway, outside, spent>>

(* and handled one after the other, those with a record or a monitor skipped. *)
CatchUp(e) ==
  /\ Parall /\ up /\ ingest[ParallLoop] = Nobody /\ e \in catchUp.left
  /\ catchUp' = [catchUp EXCEPT !.left = @ \ {e}]
  /\ IF Noted(e) THEN UNCHANGED ingest ELSE TakenBy(ParallLoop, e)
  /\ UNCHANGED <<provider, up, state, disk, saves, image, monitor, hand, outside, spent>>

ConnectWebSocket ==
  /\ Parall /\ up /\ catchUp = [phase |-> "running", left |-> {}] /\ ingest[ParallLoop] = Nobody
  /\ catchUp' = [phase |-> "connected", left |-> {}]
  /\ UNCHANGED <<provider, gateway, outside, spent>>

(* The ticket is refused, the socket closes.                                  *)
SocketCloses ==
  /\ Parall /\ up /\ catchUp.phase = "connected" /\ catchUp' = Due
  /\ UNCHANGED <<provider, gateway, outside, spent>>

(* A dispatch.new frame is handled next to the catch-up, if need be beyond    *)
(* its connection; nobody repeats it when that fails.                         *)
DispatchFrame(h, e) ==
  /\ Parall /\ up /\ catchUp.phase = "connected" /\ h # ParallLoop /\ Pending(e) /\ TakenBy(h, e)
  /\ UNCHANGED <<provider, up, state, disk, saves, image, catchUp, monitor, hand, outside, spent>>

----------------------------------------------------------------------------
(* handleDispatch *)

(* ackDispatch *)
Acked(e) == source' = [source EXCEPT ![e] = "acked"] /\ mark' = mark \ {MessageOf[e]}

(* An error of a handler ends the catch-up it belongs to.                     *)
HandlerFails(h) == Leaves(h) /\ catchUp' = IF h = ParallLoop THEN Due ELSE catchUp

(* Own messages, empty ones, and those the Hub ignores are acknowledged.      *)
ParallPost(h, e) ==
  LET m == MessageOf[e]
  IN  /\ Parall /\ up /\ At(h, e, "posting")
      /\ \/ /\ e \in Noise /\ Leaves(h) /\ Acked(e)
            /\ UNCHANGED <<inbox, state, saves, catchUp, spent>>
         \/ /\ e \notin Noise /\ Ingress(m) /\ inbox'[m] = "ignored" /\ Leaves(h) /\ Acked(e)
            /\ UNCHANGED <<state, saves, catchUp, spent>>
         \/ /\ e \notin Noise /\ Ingress(m) /\ inbox'[m] # "ignored" /\ Moves(h, "recording")
            /\ state' = [state EXCEPT !.monitors[m] = "new"] /\ Save(<<"record", h>>)
            /\ UNCHANGED <<source, mark, catchUp, spent>>
         \/ /\ (Fault /\ ((e \notin Noise /\ Ingress(m)) \/ UNCHANGED inbox))
               \/ (e \notin Noise /\ m \in refuses /\ UNCHANGED <<inbox, spent>>)
            /\ HandlerFails(h) /\ UNCHANGED <<source, mark, state, saves>>
      /\ UNCHANGED <<provider, up, disk, image, monitor, hand, posted, reply>>

ParallRecorded(h, e) ==
  /\ Parall /\ At(h, e, "recording")
  /\ \/ /\ Wrote(<<"record", h>>) /\ Leaves(h) /\ UNCHANGED <<catchUp, spent>>
        /\ monitor' = Started(MessageOf[e], "poll")
     \/ WriteFailed(<<"record", h>>) /\ HandlerFails(h) /\ UNCHANGED monitor
  /\ UNCHANGED <<provider, up, state, hand, outside>>

----------------------------------------------------------------------------
(* monitorDispatch and inboxDispatchAction                                    *)

(* mark_received: the Agent has begun with the item. *)
ParallMark(m) == Parall /\ inbox[m] \in {"handling", "resolved"} /\ Mark(m)

(* ack: the item is handled, and its reply, if any, is sent.                  *)
ParallAck(e) ==
  LET m == MessageOf[e]
  IN  /\ Parall /\ up /\ source[e] # "none" /\ monitor[m] = "watch" /\ inbox[m] = "resolved"
      /\ Acked(e)
      /\ \/ Forget(m) /\ UNCHANGED spent
         \/ Fault /\ UNCHANGED <<state, monitor, saves>>
      /\ UNCHANGED <<provider, up, disk, image, ingest, hand, posted, inbox, reply>>

----------------------------------------------------------------------------
(* sendOutbox: the attachments are uploaded, and one message is posted with   *)
(* them and an idempotency key; an upload that fails ends the attempt.        *)
ParallPostReply ==
  LET r == hand.reply
  IN  /\ Parall /\ up /\ hand.pc = "work"
      /\ \/ posted' = Keyed(r) /\ hand' = [hand EXCEPT !.pc = "posted"] /\ UNCHANGED spent
         \/ Fault /\ posted' \in {posted, Keyed(r)} /\ hand' = [hand EXCEPT !.pc = "failed"]
      /\ UNCHANGED <<provider, up, state, disk, saves, image, ingest, monitor,
                     source, mark, inbox, reply>>

ParallReport == Parall /\ up /\ hand.pc = "posted" /\ ReportSent

----------------------------------------------------------------------------
ParallTakesIn ==
  \/ ListDispatches \/ ConnectWebSocket \/ SocketCloses
  \/ \E e \in Events : DispatchMade(e) \/ CatchUp(e)
  \/ \E h \in Handlers, e \in Events : DispatchFrame(h, e) \/ ParallPost(h, e) \/ ParallRecorded(h, e)

ParallNext ==
  \/ \E m \in Messages : ParallMark(m)
  \/ \E e \in Events : ParallAck(e)
  \/ ParallPostReply \/ ParallReport

=============================================================================
