------------------------------ MODULE LarkGateway ------------------------------
(***************************************************************************)
(* gateway/lark.mjs with lark-protocol.mjs: events are the lines of a      *)
(* lark-cli child, taken in one after the other and never offered again;   *)
(* the OnIt reaction shows that a message is being worked on; a reply is   *)
(* one message with an idempotency key.                                    *)
(***************************************************************************)
EXTENDS SlackGateway

Lark == provider = "lark"

(* consumeLarkEvents: the next line is read when the one before is done with. *)
LarkLoop == CHOOSE h \in Handlers : TRUE

(* ingestLarkEvent: own messages, cards and empty ones are dropped.           *)
LarkIngress(e) == e \notin Noise

LarkEvent(e) ==
  /\ Lark /\ up /\ source[e] = "held" /\ ingest[LarkLoop] = Nobody
  /\ source' = [source EXCEPT ![e] = "acked"]
  /\ ingest' = IF LarkIngress(e) THEN [ingest EXCEPT ![LarkLoop] = [event |-> e, pc |-> "fetching"]]
               ELSE ingest
  /\ UNCHANGED <<provider, up, state, disk, saves, image, monitor, hand, mark, posted,
                 inbox, reply, spent>>

(* fetchLarkMessage: three tries, and then the event is dropped.              *)
LarkFetch(e) ==
  /\ Lark /\ up /\ At(LarkLoop, e, "fetching")
  /\ \/ Moves(LarkLoop, "posting") /\ UNCHANGED spent
     \/ Fault /\ Leaves(LarkLoop)
  /\ UNCHANGED <<provider, up, state, disk, saves, image, monitor, hand, outside>>

(* An event the Hub did not answer for is dropped too.                        *)
LarkPost(e) ==
  LET m == MessageOf[e]
  IN  /\ Lark /\ up /\ At(LarkLoop, e, "posting")
      /\ \/ /\ Ingress(m) /\ inbox'[m] = "ignored" /\ Leaves(LarkLoop)
            /\ UNCHANGED <<state, saves, spent>>
         \/ /\ Ingress(m) /\ inbox'[m] # "ignored" /\ Moves(LarkLoop, "recording")
            /\ state' = [state EXCEPT !.monitors[m] = "new"] /\ Save(<<"record", e>>)
            /\ UNCHANGED spent
         \/ /\ (Fault /\ (Ingress(m) \/ UNCHANGED inbox))
               \/ (m \in refuses /\ UNCHANGED <<inbox, spent>>)
            /\ Leaves(LarkLoop) /\ UNCHANGED <<state, saves>>
      /\ UNCHANGED <<provider, up, disk, image, monitor, hand, source, mark, posted, reply>>

LarkRecorded(e) ==
  /\ Lark /\ At(LarkLoop, e, "recording") /\ Leaves(LarkLoop)
  /\ \/ /\ Wrote(<<"record", e>>) /\ UNCHANGED spent
        /\ monitor' = Started(MessageOf[e], "poll")
     \/ WriteFailed(<<"record", e>>) /\ UNCHANGED monitor
  /\ UNCHANGED <<provider, up, state, hand, outside>>

----------------------------------------------------------------------------
(* monitorReaction *)

(* ensureOnItReaction: a reaction of the bot that is already there is adopted.*)
LarkMark(m) == Lark /\ Mark(m)

(* larkReactionAction: remove, or wait. *)
LarkDone(m) == inbox[m] \in {"failed", "resolved"}

(* removeOnItReaction, findOwnOnItReaction: an error is forgiven when no      *)
(* reaction of the bot is left.                                               *)
LarkLift(m) ==
  /\ Lark /\ up /\ monitor[m] = "watch" /\ LarkDone(m)
  /\ \/ mark' = mark \ {m} /\ Forget(m) /\ UNCHANGED spent
     \/ Fault /\ UNCHANGED <<mark, state, monitor, saves>>
  /\ UNCHANGED <<provider, up, disk, image, ingest, hand, source, posted, inbox, reply>>

----------------------------------------------------------------------------
(* sendOutbox *)

(* One call of lark-cli; the platform drops what repeats a key it knows.      *)
Keyed(r) == [posted EXCEPT ![r][1] = 1]

LarkPostReply ==
  LET r == hand.reply
  IN  /\ Lark /\ up /\ hand.pc = "work"
      /\ \/ posted' = Keyed(r) /\ hand' = [hand EXCEPT !.pc = "posted"] /\ UNCHANGED spent
         \/ Fault /\ posted' \in {posted, Keyed(r)} /\ hand' = [hand EXCEPT !.pc = "failed"]
      /\ UNCHANGED <<provider, up, state, disk, saves, image, ingest, monitor,
                     source, mark, inbox, reply>>

LarkReport == Lark /\ up /\ hand.pc = "posted" /\ ReportSent

----------------------------------------------------------------------------
LarkNext ==
  \/ \E e \in Events : LarkEvent(e) \/ LarkFetch(e) \/ LarkPost(e) \/ LarkRecorded(e)
  \/ \E m \in Messages : LarkMark(m) \/ LarkLift(m)
  \/ LarkPostReply \/ LarkReport

=============================================================================
