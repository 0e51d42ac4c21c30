----------------------------- MODULE SlackGateway -----------------------------
(***************************************************************************)
(* gateway/slack.mjs with slack-protocol.mjs: envelopes of Socket Mode are *)
(* kept in the state file until the Hub has them, the :eyes: reaction      *)
(* shows that a message is being worked on, and a reply is posted part by  *)
(* part, each part recorded before the next.                               *)
(***************************************************************************)
EXTENDS GatewayRuntime, SequencesExt

Slack == provider = "slack"

(* slackEventToIngress: what is no message of a person gives no ingress.      *)
SlackIngress(e) == e \notin Noise

----------------------------------------------------------------------------
(* handleSocketFrame. Slack sends an envelope until it is acknowledged.       *)

Known(e) == e \in state.seen \/ e \in ToSet(state.pending)

(* An envelope that is known is acknowledged at once, whether or not it has   *)
(* reached the state file.  A socket that has closed takes no acknowledgement.*)
SocketFrame(e) ==
  /\ Slack /\ up /\ source[e] = "held"
  /\ IF Known(e)
     THEN /\ \E s \in {"held", "acked"} : source' = [source EXCEPT ![e] = s]
          /\ UNCHANGED <<state, saves>>
     ELSE /\ state' = [state EXCEPT !.pending = Append(@, e)] /\ Save(<<"frame", e>>)
          /\ UNCHANGED source
  /\ UNCHANGED <<provider, up, disk, image, ingest, monitor, hand, mark, posted,
                 inbox, reply, spent>>

(* The envelope is written: it is acknowledged if the socket is still open.   *)
FrameSaved(e) ==
  /\ \/ Wrote(<<"frame", e>>) /\ UNCHANGED spent
        /\ \E s \in {source[e], "acked"} : source' = [source EXCEPT ![e] = s]
     \/ WriteFailed(<<"frame", e>>) /\ UNCHANGED source
  /\ UNCHANGED <<provider, up, state, ingest, monitor, hand, mark, posted, inbox, reply>>

----------------------------------------------------------------------------
(* runPendingLoop: the oldest envelope is taken until the Hub has it.         *)

SlackLoop == CHOOSE h \in Handlers : TRUE

At(h, e, pc) == ingest[h] = [event |-> e, pc |-> pc]
Moves(h, pc) == ingest' = [ingest EXCEPT ![h].pc = pc]
Leaves(h)    == ingest' = [ingest EXCEPT ![h] = Nobody]

(* The envelope is done with: it is no longer pending, and remembered.        *)
Settle(h, e) ==
  /\ state' = [state EXCEPT !.pending = Remove(@, e), !.seen = @ \cup {e}]
  /\ Save(<<"settle", e>>)
  /\ ingest' = [ingest EXCEPT ![h] = [event |-> e, pc |-> "settling"]]

TakePending(e) ==
  LET h == SlackLoop
  IN  /\ Slack /\ up /\ ingest[h] = Nobody /\ state.pending # <<>> /\ e = Head(state.pending)
      /\ IF SlackIngress(e)
         THEN /\ ingest' = [ingest EXCEPT ![h] = [event |-> e, pc |-> "posting"]]
              /\ UNCHANGED <<state, saves>>
         ELSE Settle(h, e)
      /\ UNCHANGED <<provider, up, disk, image, monitor, hand, outside, spent>>

(* Mutant: an envelope that the Hub did not take is settled all the same.     *)
SlackPostOnce(e) ==
  LET h == SlackLoop
      m == MessageOf[e]
  IN  /\ Slack /\ up /\ At(h, e, "posting")
      /\ \/ /\ Ingress(m) /\ inbox'[m] = "ignored" /\ Settle(h, e) /\ UNCHANGED spent
         \/ /\ Ingress(m) /\ inbox'[m] # "ignored" /\ Moves(h, "recording") /\ UNCHANGED spent
            /\ state' = [state EXCEPT !.monitors[m] = "new"] /\ Save(<<"record", e>>)
         \/ /\ Settle(h, e) /\ UNCHANGED inbox
            /\ IF m \in refuses THEN UNCHANGED spent ELSE Fault
      /\ UNCHANGED <<provider, up, disk, image, monitor, hand, source, mark, posted, reply>>

(* processEnvelope: the Hub has the message; a monitor is recorded for it,    *)
(* unless the Hub ignored it.  After an error the envelope is taken again,    *)
(* and those behind it wait.                                                  *)
SlackPost(e) ==
  LET h == SlackLoop
      m == MessageOf[e]
  IN  /\ Slack /\ up /\ At(h, e, "posting")
      /\ \/ /\ Ingress(m) /\ inbox'[m] = "ignored" /\ Settle(h, e) /\ UNCHANGED spent
         \/ /\ Ingress(m) /\ inbox'[m] # "ignored" /\ Moves(h, "recording") /\ UNCHANGED spent
            /\ state' = [state EXCEPT !.monitors[m] = "new"] /\ Save(<<"record", e>>)
         \/ /\ Ingress(m) /\ Fault /\ Leaves(h) /\ UNCHANGED <<state, saves>>
         \/ /\ m \in refuses /\ Leaves(h) /\ UNCHANGED <<inbox, state, saves, spent>>
      /\ UNCHANGED <<provider, up, disk, image, monitor, hand, source, mark, posted, reply>>

(* Mutant: the monitor starts although the record could not be written. *)
SlackRecordedUnsaved(e) ==
  LET h == SlackLoop
      m == MessageOf[e]
  IN  /\ Slack /\ At(h, e, "recording")
      /\ (Wrote(<<"record", e>>) /\ UNCHANGED spent) \/ WriteFailed(<<"record", e>>)
      /\ monitor' = Started(m, "poll") /\ Moves(h, "recorded")
      /\ UNCHANGED <<provider, up, state, hand, outside>>

(* The record is on disk: its monitor starts, and the envelope is settled.    *)
SlackRecorded(e) ==
  LET h == SlackLoop
      m == MessageOf[e]
  IN  /\ Slack /\ At(h, e, "recording")
      /\ \/ /\ Wrote(<<"record", e>>) /\ UNCHANGED spent
            /\ monitor' = Started(m, "poll") /\ Moves(h, "recorded")
         \/ WriteFailed(<<"record", e>>) /\ Leaves(h) /\ UNCHANGED monitor
      /\ UNCHANGED <<provider, up, state, hand, outside>>

SlackSettle(e) ==
  /\ Slack /\ up /\ At(SlackLoop, e, "recorded") /\ Settle(SlackLoop, e)
  /\ UNCHANGED <<provider, up, disk, image, monitor, hand, outside, spent>>

SlackSettled(e) ==
  /\ Slack /\ At(SlackLoop, e, "settling") /\ Leaves(SlackLoop)
  /\ \/ Wrote(<<"settle", e>>) /\ UNCHANGED spent
     \/ WriteFailed(<<"settle", e>>)
  /\ UNCHANGED <<provider, up, state, monitor, hand, outside>>

----------------------------------------------------------------------------
(* monitorReaction *)

SlackMark(m) == Slack /\ Mark(m)

(* slackReactionAction: remove, or wait. *)
SlackDone(m) == inbox[m] \in {"failed", "resolved"}

(* removeEyesReaction; a reaction that is not there is no error.              *)
SlackLift(m) ==
  /\ Slack /\ up /\ monitor[m] = "watch" /\ SlackDone(m)
  /\ mark' = mark \ {m}
  /\ \/ Forget(m) /\ UNCHANGED spent
     \/ Fault /\ UNCHANGED <<state, monitor, saves>>
  /\ UNCHANGED <<provider, up, disk, image, ingest, hand, source, posted, inbox, reply>>

----------------------------------------------------------------------------
(* sendOutbox *)

(* Mutant: the attachments are counted from the text on, not from where the   *)
(* last attempt stopped.                                                      *)
SlackPostPartAgain ==
  LET r == hand.reply
      n == IF state.sent[r] < 2 THEN state.sent[r] + 1 ELSE state.sent[r]
  IN  /\ Slack /\ up /\ hand.pc = "work" /\ n <= Parts[r]
      /\ \/ /\ posted' = [posted EXCEPT ![r][n] = @ + 1] /\ UNCHANGED spent
            /\ state' = [state EXCEPT !.sent[r] = n]
            /\ hand' = [hand EXCEPT !.pc = "saving"] /\ Save(<<"part", r>>)
         \/ /\ Fault /\ posted' \in {posted, [posted EXCEPT ![r][n] = @ + 1]}
            /\ hand' = [hand EXCEPT !.pc = "failed"] /\ UNCHANGED <<state, saves>>
      /\ UNCHANGED <<provider, up, disk, image, ingest, monitor, source, mark, inbox, reply>>

(* chat.postMessage, uploadOutboxAttachment: the part after those recorded.   *)
SlackPostPart ==
  LET r == hand.reply
      n == state.sent[r] + 1
  IN  /\ Slack /\ up /\ hand.pc = "work" /\ n <= Parts[r]
      /\ \/ /\ posted' = [posted EXCEPT ![r][n] = @ + 1] /\ UNCHANGED spent
            /\ state' = [state EXCEPT !.sent[r] = n]
            /\ hand' = [hand EXCEPT !.pc = "saving"] /\ Save(<<"part", r>>)
         \/ /\ Fault /\ posted' \in {posted, [posted EXCEPT ![r][n] = @ + 1]}
            /\ hand' = [hand EXCEPT !.pc = "failed"] /\ UNCHANGED <<state, saves>>
      /\ UNCHANGED <<provider, up, disk, image, ingest, monitor, source, mark, inbox, reply>>

SlackPartSaved ==
  /\ Slack /\ hand.pc = "saving"
  /\ \/ /\ Wrote(<<"part", hand.reply>>) /\ UNCHANGED spent
        /\ hand' = [hand EXCEPT !.pc = "work"]
     \/ WriteFailed(<<"part", hand.reply>>) /\ hand' = [hand EXCEPT !.pc = "failed"]
  /\ UNCHANGED <<provider, up, state, ingest, monitor, outside>>

(* Mutant: a reply with its text posted is reported as sent. *)
SlackReportEarly ==
  Slack /\ up /\ hand.pc = "work" /\ state.sent[hand.reply] > 0 /\ ReportSent

SlackReport ==
  Slack /\ up /\ hand.pc = "work" /\ state.sent[hand.reply] = Parts[hand.reply] /\ ReportSent

----------------------------------------------------------------------------
SlackNext ==
  \/ \E e \in Events : \/ SocketFrame(e) \/ (Slack /\ FrameSaved(e)) \/ TakePending(e) \/ SlackPost(e)
                       \/ SlackRecorded(e) \/ SlackSettle(e) \/ SlackSettled(e)
  \/ \E m \in Messages : SlackMark(m) \/ SlackLift(m)
  \/ SlackPostPart \/ SlackPartSaved \/ SlackReport

=============================================================================
