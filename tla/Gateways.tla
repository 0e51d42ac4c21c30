------------------------------- MODULE Gateways -------------------------------
(***************************************************************************)
(* A gateway of either kind with the Hub and the platform around it.       *)
(***************************************************************************)
EXTENDS ParallGateway

CONSTANT Single  \* one event for each message, as Parall and Lark have

(* What the platform has for the gateway: messages come in, a reply goes out   *)
(* (and what comes in is noise), or both.                                      *)
Offered(traffic) ==
  CASE traffic = "out" -> Noise
    [] traffic = "in" /\ provider = "slack" -> Events \ Noise
    [] OTHER -> Single

Init ==
  /\ RuntimeInit /\ provider \in {"slack", "lark", "parall"}
  /\ \E traffic \in {"in", "out", "both"} :
       /\ source = [e \in Events |-> CASE e \notin Offered(traffic) -> "none"
                                       [] e \in Offered(traffic) -> IF Parall THEN "coming" ELSE "held"]
       /\ reply = [r \in Replies |-> IF traffic = "in" THEN "none" ELSE "pending"]
       /\ spent = IF traffic = "both" THEN 1 ELSE 0

Next ==
  \/ Rest(SlackNext) \/ Rest(LarkNext) \/ Rest(ParallNext)
  \/ ParallTakesIn /\ UNCHANGED refuses
  \/ Rest(BeginWrite) \/ Rest(Start) \/ Rest(ReportFailed) \/ Crash
  \/ \E m \in Messages : Rest(MarkUnanswered(m) \/ Marked(m) \/ Forgotten(m) \/ InboxMoves(m))
  \/ \E r \in Replies : Rest(ReplyAgain(r) \/ Receive(r))
  \/ \E m \in Messages : HubRefuses(m) \/ HubAccepts(m)

LoopStep(e) ==
  \/ TakePending(e) \/ SlackPost(e) \/ SlackSettle(e) \/ LarkFetch(e) \/ LarkPost(e)
WriteStep ==
  \/ SlackPartSaved
  \/ \E e \in Events : \/ Slack /\ FrameSaved(e)
                       \/ SlackRecorded(e) \/ SlackSettled(e) \/ LarkRecorded(e)
  \/ \E m \in Messages : Marked(m) \/ Forgotten(m)
MonitorStep(m) ==
  \/ SlackMark(m) \/ LarkMark(m) \/ ParallMark(m) \/ SlackLift(m) \/ LarkLift(m)
  \/ \E e \in Events : MessageOf[e] = m /\ ParallAck(e)

CatchUpStep == ListDispatches \/ \E e \in Events : CatchUp(e)
HandlerStep(h) == \E e \in Events : ParallPost(h, e) \/ ParallRecorded(h, e)

(* The process is started again by its manager, its loops go on, its calls    *)
(* are answered and its writes end.  Parall's loop lists the dispatches again *)
(* after a catch-up that failed or a connection that closed; nothing makes a  *)
(* connection close, a frame come, or the Hub change its mind.                *)
Fairness ==
  /\ WF_vars(Rest(Start)) /\ WF_vars(Rest(BeginWrite)) /\ WF_vars(Rest(WriteStep))
  /\ \A e \in Events : WF_vars(Rest(LoopStep(e)))
  /\ WF_vars(CatchUpStep /\ UNCHANGED refuses)
  /\ \A h \in Handlers : WF_vars(HandlerStep(h) /\ UNCHANGED refuses)
  /\ \A m \in Messages : WF_vars(Rest(MonitorStep(m)))

Spec == Init /\ [][Next]_vars /\ Fairness

----------------------------------------------------------------------------
(* What the platform shows as being read has its record in the state file:    *)
(* whatever happens to the process, a monitor will lift the mark.             *)
MarkIsRecorded == \A m \in mark : disk.monitors[m] # "none"

(* A part of a reply that the state file knows of is not posted again, by any *)
(* later attempt or process (Slack; the others rely on the platform's key).   *)
RecordedPartIsKept ==
  [][provider = "slack" =>
       \A r \in Replies : \A n \in 1..disk.sent[r] : posted'[r][n] = posted[r][n]]_vars

(* A reply the Hub counts as sent is on the platform as a whole, however many *)
(* attempts and processes it took.                                            *)
SentIsWhole ==
  \A r \in Replies : reply[r] = "sent" =>
    \A n \in 1..Parts[r] : (provider = "slack" \/ n = 1) => posted[r][n] > 0

(* An event that waits for the gateway: in Slack's state file, or at Parall   *)
(* when the next catch-up will list it or the present one has it listed.      *)
Waits(e) ==
  \/ Slack /\ up /\ e \in ToSet(disk.pending)
  \/ Parall /\ source[e] = "held" /\ (catchUp = Due \/ e \in catchUp.left)

(* The Hub refuses the event or one the gateway insists on before it.         *)
Blocked(e) ==
  \/ Slack /\ \E n, k \in DOMAIN state.pending :
       n <= k /\ state.pending[k] = e /\ MessageOf[state.pending[n]] \in refuses
  \/ Parall /\ \E d \in Events \ Noise : Pending(d) /\ MessageOf[d] \in refuses

(* Slack, Parall: an event that waits is taken in by the Hub, whatever failed *)
(* before, unless the Hub refuses the event or one that goes before it.       *)
WaitingIsTakenIn ==
  \A e \in Events \ Noise : Waits(e) ~> inbox[MessageOf[e]] # "none" \/ Blocked(e)

(* A message the Agent is done with does not stay marked as being read.       *)
MarkIsLifted == \A m \in Messages : inbox[m] = "resolved" ~> m \notin mark

(* The platform is told only what the disk holds: an acknowledged envelope of *)
(* Slack is pending or seen in the state file (agent-platform-integration.md).*)
AckedIsWritten ==
  provider = "slack" => \A e \in Events : source[e] = "acked" =>
    e \in ToSet(disk.pending) \/ e \in disk.seen

=============================================================================
