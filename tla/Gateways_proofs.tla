---------------------------- MODULE Gateways_proofs ----------------------------
(***************************************************************************)
(* Safety of the gateways for any number of events, messages, replies,     *)
(* parts and handlers and any bound on faults: a mark has its record in    *)
(* the state file, a reply counted as sent is on the platform as a whole,  *)
(* and a part that the state file knows of is not posted again.            *)
(*                                                                         *)
(* The invariant follows the queue of writes.  A message that is shown, or *)
(* whose monitor is about to show it, has its record in memory, in the     *)
(* image being written and on disk; a record that waits for its write is   *)
(* in memory, or a monitor that forgets it has its own write behind it.    *)
(***************************************************************************)
EXTENDS Gateways, TLAPS

USE DEF Slack, Lark, Parall

Steps == {"none", "fetching", "posting", "recording", "recorded", "settling"}
IngestSet == [event : Events \cup {"none"}, pc : Steps]
Tasks == {"frame", "record", "settle", "mark", "clear", "part"}
           \X (Events \cup Messages \cup Replies \cup Handlers)

(* The members of a state object that the properties are about. *)
StateOK(s) ==
  /\ s = [pending |-> s.pending, seen |-> s.seen, monitors |-> s.monitors, sent |-> s.sent]
  /\ s.monitors \in [Messages -> {"none", "new", "marked"}]
  /\ s.sent \in [Replies -> Nat] /\ \A r \in Replies : s.sent[r] <= Parts[r]

StateTypes ==
  /\ StateOK(state) /\ StateOK(disk) /\ (image # NoImage => StateOK(image) /\ saves # <<>>)
  /\ saves \in Seq(Tasks)

IngestTypes ==
  /\ ingest \in [Handlers -> IngestSet]
  /\ \A h \in Handlers : ingest[h] # Nobody => ingest[h].event \in Events

MonitorTypes == monitor \in [Messages -> {"none", "poll", "marking", "watch", "clearing"}]

HandTypes ==
  /\ hand \in [reply : Replies \cup {"none"}, pc : {"none", "work", "saving", "posted", "failed"}]
  /\ hand.pc # "none" => hand.reply \in Replies

PlatformTypes ==
  /\ mark \subseteq Messages
  /\ DOMAIN posted = Replies /\ \A r \in Replies : posted[r] \in [1..Parts[r] -> Nat]

ReplyTypes == reply \in [Replies -> {"none", "pending", "sending", "sent", "failed"}]

(* Nothing is in memory of a process that is not there. *)
DownTypes ==
  ~up => /\ image = NoImage /\ saves = <<>> /\ hand = NoHand
         /\ ingest = [h \in Handlers |-> Nobody] /\ monitor = [m \in Messages |-> "none"]

TypeOK ==
  /\ provider \in {"slack", "lark", "parall"} /\ up \in BOOLEAN
  /\ StateTypes /\ IngestTypes /\ MonitorTypes /\ HandTypes /\ PlatformTypes /\ ReplyTypes /\ DownTypes

----------------------------------------------------------------------------
(* Handlers and the writes they wait for. *)

Recording(h) == ingest[h].pc = "recording"
About(h) == MessageOf[ingest[h].event]
Task(h) == IF Parall THEN <<"record", h>> ELSE <<"record", ingest[h].event>>

(* Slack and Lark take in one event after the other. *)
LoopAlone == ~Parall => \A h \in Handlers : h # SlackLoop => ingest[h] = Nobody

(* Who waits for a write, of a record, of a mark or of a record forgotten. *)
Owned ==
  \A i \in 1..Len(saves) :
    /\ saves[i][1] = "record" => \E h \in Handlers : Recording(h) /\ saves[i] = Task(h)
    /\ \A m \in Messages : /\ saves[i] = <<"mark", m>> => monitor[m] = "marking"
                           /\ saves[i] = <<"clear", m>> => monitor[m] = "clearing"

Once ==
  \A i, j \in 1..Len(saves) :
    saves[i] = saves[j] /\ saves[i][1] \in {"record", "mark", "clear"} => i = j

(* The message has a record wherever the state is. *)
Held(m) ==
  /\ disk.monitors[m] # "none"
  /\ up => state.monitors[m] # "none"
  /\ image # NoImage => image.monitors[m] # "none"

MarkHeld == \A m \in Messages : m \in mark \/ monitor[m] = "poll" => Held(m)

ClearFollows(h) ==
  \A i, j \in 1..Len(saves) :
    saves[i] = <<"clear", About(h)>> /\ saves[j] = Task(h) => j < i

Waiting ==
  \A h \in Handlers : Recording(h) =>
    /\ \E i \in 1..Len(saves) : saves[i] = Task(h)
    /\ \/ state.monitors[About(h)] # "none"
       \/ monitor[About(h)] # "none" /\ ClearFollows(h)

Imaged ==
  \A h \in Handlers :
    Recording(h) /\ image # NoImage /\ saves[1] = Task(h) /\ monitor[About(h)] = "none"
      => image.monitors[About(h)] # "none"

RecordInv == LoopAlone /\ Owned /\ Once /\ MarkHeld /\ Waiting /\ Imaged

----------------------------------------------------------------------------
(* Replies. *)

Whole(s) == provider = "slack" => \A r \in Replies : \A n \in 1..s.sent[r] : posted[r][n] > 0
Behind(s, t) == \A r \in Replies : s.sent[r] <= t.sent[r]

(* The state file, the image and memory: each knows of posted parts only, and  *)
(* of no more than the one that comes before it.                              *)
KnownInv ==
  /\ Whole(disk) /\ (up => Whole(state)) /\ (image # NoImage => Whole(image))
  /\ up => Behind(disk, state)
  /\ image # NoImage => Behind(disk, image) /\ Behind(image, state)

PartInv ==
  /\ KnownInv
  /\ hand.pc = "posted" => provider # "slack" /\ posted[hand.reply][1] > 0
  /\ SentIsWhole

----------------------------------------------------------------------------
(* Operators: state objects, the queue, handlers. *)

LEMMA RecordSet ==
  ASSUME NEW s, StateOK(s), NEW m \in Messages, NEW v \in {"none", "new", "marked"}
  PROVE  LET t == [s EXCEPT !.monitors[m] = v]
         IN  StateOK(t) /\ t.sent = s.sent /\ t.monitors = [s.monitors EXCEPT ![m] = v]
BY DEF StateOK

LEMMA PartSet ==
  ASSUME NEW s, StateOK(s), NEW r \in Replies, NEW n \in Nat, n <= Parts[r]
  PROVE  LET t == [s EXCEPT !.sent[r] = n]
         IN  StateOK(t) /\ t.sent = [s.sent EXCEPT ![r] = n] /\ t.monitors = s.monitors
BY DEF StateOK

LEMMA PendingSet ==
  ASSUME NEW s, StateOK(s), NEW p, NEW q, NEW t,
         t = [s EXCEPT !.pending = p, !.seen = q] \/ t = [s EXCEPT !.pending = p]
  PROVE  StateOK(t) /\ t.sent = s.sent /\ t.monitors = s.monitors
<1>1. s = [pending |-> s.pending, seen |-> s.seen, monitors |-> s.monitors, sent |-> s.sent]
  BY DEF StateOK
<1>2. ASSUME NEW u, u = [s EXCEPT !.pending = p]
      PROVE  u = [pending |-> p, seen |-> s.seen, monitors |-> s.monitors, sent |-> s.sent]
  BY <1>1, <1>2
<1>3. CASE t = [s EXCEPT !.pending = p]
  <2>1. t = [pending |-> p, seen |-> s.seen, monitors |-> s.monitors, sent |-> s.sent]
    BY <1>2, <1>3
  <2> QED
    BY <2>1 DEF StateOK
<1>4. CASE t = [s EXCEPT !.pending = p, !.seen = q]
  <2>1. t = [[s EXCEPT !.pending = p] EXCEPT !.seen = q]
    BY <1>1, <1>4
  <2>2. t = [pending |-> p, seen |-> q, monitors |-> s.monitors, sent |-> s.sent]
    <3> DEFINE u == [s EXCEPT !.pending = p]
    <3>1. u = [pending |-> p, seen |-> s.seen, monitors |-> s.monitors, sent |-> s.sent]
      BY <1>2
    <3>2. t = [u EXCEPT !.seen = q]
      BY <2>1
    <3> HIDE DEF u
    <3> QED
      BY <3>1, <3>2
  <2> QED
    BY <2>2 DEF StateOK
<1> QED
  BY <1>3, <1>4

LEMMA FreshOK == StateOK(FreshState)
BY GatewayAssumption DEF StateOK, FreshState, GatewayAssumption

LEMMA Queued ==
  ASSUME NEW S, NEW q \in Seq(S), NEW t \in S
  PROVE  /\ Append(q, t) \in Seq(S) /\ Append(q, t) # <<>> /\ Len(Append(q, t)) = Len(q) + 1
         /\ \A i \in 1..Len(q) : Append(q, t)[i] = q[i]
         /\ Append(q, t)[Len(q) + 1] = t
OBVIOUS

LEMMA Popped ==
  ASSUME NEW S, NEW q \in Seq(S), q # <<>>
  PROVE  /\ Len(q) \in Nat \ {0} /\ Tail(q) \in Seq(S) /\ Len(Tail(q)) = Len(q) - 1
         /\ \A i \in 1..Len(q) - 1 : Tail(q)[i] = q[i + 1]
         /\ Head(q) = q[1]
OBVIOUS

LEMMA HandlerMoves ==
  ASSUME NEW f \in [Handlers -> IngestSet], NEW h \in Handlers, NEW e \in Events, NEW c \in Steps
  PROVE  /\ [f EXCEPT ![h] = Nobody] \in [Handlers -> IngestSet]
         /\ [f EXCEPT ![h] = [event |-> e, pc |-> c]] \in [Handlers -> IngestSet]
<1>1. Nobody \in IngestSet
  BY DEF Nobody, IngestSet, Steps
<1>2. [event |-> e, pc |-> c] \in IngestSet
  BY DEF IngestSet
<1> QED
  BY <1>1, <1>2

LEMMA Loop == SlackLoop \in Handlers /\ LarkLoop = SlackLoop
BY GatewayAssumption DEF SlackLoop, LarkLoop, GatewayAssumption

LEMMA TaskKinds ==
  \A k \in {"frame", "record", "settle", "mark", "clear", "part"} :
    \A x \in Events \cup Messages \cup Replies \cup Handlers : <<k, x>> \in Tasks
BY DEF Tasks

----------------------------------------------------------------------------
(* Types. *)

LEMMA InitTypes == Init => TypeOK
<1> SUFFICES ASSUME Init PROVE TypeOK
  OBVIOUS
<1>1. StateTypes
  BY FreshOK DEF Init, RuntimeInit, StateTypes
<1>2. IngestTypes
  BY DEF Init, RuntimeInit, IngestSet, Nobody, Steps, IngestTypes
<1>3. HandTypes
  BY DEF Init, RuntimeInit, NoHand, HandTypes
<1>4. PlatformTypes
  BY DEF Init, RuntimeInit, PlatformTypes
<1>5. ReplyTypes /\ MonitorTypes /\ DownTypes
  BY DEF Init, RuntimeInit, ReplyTypes, MonitorTypes, DownTypes
<1> QED
  BY <1>1, <1>2, <1>3, <1>4, <1>5 DEF Init, RuntimeInit, TypeOK

LEMMA SameTypes ==
  ASSUME TypeOK
  PROVE  /\ UNCHANGED <<state, disk, image, saves>> => StateTypes'
         /\ UNCHANGED ingest => IngestTypes'
         /\ UNCHANGED monitor => MonitorTypes'
         /\ UNCHANGED hand => HandTypes'
         /\ UNCHANGED <<mark, posted>> => PlatformTypes'
         /\ UNCHANGED reply => ReplyTypes'
BY DEF TypeOK, StateTypes, IngestTypes, MonitorTypes, HandTypes, PlatformTypes, ReplyTypes

LEMMA RunningTypes ==
  ASSUME TypeOK, up, UNCHANGED <<provider, up>>,
         StateTypes', IngestTypes', MonitorTypes', HandTypes', PlatformTypes', ReplyTypes'
  PROVE  TypeOK'
BY DEF TypeOK, DownTypes

(* The queue grows by a write that somebody waits for. *)
LEMMA SaveTypes ==
  ASSUME TypeOK, NEW k \in {"frame", "record", "settle", "mark", "clear", "part"},
         NEW x \in Events \cup Messages \cup Replies \cup Handlers, Save(<<k, x>>),
         StateOK(state'), UNCHANGED <<disk, image>>
  PROVE  StateTypes'
BY TaskKinds, Queued DEF TypeOK, StateTypes, Save

(* A write ends, well or not. *)
LEMMA WriteTypes ==
  ASSUME TypeOK, NEW x, Wrote(x) \/ WriteFailed(x), UNCHANGED state
  PROVE  StateTypes' /\ up
<1>1. up /\ saves # <<>> /\ image # NoImage /\ saves' = Tail(saves) /\ image' = NoImage
      /\ disk' \in {disk, image}
  BY DEF Wrote, WriteFailed, WriteEnds
<1>2. saves' \in Seq(Tasks)
  BY <1>1, Popped DEF TypeOK, StateTypes
<1>3. StateOK(disk') /\ StateOK(state')
  BY <1>1 DEF TypeOK, StateTypes
<1> QED
  BY <1>1, <1>2, <1>3 DEF StateTypes

(* A handler goes on with its event, or leaves it. *)
LEMMA GoesOn ==
  ASSUME TypeOK, NEW h \in Handlers, NEW e \in Events, NEW c \in Steps,
         ingest' = [ingest EXCEPT ![h] = [event |-> e, pc |-> c]]
  PROVE  IngestTypes'
BY HandlerMoves DEF TypeOK, IngestTypes

LEMMA MovesOn ==
  ASSUME TypeOK, NEW h \in Handlers, NEW e \in Events, NEW c \in Steps, NEW d, At(h, e, d), Moves(h, c)
  PROVE  ingest' = [ingest EXCEPT ![h] = [event |-> e, pc |-> c]]
<1>1. ingest \in [Handlers -> IngestSet]
  BY DEF TypeOK, IngestTypes
<1>2. ingest[h].event = e
  BY DEF At
<1>3. [ingest[h] EXCEPT !.pc = c] = [event |-> e, pc |-> c]
  BY <1>1, <1>2 DEF IngestSet
<1> QED
  BY <1>3 DEF Moves

LEMMA LeavesOff ==
  ASSUME TypeOK, NEW h \in Handlers, Leaves(h)
  PROVE  IngestTypes'
<1>1. Nobody \in IngestSet
  BY DEF Nobody, IngestSet, Steps
<1> QED
  BY <1>1 DEF TypeOK, IngestTypes, Leaves

LEMMA StartedTypes ==
  ASSUME TypeOK, NEW m \in Messages, monitor' = Started(m, "poll")
  PROVE  MonitorTypes'
BY DEF TypeOK, MonitorTypes, Started

LEMMA SettleTypes ==
  ASSUME TypeOK, NEW h \in Handlers, NEW e \in Events, Settle(h, e), UNCHANGED <<disk, image>>
  PROVE  StateTypes' /\ IngestTypes'
<1>1. StateOK(state')
  BY PendingSet DEF TypeOK, StateTypes, Settle
<1>2. StateTypes'
  BY <1>1, SaveTypes DEF Settle
<1>3. IngestTypes'
  BY GoesOn DEF Settle, Steps
<1> QED
  BY <1>2, <1>3

(* The next record of a message, and its write. *)
LEMMA NoteTypes ==
  ASSUME TypeOK, NEW m \in Messages, NEW v \in {"none", "new", "marked"},
         NEW k \in {"frame", "record", "settle", "mark", "clear", "part"},
         NEW x \in Events \cup Messages \cup Replies \cup Handlers,
         state' = [state EXCEPT !.monitors[m] = v], Save(<<k, x>>), UNCHANGED <<disk, image>>
  PROVE  StateTypes'
<1>1. StateOK(state')
  BY RecordSet DEF TypeOK, StateTypes
<1> QED
  BY <1>1, SaveTypes

LEMMA ForgetTypes ==
  ASSUME TypeOK, NEW m \in Messages, Forget(m), UNCHANGED <<disk, image>>
  PROVE  StateTypes' /\ MonitorTypes'
<1>1. StateTypes'
  BY NoteTypes DEF Forget
<1> QED
  BY <1>1 DEF Forget, TypeOK, MonitorTypes

LEMMA ReportTypes ==
  ASSUME TypeOK, ReportSent, hand.pc # "none"
  PROVE  HandTypes' /\ ReplyTypes'
BY DEF ReportSent, TypeOK, HandTypes, ReplyTypes, NoHand

(* A part is posted, or was, and its answer is lost. *)
LEMMA PostedTypes ==
  ASSUME TypeOK, NEW r \in Replies, NEW n \in 1..Parts[r], NEW k \in Nat, UNCHANGED mark,
         posted' \in {posted, [posted EXCEPT ![r][n] = k]}
  PROVE  PlatformTypes'
<1>1. [posted[r] EXCEPT ![n] = k] \in [1..Parts[r] -> Nat]
  BY DEF TypeOK, PlatformTypes
<1>2. DOMAIN posted = Replies /\ \A q \in Replies : posted[q] \in [1..Parts[q] -> Nat]
  BY DEF TypeOK, PlatformTypes
<1>3. CASE posted' = posted
  BY <1>3 DEF TypeOK, PlatformTypes
<1>4. CASE posted' = [posted EXCEPT ![r][n] = k]
  <2>1. DOMAIN posted' = Replies
        /\ \A q \in Replies : posted'[q] = IF q = r THEN [posted[r] EXCEPT ![n] = k] ELSE posted[q]
    BY <1>2, <1>4
  <2>2. \A q \in Replies : posted'[q] \in [1..Parts[q] -> Nat]
    BY <1>1, <1>2, <2>1
  <2> QED
    BY <2>1, <2>2 DEF TypeOK, PlatformTypes
<1> QED
  BY <1>3, <1>4

LEMMA MarkTypes ==
  ASSUME TypeOK, NEW m \in Messages, Mark(m) \/ MarkUnanswered(m) \/ Marked(m) \/ Forgotten(m)
  PROVE  TypeOK'
<1>1. ASSUME Mark(m) PROVE TypeOK'
  <2>1. StateTypes'
    BY <1>1, NoteTypes DEF Mark
  <2>2. MonitorTypes' /\ PlatformTypes'
    BY <1>1 DEF Mark, TypeOK, MonitorTypes, PlatformTypes
  <2> QED
    BY <1>1, <2>1, <2>2, SameTypes, RunningTypes DEF Mark
<1>2. ASSUME MarkUnanswered(m) PROVE TypeOK'
  <2>1. PlatformTypes'
    BY <1>2 DEF MarkUnanswered, TypeOK, PlatformTypes
  <2> QED
    BY <1>2, <2>1, SameTypes, RunningTypes DEF MarkUnanswered, gateway
<1>3. ASSUME Marked(m) \/ Forgotten(m) PROVE TypeOK'
  <2>1. StateTypes' /\ up
    BY <1>3, WriteTypes DEF Marked, Forgotten
  <2>2. MonitorTypes'
    BY <1>3 DEF Marked, Forgotten, TypeOK, MonitorTypes
  <2> QED
    BY <1>3, <2>1, <2>2, SameTypes, RunningTypes DEF Marked, Forgotten, outside
<1> QED
  BY <1>1, <1>2, <1>3

(* The Hub has the message, and its record is to be written. *)
LEMMA NotedTypes ==
  ASSUME TypeOK, NEW h \in Handlers, NEW e \in Events, At(h, e, "posting"), Moves(h, "recording"),
         state' = [state EXCEPT !.monitors[MessageOf[e]] = "new"],
         NEW x \in Events \cup Handlers, Save(<<"record", x>>), UNCHANGED <<disk, image>>
  PROVE  StateTypes' /\ IngestTypes'
<1>1. MessageOf[e] \in Messages
  BY GatewayAssumption DEF GatewayAssumption
<1>2. StateTypes'
  BY <1>1, NoteTypes
<1>3. IngestTypes'
  BY MovesOn, GoesOn DEF Steps
<1> QED
  BY <1>2, <1>3

(* The record is written, or not. *)
LEMMA WrittenTypes ==
  ASSUME TypeOK, NEW h \in Handlers, NEW e \in Events, At(h, e, "recording"),
         Leaves(h) \/ Moves(h, "recorded"), NEW x, Wrote(x) \/ WriteFailed(x), UNCHANGED state,
         monitor' = Started(MessageOf[e], "poll") \/ UNCHANGED monitor
  PROVE  StateTypes' /\ IngestTypes' /\ MonitorTypes' /\ up
<1>1. MessageOf[e] \in Messages
  BY GatewayAssumption DEF GatewayAssumption
<1>2. MonitorTypes'
  BY <1>1, StartedTypes, SameTypes
<1>3. IngestTypes'
  BY MovesOn, GoesOn, LeavesOff DEF Steps
<1> QED
  BY <1>2, <1>3, WriteTypes

LEMMA SlackTakesIn ==
  ASSUME TypeOK, NEW e \in Events,
         SocketFrame(e) \/ FrameSaved(e) \/ SlackPost(e) \/ SlackRecorded(e) \/ SlackSettle(e) \/ SlackSettled(e)
  PROVE  TypeOK'
<1>1. ASSUME SocketFrame(e) PROVE TypeOK'
  <2>1. CASE UNCHANGED <<state, saves>>
    BY <1>1, <2>1, SameTypes, RunningTypes DEF SocketFrame
  <2>2. CASE state' = [state EXCEPT !.pending = Append(@, e)] /\ Save(<<"frame", e>>)
    <3>1. StateOK(state')
      BY <2>2, PendingSet DEF TypeOK, StateTypes
    <3>2. StateTypes'
      BY <1>1, <2>2, <3>1, SaveTypes DEF SocketFrame
    <3> QED
      BY <1>1, <3>2, SameTypes, RunningTypes DEF SocketFrame
  <2> QED
    BY <1>1, <2>1, <2>2 DEF SocketFrame
<1>2. ASSUME FrameSaved(e) PROVE TypeOK'
  <2>1. StateTypes' /\ up
    BY <1>2, WriteTypes DEF FrameSaved
  <2> QED
    BY <1>2, <2>1, SameTypes, RunningTypes DEF FrameSaved
<1>3. ASSUME SlackPost(e) PROVE TypeOK'
  <2>1. CASE Settle(SlackLoop, e)
    BY <1>3, <2>1, Loop, SettleTypes, SameTypes, RunningTypes DEF SlackPost
  <2>2. CASE Leaves(SlackLoop) /\ UNCHANGED <<state, saves>>
    BY <1>3, <2>2, Loop, LeavesOff, SameTypes, RunningTypes DEF SlackPost
  <2>3. CASE /\ Moves(SlackLoop, "recording") /\ Save(<<"record", e>>)
             /\ state' = [state EXCEPT !.monitors[MessageOf[e]] = "new"]
    <3>1. StateTypes' /\ IngestTypes'
      BY <1>3, <2>3, Loop, NotedTypes DEF SlackPost
    <3> QED
      BY <1>3, <3>1, SameTypes, RunningTypes DEF SlackPost
  <2> QED
    BY <1>3, <2>1, <2>2, <2>3 DEF SlackPost
<1>4. ASSUME SlackRecorded(e) PROVE TypeOK'
  <2>1. StateTypes' /\ IngestTypes' /\ MonitorTypes' /\ up
    BY <1>4, Loop, WrittenTypes DEF SlackRecorded
  <2> QED
    BY <1>4, <2>1, SameTypes, RunningTypes DEF SlackRecorded, outside
<1>5. ASSUME SlackSettle(e) PROVE TypeOK'
  BY <1>5, Loop, SettleTypes, SameTypes, RunningTypes DEF SlackSettle, outside
<1>6. ASSUME SlackSettled(e) PROVE TypeOK'
  <2>1. StateTypes' /\ up
    BY <1>6, WriteTypes DEF SlackSettled
  <2> QED
    BY <1>6, <2>1, Loop, LeavesOff, SameTypes, RunningTypes DEF SlackSettled, outside
<1> QED
  BY <1>1, <1>2, <1>3, <1>4, <1>5, <1>6

LEMMA SlackTypes ==
  ASSUME TypeOK, SlackNext PROVE TypeOK'
<1>1. ASSUME NEW e \in Events, TakePending(e) PROVE TypeOK'
  <2>1. CASE Settle(SlackLoop, e)
    BY <1>1, <2>1, Loop, SettleTypes, SameTypes, RunningTypes DEF TakePending, outside
  <2>2. CASE /\ ingest' = [ingest EXCEPT ![SlackLoop] = [event |-> e, pc |-> "posting"]]
             /\ UNCHANGED <<state, saves>>
    BY <1>1, <2>2, Loop, GoesOn, SameTypes, RunningTypes DEF TakePending, outside, Steps
  <2> QED
    BY <1>1, <2>1, <2>2 DEF TakePending
<1>2. ASSUME NEW m \in Messages, SlackLift(m) PROVE TypeOK'
  <2>1. PlatformTypes'
    BY <1>2 DEF SlackLift, TypeOK, PlatformTypes
  <2> QED
    BY <1>2, <2>1, ForgetTypes, SameTypes, RunningTypes DEF SlackLift
<1>3. ASSUME SlackPostPart PROVE TypeOK'
  <2> DEFINE r == hand.reply
             n == state.sent[r] + 1
  <2>1. r \in Replies /\ n \in 1..Parts[r] /\ posted[r][n] + 1 \in Nat
    BY <1>3, GatewayAssumption DEF SlackPostPart, TypeOK, HandTypes, StateTypes, StateOK, PlatformTypes, GatewayAssumption
  <2>2. PlatformTypes'
    BY <1>3, <2>1, PostedTypes DEF SlackPostPart
  <2>3. HandTypes'
    BY <1>3, <2>1 DEF SlackPostPart, TypeOK, HandTypes
  <2>4. StateTypes'
    <3>1. CASE UNCHANGED <<state, saves>>
      BY <1>3, <3>1, SameTypes DEF SlackPostPart
    <3>2. CASE state' = [state EXCEPT !.sent[r] = n] /\ Save(<<"part", r>>)
      <4> HIDE DEF r, n
      <4>1. n \in Nat /\ n <= Parts[r] /\ StateOK(state)
        BY <2>1, GatewayAssumption DEF TypeOK, StateTypes, GatewayAssumption
      <4>2. StateOK(state')
        BY <2>1, <3>2, <4>1, PartSet
      <4> QED
        BY <1>3, <2>1, <3>2, <4>2, SaveTypes DEF SlackPostPart
    <3> QED
      BY <1>3, <3>1, <3>2 DEF SlackPostPart
  <2> QED
    BY <1>3, <2>2, <2>3, <2>4, SameTypes, RunningTypes DEF SlackPostPart
<1>4. ASSUME SlackPartSaved PROVE TypeOK'
  <2>1. StateTypes' /\ up
    BY <1>4, WriteTypes DEF SlackPartSaved
  <2>2. HandTypes'
    BY <1>4 DEF SlackPartSaved, TypeOK, HandTypes
  <2> QED
    BY <1>4, <2>1, <2>2, SameTypes, RunningTypes DEF SlackPartSaved, outside
<1>5. ASSUME SlackReport PROVE TypeOK'
  <2>1. HandTypes' /\ ReplyTypes'
    BY <1>5, ReportTypes DEF SlackReport
  <2> QED
    BY <1>5, <2>1, SameTypes, RunningTypes DEF SlackReport, ReportSent
<1> QED
  BY <1>1, <1>2, <1>3, <1>4, <1>5, SlackTakesIn, MarkTypes DEF SlackNext, SlackMark

(* A reply that is one message is posted, or its post fails. *)
LEMMA KeyedTypes ==
  ASSUME TypeOK, LarkPostReply \/ ParallPostReply PROVE TypeOK'
<1> DEFINE r == hand.reply
<1>1. r \in Replies /\ 1 \in 1..Parts[r] /\ hand.pc = "work" /\ posted' \in {posted, Keyed(r)}
  BY GatewayAssumption DEF LarkPostReply, ParallPostReply, TypeOK, HandTypes, GatewayAssumption
<1>2. PlatformTypes'
  BY <1>1, PostedTypes DEF LarkPostReply, ParallPostReply, Keyed
<1>3. HandTypes'
  BY <1>1 DEF LarkPostReply, ParallPostReply, TypeOK, HandTypes
<1> QED
  BY <1>2, <1>3, SameTypes, RunningTypes DEF LarkPostReply, ParallPostReply

LEMMA LarkTypes ==
  ASSUME TypeOK, LarkNext PROVE TypeOK'
<1>1. ASSUME NEW e \in Events, LarkEvent(e) PROVE TypeOK'
  <2>1. IngestTypes'
    BY <1>1, Loop, GoesOn, SameTypes DEF LarkEvent, Steps
  <2> QED
    BY <1>1, <2>1, SameTypes, RunningTypes DEF LarkEvent
<1>2. ASSUME NEW e \in Events, LarkFetch(e) PROVE TypeOK'
  <2>1. IngestTypes'
    BY <1>2, Loop, MovesOn, GoesOn, LeavesOff DEF LarkFetch, Steps
  <2> QED
    BY <1>2, <2>1, SameTypes, RunningTypes DEF LarkFetch, outside
<1>3. ASSUME NEW e \in Events, LarkPost(e) PROVE TypeOK'
  <2>1. CASE Leaves(LarkLoop) /\ UNCHANGED <<state, saves>>
    BY <1>3, <2>1, Loop, LeavesOff, SameTypes, RunningTypes DEF LarkPost
  <2>2. CASE /\ Moves(LarkLoop, "recording") /\ Save(<<"record", e>>)
             /\ state' = [state EXCEPT !.monitors[MessageOf[e]] = "new"]
    <3>1. StateTypes' /\ IngestTypes'
      BY <1>3, <2>2, Loop, NotedTypes DEF LarkPost
    <3> QED
      BY <1>3, <3>1, SameTypes, RunningTypes DEF LarkPost
  <2> QED
    BY <1>3, <2>1, <2>2 DEF LarkPost
<1>4. ASSUME NEW e \in Events, LarkRecorded(e) PROVE TypeOK'
  <2>1. StateTypes' /\ IngestTypes' /\ MonitorTypes' /\ up
    BY <1>4, Loop, WrittenTypes DEF LarkRecorded
  <2> QED
    BY <1>4, <2>1, SameTypes, RunningTypes DEF LarkRecorded, outside
<1>5. ASSUME NEW m \in Messages, LarkLift(m) PROVE TypeOK'
  <2>1. PlatformTypes'
    BY <1>5 DEF LarkLift, TypeOK, PlatformTypes
  <2> QED
    BY <1>5, <2>1, ForgetTypes, SameTypes, RunningTypes DEF LarkLift
<1>6. ASSUME LarkReport PROVE TypeOK'
  <2>1. HandTypes' /\ ReplyTypes'
    BY <1>6, ReportTypes DEF LarkReport
  <2> QED
    BY <1>6, <2>1, SameTypes, RunningTypes DEF LarkReport, ReportSent
<1> QED
  BY <1>1, <1>2, <1>3, <1>4, <1>5, <1>6, KeyedTypes, MarkTypes DEF LarkNext, LarkMark

LEMMA ParallTypes ==
  ASSUME TypeOK, ParallNext \/ ParallTakesIn PROVE TypeOK'
<1>1. ASSUME NEW h \in Handlers, NEW e \in Events, CatchUp(e) \/ DispatchFrame(h, e) PROVE TypeOK'
  <2>1. IngestTypes'
    BY <1>1, Loop, GoesOn, SameTypes DEF CatchUp, DispatchFrame, TakenBy, ParallLoop, Steps
  <2> QED
    BY <1>1, <2>1, SameTypes, RunningTypes DEF CatchUp, DispatchFrame, outside
<1>2. ASSUME NEW h \in Handlers, NEW e \in Events, ParallPost(h, e) PROVE TypeOK'
  <2>1. PlatformTypes'
    BY <1>2 DEF ParallPost, Acked, TypeOK, PlatformTypes
  <2>2. CASE Leaves(h) /\ UNCHANGED <<state, saves>>
    BY <1>2, <2>1, <2>2, LeavesOff, SameTypes, RunningTypes DEF ParallPost, HandlerFails
  <2>3. CASE /\ Moves(h, "recording") /\ Save(<<"record", h>>)
             /\ state' = [state EXCEPT !.monitors[MessageOf[e]] = "new"]
    <3>1. StateTypes' /\ IngestTypes'
      BY <1>2, <2>3, NotedTypes DEF ParallPost
    <3> QED
      BY <1>2, <2>1, <3>1, SameTypes, RunningTypes DEF ParallPost
  <2> QED
    BY <1>2, <2>2, <2>3 DEF ParallPost, HandlerFails
<1>3. ASSUME NEW h \in Handlers, NEW e \in Events, ParallRecorded(h, e) PROVE TypeOK'
  <2>1. StateTypes' /\ IngestTypes' /\ MonitorTypes' /\ up
    BY <1>3, WrittenTypes DEF ParallRecorded, HandlerFails
  <2> QED
    BY <1>3, <2>1, SameTypes, RunningTypes DEF ParallRecorded, outside
<1>4. ASSUME NEW e \in Events, ParallAck(e) PROVE TypeOK'
  <2>1. PlatformTypes'
    BY <1>4 DEF ParallAck, Acked, TypeOK, PlatformTypes
  <2>2. MessageOf[e] \in Messages
    BY GatewayAssumption DEF GatewayAssumption
  <2> QED
    BY <1>4, <2>1, <2>2, ForgetTypes, SameTypes, RunningTypes DEF ParallAck
<1>5. ASSUME ParallReport PROVE TypeOK'
  <2>1. HandTypes' /\ ReplyTypes'
    BY <1>5, ReportTypes DEF ParallReport
  <2> QED
    BY <1>5, <2>1, SameTypes, RunningTypes DEF ParallReport, ReportSent
<1>6. ASSUME \/ ListDispatches \/ ConnectWebSocket \/ SocketCloses
             \/ \E e \in Events : DispatchMade(e)
      PROVE  TypeOK'
  BY <1>6, SameTypes DEF ListDispatches, ConnectWebSocket, SocketCloses, DispatchMade, gateway, outside,
     TypeOK, DownTypes
<1>7. ASSUME ParallTakesIn PROVE TypeOK'
  <2>1. \A e \in Events : CatchUp(e) => TypeOK'
    BY <1>1, Loop
  <2> QED
    BY <1>1, <1>2, <1>3, <1>6, <1>7, <2>1 DEF ParallTakesIn
<1> QED
  BY <1>4, <1>5, <1>7, KeyedTypes, MarkTypes DEF ParallNext, ParallMark

(* The process, the command loop and the Hub. *)
LEMMA CommonTypes ==
  ASSUME TypeOK,
         \/ BeginWrite \/ Crash \/ Start \/ ReportFailed
         \/ \E m \in Messages : InboxMoves(m) \/ HubRefuses(m) \/ HubAccepts(m)
         \/ \E r \in Replies : ReplyAgain(r) \/ Receive(r)
  PROVE  TypeOK'
<1>1. ASSUME BeginWrite PROVE TypeOK'
  <2>1. StateTypes'
    BY <1>1 DEF BeginWrite, TypeOK, StateTypes
  <2> QED
    BY <1>1, <2>1, SameTypes, RunningTypes DEF BeginWrite, outside
<1>2. ASSUME Crash PROVE TypeOK'
  <2>1. StateTypes'
    BY <1>2, FreshOK DEF Crash, TypeOK, StateTypes
  <2>2. IngestTypes'
    BY <1>2 DEF Crash, IngestTypes, IngestSet, Nobody, Steps
  <2>3. HandTypes' /\ MonitorTypes'
    BY <1>2 DEF Crash, HandTypes, MonitorTypes, NoHand
  <2> QED
    BY <1>2, <2>1, <2>2, <2>3, SameTypes DEF Crash, outside, TypeOK, DownTypes
<1>3. ASSUME Start PROVE TypeOK'
  <2>1. StateTypes'
    BY <1>3 DEF Start, TypeOK, StateTypes
  <2>2. MonitorTypes'
    BY <1>3 DEF Start, TypeOK, StateTypes, StateOK, MonitorTypes
  <2> QED
    BY <1>3, <2>1, <2>2, SameTypes DEF Start, outside, TypeOK, DownTypes
<1>4. ASSUME ReportFailed PROVE TypeOK'
  <2>1. HandTypes' /\ ReplyTypes'
    BY <1>4 DEF ReportFailed, TypeOK, HandTypes, ReplyTypes, NoHand
  <2> QED
    BY <1>4, <2>1, SameTypes, RunningTypes DEF ReportFailed
<1>5. ASSUME NEW m \in Messages, InboxMoves(m) PROVE TypeOK'
  BY <1>5, SameTypes DEF InboxMoves, gateway, TypeOK, DownTypes
<1>6. ASSUME NEW r \in Replies, ReplyAgain(r) PROVE TypeOK'
  <2>1. ReplyTypes'
    BY <1>6 DEF ReplyAgain, TypeOK, ReplyTypes
  <2> QED
    BY <1>6, <2>1, SameTypes DEF ReplyAgain, gateway, TypeOK, DownTypes
<1>7. ASSUME NEW r \in Replies, Receive(r) PROVE TypeOK'
  <2>1. HandTypes' /\ ReplyTypes'
    BY <1>7 DEF Receive, TypeOK, HandTypes, ReplyTypes
  <2> QED
    BY <1>7, <2>1, SameTypes, RunningTypes DEF Receive
<1>8. ASSUME NEW m \in Messages, HubRefuses(m) \/ HubAccepts(m) PROVE TypeOK'
  BY <1>8, SameTypes DEF HubRefuses, HubAccepts, gateway, outside, TypeOK, DownTypes
<1> QED
  BY <1>1, <1>2, <1>3, <1>4, <1>5, <1>6, <1>7, <1>8

(* Every step keeps the types of state object, queue, handlers and commands.  *)
THEOREM TypesKept == Spec => []TypeOK
<1>1. ASSUME TypeOK, [Next]_vars PROVE TypeOK'
  <2>1. CASE UNCHANGED vars
    BY <1>1, <2>1, SameTypes DEF vars, gateway, outside, TypeOK, DownTypes
  <2>2. CASE Next
    BY <1>1, <2>2, SlackTypes, LarkTypes, ParallTypes, CommonTypes, MarkTypes DEF Next, Rest
  <2> QED
    BY <1>1, <2>1, <2>2
<1> QED
  BY InitTypes, <1>1, PTL DEF Spec

----------------------------------------------------------------------------
(* Replies: what the state file, the image and memory know of a reply is      *)
(* posted, and each knows at least what the one behind it knows.              *)

PostedGrows ==
  \A r \in Replies : \A n \in 1..Parts[r] : posted[r][n] > 0 => posted'[r][n] > 0

LEMMA WholeStays ==
  ASSUME NEW s, NEW t, StateOK(s), t.sent = s.sent, Whole(s), PostedGrows, UNCHANGED provider
  PROVE  provider' = "slack" => \A r \in Replies : \A n \in 1..t.sent[r] : posted'[r][n] > 0
<1> SUFFICES ASSUME provider = "slack", NEW r \in Replies, NEW n \in 1..s.sent[r]
             PROVE  posted'[r][n] > 0
  OBVIOUS
<1>1. n \in 1..Parts[r] /\ posted[r][n] > 0
  BY GatewayAssumption DEF Whole, StateOK, GatewayAssumption
<1> QED
  BY <1>1 DEF PostedGrows

LEMMA SentStays ==
  ASSUME SentIsWhole, PostedGrows, UNCHANGED provider,
         \A r \in Replies : reply'[r] = "sent" => reply[r] = "sent"
  PROVE  SentIsWhole'
BY DEF SentIsWhole, PostedGrows

(* What is known does not grow; a write may begin or end. *)
LEMMA KnownStays ==
  ASSUME TypeOK, KnownInv, up, up', UNCHANGED provider, PostedGrows, state'.sent = state.sent,
         \/ UNCHANGED <<disk, image>>
         \/ UNCHANGED disk /\ image' = state
         \/ disk' \in {disk, image} /\ image # NoImage /\ image' = NoImage
  PROVE  KnownInv'
<1>1. StateOK(state) /\ StateOK(disk) /\ (image # NoImage => StateOK(image))
  BY DEF TypeOK, StateTypes
<1>2. Whole(state)'
  BY <1>1, WholeStays DEF KnownInv, Whole
<1>3. ASSUME disk' = disk PROVE Whole(disk)'
  BY <1>1, <1>3, WholeStays DEF KnownInv, Whole
<1>4. ASSUME image # NoImage, image' = image PROVE Whole(image)'
  BY <1>1, <1>4, WholeStays DEF KnownInv, Whole
<1>5. CASE UNCHANGED <<disk, image>>
  BY <1>2, <1>3, <1>4, <1>5 DEF KnownInv, Behind
<1>6. CASE UNCHANGED disk /\ image' = state
  <2>1. Whole(image)'
    BY <1>1, <1>6, WholeStays DEF KnownInv, Whole
  <2>2. Behind(disk, state)' /\ Behind(disk, image)' /\ Behind(image, state)'
    BY <1>1, <1>6 DEF KnownInv, Behind, StateOK
  <2> QED
    BY <1>2, <1>3, <1>6, <2>1, <2>2 DEF KnownInv
<1>7. CASE disk' \in {disk, image} /\ image # NoImage /\ image' = NoImage
  <2>1. Whole(disk)'
    BY <1>1, <1>7, WholeStays DEF KnownInv, Whole
  <2>2. Behind(disk, state)'
    BY <1>7 DEF KnownInv, Behind
  <2> QED
    BY <1>2, <1>7, <2>1, <2>2 DEF KnownInv
<1> QED
  BY <1>5, <1>6, <1>7

(* No reply is posted or reported. *)
LEMMA PartsStay ==
  ASSUME TypeOK, PartInv, up, up', UNCHANGED <<provider, posted>>, state'.sent = state.sent,
         \/ UNCHANGED <<disk, image>>
         \/ UNCHANGED disk /\ image' = state
         \/ disk' \in {disk, image} /\ image # NoImage /\ image' = NoImage,
         UNCHANGED hand \/ hand'.pc # "posted",
         \A r \in Replies : reply'[r] = "sent" => reply[r] = "sent"
  PROVE  PartInv'
<1>1. PostedGrows
  BY DEF PostedGrows
<1>2. KnownInv'
  BY <1>1, KnownStays DEF PartInv
<1>3. SentIsWhole'
  BY <1>1, SentStays DEF PartInv
<1> QED
  BY <1>2, <1>3 DEF PartInv

LEMMA SentUntouched ==
  ASSUME TypeOK
  PROVE  /\ UNCHANGED state => state'.sent = state.sent
         /\ \A h \in Handlers, e \in Events : Settle(h, e) => state'.sent = state.sent
         /\ \A e \in Events : state' = [state EXCEPT !.pending = Append(@, e)] => state'.sent = state.sent
         /\ \A m \in Messages : Forget(m) => state'.sent = state.sent
         /\ \A m \in Messages, v \in {"none", "new", "marked"} :
              state' = [state EXCEPT !.monitors[m] = v] => state'.sent = state.sent
<1>1. StateOK(state)
  BY DEF TypeOK, StateTypes
<1>2. ASSUME NEW h \in Handlers, NEW e \in Events, Settle(h, e) PROVE state'.sent = state.sent
  <2>1. state = [pending |-> state.pending, seen |-> state.seen,
                 monitors |-> state.monitors, sent |-> state.sent]
    BY <1>1 DEF StateOK
  <2> QED
    BY <1>2, <2>1 DEF Settle
<1>3. ASSUME NEW e \in Events, state' = [state EXCEPT !.pending = Append(@, e)] PROVE state'.sent = state.sent
  BY <1>1, <1>3, PendingSet
<1>4. ASSUME NEW m \in Messages, Forget(m) PROVE state'.sent = state.sent
  BY <1>1, <1>4, RecordSet DEF Forget
<1>5. ASSUME NEW m \in Messages, NEW v \in {"none", "new", "marked"}, state' = [state EXCEPT !.monitors[m] = v]
      PROVE  state'.sent = state.sent
  BY <1>1, <1>5, RecordSet
<1> QED
  BY <1>2, <1>3, <1>4, <1>5

LEMMA WriteEffect ==
  ASSUME NEW x, Wrote(x) \/ WriteFailed(x)
  PROVE  up /\ image # NoImage /\ image' = NoImage /\ disk' \in {disk, image}
BY DEF Wrote, WriteFailed, WriteEnds

(* The gateway takes in events and watches its messages. *)
LEMMA PartsOfOthers ==
  ASSUME TypeOK, PartInv,
         \/ \E e \in Events : \/ SocketFrame(e) \/ FrameSaved(e) \/ TakePending(e) \/ SlackPost(e)
                              \/ SlackRecorded(e) \/ SlackSettle(e) \/ SlackSettled(e)
                              \/ LarkEvent(e) \/ LarkFetch(e) \/ LarkPost(e) \/ LarkRecorded(e)
                              \/ ParallAck(e)
         \/ ParallTakesIn
         \/ \E m \in Messages : SlackLift(m) \/ LarkLift(m) \/ Mark(m) \/ MarkUnanswered(m)
                                \/ Marked(m) \/ Forgotten(m)
  PROVE  PartInv'
<1>1. ASSUME NEW e \in Events, SocketFrame(e) \/ TakePending(e) \/ SlackPost(e) \/ SlackSettle(e) PROVE PartInv'
  <2>1. MessageOf[e] \in Messages
    BY GatewayAssumption DEF GatewayAssumption
  <2>2. state'.sent = state.sent
    BY <1>1, <2>1, Loop, SentUntouched DEF SocketFrame, TakePending, SlackPost, SlackSettle
  <2> QED
    BY <1>1, <2>2, PartsStay DEF SocketFrame, TakePending, SlackPost, SlackSettle, outside
<1>2. ASSUME NEW e \in Events, FrameSaved(e) \/ SlackRecorded(e) \/ SlackSettled(e) \/ LarkRecorded(e) PROVE PartInv'
  <2>1. up /\ image # NoImage /\ image' = NoImage /\ disk' \in {disk, image}
    BY <1>2, WriteEffect DEF FrameSaved, SlackRecorded, SlackSettled, LarkRecorded
  <2> QED
    BY <1>2, <2>1, PartsStay DEF FrameSaved, SlackRecorded, SlackSettled, LarkRecorded, outside
<1>3. ASSUME NEW e \in Events, LarkEvent(e) \/ LarkFetch(e) \/ LarkPost(e) \/ ParallAck(e) PROVE PartInv'
  <2>1. MessageOf[e] \in Messages
    BY GatewayAssumption DEF GatewayAssumption
  <2>2. state'.sent = state.sent
    BY <1>3, <2>1, SentUntouched DEF LarkEvent, LarkFetch, LarkPost, ParallAck
  <2> QED
    BY <1>3, <2>2, PartsStay DEF LarkEvent, LarkFetch, LarkPost, ParallAck, Acked, outside
<1>4. ASSUME NEW h \in Handlers, NEW e \in Events,
             CatchUp(e) \/ DispatchFrame(h, e) \/ ParallPost(h, e) \/ DispatchMade(e)
      PROVE  PartInv'
  <2>1. MessageOf[e] \in Messages
    BY GatewayAssumption DEF GatewayAssumption
  <2>2. state'.sent = state.sent
    BY <1>4, <2>1, SentUntouched DEF CatchUp, DispatchFrame, ParallPost, DispatchMade, gateway
  <2>3. CASE CatchUp(e) \/ DispatchFrame(h, e)
    BY <2>2, <2>3, PartsStay DEF CatchUp, DispatchFrame, outside
  <2>4. CASE ParallPost(h, e)
    BY <2>2, <2>4, PartsStay DEF ParallPost
  <2>5. CASE DispatchMade(e)
    BY <2>5 DEF DispatchMade, gateway, PartInv, KnownInv, Whole, Behind, SentIsWhole
  <2> QED
    BY <1>4, <2>3, <2>4, <2>5
<1>5. ASSUME NEW h \in Handlers, NEW e \in Events, ParallRecorded(h, e) PROVE PartInv'
  <2>1. up /\ image # NoImage /\ image' = NoImage /\ disk' \in {disk, image}
    BY <1>5, WriteEffect DEF ParallRecorded
  <2> QED
    BY <1>5, <2>1, PartsStay DEF ParallRecorded, outside
<1>8. ASSUME ListDispatches \/ ConnectWebSocket \/ SocketCloses PROVE PartInv'
  BY <1>8, PartsStay DEF ListDispatches, ConnectWebSocket, SocketCloses, gateway, outside
<1>9. ASSUME ParallTakesIn PROVE PartInv'
  <2>1. \A e \in Events : CatchUp(e) \/ DispatchMade(e) => PartInv'
    BY <1>4, Loop
  <2> QED
    BY <1>4, <1>5, <1>8, <1>9, <2>1 DEF ParallTakesIn
<1>6. ASSUME NEW m \in Messages, SlackLift(m) \/ LarkLift(m) \/ Mark(m) \/ MarkUnanswered(m) PROVE PartInv'
  <2>1. state'.sent = state.sent
    BY <1>6, SentUntouched DEF SlackLift, LarkLift, Mark, MarkUnanswered, gateway
  <2> QED
    BY <1>6, <2>1, PartsStay DEF SlackLift, LarkLift, Mark, MarkUnanswered, gateway
<1>7. ASSUME NEW m \in Messages, Marked(m) \/ Forgotten(m) PROVE PartInv'
  <2>1. up /\ image # NoImage /\ image' = NoImage /\ disk' \in {disk, image}
    BY <1>7, WriteEffect DEF Marked, Forgotten
  <2> QED
    BY <1>7, <2>1, PartsStay DEF Marked, Forgotten, outside
<1> QED
  BY <1>1, <1>2, <1>3, <1>6, <1>7, <1>9

(* A part is posted, and known in memory only. *)
LEMMA PartIsPosted ==
  ASSUME TypeOK, TypeOK', PartInv, SlackPostPart PROVE PartInv'
<1> DEFINE r == hand.reply
           n == state.sent[r] + 1
<1>1. r \in Replies /\ n \in 1..Parts[r] /\ posted[r][n] \in Nat /\ provider = "slack" /\ hand.pc = "work"
  BY GatewayAssumption DEF SlackPostPart, TypeOK, HandTypes, StateTypes, StateOK, PlatformTypes, GatewayAssumption
<1>2. posted' \in {posted, [posted EXCEPT ![r][n] = @ + 1]}
  BY DEF SlackPostPart
<1>8. hand'.pc # "posted"
  BY <1>1 DEF SlackPostPart, TypeOK, HandTypes
<1>9. \/ UNCHANGED <<state, saves>>
      \/ state' = [state EXCEPT !.sent[r] = n] /\ posted' = [posted EXCEPT ![r][n] = @ + 1]
  BY DEF SlackPostPart
<1>10. state.sent[r] = n - 1 /\ n \in Nat
  BY <1>1 DEF TypeOK, StateTypes, StateOK
<1> HIDE DEF r, n
<1>3. \A q \in Replies : \A k \in 1..Parts[q] :
        posted'[q][k] = IF q = r /\ k = n /\ posted' # posted THEN posted[r][n] + 1 ELSE posted[q][k]
  <2>1. DOMAIN posted = Replies /\ \A q \in Replies : posted[q] \in [1..Parts[q] -> Nat]
    BY DEF TypeOK, PlatformTypes
  <2>2. CASE posted' = posted
    BY <2>2
  <2>3. CASE posted' = [posted EXCEPT ![r][n] = @ + 1]
    <3>1. posted' = [posted EXCEPT ![r] = [posted[r] EXCEPT ![n] = posted[r][n] + 1]]
      BY <2>3
    <3>2. \A q \in Replies : posted'[q] = IF q = r THEN [posted[r] EXCEPT ![n] = posted[r][n] + 1] ELSE posted[q]
      BY <1>1, <2>1, <3>1
    <3>3. \A k \in 1..Parts[r] : posted'[r][k] = IF k = n THEN posted[r][n] + 1 ELSE posted[r][k]
      BY <1>1, <2>1, <3>2
    <3>4. posted' # posted
      BY <1>1, <3>3
    <3> QED
      BY <1>1, <3>2, <3>3, <3>4
  <2> QED
    BY <1>2, <2>2, <2>3
<1>4. PostedGrows
  BY <1>1, <1>3 DEF PostedGrows, TypeOK, PlatformTypes
<1>5. SentIsWhole'
  BY <1>4, SentStays DEF SlackPostPart, PartInv
<1>6. CASE UNCHANGED <<state, saves>>
  <2>1. KnownInv'
    BY <1>4, <1>6, KnownStays DEF SlackPostPart, PartInv
  <2> QED
    BY <1>5, <1>8, <2>1 DEF PartInv
<1>7. CASE state' = [state EXCEPT !.sent[r] = n] /\ posted' = [posted EXCEPT ![r][n] = @ + 1]
  <2>1. StateOK(state) /\ StateOK(disk) /\ (image # NoImage => StateOK(image))
    BY DEF TypeOK, StateTypes
  <2>2. state'.sent = [state.sent EXCEPT ![r] = n]
    <3> HIDE DEF r, n
    <3>1. n \in Nat /\ n <= Parts[r]
      BY <1>1, GatewayAssumption DEF GatewayAssumption
    <3> QED
      BY <1>1, <1>7, <2>1, <3>1, PartSet
  <2>3. posted'[r][n] > 0
    <3>1. posted[r][n] + 1 > 0
      BY <1>1
    <3>2. posted[r] \in [1..Parts[r] -> Nat] /\ DOMAIN posted = Replies
      BY <1>1 DEF TypeOK, PlatformTypes
    <3>3. posted' = [posted EXCEPT ![r] = [posted[r] EXCEPT ![n] = posted[r][n] + 1]]
      BY <1>7
    <3> QED
      BY <1>1, <3>1, <3>2, <3>3
  <2>4. Whole(state)'
    <3> SUFFICES ASSUME NEW q \in Replies, NEW k \in 1..state'.sent[q] PROVE posted'[q][k] > 0
      BY <1>1 DEF Whole
    <3>1. CASE q = r /\ k = n
      BY <2>3, <3>1
    <3>2. CASE ~(q = r /\ k = n)
      <4>1. k \in 1..state.sent[q] /\ k \in 1..Parts[q]
        BY <1>1, <1>10, <2>1, <2>2, <3>2, GatewayAssumption DEF StateOK, GatewayAssumption
      <4> QED
        BY <1>1, <1>4, <4>1 DEF PostedGrows, PartInv, KnownInv, Whole, SlackPostPart
    <3> QED
      BY <3>1, <3>2
  <2>5. UNCHANGED <<provider, up, disk, image>> /\ up
    BY DEF SlackPostPart
  <2>6. Whole(disk)'
    BY <1>4, <2>1, <2>5, WholeStays DEF PartInv, KnownInv, Whole
  <2>7. image # NoImage => Whole(image)'
    BY <1>4, <2>1, <2>5, WholeStays DEF PartInv, KnownInv, Whole
  <2>8. Behind(disk, state)'
    BY <1>1, <1>10, <2>1, <2>2, <2>5 DEF PartInv, KnownInv, Behind, StateOK
  <2>9. image # NoImage => Behind(disk, image)' /\ Behind(image, state)'
    BY <1>1, <1>10, <2>1, <2>2, <2>5 DEF PartInv, KnownInv, Behind, StateOK
  <2>10. KnownInv'
    BY <2>4, <2>5, <2>6, <2>7, <2>8, <2>9 DEF KnownInv
  <2> QED
    BY <1>5, <1>8, <2>10 DEF PartInv
<1> QED
  BY <1>9, <1>6, <1>7

(* Lark and Parall: a reply is one message; what is posted stays. *)
LEMMA ReplyIsPosted ==
  ASSUME TypeOK, PartInv, LarkPostReply \/ ParallPostReply PROVE PartInv'
<1> DEFINE r == hand.reply
<1>1. r \in Replies /\ 1 \in 1..Parts[r] /\ hand.pc = "work" /\ posted' \in {posted, Keyed(r)}
      /\ provider # "slack"
  BY GatewayAssumption DEF LarkPostReply, ParallPostReply, TypeOK, HandTypes, GatewayAssumption
<1>2. DOMAIN posted = Replies /\ \A q \in Replies : posted[q] \in [1..Parts[q] -> Nat]
  BY DEF TypeOK, PlatformTypes
<1>3. ASSUME posted' = Keyed(r)
      PROVE  /\ posted'[r][1] = 1
             /\ \A q \in Replies : \A n \in 1..Parts[q] : posted'[q][n] \in {1, posted[q][n]}
  <2>1. posted' = [posted EXCEPT ![r] = [posted[r] EXCEPT ![1] = 1]]
    BY <1>3 DEF Keyed
  <2>2. \A q \in Replies : posted'[q] = IF q = r THEN [posted[r] EXCEPT ![1] = 1] ELSE posted[q]
    BY <1>1, <1>2, <2>1
  <2>3. posted'[r] = [posted[r] EXCEPT ![1] = 1] /\ posted[r] \in [1..Parts[r] -> Nat]
    BY <1>1, <1>2, <2>2
  <2>4. posted'[r][1] = 1 /\ \A n \in 1..Parts[r] : posted'[r][n] \in {1, posted[r][n]}
    BY <1>1, <2>3
  <2>5. \A q \in Replies : q # r => posted'[q] = posted[q]
    BY <2>2
  <2> QED
    BY <2>4, <2>5
<1>4. PostedGrows
  <2>1. CASE posted' = posted
    BY <2>1 DEF PostedGrows
  <2>2. CASE posted' = Keyed(r)
    BY <1>3, <2>2 DEF PostedGrows
  <2> QED
    BY <1>1, <2>1, <2>2
<1>5. KnownInv'
  BY <1>4, KnownStays DEF LarkPostReply, ParallPostReply, PartInv
<1>6. SentIsWhole'
  BY <1>4, SentStays DEF LarkPostReply, ParallPostReply, PartInv
<1>7. hand'.pc = "posted" => posted' = Keyed(r) /\ hand'.reply = r
  BY <1>1 DEF LarkPostReply, ParallPostReply, TypeOK, HandTypes
<1> QED
  BY <1>1, <1>3, <1>5, <1>6, <1>7 DEF LarkPostReply, ParallPostReply, PartInv

(* A reply is reported as sent: Slack's when memory knows of all its parts,   *)
(* the others' when it is posted.                                             *)
LEMMA ReportIsWhole ==
  ASSUME TypeOK, PartInv, SlackReport \/ LarkReport \/ ParallReport PROVE PartInv'
<1> DEFINE r == hand.reply
<1>1. r \in Replies /\ up /\ UNCHANGED <<provider, up, state, disk, image, posted>>
      /\ hand.pc \in {"work", "posted"}
  BY DEF SlackReport, LarkReport, ParallReport, ReportSent, TypeOK, HandTypes
<1>2. \A n \in 1..Parts[r] : (provider = "slack" \/ n = 1) => posted[r][n] > 0
  <2>1. CASE SlackReport
    BY <1>1, <2>1 DEF SlackReport, PartInv, KnownInv, Whole
  <2>2. CASE LarkReport \/ ParallReport
    BY <1>1, <2>2 DEF LarkReport, ParallReport, PartInv
  <2> QED
    BY <2>1, <2>2
<1>3. \A q \in Replies : reply'[q] = "sent" => reply[q] = "sent" \/ q = r
  BY <1>1 DEF SlackReport, LarkReport, ParallReport, ReportSent, TypeOK, ReplyTypes
<1>4. SentIsWhole'
  BY <1>1, <1>2, <1>3 DEF PartInv, SentIsWhole
<1>5. hand'.pc # "posted"
  BY <1>1 DEF SlackReport, LarkReport, ParallReport, ReportSent, NoHand, TypeOK, HandTypes
<1>6. KnownInv'
  BY <1>1 DEF PartInv, KnownInv, Whole, Behind
<1> QED
  BY <1>4, <1>5, <1>6 DEF PartInv

LEMMA PartsOfCommon ==
  ASSUME TypeOK, PartInv,
         \/ SlackPartSaved \/ BeginWrite \/ Crash \/ Start \/ ReportFailed
         \/ \E m \in Messages : InboxMoves(m) \/ HubRefuses(m) \/ HubAccepts(m)
         \/ \E r \in Replies : ReplyAgain(r) \/ Receive(r)
         \/ UNCHANGED vars
  PROVE  PartInv'
<1>1. ASSUME SlackPartSaved PROVE PartInv'
  <2>1. up /\ image # NoImage /\ image' = NoImage /\ disk' \in {disk, image}
    BY <1>1, WriteEffect DEF SlackPartSaved
  <2>2. hand'.pc # "posted"
    BY <1>1 DEF SlackPartSaved, TypeOK, HandTypes
  <2> QED
    BY <1>1, <2>1, <2>2, PartsStay DEF SlackPartSaved, outside
<1>2. ASSUME BeginWrite PROVE PartInv'
  BY <1>2, PartsStay DEF BeginWrite, outside
<1>3. ASSUME Crash PROVE PartInv'
  <2>1. ~up' /\ image' = NoImage /\ hand' = NoHand /\ UNCHANGED <<provider, disk, posted, reply>>
    BY <1>3 DEF Crash, outside
  <2>2. KnownInv'
    BY <2>1 DEF PartInv, KnownInv, Whole
  <2>3. hand'.pc # "posted"
    BY <2>1 DEF NoHand
  <2> QED
    BY <2>1, <2>2, <2>3 DEF PartInv, SentIsWhole
<1>4. ASSUME Start PROVE PartInv'
  <2>1. state' = disk /\ image' = NoImage /\ hand' = NoHand /\ UNCHANGED <<provider, disk, posted, reply>>
    BY <1>4 DEF Start, outside, TypeOK, DownTypes
  <2>2. Behind(disk, disk)
    BY DEF Behind, TypeOK, StateTypes, StateOK
  <2>3. KnownInv'
    BY <2>1, <2>2 DEF PartInv, KnownInv, Whole, Behind
  <2>4. hand'.pc # "posted"
    BY <2>1 DEF NoHand
  <2> QED
    BY <2>1, <2>3, <2>4 DEF PartInv, SentIsWhole
<1>5. ASSUME ReportFailed PROVE PartInv'
  <2>1. hand'.pc # "posted"
    BY <1>5 DEF ReportFailed, NoHand
  <2>2. \A q \in Replies : reply'[q] = "sent" => reply[q] = "sent"
    BY <1>5 DEF ReportFailed, TypeOK, ReplyTypes
  <2> QED
    BY <1>5, <2>1, <2>2, PartsStay DEF ReportFailed
<1>6. ASSUME UNCHANGED <<provider, gateway, posted>>,
             \A q \in Replies : reply'[q] = "sent" => reply[q] = "sent"
      PROVE  PartInv'
  BY <1>6 DEF gateway, PartInv, KnownInv, Whole, Behind, SentIsWhole
<1>7. ASSUME NEW m \in Messages, InboxMoves(m) PROVE PartInv'
  BY <1>6, <1>7 DEF InboxMoves
<1>8. ASSUME NEW r \in Replies, ReplyAgain(r) PROVE PartInv'
  BY <1>6, <1>8 DEF ReplyAgain, TypeOK, ReplyTypes
<1>9. ASSUME NEW r \in Replies, Receive(r) PROVE PartInv'
  <2>1. hand'.pc # "posted"
    BY <1>9 DEF Receive
  <2>2. \A q \in Replies : reply'[q] = "sent" => reply[q] = "sent"
    BY <1>9 DEF Receive, TypeOK, ReplyTypes
  <2> QED
    BY <1>9, <2>1, <2>2, PartsStay DEF Receive
<1>10. ASSUME UNCHANGED vars PROVE PartInv'
  BY <1>6, <1>10 DEF vars, outside
<1>11. ASSUME NEW m \in Messages, HubRefuses(m) \/ HubAccepts(m) PROVE PartInv'
  BY <1>6, <1>11 DEF HubRefuses, HubAccepts, outside
<1> QED
  BY <1>1, <1>2, <1>3, <1>4, <1>5, <1>7, <1>8, <1>9, <1>10, <1>11

LEMMA InitParts == Init => PartInv
<1> SUFFICES ASSUME Init PROVE PartInv
  OBVIOUS
<1>1. \A r \in Replies : FreshState.sent[r] = 0
  BY DEF FreshState
<1>2. state = FreshState /\ disk = FreshState /\ image = NoImage /\ hand.pc = "none"
  BY DEF Init, RuntimeInit, NoHand
<1>3. Whole(FreshState) /\ Behind(FreshState, FreshState)
  BY <1>1 DEF Whole, Behind
<1>4. \A r \in Replies : reply[r] # "sent"
  BY DEF Init
<1> QED
  BY <1>2, <1>3, <1>4 DEF PartInv, KnownInv, SentIsWhole

LEMMA PartStep ==
  ASSUME TypeOK, TypeOK', PartInv, [Next]_vars PROVE PartInv'
BY PartsOfOthers, PartIsPosted, ReplyIsPosted, ReportIsWhole, PartsOfCommon
   DEF Next, Rest, SlackNext, LarkNext, ParallNext, SlackMark, LarkMark, ParallMark

LEMMA PartsKnown == Spec => [](TypeOK /\ PartInv)
<1>1. Init => PartInv
  BY InitParts
<1>2. TypeOK /\ TypeOK' /\ PartInv /\ [Next]_vars => PartInv'
  BY PartStep
<1> QED
  BY <1>1, <1>2, TypesKept, PTL DEF Spec

(* SentIsWhole: a reply the Hub counts as sent is on the platform, with all   *)
(* its parts on Slack, for every number of parts, attempts and crashes.       *)
THEOREM SentRepliesAreWhole == Spec => []SentIsWhole
<1>1. TypeOK /\ PartInv => SentIsWhole
  BY DEF PartInv
<1> QED
  BY <1>1, PartsKnown, PTL

(* RecordedPartIsKept: what the state file knows of is not posted again, by   *)
(* any attempt of any process, for every number of parts.                     *)
THEOREM RecordedPartsAreKept == Spec => RecordedPartIsKept
<1> DEFINE Keeps == provider = "slack" =>
                      \A r \in Replies : \A n \in 1..disk.sent[r] : posted'[r][n] = posted[r][n]
<1>1. ASSUME TypeOK, PartInv, Next PROVE Keeps
  <2>1. SUFFICES ASSUME provider = "slack", posted' # posted PROVE Keeps
    OBVIOUS
  <2>2. SlackPostPart
    <3>1. ~LarkPostReply /\ ~ParallPostReply
      BY <2>1 DEF LarkPostReply, ParallPostReply
    <3>2. ASSUME \/ \E e \in Events : \/ SocketFrame(e) \/ FrameSaved(e) \/ TakePending(e) \/ SlackPost(e)
                                      \/ SlackRecorded(e) \/ SlackSettle(e) \/ SlackSettled(e)
                 \/ SlackPartSaved \/ SlackReport \/ \E m \in Messages : SlackLift(m)
          PROVE  FALSE
      BY <2>1, <3>2 DEF SocketFrame, FrameSaved, TakePending, SlackPost, SlackRecorded, SlackSettle,
         SlackSettled, SlackPartSaved, SlackReport, SlackLift, ReportSent, outside
    <3>3. ASSUME \/ BeginWrite \/ Crash \/ Start \/ ReportFailed
                 \/ \E m \in Messages : \/ Mark(m) \/ MarkUnanswered(m) \/ Marked(m) \/ Forgotten(m)
                                        \/ InboxMoves(m) \/ HubRefuses(m) \/ HubAccepts(m)
                 \/ \E r \in Replies : ReplyAgain(r) \/ Receive(r)
          PROVE  FALSE
      BY <2>1, <3>3 DEF BeginWrite, Crash, Start, ReportFailed, Mark, MarkUnanswered, Marked, Forgotten,
         InboxMoves, HubRefuses, HubAccepts, ReplyAgain, Receive, outside
    <3>4. ASSUME LarkNext PROVE FALSE
      BY <2>1, <3>1, <3>4 DEF LarkNext, LarkEvent, LarkFetch, LarkPost, LarkRecorded, LarkMark, LarkLift, LarkReport
    <3>5. ASSUME ParallNext \/ ParallTakesIn PROVE FALSE
      BY <2>1, <3>1, <3>5 DEF ParallNext, ParallTakesIn, ListDispatches, ConnectWebSocket, SocketCloses,
         DispatchMade, CatchUp, DispatchFrame, ParallPost, ParallRecorded, ParallMark, ParallAck, ParallReport, Parall
    <3> QED
      BY <1>1, <3>2, <3>3, <3>4, <3>5 DEF Next, Rest, SlackNext, SlackMark
  <2> DEFINE r == hand.reply
             k == state.sent[r] + 1
  <2>3. r \in Replies /\ k \in 1..Parts[r] /\ up /\ posted' = [posted EXCEPT ![r][k] = @ + 1]
    <3>1. r \in Replies /\ state.sent \in [Replies -> Nat] /\ Parts[r] \in Nat
      BY <1>1, <2>2, GatewayAssumption DEF SlackPostPart, TypeOK, HandTypes, StateTypes, StateOK, GatewayAssumption
    <3> QED
      BY <2>1, <2>2, <3>1 DEF SlackPostPart
  <2>4. \A q \in Replies : disk.sent[q] \in Nat /\ disk.sent[q] <= state.sent[q] /\ disk.sent[q] <= Parts[q]
    BY <1>1, <2>3 DEF PartInv, KnownInv, Behind, TypeOK, StateTypes, StateOK
  <2>5. \A q \in Replies : posted[q] \in [1..Parts[q] -> Nat]
    BY <1>1 DEF TypeOK, PlatformTypes
  <2>6. state.sent[r] = k - 1 /\ k \in Nat
    <3>1. state.sent[r] \in Nat
      BY <1>1, <2>3 DEF TypeOK, StateTypes, StateOK
    <3> QED
      BY <3>1
  <2>7. DOMAIN posted = Replies
    BY <1>1 DEF TypeOK, PlatformTypes
  <2> HIDE DEF r, k
  <2>8. ASSUME NEW q \in Replies, NEW n \in 1..disk.sent[q] PROVE posted'[q][n] = posted[q][n]
    <3>1. posted' = [posted EXCEPT ![r] = [posted[r] EXCEPT ![k] = posted[r][k] + 1]]
      BY <2>3
    <3>2. CASE q = r
      <4>1. n # k /\ n \in 1..Parts[r]
        BY <2>3, <2>4, <2>6, <3>2, GatewayAssumption DEF GatewayAssumption
      <4>2. posted'[r] = [posted[r] EXCEPT ![k] = posted[r][k] + 1]
        BY <2>3, <2>7, <3>1
      <4> QED
        BY <2>3, <2>5, <3>2, <4>1, <4>2
    <3>3. CASE q # r
      BY <2>7, <3>1, <3>3
    <3> QED
      BY <3>2, <3>3
  <2> QED
    BY <2>8
<1>2. ASSUME UNCHANGED vars PROVE Keeps
  BY <1>2 DEF vars, outside
<1>3. TypeOK /\ PartInv /\ [Next]_vars => [Keeps]_vars
  BY <1>1, <1>2
<1> QED
  BY <1>3, PartsKnown, PTL DEF Spec, RecordedPartIsKept

----------------------------------------------------------------------------
(* Marks and their records: what a step does to the queue of writes.          *)

LEMMA QueueGrows ==
  ASSUME TypeOK, NEW t \in Tasks, Save(t)
  PROVE  /\ Len(saves) \in Nat /\ Len(saves') = Len(saves) + 1
         /\ \A i \in 1..Len(saves) : saves'[i] = saves[i]
         /\ saves'[Len(saves) + 1] = t
         /\ \A i \in 1..Len(saves') : i \in 1..Len(saves) \/ (i = Len(saves) + 1 /\ saves'[i] = t)
         /\ image # NoImage => 1 \in 1..Len(saves)
<1>1. saves \in Seq(Tasks) /\ saves' = Append(saves, t)
  BY DEF TypeOK, StateTypes, Save
<1>2. image # NoImage => saves # <<>>
  BY DEF TypeOK, StateTypes
<1>3. Len(saves) \in Nat /\ (saves # <<>> => Len(saves) > 0)
  BY <1>1
<1> QED
  BY <1>1, <1>2, <1>3, Queued

LEMMA QueueShrinks ==
  ASSUME TypeOK, saves # <<>>, saves' = Tail(saves)
  PROVE  /\ Len(saves) \in Nat \ {0} /\ Len(saves') = Len(saves) - 1
         /\ \A i \in 1..Len(saves') : i + 1 \in 2..Len(saves) /\ saves'[i] = saves[i + 1]
         /\ \A i \in 2..Len(saves) : i - 1 \in 1..Len(saves') /\ saves'[i - 1] = saves[i]
         /\ Head(saves) = saves[1] /\ 1 \in 1..Len(saves)
<1>1. saves \in Seq(Tasks)
  BY DEF TypeOK, StateTypes
<1> QED
  BY <1>1, Popped

(* A task other than the one at the head moves up by one place. *)
LEMMA MovesUp ==
  ASSUME TypeOK, saves # <<>>, saves' = Tail(saves),
         NEW x, NEW i \in 1..Len(saves), saves[i] = x, x # saves[1]
  PROVE  i - 1 \in 1..Len(saves') /\ saves'[i - 1] = x
<1>1. /\ Len(saves) \in Nat \ {0}
      /\ \A j \in 2..Len(saves) : j - 1 \in 1..Len(saves') /\ saves'[j - 1] = saves[j]
  BY QueueShrinks
<1>2. i # 1
  OBVIOUS
<1>3. i \in 2..Len(saves)
  BY <1>1, <1>2
<1> QED
  BY <1>1, <1>3

LEMMA TaskIsRecord ==
  \A h \in Handlers : /\ Task(h)[1] = "record"
                      /\ \A m : Task(h) # <<"mark", m>> /\ Task(h) # <<"clear", m>>
BY DEF Task

LEMMA OneRecorder ==
  ASSUME LoopAlone, NEW g \in Handlers, NEW h \in Handlers, Recording(g), Recording(h), Task(g) = Task(h)
  PROVE  g = h
BY DEF LoopAlone, Recording, Task, Nobody

(* A handler keeps its record, or has none before and after. *)
SameRecords ==
  \A h \in Handlers :
    \/ ingest'[h] = ingest[h]
    \/ ~Recording(h) /\ ingest'[h].pc # "recording" /\ (Parall \/ h = SlackLoop)

LEMMA RecordersStay ==
  ASSUME LoopAlone, SameRecords, UNCHANGED provider
  PROVE  /\ LoopAlone'
         /\ \A h \in Handlers : Recording(h)' <=> Recording(h)
         /\ \A h \in Handlers : Recording(h) => Task(h)' = Task(h) /\ About(h)' = About(h)
BY DEF LoopAlone, SameRecords, Recording, Task, About

LEMMA OtherTasks ==
  ASSUME NEW k \in {"frame", "settle", "part"}, NEW x
  PROVE  /\ <<k, x>>[1] \notin {"record", "mark", "clear"}
         /\ \A m : <<k, x>> # <<"mark", m>> /\ <<k, x>> # <<"clear", m>>
         /\ \A h \in Handlers : <<k, x>> # Task(h)
BY DEF Task

(* A step that has no part in a record: it may queue a write of its own. *)
LEMMA QuietStep ==
  ASSUME TypeOK, RecordInv, SameRecords, UNCHANGED <<provider, up, disk, image, monitor>>,
         state'.monitors = state.monitors,
         \A m \in mark' : m \in mark \/ (m \in Messages /\ monitor[m] = "poll"),
         \/ UNCHANGED saves
         \/ \E k \in {"frame", "settle", "part"} :
              \E x \in Events \cup Messages \cup Replies \cup Handlers : Save(<<k, x>>)
  PROVE  RecordInv'
<1>1. /\ LoopAlone' /\ \A h \in Handlers : Recording(h)' <=> Recording(h)
      /\ \A h \in Handlers : Recording(h) => Task(h)' = Task(h) /\ About(h)' = About(h)
  BY RecordersStay DEF RecordInv
<1>2. MarkHeld'
  BY DEF RecordInv, MarkHeld, Held
<1>3. CASE UNCHANGED saves
  <2>1. Owned'
    BY <1>1, <1>3 DEF RecordInv, Owned
  <2>2. Once'
    BY <1>3 DEF RecordInv, Once
  <2>3. Waiting'
    BY <1>1, <1>3 DEF RecordInv, Waiting, ClearFollows
  <2>4. Imaged'
    BY <1>1, <1>3 DEF RecordInv, Imaged
  <2> QED
    BY <1>1, <1>2, <2>1, <2>2, <2>3, <2>4 DEF RecordInv
<1>4. ASSUME NEW k \in {"frame", "settle", "part"},
             NEW x \in Events \cup Messages \cup Replies \cup Handlers, Save(<<k, x>>)
      PROVE  RecordInv'
  <2> DEFINE t == <<k, x>>
  <2>1. t \in Tasks
    BY TaskKinds
  <2>2. /\ t[1] \notin {"record", "mark", "clear"}
        /\ \A m : t # <<"mark", m>> /\ t # <<"clear", m>>
        /\ \A h \in Handlers : t # Task(h)
    BY OtherTasks
  <2> HIDE DEF t
  <2>3. /\ Len(saves) \in Nat /\ Len(saves') = Len(saves) + 1
        /\ \A i \in 1..Len(saves) : saves'[i] = saves[i]
        /\ \A i \in 1..Len(saves') : i \in 1..Len(saves) \/ (i = Len(saves) + 1 /\ saves'[i] = t)
        /\ image # NoImage => 1 \in 1..Len(saves)
    BY <1>4, <2>1, QueueGrows DEF t
  <2>4. Owned'
    BY <1>1, <2>2, <2>3 DEF RecordInv, Owned
  <2>5. Once'
    BY <2>2, <2>3 DEF RecordInv, Once
  <2>6. Waiting'
    BY <1>1, <2>2, <2>3 DEF RecordInv, Waiting, ClearFollows
  <2>7. Imaged'
    BY <1>1, <2>3 DEF RecordInv, Imaged
  <2> QED
    BY <1>1, <1>2, <2>4, <2>5, <2>6, <2>7 DEF RecordInv
<1> QED
  BY <1>3, <1>4

LEMMA ShiftedClear ==
  ASSUME TypeOK, saves # <<>>, saves' = Tail(saves), NEW h \in Handlers, ClearFollows(h),
         NEW j \in 1..Len(saves'), NEW n \in 1..Len(saves'),
         saves'[j] = <<"clear", About(h)>>, saves'[n] = Task(h)
  PROVE  n < j
<1>1. /\ saves[j + 1] = <<"clear", About(h)>> /\ saves[n + 1] = Task(h)
      /\ j + 1 \in 1..Len(saves) /\ n + 1 \in 1..Len(saves)
  BY QueueShrinks
<1>2. n + 1 < j + 1
  BY <1>1 DEF ClearFollows
<1> QED
  BY <1>2

(* Another write ends. *)
LEMMA OtherWritten ==
  ASSUME TypeOK, RecordInv, SameRecords, UNCHANGED <<provider, up, state, monitor, mark>>,
         NEW k \in {"frame", "settle", "part"}, NEW x, Wrote(<<k, x>>) \/ WriteFailed(<<k, x>>)
  PROVE  RecordInv'
<1> DEFINE t == <<k, x>>
<1>1. /\ LoopAlone' /\ \A h \in Handlers : Recording(h)' <=> Recording(h)
      /\ \A h \in Handlers : Recording(h) => Task(h)' = Task(h) /\ About(h)' = About(h)
  BY RecordersStay DEF RecordInv
<1>2. /\ t[1] \notin {"record", "mark", "clear"} /\ \A h \in Handlers : t # Task(h)
  BY OtherTasks
<1>3. /\ Head(saves) = t /\ saves # <<>> /\ saves' = Tail(saves)
      /\ image # NoImage /\ image' = NoImage /\ disk' \in {disk, image}
  BY DEF Wrote, WriteFailed, WriteEnds
<1> HIDE DEF t
<1>4. /\ Len(saves) \in Nat \ {0} /\ Len(saves') = Len(saves) - 1
      /\ \A i \in 1..Len(saves') : i + 1 \in 2..Len(saves) /\ saves'[i] = saves[i + 1]
      /\ \A i \in 2..Len(saves) : i - 1 \in 1..Len(saves') /\ saves'[i - 1] = saves[i]
      /\ saves[1] = t
  BY <1>3, QueueShrinks
<1>5. MarkHeld'
  BY <1>3 DEF RecordInv, MarkHeld, Held
<1>6. Owned'
  BY <1>1, <1>4 DEF RecordInv, Owned
<1>7. Once'
  BY <1>4 DEF RecordInv, Once
<1>8. Waiting'
  <2> SUFFICES ASSUME NEW h \in Handlers, Recording(h)
               PROVE  /\ \E i \in 1..Len(saves') : saves'[i] = Task(h)
                      /\ \/ state.monitors[About(h)] # "none"
                         \/ /\ monitor[About(h)] # "none"
                            /\ \A i, j \in 1..Len(saves') :
                                 saves'[i] = <<"clear", About(h)>> /\ saves'[j] = Task(h) => j < i
    BY <1>1 DEF Waiting, ClearFollows
  <2>1. PICK i \in 1..Len(saves) : saves[i] = Task(h)
    BY DEF RecordInv, Waiting
  <2>2. i - 1 \in 1..Len(saves') /\ saves'[i - 1] = Task(h)
    <3>1. saves[1] # Task(h)
      BY <1>2, <1>4
    <3> QED
      BY <1>3, <2>1, <3>1, MovesUp
  <2>3. \/ state.monitors[About(h)] # "none"
        \/ monitor[About(h)] # "none" /\ ClearFollows(h)
    BY DEF RecordInv, Waiting
  <2>4. ASSUME ClearFollows(h)
        PROVE  \A j, n \in 1..Len(saves') :
                 saves'[j] = <<"clear", About(h)>> /\ saves'[n] = Task(h) => n < j
    BY <1>3, <2>4, ShiftedClear
  <2> QED
    BY <2>2, <2>3, <2>4
<1>9. Imaged'
  BY <1>3 DEF Imaged
<1> QED
  BY <1>1, <1>5, <1>6, <1>7, <1>8, <1>9 DEF RecordInv

(* A monitor asks for a write about its message m: to mark it, or to forget   *)
(* it once the platform no longer shows it.                                   *)
LEMMA MonitorAsks ==
  ASSUME TypeOK, RecordInv, SameRecords, UNCHANGED <<provider, up, disk, image>>,
         NEW m \in Messages, monitor[m] \in {"poll", "watch"},
         NEW k \in {"mark", "clear"}, Save(<<k, m>>),
         monitor' = [monitor EXCEPT ![m] = IF k = "mark" THEN "marking" ELSE "clearing"],
         state'.monitors = [state.monitors EXCEPT ![m] = IF k = "mark" THEN "marked" ELSE "none"],
         k = "mark" => monitor[m] = "poll" /\ mark' = mark \cup {m},
         k = "clear" => mark' \subseteq mark \ {m}
  PROVE  RecordInv'
<1> DEFINE t == <<k, m>>
<1>1. /\ LoopAlone' /\ \A h \in Handlers : Recording(h)' <=> Recording(h)
      /\ \A h \in Handlers : Recording(h) => Task(h)' = Task(h) /\ About(h)' = About(h)
  BY RecordersStay DEF RecordInv
<1>2. t \in Tasks
  BY TaskKinds
<1>3. /\ t[1] # "record" /\ \A h \in Handlers : t # Task(h)
      /\ \A n \in Messages : /\ t = <<"mark", n>> => n = m /\ k = "mark"
                             /\ t = <<"clear", n>> => n = m /\ k = "clear"
  BY DEF Task
<1>4. \A n : t = <<"clear", n>> => n = m
  OBVIOUS
<1>5. \A i \in 1..Len(saves) : saves[i] # t
  BY DEF RecordInv, Owned
<1> HIDE DEF t
<1>6. /\ Len(saves) \in Nat /\ Len(saves') = Len(saves) + 1
      /\ \A i \in 1..Len(saves) : saves'[i] = saves[i]
      /\ \A i \in 1..Len(saves') : i \in 1..Len(saves) \/ (i = Len(saves) + 1 /\ saves'[i] = t)
      /\ image # NoImage => 1 \in 1..Len(saves)
  BY <1>2, QueueGrows DEF t
<1>7. /\ monitor'[m] = IF k = "mark" THEN "marking" ELSE "clearing"
      /\ state'.monitors[m] = IF k = "mark" THEN "marked" ELSE "none"
      /\ \A n \in Messages : n # m => monitor'[n] = monitor[n] /\ state'.monitors[n] = state.monitors[n]
  BY DEF TypeOK, MonitorTypes, StateTypes, StateOK
<1>8. MarkHeld'
  BY <1>7 DEF RecordInv, MarkHeld, Held
<1>9. Owned'
  <2>1. ASSUME NEW i \in 1..Len(saves), NEW n \in Messages
        PROVE  /\ saves[i] = <<"mark", n>> => n # m /\ monitor'[n] = "marking"
               /\ saves[i] = <<"clear", n>> => n # m /\ monitor'[n] = "clearing"
    BY <1>7 DEF RecordInv, Owned
  <2> QED
    BY <1>1, <1>3, <1>6, <1>7, <2>1 DEF RecordInv, Owned
<1>10. Once'
  BY <1>5, <1>6 DEF RecordInv, Once
<1>11. \A h \in Handlers : Recording(h) => About(h) \in Messages
  BY GatewayAssumption DEF Recording, About, TypeOK, IngestTypes, GatewayAssumption, Nobody
<1>12. Waiting'
  <2> SUFFICES ASSUME NEW h \in Handlers, Recording(h)
               PROVE  /\ \E i \in 1..Len(saves') : saves'[i] = Task(h)
                      /\ \/ state'.monitors[About(h)] # "none"
                         \/ /\ monitor'[About(h)] # "none"
                            /\ \A i, j \in 1..Len(saves') :
                                 saves'[i] = <<"clear", About(h)>> /\ saves'[j] = Task(h) => j < i
    BY <1>1 DEF Waiting, ClearFollows
  <2>1. \E i \in 1..Len(saves') : saves'[i] = Task(h)
    BY <1>6 DEF RecordInv, Waiting
  <2>2. \/ state.monitors[About(h)] # "none"
        \/ monitor[About(h)] # "none" /\ ClearFollows(h)
    BY DEF RecordInv, Waiting
  <2>3. CASE About(h) = m
    <3>1. \A i \in 1..Len(saves) : saves[i] # <<"clear", m>>
      BY DEF RecordInv, Owned
    <3>2. \A i, j \in 1..Len(saves') :
            saves'[i] = <<"clear", m>> /\ saves'[j] = Task(h) => j < i
      BY <1>3, <1>6, <3>1
    <3> QED
      BY <1>7, <2>1, <2>3, <3>2
  <2>4. CASE About(h) # m
    <3>1. ClearFollows(h) => \A i, j \in 1..Len(saves') :
            saves'[i] = <<"clear", About(h)>> /\ saves'[j] = Task(h) => j < i
      BY <1>3, <1>4, <1>6, <2>4 DEF ClearFollows
    <3> QED
      BY <1>7, <1>11, <2>1, <2>2, <2>4, <3>1
  <2> QED
    BY <2>3, <2>4
<1>13. Imaged'
  <2>1. \A h \in Handlers : Recording(h) /\ monitor'[About(h)] = "none" => monitor[About(h)] = "none"
    BY <1>7, <1>11
  <2> QED
    BY <1>1, <1>6, <2>1 DEF RecordInv, Imaged
<1> QED
  BY <1>1, <1>8, <1>9, <1>10, <1>12, <1>13 DEF RecordInv

(* The write that the monitor of m asked for ends. *)
LEMMA MonitorAnswered ==
  ASSUME TypeOK, RecordInv, UNCHANGED <<provider, up, state, ingest, mark>>, NEW m \in Messages,
         NEW k \in {"mark", "clear"}, Wrote(<<k, m>>) \/ WriteFailed(<<k, m>>),
         NEW v \in {"none", "watch"}, monitor' = [monitor EXCEPT ![m] = v], k = "mark" => v = "watch"
  PROVE  RecordInv'
<1>1. /\ LoopAlone' /\ \A h \in Handlers : Recording(h)' <=> Recording(h)
      /\ \A h \in Handlers : Recording(h) => Task(h)' = Task(h) /\ About(h)' = About(h)
  BY RecordersStay DEF RecordInv, SameRecords
<1>2. \A h \in Handlers : <<k, m>> # Task(h)
  BY DEF Task
<1>3. /\ Head(saves) = <<k, m>> /\ saves # <<>> /\ saves' = Tail(saves)
      /\ image # NoImage /\ image' = NoImage /\ disk' \in {disk, image}
  BY DEF Wrote, WriteFailed, WriteEnds
<1>4. /\ Len(saves) \in Nat \ {0} /\ Len(saves') = Len(saves) - 1
      /\ \A i \in 1..Len(saves') : i + 1 \in 2..Len(saves) /\ saves'[i] = saves[i + 1]
      /\ \A i \in 2..Len(saves) : i - 1 \in 1..Len(saves') /\ saves'[i - 1] = saves[i]
      /\ saves[1] = <<k, m>> /\ 1 \in 1..Len(saves)
  BY <1>3, QueueShrinks
<1>5. monitor'[m] = v /\ \A n \in Messages : n # m => monitor'[n] = monitor[n]
  BY DEF TypeOK, MonitorTypes
<1>6. \A i \in 2..Len(saves) : saves[i] # <<"mark", m>> /\ saves[i] # <<"clear", m>>
  <2>1. monitor[m] = IF k = "mark" THEN "marking" ELSE "clearing"
    BY <1>4 DEF RecordInv, Owned
  <2> SUFFICES ASSUME NEW i \in 2..Len(saves), saves[i] = <<"mark", m>> \/ saves[i] = <<"clear", m>>
               PROVE  FALSE
    OBVIOUS
  <2>2. i \in 1..Len(saves) /\ i # 1
    BY <1>4
  <2>3. saves[i] = <<k, m>>
    BY <2>1, <2>2 DEF RecordInv, Owned
  <2>4. saves[1][1] \in {"record", "mark", "clear"}
    BY <1>4
  <2> QED
    BY <1>4, <2>2, <2>3, <2>4 DEF RecordInv, Once
<1>7. MarkHeld'
  BY <1>3, <1>5 DEF RecordInv, MarkHeld, Held
<1>8. Owned'
  <2> SUFFICES ASSUME NEW i \in 1..Len(saves')
               PROVE  /\ saves'[i][1] = "record" => \E h \in Handlers : Recording(h) /\ saves'[i] = Task(h)
                      /\ \A n \in Messages : /\ saves'[i] = <<"mark", n>> => monitor'[n] = "marking"
                                             /\ saves'[i] = <<"clear", n>> => monitor'[n] = "clearing"
    BY <1>1 DEF Owned
  <2>1. i + 1 \in 2..Len(saves) /\ i + 1 \in 1..Len(saves) /\ saves'[i] = saves[i + 1]
    BY <1>4
  <2> QED
    BY <1>5, <1>6, <2>1 DEF RecordInv, Owned
<1>9. Once'
  BY <1>4 DEF RecordInv, Once
<1>10. \A h \in Handlers : Recording(h) => About(h) \in Messages
  BY GatewayAssumption DEF Recording, About, TypeOK, IngestTypes, GatewayAssumption, Nobody
<1>11. Waiting'
  <2> SUFFICES ASSUME NEW h \in Handlers, Recording(h)
               PROVE  /\ \E i \in 1..Len(saves') : saves'[i] = Task(h)
                      /\ \/ state.monitors[About(h)] # "none"
                         \/ /\ monitor'[About(h)] # "none"
                            /\ \A i, j \in 1..Len(saves') :
                                 saves'[i] = <<"clear", About(h)>> /\ saves'[j] = Task(h) => j < i
    BY <1>1 DEF Waiting, ClearFollows
  <2>1. PICK i \in 1..Len(saves) : saves[i] = Task(h)
    BY DEF RecordInv, Waiting
  <2>2. i - 1 \in 1..Len(saves') /\ saves'[i - 1] = Task(h)
    <3>1. saves[1] # Task(h)
      BY <1>2, <1>4
    <3> QED
      BY <1>3, <2>1, <3>1, MovesUp
  <2>3. ASSUME state.monitors[About(h)] = "none"
        PROVE  monitor'[About(h)] # "none" /\ ClearFollows(h)
    <3>1. monitor[About(h)] # "none" /\ ClearFollows(h)
      BY <2>3 DEF RecordInv, Waiting
    <3>2. ~(About(h) = m /\ k = "clear")
      BY <1>4, <2>1, <3>1 DEF ClearFollows
    <3> QED
      BY <1>5, <1>10, <3>1, <3>2
  <2>4. ASSUME ClearFollows(h)
        PROVE  \A j, n \in 1..Len(saves') :
                 saves'[j] = <<"clear", About(h)>> /\ saves'[n] = Task(h) => n < j
    BY <1>3, <2>4, ShiftedClear
  <2> QED
    BY <2>2, <2>3, <2>4
<1>12. Imaged'
  BY <1>3 DEF Imaged
<1> QED
  BY <1>1, <1>7, <1>8, <1>9, <1>11, <1>12 DEF RecordInv

(* A handler takes the record of its event into memory and asks for its write.*)
LEMMA RecordAsked ==
  ASSUME TypeOK, RecordInv, NEW h \in Handlers, NEW e \in Events, At(h, e, "posting"),
         Parall \/ h = SlackLoop,
         ingest' = [ingest EXCEPT ![h] = [event |-> e, pc |-> "recording"]],
         state'.monitors = [state.monitors EXCEPT ![MessageOf[e]] = "new"],
         Save(IF Parall THEN <<"record", h>> ELSE <<"record", e>>),
         UNCHANGED <<provider, up, disk, image, monitor, mark>>
  PROVE  RecordInv'
<1> DEFINE t == IF Parall THEN <<"record", h>> ELSE <<"record", e>>
           m == MessageOf[e]
<1>1. t \in Tasks /\ t[1] = "record" /\ \A n : t # <<"mark", n>> /\ t # <<"clear", n>>
  BY TaskKinds
<1>2. /\ ingest'[h] = [event |-> e, pc |-> "recording"]
      /\ \A g \in Handlers : g # h => ingest'[g] = ingest[g]
      /\ ingest[h].pc = "posting"
  BY DEF TypeOK, IngestTypes, At
<1>3. Recording(h)' /\ ~Recording(h) /\ Task(h)' = t /\ About(h)' = m
  BY <1>2 DEF Recording, Task, About
<1>4. \A g \in Handlers : g # h => /\ Recording(g)' <=> Recording(g)
                                   /\ Task(g)' = Task(g) /\ About(g)' = About(g)
  BY <1>2 DEF Recording, Task, About
<1>5. LoopAlone'
  BY <1>2 DEF RecordInv, LoopAlone
<1>6. \A g \in Handlers : Recording(g) => g # h /\ Task(g) # t
  BY <1>3 DEF RecordInv, LoopAlone, Recording, Nobody, Task
<1>7. \A i \in 1..Len(saves) : saves[i] # t
  <2> SUFFICES ASSUME NEW i \in 1..Len(saves), saves[i] = t PROVE FALSE
    OBVIOUS
  <2> HIDE DEF t
  <2>1. \E g \in Handlers : Recording(g) /\ saves[i] = Task(g)
    BY <1>1 DEF RecordInv, Owned
  <2> QED
    BY <1>6, <2>1
<1>8. m \in Messages
  BY GatewayAssumption DEF GatewayAssumption
<1>9. state'.monitors[m] = "new"
      /\ \A n \in Messages : state.monitors[n] # "none" => state'.monitors[n] # "none"
  BY <1>8 DEF TypeOK, StateTypes, StateOK
<1>10. \A g \in Handlers : Recording(g) => About(g) \in Messages
  BY GatewayAssumption DEF Recording, About, TypeOK, IngestTypes, GatewayAssumption, Nobody
<1> HIDE DEF t, m
<1>11. /\ Len(saves) \in Nat /\ Len(saves') = Len(saves) + 1 /\ saves'[Len(saves) + 1] = t
       /\ \A i \in 1..Len(saves) : saves'[i] = saves[i]
       /\ \A i \in 1..Len(saves') : i \in 1..Len(saves) \/ (i = Len(saves) + 1 /\ saves'[i] = t)
       /\ image # NoImage => 1 \in 1..Len(saves)
  BY <1>1, QueueGrows DEF t
<1>12. MarkHeld'
  BY <1>9 DEF RecordInv, MarkHeld, Held
<1>13. Owned'
  BY <1>1, <1>3, <1>4, <1>6, <1>11 DEF RecordInv, Owned
<1>14. Once'
  BY <1>7, <1>11 DEF RecordInv, Once
<1>15. Waiting'
  <2> SUFFICES ASSUME NEW g \in Handlers, Recording(g)'
               PROVE  /\ \E i \in 1..Len(saves') : saves'[i] = Task(g)'
                      /\ \/ state'.monitors[About(g)'] # "none"
                         \/ monitor[About(g)'] # "none" /\ ClearFollows(g)'
    BY DEF Waiting
  <2>1. CASE g = h
    BY <1>3, <1>9, <1>11, <2>1
  <2>2. CASE g # h
    <3>1. Recording(g) /\ Task(g)' = Task(g) /\ About(g)' = About(g) /\ About(g) \in Messages /\ Task(g) # t
      BY <1>4, <1>6, <1>10, <2>2
    <3>2. ClearFollows(g) => ClearFollows(g)'
      BY <1>1, <1>11, <3>1 DEF ClearFollows
    <3> QED
      BY <1>9, <1>11, <3>1, <3>2 DEF RecordInv, Waiting
  <2> QED
    BY <2>1, <2>2
<1>16. Imaged'
  BY <1>3, <1>4, <1>7, <1>11 DEF RecordInv, Imaged
<1> QED
  BY <1>5, <1>12, <1>13, <1>14, <1>15, <1>16 DEF RecordInv

(* The record is written, and its monitor starts unless there is one; or the  *)
(* write failed, and the handler is done with the event.                      *)
LEMMA RecordWritten ==
  ASSUME TypeOK, RecordInv, NEW h \in Handlers, NEW e \in Events, At(h, e, "recording"),
         UNCHANGED <<provider, up, state, mark>>, ingest'[h].pc # "recording",
         \A g \in Handlers : g # h => ingest'[g] = ingest[g],
         LET t == IF Parall THEN <<"record", h>> ELSE <<"record", e>>
         IN  \/ Wrote(t) /\ monitor' = Started(MessageOf[e], "poll")
             \/ WriteFailed(t) /\ UNCHANGED monitor
  PROVE  RecordInv'
<1> DEFINE m == MessageOf[e]
<1>1. Recording(h) /\ About(h) = m /\ Task(h) = IF Parall THEN <<"record", h>> ELSE <<"record", e>>
  BY DEF At, Recording, About, Task
<1>2. /\ Head(saves) = Task(h) /\ saves # <<>> /\ saves' = Tail(saves)
      /\ image # NoImage /\ image' = NoImage /\ disk' \in {disk, image}
      /\ UNCHANGED monitor \/ (disk' = image /\ monitor' = Started(m, "poll"))
  BY <1>1 DEF Wrote, WriteFailed, WriteEnds
<1>3. /\ Len(saves) \in Nat \ {0} /\ Len(saves') = Len(saves) - 1
      /\ \A i \in 1..Len(saves') : i + 1 \in 2..Len(saves) /\ saves'[i] = saves[i + 1]
      /\ \A i \in 2..Len(saves) : i - 1 \in 1..Len(saves') /\ saves'[i - 1] = saves[i]
      /\ saves[1] = Task(h) /\ 1 \in 1..Len(saves)
  BY <1>2, QueueShrinks
<1>4. ~Recording(h)' /\ \A g \in Handlers : g # h => /\ Recording(g)' <=> Recording(g)
                                                     /\ Task(g)' = Task(g) /\ About(g)' = About(g)
  BY DEF Recording, Task, About
<1>5. LoopAlone'
  BY <1>1 DEF RecordInv, LoopAlone, Recording, Nobody
<1>6. m \in Messages
  BY GatewayAssumption DEF GatewayAssumption
<1> HIDE DEF m
<1>7. \A n \in Messages : \/ monitor'[n] = monitor[n]
                          \/ n = m /\ monitor[n] = "none" /\ monitor'[n] = "poll" /\ disk' = image
  BY <1>2, <1>6 DEF Started, TypeOK, MonitorTypes
<1>8. \A i \in 2..Len(saves) : saves[i] # Task(h)
  <2> SUFFICES ASSUME NEW i \in 2..Len(saves), saves[i] = Task(h) PROVE FALSE
    OBVIOUS
  <2>1. i \in 1..Len(saves) /\ i # 1 /\ saves[i] = saves[1] /\ saves[1][1] = "record"
    BY <1>3, TaskIsRecord
  <2> QED
    BY <1>3, <2>1 DEF RecordInv, Once
<1>9. MarkHeld'
  <2> SUFFICES ASSUME NEW n \in Messages, n \in mark \/ monitor'[n] = "poll"
               PROVE  disk'.monitors[n] # "none" /\ (up => state.monitors[n] # "none")
    BY <1>2 DEF MarkHeld, Held
  <2>1. CASE n \in mark \/ monitor[n] = "poll"
    BY <1>2, <2>1 DEF RecordInv, MarkHeld, Held
  <2>2. CASE n = m /\ monitor[n] = "none" /\ disk' = image
    <3>1. image.monitors[m] # "none"
      BY <1>1, <1>2, <1>3, <2>2 DEF RecordInv, Imaged
    <3>2. state.monitors[m] # "none"
      BY <1>1, <2>2 DEF RecordInv, Waiting
    <3> QED
      BY <2>2, <3>1, <3>2
  <2> QED
    BY <1>7, <2>1, <2>2
<1>10. Owned'
  <2> SUFFICES ASSUME NEW i \in 1..Len(saves')
               PROVE  /\ saves'[i][1] = "record" => \E g \in Handlers : Recording(g)' /\ saves'[i] = Task(g)'
                      /\ \A n \in Messages : /\ saves'[i] = <<"mark", n>> => monitor'[n] = "marking"
                                             /\ saves'[i] = <<"clear", n>> => monitor'[n] = "clearing"
    BY DEF Owned
  <2>1. i + 1 \in 2..Len(saves) /\ i + 1 \in 1..Len(saves) /\ saves'[i] = saves[i + 1]
    BY <1>3
  <2>2. ASSUME saves[i + 1][1] = "record"
        PROVE  \E g \in Handlers : Recording(g)' /\ saves[i + 1] = Task(g)'
    <3>1. PICK g \in Handlers : Recording(g) /\ saves[i + 1] = Task(g)
      BY <2>1, <2>2 DEF RecordInv, Owned
    <3>2. g # h
      BY <1>8, <2>1, <3>1
    <3> QED
      BY <1>4, <3>1, <3>2
  <2>3. \A n \in Messages : /\ saves[i + 1] = <<"mark", n>> => monitor[n] = "marking"
                            /\ saves[i + 1] = <<"clear", n>> => monitor[n] = "clearing"
    BY <2>1 DEF RecordInv, Owned
  <2> QED
    BY <1>7, <2>1, <2>2, <2>3
<1>11. Once'
  BY <1>3 DEF RecordInv, Once
<1>12. Waiting'
  <2> SUFFICES ASSUME NEW g \in Handlers, Recording(g)'
               PROVE  /\ \E i \in 1..Len(saves') : saves'[i] = Task(g)'
                      /\ \/ state.monitors[About(g)'] # "none"
                         \/ monitor'[About(g)'] # "none" /\ ClearFollows(g)'
    BY DEF Waiting
  <2>1. g # h /\ Recording(g) /\ Task(g)' = Task(g) /\ About(g)' = About(g)
    BY <1>4
  <2>2. Task(g) # Task(h)
    BY <1>1, <2>1, OneRecorder DEF RecordInv
  <2>3. PICK i \in 1..Len(saves) : saves[i] = Task(g)
    BY <2>1 DEF RecordInv, Waiting
  <2>4. i - 1 \in 1..Len(saves') /\ saves'[i - 1] = Task(g)
    BY <1>2, <1>3, <2>2, <2>3, MovesUp
  <2>5. About(g) \in Messages
    BY <2>1, GatewayAssumption DEF Recording, About, TypeOK, IngestTypes, GatewayAssumption, Nobody
  <2>6. ClearFollows(g) => ClearFollows(g)'
    <3> SUFFICES ASSUME ClearFollows(g), NEW j \in 1..Len(saves'), NEW n \in 1..Len(saves'),
                        saves'[j] = <<"clear", About(g)>>, saves'[n] = Task(g)
                 PROVE  n < j
      BY <2>1 DEF ClearFollows
    <3> QED
      BY <1>2, ShiftedClear
  <2>7. \/ state.monitors[About(g)] # "none"
        \/ monitor[About(g)] # "none" /\ ClearFollows(g)
    BY <2>1 DEF RecordInv, Waiting
  <2> QED
    BY <1>7, <2>1, <2>4, <2>5, <2>6, <2>7
<1>13. Imaged'
  BY <1>2 DEF Imaged
<1> QED
  BY <1>5, <1>9, <1>10, <1>11, <1>12, <1>13 DEF RecordInv

(* A write begins: the image has what memory has. *)
LEMMA RecordImaged ==
  ASSUME TypeOK, RecordInv, BeginWrite PROVE RecordInv'
<1>1. /\ UNCHANGED <<provider, up, state, disk, saves, ingest, monitor, mark>>
      /\ up /\ image' = state
  BY DEF BeginWrite, outside
<1>2. LoopAlone' /\ Owned' /\ Once' /\ Waiting'
  BY <1>1 DEF RecordInv, LoopAlone, Owned, Once, Waiting, ClearFollows, Recording, Task, About
<1>3. MarkHeld'
  BY <1>1 DEF RecordInv, MarkHeld, Held
<1>4. Imaged'
  BY <1>1 DEF RecordInv, Waiting, Imaged, Recording, Task, About
<1> QED
  BY <1>2, <1>3, <1>4 DEF RecordInv

(* What a process leaves behind, and what the next one begins with. *)
LEMMA RecordsSurvive ==
  ASSUME TypeOK, RecordInv, Crash \/ Start PROVE RecordInv'
<1>1. /\ UNCHANGED <<disk, mark>> /\ saves' = <<>> /\ image' = NoImage
      /\ \A h \in Handlers : ingest'[h] = Nobody
      /\ up' => state' = disk
      /\ \A m \in Messages : monitor'[m] = "poll" => disk.monitors[m] # "none"
  <2>1. CASE Crash
    BY <2>1 DEF Crash, outside
  <2>2. CASE Start
    BY <2>2 DEF Start, outside, TypeOK, DownTypes, StateTypes, StateOK
  <2> QED
    BY <2>1, <2>2
<1>2. \A h \in Handlers : ~Recording(h)'
  BY <1>1 DEF Recording, Nobody
<1>3. LoopAlone' /\ Waiting' /\ Imaged'
  BY <1>1, <1>2 DEF LoopAlone, Waiting, Imaged
<1>4. Owned' /\ Once'
  <2>1. Len(saves') = 0
    BY <1>1
  <2> QED
    BY <2>1 DEF Owned, Once
<1>5. MarkHeld'
  BY <1>1 DEF RecordInv, MarkHeld, Held
<1> QED
  BY <1>3, <1>4, <1>5 DEF RecordInv

----------------------------------------------------------------------------
(* The steps of the gateways, each as one of the above. *)

LEMMA SettleIsQuiet ==
  ASSUME TypeOK, RecordInv, NEW e \in Events, Settle(SlackLoop, e), ~Recording(SlackLoop),
         UNCHANGED <<provider, up, disk, image, monitor, mark>>
  PROVE  RecordInv'
<1>1. state'.monitors = state.monitors
  <2>1. state = [pending |-> state.pending, seen |-> state.seen,
                 monitors |-> state.monitors, sent |-> state.sent]
    BY DEF TypeOK, StateTypes, StateOK
  <2> QED
    BY <2>1 DEF Settle
<1>2. SameRecords
  BY Loop DEF Settle, SameRecords, TypeOK, IngestTypes
<1>3. \E x \in Events \cup Messages \cup Replies \cup Handlers : Save(<<"settle", x>>)
  BY DEF Settle
<1> QED
  BY <1>1, <1>2, <1>3, QuietStep

LEMMA LeavesSame ==
  ASSUME TypeOK, NEW h \in Handlers, ~Recording(h), Parall \/ h = SlackLoop,
         Leaves(h) \/ \E e \in Events, c \in Steps \ {"recording"} : ingest' = [ingest EXCEPT ![h] = [event |-> e, pc |-> c]]
  PROVE  SameRecords
BY DEF Leaves, SameRecords, TypeOK, IngestTypes, Nobody

LEMMA MarkKeepsRecords ==
  ASSUME TypeOK, RecordInv, NEW m \in Messages, Mark(m) \/ MarkUnanswered(m) \/ Marked(m) \/ Forgotten(m)
  PROVE  RecordInv'
<1>1. CASE Mark(m)
  <2>1. state'.monitors = [state.monitors EXCEPT ![m] = "marked"]
    BY <1>1, RecordSet DEF Mark, TypeOK, StateTypes
  <2>2. SameRecords
    BY <1>1 DEF Mark, SameRecords
  <2> QED
    BY <1>1, <2>1, <2>2, MonitorAsks DEF Mark
<1>2. CASE MarkUnanswered(m)
  BY <1>2, QuietStep DEF MarkUnanswered, gateway, SameRecords
<1>3. CASE Marked(m) \/ Forgotten(m)
  BY <1>3, MonitorAnswered DEF Marked, Forgotten, outside
<1> QED
  BY <1>1, <1>2, <1>3

LEMMA ForgetKeepsRecords ==
  ASSUME TypeOK, RecordInv, NEW m \in Messages, monitor[m] = "watch", Forget(m), mark' \subseteq mark \ {m},
         UNCHANGED <<provider, up, disk, image, ingest>>
  PROVE  RecordInv'
<1>1. state'.monitors = [state.monitors EXCEPT ![m] = "none"]
  BY RecordSet DEF Forget, TypeOK, StateTypes
<1> QED
  BY <1>1, MonitorAsks DEF Forget, SameRecords

LEMMA PostKeepsRecords ==
  ASSUME TypeOK, RecordInv, NEW h \in Handlers, NEW e \in Events, At(h, e, "posting"),
         Parall \/ h = SlackLoop, Moves(h, "recording"),
         state' = [state EXCEPT !.monitors[MessageOf[e]] = "new"],
         Save(IF Parall THEN <<"record", h>> ELSE <<"record", e>>),
         UNCHANGED <<provider, up, disk, image, monitor, mark>>
  PROVE  RecordInv'
<1>1. ingest' = [ingest EXCEPT ![h] = [event |-> e, pc |-> "recording"]]
  BY MovesOn DEF Steps
<1>2. state'.monitors = [state.monitors EXCEPT ![MessageOf[e]] = "new"]
  BY GatewayAssumption, RecordSet DEF TypeOK, StateTypes, GatewayAssumption
<1> QED
  BY <1>1, <1>2, RecordAsked

LEMMA SlackKeepsRecords ==
  ASSUME TypeOK, RecordInv, SlackNext PROVE RecordInv'
<1>1. ASSUME NEW e \in Events, SocketFrame(e) PROVE RecordInv'
  <2>1. state'.monitors = state.monitors
    <3>1. StateOK(state)
      BY DEF TypeOK, StateTypes
    <3>2. state' = state \/ \E p : state' = [state EXCEPT !.pending = p]
      BY <1>1 DEF SocketFrame
    <3> QED
      BY <3>1, <3>2 DEF StateOK
  <2> QED
    BY <1>1, <2>1, QuietStep DEF SocketFrame, SameRecords
<1>2. ASSUME NEW e \in Events, Slack, FrameSaved(e) PROVE RecordInv'
  BY <1>2, OtherWritten DEF FrameSaved, SameRecords
<1>3. ASSUME NEW e \in Events, TakePending(e) PROVE RecordInv'
  <2>1. ~Recording(SlackLoop)
    BY <1>3 DEF TakePending, Recording, Nobody
  <2>2. CASE Settle(SlackLoop, e)
    BY <1>3, <2>1, <2>2, SettleIsQuiet DEF TakePending, outside
  <2>3. CASE /\ ingest' = [ingest EXCEPT ![SlackLoop] = [event |-> e, pc |-> "posting"]]
             /\ UNCHANGED <<state, saves>>
    <3>1. SameRecords
      BY <2>1, <2>3, Loop, LeavesSame DEF Steps
    <3> QED
      BY <1>3, <2>3, <3>1, QuietStep DEF TakePending, outside
  <2> QED
    BY <1>3, <2>2, <2>3 DEF TakePending
<1>4. ASSUME NEW e \in Events, SlackPost(e) PROVE RecordInv'
  <2>1. ~Recording(SlackLoop)
    BY <1>4 DEF SlackPost, At, Recording
  <2>2. CASE Settle(SlackLoop, e)
    BY <1>4, <2>1, <2>2, SettleIsQuiet DEF SlackPost
  <2>3. CASE Leaves(SlackLoop) /\ UNCHANGED <<state, saves>>
    <3>1. SameRecords
      BY <2>1, <2>3, Loop, LeavesSame
    <3> QED
      BY <1>4, <2>3, <3>1, QuietStep DEF SlackPost
  <2>4. CASE /\ Moves(SlackLoop, "recording") /\ Save(<<"record", e>>)
             /\ state' = [state EXCEPT !.monitors[MessageOf[e]] = "new"]
    BY <1>4, <2>4, Loop, PostKeepsRecords DEF SlackPost
  <2> QED
    BY <1>4, <2>2, <2>3, <2>4 DEF SlackPost
<1>5. ASSUME NEW e \in Events, SlackRecorded(e) PROVE RecordInv'
  <2>1. ingest'[SlackLoop].pc # "recording" /\ \A g \in Handlers : g # SlackLoop => ingest'[g] = ingest[g]
    <3>1. CASE Moves(SlackLoop, "recorded")
      BY <1>5, <3>1, Loop, MovesOn DEF SlackRecorded, TypeOK, IngestTypes, Steps
    <3>2. CASE Leaves(SlackLoop)
      BY <3>2, Loop DEF Leaves, TypeOK, IngestTypes, Nobody
    <3> QED
      BY <1>5, <3>1, <3>2 DEF SlackRecorded
  <2> QED
    BY <1>5, <2>1, Loop, RecordWritten DEF SlackRecorded, outside
<1>6. ASSUME NEW e \in Events, SlackSettle(e) PROVE RecordInv'
  BY <1>6, SettleIsQuiet DEF SlackSettle, At, Recording, outside
<1>7. ASSUME NEW e \in Events, SlackSettled(e) PROVE RecordInv'
  <2>1. SameRecords
    BY <1>7, Loop, LeavesSame DEF SlackSettled, At, Recording
  <2> QED
    BY <1>7, <2>1, OtherWritten DEF SlackSettled, outside
<1>8. ASSUME NEW m \in Messages, SlackLift(m) PROVE RecordInv'
  <2>1. CASE Forget(m)
    BY <1>8, <2>1, ForgetKeepsRecords DEF SlackLift
  <2>2. CASE UNCHANGED <<state, monitor, saves>>
    BY <1>8, <2>2, QuietStep DEF SlackLift, SameRecords
  <2> QED
    BY <1>8, <2>1, <2>2 DEF SlackLift
<1>9. ASSUME SlackPostPart PROVE RecordInv'
  <2>1. state'.monitors = state.monitors
    <3>1. state = [pending |-> state.pending, seen |-> state.seen,
                   monitors |-> state.monitors, sent |-> state.sent]
      BY DEF TypeOK, StateTypes, StateOK
    <3>2. state' = state \/ \E n : state' = [state EXCEPT !.sent[hand.reply] = n]
      BY <1>9 DEF SlackPostPart
    <3> QED
      BY <3>1, <3>2
  <2>2. hand.reply \in Replies
    BY <1>9 DEF SlackPostPart, TypeOK, HandTypes
  <2> QED
    BY <1>9, <2>1, <2>2, QuietStep DEF SlackPostPart, SameRecords
<1>10. ASSUME SlackPartSaved PROVE RecordInv'
  BY <1>10, OtherWritten DEF SlackPartSaved, SameRecords, outside
<1>11. ASSUME SlackReport PROVE RecordInv'
  BY <1>11, QuietStep DEF SlackReport, ReportSent, SameRecords
<1> QED
  BY <1>1, <1>2, <1>3, <1>4, <1>5, <1>6, <1>7, <1>8, <1>9, <1>10, <1>11, MarkKeepsRecords DEF SlackNext, SlackMark

LEMMA LarkKeepsRecords ==
  ASSUME TypeOK, RecordInv, LarkNext PROVE RecordInv'
<1>1. ASSUME NEW e \in Events, LarkEvent(e) PROVE RecordInv'
  <2>1. SameRecords
    BY <1>1, Loop DEF LarkEvent, SameRecords, Recording, Nobody, TypeOK, IngestTypes
  <2> QED
    BY <1>1, <2>1, QuietStep DEF LarkEvent
<1>2. ASSUME NEW e \in Events, LarkFetch(e) PROVE RecordInv'
  <2>1. ~Recording(SlackLoop)
    BY <1>2, Loop DEF LarkFetch, At, Recording
  <2>2. SameRecords
    BY <1>2, <2>1, Loop, LeavesSame, MovesOn DEF LarkFetch, Steps
  <2> QED
    BY <1>2, <2>2, QuietStep DEF LarkFetch, outside
<1>3. ASSUME NEW e \in Events, LarkPost(e) PROVE RecordInv'
  <2>1. ~Recording(SlackLoop)
    BY <1>3, Loop DEF LarkPost, At, Recording
  <2>2. CASE Leaves(LarkLoop) /\ UNCHANGED <<state, saves>>
    <3>1. SameRecords
      BY <2>1, <2>2, Loop, LeavesSame
    <3> QED
      BY <1>3, <2>2, <3>1, QuietStep DEF LarkPost
  <2>3. CASE /\ Moves(LarkLoop, "recording") /\ Save(<<"record", e>>)
             /\ state' = [state EXCEPT !.monitors[MessageOf[e]] = "new"]
    BY <1>3, <2>3, Loop, PostKeepsRecords DEF LarkPost
  <2> QED
    BY <1>3, <2>2, <2>3 DEF LarkPost
<1>4. ASSUME NEW e \in Events, LarkRecorded(e) PROVE RecordInv'
  <2>1. ingest'[LarkLoop].pc # "recording" /\ \A g \in Handlers : g # LarkLoop => ingest'[g] = ingest[g]
    BY <1>4, Loop DEF LarkRecorded, Leaves, TypeOK, IngestTypes, Nobody
  <2> QED
    BY <1>4, <2>1, Loop, RecordWritten DEF LarkRecorded, outside
<1>5. ASSUME NEW m \in Messages, LarkLift(m) PROVE RecordInv'
  <2>1. CASE Forget(m) /\ mark' = mark \ {m}
    BY <1>5, <2>1, ForgetKeepsRecords DEF LarkLift
  <2>2. CASE UNCHANGED <<mark, state, monitor, saves>>
    BY <1>5, <2>2, QuietStep DEF LarkLift, SameRecords
  <2> QED
    BY <1>5, <2>1, <2>2 DEF LarkLift
<1>6. ASSUME LarkPostReply \/ LarkReport PROVE RecordInv'
  BY <1>6, QuietStep DEF LarkPostReply, LarkReport, ReportSent, SameRecords
<1> QED
  BY <1>1, <1>2, <1>3, <1>4, <1>5, <1>6, MarkKeepsRecords DEF LarkNext, LarkMark

LEMMA TakenKeepsRecords ==
  ASSUME TypeOK, RecordInv, NEW h \in Handlers, NEW e \in Events, Parall,
         TakenBy(h, e) \/ UNCHANGED ingest,
         UNCHANGED <<provider, up, state, disk, saves, image, monitor, mark>>
  PROVE  RecordInv'
<1>1. CASE TakenBy(h, e)
  <2>1. ~Recording(h)
    BY <1>1 DEF TakenBy, Recording, Nobody
  <2>2. SameRecords
    BY <1>1, <2>1, LeavesSame DEF TakenBy, Steps
  <2> QED
    BY <2>2, QuietStep
<1>2. CASE UNCHANGED ingest
  BY <1>2, QuietStep DEF SameRecords
<1> QED
  BY <1>1, <1>2

LEMMA ParallKeepsRecords ==
  ASSUME TypeOK, RecordInv, ParallNext \/ ParallTakesIn PROVE RecordInv'
<1>1. ASSUME NEW h \in Handlers, NEW e \in Events, CatchUp(e) \/ DispatchFrame(h, e) PROVE RecordInv'
  BY <1>1, Loop, TakenKeepsRecords DEF CatchUp, DispatchFrame, ParallLoop, outside
<1>2. ASSUME NEW h \in Handlers, NEW e \in Events, ParallPost(h, e) PROVE RecordInv'
  <2>1. ~Recording(h)
    BY <1>2 DEF ParallPost, At, Recording
  <2>2. CASE Leaves(h) /\ UNCHANGED <<state, saves>>
    <3>1. SameRecords
      BY <1>2, <2>1, <2>2, LeavesSame DEF ParallPost
    <3> QED
      BY <1>2, <2>2, <3>1, QuietStep DEF ParallPost, Acked
  <2>3. CASE /\ Moves(h, "recording") /\ Save(<<"record", h>>) /\ UNCHANGED mark
             /\ state' = [state EXCEPT !.monitors[MessageOf[e]] = "new"]
    BY <1>2, <2>3, PostKeepsRecords DEF ParallPost
  <2> QED
    BY <1>2, <2>2, <2>3 DEF ParallPost, HandlerFails
<1>3. ASSUME NEW h \in Handlers, NEW e \in Events, ParallRecorded(h, e) PROVE RecordInv'
  <2>1. ingest'[h].pc # "recording" /\ \A g \in Handlers : g # h => ingest'[g] = ingest[g]
    BY <1>3 DEF ParallRecorded, HandlerFails, Leaves, TypeOK, IngestTypes, Nobody
  <2> QED
    BY <1>3, <2>1, RecordWritten DEF ParallRecorded, outside
<1>4. ASSUME NEW e \in Events, ParallAck(e) PROVE RecordInv'
  <2>1. MessageOf[e] \in Messages
    BY GatewayAssumption DEF GatewayAssumption
  <2>2. CASE Forget(MessageOf[e])
    BY <1>4, <2>1, <2>2, ForgetKeepsRecords DEF ParallAck, Acked
  <2>3. CASE UNCHANGED <<state, monitor, saves>>
    BY <1>4, <2>3, QuietStep DEF ParallAck, Acked, SameRecords
  <2> QED
    BY <1>4, <2>2, <2>3 DEF ParallAck
<1>5. ASSUME ParallPostReply \/ ParallReport PROVE RecordInv'
  BY <1>5, QuietStep DEF ParallPostReply, ParallReport, ReportSent, SameRecords
<1>6. ASSUME \/ ListDispatches \/ ConnectWebSocket \/ SocketCloses
             \/ \E e \in Events : DispatchMade(e)
      PROVE  RecordInv'
  BY <1>6, QuietStep DEF ListDispatches, ConnectWebSocket, SocketCloses, DispatchMade, gateway, outside, SameRecords
<1>7. ASSUME ParallTakesIn PROVE RecordInv'
  <2>1. \A e \in Events : CatchUp(e) => RecordInv'
    BY <1>1, Loop
  <2> QED
    BY <1>1, <1>2, <1>3, <1>6, <1>7, <2>1 DEF ParallTakesIn
<1> QED
  BY <1>4, <1>5, <1>7, MarkKeepsRecords DEF ParallNext, ParallMark

LEMMA OthersKeepRecords ==
  ASSUME TypeOK, RecordInv,
         \/ ReportFailed \/ UNCHANGED vars
         \/ \E m \in Messages : InboxMoves(m) \/ HubRefuses(m) \/ HubAccepts(m)
         \/ \E r \in Replies : ReplyAgain(r) \/ Receive(r)
  PROVE  RecordInv'
BY QuietStep DEF ReportFailed, InboxMoves, HubRefuses, HubAccepts, ReplyAgain, Receive, vars, gateway, outside, SameRecords

LEMMA InitRecords == Init => RecordInv
<1> SUFFICES ASSUME Init PROVE RecordInv
  OBVIOUS
<1>1. /\ \A h \in Handlers : ingest[h] = Nobody
      /\ mark = {} /\ \A m \in Messages : monitor[m] = "none"
      /\ Len(saves) = 0
  BY DEF Init, RuntimeInit
<1> QED
  BY <1>1 DEF RecordInv, LoopAlone, Owned, Once, MarkHeld, Waiting, Imaged, Recording, Nobody

(* MarkIsRecorded: what the platform shows as being read has its record in    *)
(* the state file, whatever fails and whenever the process dies.              *)
THEOREM MarksAreRecorded == Spec => []MarkIsRecorded
<1>1. ASSUME TypeOK, RecordInv, [Next]_vars PROVE RecordInv'
  BY <1>1, SlackKeepsRecords, LarkKeepsRecords, ParallKeepsRecords, MarkKeepsRecords, RecordImaged,
     RecordsSurvive, OthersKeepRecords DEF Next, Rest
<1>2. TypeOK /\ RecordInv => MarkIsRecorded
  BY DEF RecordInv, MarkHeld, Held, MarkIsRecorded, TypeOK, PlatformTypes
<1> QED
  BY InitRecords, <1>1, <1>2, TypesKept, PTL DEF Spec

=============================================================================
