------------------------ MODULE AgentDelivery_proofs ------------------------
(***************************************************************************)
(* Type correctness of AgentDelivery and two safety properties, for every  *)
(* set of Agents, messages and workers and every bound: a claimed message  *)
(* is in the hands of a worker, and a request is answered only by a reply  *)
(* that reached its sender.                                                *)
(*                                                                         *)
(* TypeOK is inductive: it says of the workers what a step needs to know   *)
(* of the Agent and the message it touches.  The lemmas on the message     *)
(* table come first.                                                       *)
(***************************************************************************)
EXTENDS AgentDelivery, SequenceTheorems, WellFoundedInduction, TLAPS

(***************************************************************************)
(* The message table (AgentMessage).  Every operation keeps it a table of  *)
(* messages, and those of a Turn only move it forward.                     *)
(***************************************************************************)

Table == [Msgs -> Message]

(* The constants the records are filled with are of their fields' types.     *)
LEMMA ConstantTypes ==
  /\ 0 \in TurnId /\ TurnId \subseteq Nat
  /\ {"queued", "delivering", "delivered", "failed", "cancelled"} \subseteq Delivery
  /\ {"none", "reply", "no_reply", "cancelled", "superseded"} \subseteq Resolution
  /\ Agents \subseteq Sender /\ Scheduler \in Sender
BY MessageAssumption DEF TurnId, Delivery, Resolution, Sender

(* A message stays a message when one field takes a value of its type.       *)
LEMMA FieldType ==
  ASSUME NEW msg \in Message
  PROVE  /\ \A s \in {"open", "answered", "closed"} : [msg EXCEPT !.status = s] \in Message
         /\ \A r \in Resolution : [msg EXCEPT !.resolution = r] \in Message
         /\ \A d \in Delivery : [msg EXCEPT !.delivery = d] \in Message
         /\ \A o \in {"none", "turn_start", "turn_steer"} : [msg EXCEPT !.mode = o] \in Message
         /\ \A t \in TurnId : [msg EXCEPT !.turn = t] \in Message
         /\ \A h \in {"pending", "running"} \cup Outcome : [msg EXCEPT !.handling = h] \in Message
         /\ \A q \in Seq(Attempt) : [msg EXCEPT !.attempts = q] \in Message
         /\ \A k \in Nat : [msg EXCEPT !.active = k] \in Message
BY DEF Message

(* What the fields of a message are.                                         *)
LEMMA MessageFields ==
  ASSUME NEW msg \in Message
  PROVE  /\ msg.from \in Sender /\ msg.to \in Sender /\ msg.replyTo \in Msgs \cup {None}
         /\ msg.delivery \in Delivery /\ msg.mode \in {"none", "turn_start", "turn_steer"}
         /\ msg.turn \in TurnId /\ msg.source \in TurnId
         /\ msg.attempts \in Seq(Attempt) /\ msg.active \in Nat
         /\ msg.handling \in {"pending", "running"} \cup Outcome
BY DEF Message

(* The unused record and the two kinds of new record are messages.            *)
LEMMA NewRequestType ==
  ASSUME NEW from \in Sender, NEW to \in Sender, NEW response \in {"required", "none"},
         NEW source \in TurnId
  PROVE  NoMessage \in Message /\ NewRequest(from, to, response, source) \in Message
<1>1. NoMessage \in Message
  BY MessageAssumption DEF NoMessage, Message, Sender, TurnId, Delivery, Resolution
<1>2. QED BY <1>1 DEF NewRequest, Message, Delivery

LEMMA NewReplyType ==
  ASSUME NEW orig \in Msgs, NEW root \in Message, NEW source \in TurnId
  PROVE  NewReply(orig, root, source) \in Message
<1> DEFINE addressed == [NoMessage EXCEPT !.from = root.to, !.to = root.from,
                                          !.replyTo = orig, !.source = source]
           replying == [addressed EXCEPT !.resolution = "reply"]
           delivery == IF root.from = Scheduler THEN "delivered" ELSE "queued"
<1>1. NoMessage \in Message
  BY NewRequestType, ConstantTypes
<1>2. addressed \in Message
  BY <1>1 DEF Message
<1>3. replying \in Message
  BY <1>2, FieldType, ConstantTypes
<1>4. delivery \in Delivery
  BY ConstantTypes
<1>5. NewReply(orig, root, source) = [replying EXCEPT !.delivery = delivery]
  BY DEF NewReply
<1>6. [replying EXCEPT !.delivery = delivery] \in Message
  <2> HIDE DEF replying, delivery
  <2> QED BY <1>3, <1>4, FieldType
<1>7. QED BY <1>5, <1>6

(* Closing, withdrawing, requeueing, delivering and loading a record.         *)
LEMMA ClosedType ==
  ASSUME NEW msg \in Message, NEW resolution \in Resolution
  PROVE  Closed(msg, resolution) \in Message /\ Withdrawn(msg, resolution) \in Message
<1>1. Closed(msg, resolution) \in Message
  BY DEF Closed, Message
<1>2. Closed(msg, resolution).delivery \in Delivery
  BY <1>1, MessageFields
<1>3. QED BY <1>1, <1>2, FieldType, ConstantTypes DEF Withdrawn

LEMMA RequeuedType ==
  ASSUME NEW msg \in Message
  PROVE  Requeued(msg) \in Message
<1> DEFINE queued == [msg EXCEPT !.delivery = "queued", !.mode = "none", !.turn = 0]
           pending == [queued EXCEPT !.handling = "pending"]
<1>1. queued \in Message
  BY ConstantTypes DEF Message
<1>2. pending \in Message
  BY <1>1, FieldType
<1>3. [pending EXCEPT !.active = 0] \in Message
  BY <1>2, FieldType
<1>4. Requeued(msg) = [pending EXCEPT !.active = 0]
  BY DEF Requeued
<1>5. QED BY <1>3, <1>4

LEMMA DeliveredType ==
  ASSUME NEW msg \in Message, NEW mode \in {"none", "turn_start", "turn_steer"},
         NEW turn \in TurnId
  PROVE  Delivered(msg, mode, turn) \in Message /\ Loaded(msg) \in Message
<1>1. Delivered(msg, mode, turn) \in Message
  BY DEF Delivered, Message, Delivery
<1>2. Loaded(msg) = [msg EXCEPT !.delivery = IF msg.delivery = "delivering" THEN "queued"
                                             ELSE msg.delivery]
  BY DEF Loaded
<1>3. (IF msg.delivery = "delivering" THEN "queued" ELSE msg.delivery) \in Delivery
  BY MessageFields, ConstantTypes
<1>4. QED BY <1>1, <1>2, <1>3, FieldType
(* The attempt a Turn's start is recorded in is one of the message's attempts, *)
(* or the next.                                                               *)
LEMMA AttemptOfType ==
  ASSUME NEW msg \in Message, NEW o \in Turn
  PROVE  AttemptOf(msg, o) \in 1..(Len(msg.attempts) + 1)
<1>1. msg.attempts \in Seq(Attempt)
  BY MessageFields
<1>2. Len(msg.attempts) \in Nat /\ DOMAIN msg.attempts = 1..Len(msg.attempts)
  BY <1>1
<1>3. QED BY <1>2 DEF AttemptOf

LEMMA StartedAttemptsType ==
  ASSUME NEW msg \in Message, NEW o \in Turn
  PROVE  StartedAttempts(msg, o) \in Seq(Attempt)
<1> DEFINE k == AttemptOf(msg, o)
<1>1. msg.attempts \in Seq(Attempt) /\ o.id \in TurnId
  BY MessageFields DEF Turn
<1>2. CASE k \notin DOMAIN msg.attempts
  <2>1. [turn |-> o.id, status |-> "running"] \in Attempt
    BY <1>1 DEF Attempt
  <2>2. Append(msg.attempts, [turn |-> o.id, status |-> "running"]) \in Seq(Attempt)
    BY <1>1, <2>1, AppendProperties
  <2>3. QED BY <1>2, <2>2 DEF StartedAttempts
<1>3. CASE k \in DOMAIN msg.attempts
  <2> DEFINE old == msg.attempts[k]
             new == [old EXCEPT !.turn = IF old.turn = 0 THEN o.id ELSE old.turn]
  <2>1. k \in 1..Len(msg.attempts)
    BY <1>1, <1>3
  <2>2. old \in Attempt
    BY <1>1, <2>1, ElementOfSeq
  <2>3. new \in Attempt
    BY <1>1, <2>2 DEF Attempt
  <2>4. [msg.attempts EXCEPT ![k] = new] \in Seq(Attempt)
    BY <1>1, <2>1, <2>3, ExceptSeq
  <2>5. StartedAttempts(msg, o) = [msg.attempts EXCEPT ![k] = new]
    BY <1>3 DEF StartedAttempts
  <2>6. QED BY <2>4, <2>5
<1>4. QED BY <1>2, <1>3

LEMMA StartedType ==
  ASSUME NEW msg \in Message, NEW o \in Turn
  PROVE  Started(msg, o) \in Message
<1> DEFINE mode == IF msg.delivery = "delivering" THEN "turn_start" ELSE msg.mode
           turn == IF msg.delivery = "delivering" THEN o.id ELSE msg.turn
           sent == [msg EXCEPT !.delivery = "delivered", !.mode = mode, !.turn = turn]
           running == [sent EXCEPT !.handling = "running"]
           tried == [running EXCEPT !.attempts = StartedAttempts(msg, o)]
<1>1. /\ mode \in {"none", "turn_start", "turn_steer"}
      /\ turn \in TurnId
  BY MessageFields DEF Turn
<1>2. sent \in Message
  <2> HIDE DEF mode, turn
  <2> QED BY <1>1, ConstantTypes DEF Message
<1>3. running \in Message
  <2> HIDE DEF sent
  <2> QED BY <1>2, FieldType
<1>4. tried \in Message
  <2> HIDE DEF running
  <2> QED BY <1>3, StartedAttemptsType, FieldType
<1>5. AttemptOf(msg, o) \in Nat
  BY AttemptOfType
<1>6. [tried EXCEPT !.active = AttemptOf(msg, o)] \in Message
  <2> HIDE DEF tried
  <2> QED BY <1>4, <1>5, FieldType
<1>7. Started(msg, o) = [tried EXCEPT !.active = AttemptOf(msg, o)]
  BY DEF Started
<1>8. QED BY <1>6, <1>7

(* The table operations. *)

LEMMA AnsweredType ==
  ASSUME NEW c \in Table, NEW r \in Msgs
  PROVE  Answered(c, r) \in Table
<1> DEFINE q == c[r].replyTo
           marked == [c[q] EXCEPT !.status = "answered"]
           done == [marked EXCEPT !.resolution = "reply"]
<1>1. CASE c[r].replyTo # None /\ c[r].delivery = "delivered" /\ c[q].status = "open"
  <2>1. c[r] \in Message
    BY DEF Table
  <2>2. q \in Msgs
    BY <1>1, <2>1, MessageFields
  <2>3. c[q] \in Message
    BY <2>2 DEF Table
  <2>4. marked \in Message
    BY <2>3, FieldType
  <2>5. done \in Message
    <3> HIDE DEF marked
    <3> QED BY <2>4, FieldType, ConstantTypes
  <2>6. Answered(c, r) = [c EXCEPT ![q] = done]
    BY <1>1, <2>2 DEF Answered, Table
  <2>7. QED BY <2>2, <2>5, <2>6 DEF Table
<1>2. CASE ~(c[r].replyTo # None /\ c[r].delivery = "delivered" /\ c[q].status = "open")
  BY <1>2 DEF Answered
<1>3. QED BY <1>1, <1>2

LEMMA RunningType ==
  ASSUME NEW c \in Table, NEW o \in Turn
  PROVE  Running(c, o) \in Table /\ RunningTurn(c, o) \in Turn
<1>1. CASE Markable(c, o)
  <2> DEFINE next == [c EXCEPT ![o.msg] = Started(c[o.msg], o)]
  <2>1. o.msg \in Msgs
    BY <1>1 DEF Markable, Turn
  <2>2. c[o.msg] \in Message
    BY <2>1 DEF Table
  <2>3. next \in Table
    BY <2>1, <2>2, StartedType DEF Table
  <2>4. Answered(next, o.msg) \in Table
    BY <2>1, <2>3, AnsweredType
  <2>5. Running(c, o) \in {next, Answered(next, o.msg)}
    BY <1>1 DEF Running
  <2>6. AttemptOf(c[o.msg], o) \in Nat
    BY <2>2, AttemptOfType, MessageFields
  <2>7. RunningTurn(c, o) \in Turn
    BY <1>1, <2>6 DEF RunningTurn, Turn
  <2>8. QED BY <2>3, <2>4, <2>5, <2>7
<1>2. CASE ~Markable(c, o)
  BY <1>2 DEF Running, RunningTurn
<1>3. QED BY <1>1, <1>2

(* A nonempty set of naturals has a least element.                            *)
LEMMA LeastOfNats ==
  ASSUME NEW T, T \subseteq Nat, T # {}
  PROVE  \E x \in T : \A y \in T : x <= y
<1>1. PICK x \in T : \A y \in T : ~(<<y, x>> \in OpToRel(<, Nat))
  BY NatLessThanWellFounded, WFMin
<1>2. ASSUME NEW y \in T PROVE ~(y < x)
  BY <1>1, <1>2 DEF OpToRel
<1>3. QED BY <1>2

LEMMA EndedAttemptsType ==
  ASSUME NEW msg \in Message, NEW o \in Turn, NEW status \in Outcome
  PROVE  EndedAttempts(msg, o, status) \in Seq(Attempt)
<1> DEFINE own == IF o.attempt # 0 THEN {o.attempt}
                  ELSE IF msg.active # 0 THEN {msg.active}
                  ELSE {j \in DOMAIN msg.attempts : o.id # 0 /\ msg.attempts[j].turn = o.id}
           ks == own \cap DOMAIN msg.attempts
           k == CHOOSE i \in ks : \A j \in ks : i <= j
<1>1. msg.attempts \in Seq(Attempt) /\ o.id \in TurnId
  BY MessageFields DEF Turn
<1>2. CASE ks = {}
  <2>1. [turn |-> o.id, status |-> status] \in Attempt
    BY <1>1 DEF Attempt
  <2>2. Append(msg.attempts, [turn |-> o.id, status |-> status]) \in Seq(Attempt)
    BY <1>1, <2>1, AppendProperties
  <2>3. QED BY <1>2, <2>2 DEF EndedAttempts
<1>3. CASE ks # {}
  <2> DEFINE new == [msg.attempts[k] EXCEPT !.status = status]
  <2>1. ks \subseteq Nat
    BY <1>1
  <2>2. \E i \in ks : \A j \in ks : i <= j
    <3> HIDE DEF ks
    <3> QED BY <1>3, <2>1, LeastOfNats
  <2>3. k \in ks
    BY <2>2
  <2>4. k \in 1..Len(msg.attempts)
    BY <1>1, <2>3
  <2>5. msg.attempts[k] \in Attempt
    BY <1>1, <2>4, ElementOfSeq
  <2>6. new \in Attempt
    BY <2>5 DEF Attempt
  <2>7. [msg.attempts EXCEPT ![k] = new] \in Seq(Attempt)
    BY <1>1, <2>4, <2>6, ExceptSeq
  <2>8. EndedAttempts(msg, o, status) = [msg.attempts EXCEPT ![k] = new]
    BY <1>3 DEF EndedAttempts
  <2>9. QED BY <2>7, <2>8
<1>4. QED BY <1>2, <1>3

(* A message whose Turn is over: failed to deliver, or handled.               *)
LEMMA EndedMessageType ==
  ASSUME NEW msg \in Message, NEW o \in Turn, NEW status \in Outcome
  PROVE  /\ [msg EXCEPT !.delivery = "failed", !.handling = "pending"] \in Message
         /\ [msg EXCEPT !.attempts = EndedAttempts(msg, o, status),
                        !.handling = status, !.active = 0] \in Message
<1>1. [msg EXCEPT !.delivery = "failed", !.handling = "pending"] \in Message
  BY ConstantTypes DEF Message
<1>2. EndedAttempts(msg, o, status) \in Seq(Attempt)
  BY EndedAttemptsType
<1>3. QED BY <1>1, <1>2 DEF Message

LEMMA EndedType ==
  ASSUME NEW c0 \in Table, NEW o0 \in Turn, NEW status \in Outcome
  PROVE  Ended(c0, o0, status) \in Table
<1> DEFINE begun == o0.msg # None /\ o0.id # 0 /\ c0[o0.msg].delivery = "delivering"
           c == IF begun THEN Running(c0, o0) ELSE c0
           o == IF begun THEN RunningTurn(c0, o0) ELSE o0
           lost == [c[o.msg] EXCEPT !.delivery = "failed", !.handling = "pending"]
           done == [c[o.msg] EXCEPT !.attempts = EndedAttempts(c[o.msg], o, status),
                                    !.handling = status, !.active = 0]
<1>1. c \in Table /\ o \in Turn
  BY RunningType
<1>2. CASE o.msg \in Msgs
  <2>1. c[o.msg] \in Message
    <3> HIDE DEF c, o
    <3> QED BY <1>1, <1>2 DEF Table
  <2>2. lost \in Message /\ done \in Message
    <3> HIDE DEF c, o
    <3> QED BY <1>1, <2>1, EndedMessageType
  <2>3. [c EXCEPT ![o.msg] = lost] \in Table /\ [c EXCEPT ![o.msg] = done] \in Table
    <3> HIDE DEF c, o, lost, done
    <3> QED BY <1>1, <2>2 DEF Table
  <2>4. Ended(c0, o0, status) \in
          {c, [c EXCEPT ![o.msg].delivery = "failed", ![o.msg].handling = "pending"],
           [c EXCEPT ![o.msg].attempts = EndedAttempts(c[o.msg], o, status),
                     ![o.msg].handling = status, ![o.msg].active = 0]}
    BY DEF Ended
  <2>5. /\ [c EXCEPT ![o.msg].delivery = "failed", ![o.msg].handling = "pending"]
             = [c EXCEPT ![o.msg] = lost]
        /\ [c EXCEPT ![o.msg].attempts = EndedAttempts(c[o.msg], o, status),
                     ![o.msg].handling = status, ![o.msg].active = 0]
             = [c EXCEPT ![o.msg] = done]
    <3> HIDE DEF c, o
    <3> QED BY <1>1, <1>2 DEF Table
  <2>6. QED
    <3> HIDE DEF c, o, lost, done
    <3> QED BY <1>1, <2>3, <2>4, <2>5
<1>3. CASE o.msg \notin Msgs
  <2>1. o.msg = None
    BY <1>1, <1>3 DEF Turn
  <2>2. Ended(c0, o0, status) = c
    BY <2>1 DEF Ended
  <2>3. QED BY <1>1, <2>2
<1>4. QED BY <1>2, <1>3

LEMMA ReconciledType ==
  ASSUME NEW c \in Table
  PROVE  Reconciled(c) \in Table
<1> SUFFICES ASSUME NEW m \in Msgs PROVE Reconciled(c)[m] \in Message
  BY DEF Reconciled, Table
<1> DEFINE marked == [c[m] EXCEPT !.status = "answered"]
<1>1. c[m] \in Message
  BY DEF Table
<1>2. marked \in Message
  BY <1>1, FieldType
<1>3. [marked EXCEPT !.resolution = "reply"] \in Message
  <2> HIDE DEF marked
  <2> QED BY <1>2, FieldType, ConstantTypes
<1>4. [c[m] EXCEPT !.status = "answered", !.resolution = "reply"]
        = [marked EXCEPT !.resolution = "reply"]
  OBVIOUS
<1>5. Reconciled(c)[m] \in
        {c[m], [c[m] EXCEPT !.status = "answered", !.resolution = "reply"]}
  BY DEF Reconciled
<1>6. QED BY <1>1, <1>3, <1>4, <1>5

LEMMA ReboundTurnType ==
  ASSUME NEW c \in Table, NEW o \in Turn, NEW id \in TurnId
  PROVE  /\ [o EXCEPT !.id = id] \in Turn
         /\ ReboundTurn(c, o, id) \in Turn
         /\ Running(c, [o EXCEPT !.id = id]) \in Table
<1>1. [o EXCEPT !.id = id] \in Turn
  BY DEF Turn
<1>2. QED BY <1>1, RunningType DEF ReboundTurn

(* An attempt that takes the announced id stays an attempt.                   *)
LEMMA ReboundAttemptsType ==
  ASSUME NEW q \in Seq(Attempt), NEW k, NEW old \in TurnId, NEW id \in TurnId
  PROVE  ReboundAttempts(q, k, old, id) \in Seq(Attempt)
<1> DEFINE new(j) == IF j = k /\ q[j].turn \in {0, old} THEN [q[j] EXCEPT !.turn = id] ELSE q[j]
<1>1. DOMAIN q = 1..Len(q) /\ Len(q) \in Nat
  OBVIOUS
<1>2. ASSUME NEW j \in 1..Len(q) PROVE new(j) \in Attempt
  <2>1. q[j] \in Attempt
    BY <1>2, ElementOfSeq
  <2>2. QED BY <2>1 DEF Attempt
<1>3. [j \in 1..Len(q) |-> new(j)] \in Seq(Attempt)
  <2> HIDE DEF new
  <2> QED BY <1>1, <1>2, IsASeq
<1>4. QED BY <1>1, <1>3 DEF ReboundAttempts

LEMMA ReboundType ==
  ASSUME NEW c0 \in Table, NEW o \in Turn, NEW id \in TurnId
  PROVE  Rebound(c0, o, id) \in Table
<1> DEFINE c == Running(c0, [o EXCEPT !.id = id])
           k == IF ReboundTurn(c0, o, id).attempt # 0 THEN ReboundTurn(c0, o, id).attempt
                ELSE IF o.msg = None THEN 0 ELSE c[o.msg].active
           msg == c[o.msg]
           turn == IF msg.turn \in {0, o.id} THEN id ELSE msg.turn
           tries == ReboundAttempts(msg.attempts, k, o.id, id)
           named == [msg EXCEPT !.turn = turn]
           tried == [named EXCEPT !.attempts = tries]
<1>1. c \in Table
  BY ReboundTurnType
<1>2. CASE o.msg = None
  BY <1>1, <1>2 DEF Rebound
<1>3. CASE o.msg # None
  <2>1. o.msg \in Msgs
    BY <1>3 DEF Turn
  <2>2. msg \in Message
    <3> HIDE DEF c
    <3> QED BY <1>1, <2>1 DEF Table
  <2>3. msg.attempts \in Seq(Attempt) /\ msg.turn \in TurnId
    <3> HIDE DEF msg
    <3> QED BY <2>2, MessageFields
  <2>4. tries \in Seq(Attempt)
    <3>1. o.id \in TurnId
      BY DEF Turn
    <3>2. QED
      <4> HIDE DEF msg, k
      <4> QED BY <2>3, <3>1, ReboundAttemptsType
  <2>5. turn \in TurnId
    <3> HIDE DEF msg
    <3> QED BY <2>3
  <2>6. named \in Message
    <3> HIDE DEF msg, turn
    <3> QED BY <2>2, <2>5, FieldType
  <2>7. tried \in Message
    <3> HIDE DEF named, tries
    <3> QED BY <2>4, <2>6, FieldType
  <2>8. [c EXCEPT ![o.msg] = tried] \in Table
    <3> HIDE DEF c, tried
    <3> QED BY <1>1, <2>7 DEF Table
  <2>9. Rebound(c0, o, id) = [c EXCEPT ![o.msg] = tried]
    <3>1. Rebound(c0, o, id) =
            [c EXCEPT ![o.msg].turn = turn, ![o.msg].attempts = tries]
      BY <1>3 DEF Rebound
    <3>2. [c EXCEPT ![o.msg].turn = turn, ![o.msg].attempts = tries]
            = [c EXCEPT ![o.msg] = tried]
      <4> HIDE DEF c, turn, tries
      <4> QED BY <1>1, <2>1 DEF Table
    <3>3. QED BY <3>1, <3>2
  <2>10. QED BY <2>8, <2>9
<1>4. QED BY <1>2, <1>3
----------------------------------------------------------------------------
(* What a Turn may do to the message table, as one relation: Progress(c, d).   *)
(* Starting, renaming and ending a Turn, and answering a request, never queue, *)
(* claim or forget a message, and a request they answer has a reply that       *)
(* reached the asking Agent.                                                   *)

(* A message reached its recipient.                                           *)
Arrived(msg) == msg.delivery = "delivered" \/ msg.attempts # <<>>

Advanced(x, y) ==
  /\ y.replyTo = x.replyTo /\ y.response = x.response
  /\ x.attempts # <<>> => y.attempts # <<>>
  /\ \/ y.delivery = x.delivery
     \/ y.delivery = "delivered" /\ y.attempts # <<>>
     \/ x.delivery \in {"queued", "delivering"} /\ y.delivery = "failed"

SameAnswer(x, y) == y.status = x.status /\ y.resolution = x.resolution

Progress(c, d) ==
  \A m \in Msgs :
    /\ Advanced(c[m], d[m])
    /\ c[m].delivery = "absent" => d[m].delivery = "absent"
    /\ \/ SameAnswer(c[m], d[m])
       \/ /\ c[m].status = "open" /\ d[m].status = "answered"
          /\ \E r \in Msgs : c[r].replyTo = m /\ Arrived(d[r])

(* What a Turn may make of the record x of any message: it is delivered or has *)
(* failed if it was claimed, is handled only if a Turn took it, and is never   *)
(* marked as steered.                                                          *)
Touched(x, y) ==
  /\ y.from = x.from /\ y.to = x.to /\ y.source = x.source /\ y.replyTo = x.replyTo
  /\ y.delivery = x.delivery
     \/ (x.delivery = "delivering" /\ y.delivery \in {"delivered", "failed"})
  /\ x.delivery \notin {"delivering", "delivered"} => y.handling = x.handling
  /\ y.delivery = "delivering" => y.handling = x.handling
  /\ y.mode = "turn_steer" => x.mode = "turn_steer"

(* At most the answer of the record changes.                                  *)
Apart(x, y) ==
  /\ y.from = x.from /\ y.to = x.to /\ y.source = x.source /\ y.replyTo = x.replyTo
  /\ y.delivery = x.delivery /\ y.mode = x.mode /\ y.turn = x.turn
  /\ y.handling = x.handling /\ y.attempts = x.attempts

(* The record of a Turn that ends.                                            *)
Closing(x, y) ==
  /\ Advanced(x, y) /\ SameAnswer(x, y) /\ Touched(x, y) /\ y.turn = x.turn
  /\ Arrived(y) => Arrived(x)

LEMMA AdvancedTransitive ==
  ASSUME NEW x, NEW y, NEW z, Advanced(x, y), Advanced(y, z)
  PROVE  Advanced(x, z)
BY DEF Advanced

LEMMA ArrivedStays ==
  ASSUME NEW x, NEW y, Advanced(x, y), Arrived(x)
  PROVE  Arrived(y)
BY DEF Advanced, Arrived

LEMMA ProgressReflexive ==
  ASSUME NEW c
  PROVE  Progress(c, c)
BY DEF Progress, Advanced, SameAnswer

LEMMA ProgressTransitive ==
  ASSUME NEW c, NEW d, NEW e, Progress(c, d), Progress(d, e)
  PROVE  Progress(c, e)
<1> SUFFICES ASSUME NEW m \in Msgs
             PROVE  /\ Advanced(c[m], e[m])
                    /\ c[m].delivery = "absent" => e[m].delivery = "absent"
                    /\ \/ SameAnswer(c[m], e[m])
                       \/ /\ c[m].status = "open" /\ e[m].status = "answered"
                          /\ \E r \in Msgs : c[r].replyTo = m /\ Arrived(e[r])
  BY DEF Progress
<1>1. Advanced(c[m], d[m]) /\ Advanced(d[m], e[m])
  BY DEF Progress
<1>2. Advanced(c[m], e[m])
  BY <1>1, AdvancedTransitive
<1>3. c[m].delivery = "absent" => e[m].delivery = "absent"
  BY DEF Progress
<1>4. CASE SameAnswer(d[m], e[m])
  <2>1. CASE SameAnswer(c[m], d[m])
    BY <1>2, <1>3, <1>4, <2>1 DEF SameAnswer
  <2>2. CASE /\ c[m].status = "open" /\ d[m].status = "answered"
             /\ \E r \in Msgs : c[r].replyTo = m /\ Arrived(d[r])
    <3>1. PICK r \in Msgs : c[r].replyTo = m /\ Arrived(d[r])
      BY <2>2
    <3>2. Arrived(e[r])
      BY <3>1, ArrivedStays DEF Progress
    <3>3. QED BY <1>2, <1>3, <1>4, <2>2, <3>1, <3>2 DEF SameAnswer
  <2>3. QED BY <2>1, <2>2 DEF Progress
<1>5. CASE /\ d[m].status = "open" /\ e[m].status = "answered"
           /\ \E r \in Msgs : d[r].replyTo = m /\ Arrived(e[r])
  <2>1. PICK r \in Msgs : d[r].replyTo = m /\ Arrived(e[r])
    BY <1>5
  <2>2. c[r].replyTo = m
    BY <2>1 DEF Progress, Advanced
  <2>3. c[m].status = "open"
    BY <1>5 DEF Progress, SameAnswer
  <2>4. QED BY <1>2, <1>3, <1>5, <2>1, <2>2, <2>3
<1>6. QED BY <1>4, <1>5 DEF Progress

(* One record advances and keeps its answer: the table progresses.            *)
LEMMA RecordProgress ==
  ASSUME NEW c \in Table, NEW m \in Msgs, NEW new \in Message,
         Advanced(c[m], new), SameAnswer(c[m], new),
         c[m].delivery = "absent" => new.delivery = "absent"
  PROVE  Progress(c, [c EXCEPT ![m] = new])
<1>2. ASSUME NEW k \in Msgs, k # m PROVE [c EXCEPT ![m] = new][k] = c[k]
  BY <1>2 DEF Table
<1>3. [c EXCEPT ![m] = new][m] = new
  BY DEF Table
<1>4. ASSUME NEW k \in Msgs
      PROVE  /\ Advanced(c[k], [c EXCEPT ![m] = new][k])
             /\ c[k].delivery = "absent" => [c EXCEPT ![m] = new][k].delivery = "absent"
             /\ SameAnswer(c[k], [c EXCEPT ![m] = new][k])
  <2>1. Advanced(c[k], c[k]) /\ SameAnswer(c[k], c[k])
    BY DEF Advanced, SameAnswer
  <2>2. QED BY <1>2, <1>3, <2>1
<1>5. QED BY <1>4 DEF Progress

LEMMA AnsweredProgress ==
  ASSUME NEW c \in Table, NEW r \in Msgs
  PROVE  Progress(c, Answered(c, r))
<1> DEFINE q == c[r].replyTo
           done == [c[q] EXCEPT !.status = "answered", !.resolution = "reply"]
<1>1. CASE c[r].replyTo # None /\ c[r].delivery = "delivered" /\ c[q].status = "open"
  <2>1. c[r] \in Message
    BY DEF Table
  <2>2. q \in Msgs /\ c[q] \in Message
    BY <1>1, <2>1, MessageFields DEF Table
  <2>3. Answered(c, r) = [c EXCEPT ![q] = done]
    BY <1>1, <2>2 DEF Answered, Table
  <2>4. /\ done.status = "answered" /\ done.replyTo = c[q].replyTo /\ done.response = c[q].response
        /\ done.attempts = c[q].attempts /\ done.delivery = c[q].delivery
    BY <2>2 DEF Message
  <2> DEFINE d == [c EXCEPT ![q] = done]
  <2>6. d[q] = done /\ \A k \in Msgs : k # q => d[k] = c[k]
    BY <2>2 DEF Table
  <2>7. Arrived(d[r])
    <3>1. Arrived(c[r])
      BY <1>1 DEF Arrived
    <3>2. QED BY <2>4, <2>6, <3>1 DEF Arrived
  <2>8. ASSUME NEW m \in Msgs
        PROVE  /\ Advanced(c[m], d[m])
               /\ c[m].delivery = "absent" => d[m].delivery = "absent"
               /\ \/ SameAnswer(c[m], d[m])
                  \/ /\ c[m].status = "open" /\ d[m].status = "answered"
                     /\ \E k \in Msgs : c[k].replyTo = m /\ Arrived(d[k])
    <3> HIDE DEF d
    <3>1. CASE m = q
      BY <1>1, <2>4, <2>6, <2>7, <3>1 DEF Advanced
    <3>2. CASE m # q
      BY <2>6, <3>2 DEF Advanced, SameAnswer
    <3>3. QED BY <3>1, <3>2
  <2>9. QED BY <2>3, <2>8 DEF Progress
<1>2. CASE ~(c[r].replyTo # None /\ c[r].delivery = "delivered" /\ c[q].status = "open")
  BY <1>2, ProgressReflexive DEF Answered
<1>3. QED BY <1>1, <1>2

LEMMA StartedAdvanced ==
  ASSUME NEW msg \in Message, NEW o \in Turn, msg.delivery \in {"delivering", "delivered"}
  PROVE  /\ Advanced(msg, Started(msg, o)) /\ SameAnswer(msg, Started(msg, o))
         /\ Started(msg, o).delivery = "delivered" /\ Started(msg, o).attempts # <<>>
<1>1. msg.attempts \in Seq(Attempt)
  BY MessageFields
<1>2. StartedAttempts(msg, o) # <<>>
  <2> DEFINE k == AttemptOf(msg, o)
  <2>1. CASE k \notin DOMAIN msg.attempts
    <3>1. StartedAttempts(msg, o) = Append(msg.attempts, [turn |-> o.id, status |-> "running"])
      BY <2>1 DEF StartedAttempts
    <3>2. QED BY <1>1, <3>1
  <2>2. CASE k \in DOMAIN msg.attempts
    <3>1. DOMAIN StartedAttempts(msg, o) = DOMAIN msg.attempts
      BY <2>2 DEF StartedAttempts
    <3>2. QED BY <1>1, <2>2, <3>1
  <2>3. QED BY <2>1, <2>2
<1> DEFINE q == StartedAttempts(msg, o)
<1> HIDE DEF q
<1>3. /\ Started(msg, o).delivery = "delivered" /\ Started(msg, o).attempts = q
      /\ Started(msg, o).replyTo = msg.replyTo /\ Started(msg, o).response = msg.response
      /\ Started(msg, o).status = msg.status /\ Started(msg, o).resolution = msg.resolution
  BY DEF Started, Message, q
<1>4. q # <<>>
  BY <1>2 DEF q
<1>5. QED BY <1>3, <1>4 DEF Advanced, SameAnswer

LEMMA RunningProgress ==
  ASSUME NEW c \in Table, NEW o \in Turn
  PROVE  Progress(c, Running(c, o))
<1>1. CASE ~Markable(c, o)
  BY <1>1, ProgressReflexive DEF Running
<1>2. CASE Markable(c, o)
  <2> DEFINE new == Started(c[o.msg], o)
             next == [c EXCEPT ![o.msg] = new]
  <2>1. o.msg \in Msgs /\ c[o.msg] \in Message /\ c[o.msg].delivery \in {"delivering", "delivered"}
    BY <1>2 DEF Markable, Turn, Table
  <2>2. new \in Message /\ Advanced(c[o.msg], new) /\ SameAnswer(c[o.msg], new)
    BY <2>1, StartedType, StartedAdvanced
  <2>3. Running(c, o) = IF c[o.msg].delivery = "delivering" THEN Answered(next, o.msg) ELSE next
    BY <1>2 DEF Running
  <2> HIDE DEF new
  <2>4. next \in Table
    BY <2>1, <2>2 DEF Table
  <2>5. Progress(c, next)
    BY <2>1, <2>2, RecordProgress
  <2> HIDE DEF next
  <2>6. Progress(next, Answered(next, o.msg))
    BY <2>1, <2>4, AnsweredProgress
  <2>7. Progress(c, Answered(next, o.msg))
    BY <2>5, <2>6, ProgressTransitive
  <2>8. QED BY <2>3, <2>5, <2>7
<1>3. QED BY <1>1, <1>2

LEMMA EndedAttemptsKept ==
  ASSUME NEW msg \in Message, NEW o \in Turn, NEW status \in Outcome, msg.attempts # <<>>
  PROVE  EndedAttempts(msg, o, status) # <<>>
<1>1. msg.attempts \in Seq(Attempt)
  BY MessageFields
<1>2. \/ EndedAttempts(msg, o, status)
           = Append(msg.attempts, [turn |-> o.id, status |-> status])
      \/ DOMAIN EndedAttempts(msg, o, status) = DOMAIN msg.attempts
  BY DEF EndedAttempts
<1>3. CASE EndedAttempts(msg, o, status)
             = Append(msg.attempts, [turn |-> o.id, status |-> status])
  BY <1>1, <1>3
<1>4. CASE DOMAIN EndedAttempts(msg, o, status) = DOMAIN msg.attempts
  <2>1. Len(msg.attempts) # 0 /\ DOMAIN msg.attempts = 1..Len(msg.attempts)
    BY <1>1
  <2>2. 1 \in DOMAIN EndedAttempts(msg, o, status)
    BY <1>1, <1>4, <2>1
  <2>3. QED BY <2>2
<1>5. QED BY <1>2, <1>3, <1>4

(* The end of a Turn is, after a late start if need be, a change of the one    *)
(* record the Turn handles.                                                   *)
LEMMA EndedRecord ==
  ASSUME NEW c0 \in Table, NEW o0 \in Turn, NEW status \in Outcome
  PROVE  \E c \in Table :
           /\ \/ c = c0
              \/ /\ c = Running(c0, o0) /\ o0.msg \in Msgs /\ o0.id # 0
                 /\ c0[o0.msg].delivery = "delivering"
           /\ \/ Ended(c0, o0, status) = c
              \/ /\ o0.msg \in Msgs
                 /\ \E new \in Message : /\ Ended(c0, o0, status) = [c EXCEPT ![o0.msg] = new]
                                         /\ Closing(c[o0.msg], new)
<1> DEFINE begun == o0.msg # None /\ o0.id # 0 /\ c0[o0.msg].delivery = "delivering"
           c == IF begun THEN Running(c0, o0) ELSE c0
           o == IF begun THEN RunningTurn(c0, o0) ELSE o0
           tries == EndedAttempts(c[o.msg], o, status)
           lost == [c[o.msg] EXCEPT !.delivery = "failed", !.handling = "pending"]
           done == [c[o.msg] EXCEPT !.attempts = tries, !.handling = status, !.active = 0]
<1>1. /\ c \in Table /\ o \in Turn
      /\ \/ c = c0
         \/ /\ c = Running(c0, o0) /\ o0.msg \in Msgs /\ o0.id # 0
            /\ c0[o0.msg].delivery = "delivering"
  BY RunningType DEF Turn
<1>2. o.msg = o0.msg
  BY DEF RunningTurn, Turn
<1>3. CASE Ended(c0, o0, status) = c
  <2> HIDE DEF c
  <2> QED BY <1>1, <1>3
<1>4. CASE Ended(c0, o0, status) # c
  <2>1. o0.msg \in Msgs
    <3>1. o.msg # None
      BY <1>4 DEF Ended
    <3>2. QED BY <1>2, <3>1 DEF Turn
  <2>2. c[o0.msg] \in Message
    <3> HIDE DEF c
    <3> QED BY <1>1, <2>1 DEF Table
  <2>3. \/ /\ c[o0.msg].delivery = "delivering"
           /\ Ended(c0, o0, status) =
                [c EXCEPT ![o.msg].delivery = "failed", ![o.msg].handling = "pending"]
        \/ /\ c[o0.msg].delivery = "delivered"
           /\ Ended(c0, o0, status) =
                [c EXCEPT ![o.msg].attempts = tries, ![o.msg].handling = status,
                          ![o.msg].active = 0]
    BY <1>2, <1>4 DEF Ended
  <2>4. /\ [c EXCEPT ![o.msg].delivery = "failed", ![o.msg].handling = "pending"]
             = [c EXCEPT ![o0.msg] = lost]
        /\ [c EXCEPT ![o.msg].attempts = tries, ![o.msg].handling = status,
                     ![o.msg].active = 0]
             = [c EXCEPT ![o0.msg] = done]
    <3> HIDE DEF c, o, tries
    <3> QED BY <1>1, <1>2, <2>1 DEF Table
  <2>5. c[o0.msg].attempts # <<>> => tries # <<>>
    <3> HIDE DEF c, o
    <3> QED BY <1>1, <1>2, <2>2, EndedAttemptsKept
  <2>6. lost \in Message /\ done \in Message
    <3> HIDE DEF c, o
    <3> QED BY <1>1, <1>2, <2>2, EndedMessageType
  <2>7. /\ lost.replyTo = c[o0.msg].replyTo /\ lost.response = c[o0.msg].response
        /\ lost.status = c[o0.msg].status /\ lost.resolution = c[o0.msg].resolution
        /\ lost.attempts = c[o0.msg].attempts /\ lost.delivery = "failed"
        /\ done.replyTo = c[o0.msg].replyTo /\ done.response = c[o0.msg].response
        /\ done.status = c[o0.msg].status /\ done.resolution = c[o0.msg].resolution
        /\ done.attempts = tries /\ done.delivery = c[o0.msg].delivery
        /\ lost.from = c[o0.msg].from /\ lost.to = c[o0.msg].to
        /\ lost.source = c[o0.msg].source /\ lost.mode = c[o0.msg].mode
        /\ lost.turn = c[o0.msg].turn
        /\ done.from = c[o0.msg].from /\ done.to = c[o0.msg].to
        /\ done.source = c[o0.msg].source /\ done.mode = c[o0.msg].mode
        /\ done.turn = c[o0.msg].turn
    <3> HIDE DEF c, o, tries
    <3> QED BY <1>2, <2>2 DEF Message
  <2> HIDE DEF c, o, tries, lost, done
  <2>8. CASE /\ c[o0.msg].delivery = "delivering"
             /\ Ended(c0, o0, status) = [c EXCEPT ![o0.msg] = lost]
    <3>1. Closing(c[o0.msg], lost)
      BY <2>7, <2>8 DEF Closing, Advanced, SameAnswer, Touched, Arrived
    <3>2. QED BY <1>1, <2>1, <2>6, <2>8, <3>1
  <2>9. CASE /\ c[o0.msg].delivery = "delivered"
             /\ Ended(c0, o0, status) = [c EXCEPT ![o0.msg] = done]
    <3>1. Closing(c[o0.msg], done)
      BY <2>5, <2>7, <2>9 DEF Closing, Advanced, SameAnswer, Touched, Arrived
    <3>2. QED BY <1>1, <2>1, <2>6, <2>9, <3>1
  <2>10. QED BY <2>3, <2>4, <2>8, <2>9
<1>5. QED BY <1>3, <1>4

LEMMA EndedProgress ==
  ASSUME NEW c0 \in Table, NEW o0 \in Turn, NEW status \in Outcome
  PROVE  Progress(c0, Ended(c0, o0, status))
<1>1. PICK c \in Table :
        /\ c = c0 \/ c = Running(c0, o0)
        /\ \/ Ended(c0, o0, status) = c
           \/ /\ o0.msg \in Msgs
              /\ \E new \in Message : /\ Ended(c0, o0, status) = [c EXCEPT ![o0.msg] = new]
                                      /\ Closing(c[o0.msg], new)
  BY EndedRecord
<1>2. Progress(c0, c)
  BY <1>1, RunningProgress, ProgressReflexive
<1>3. Progress(c, Ended(c0, o0, status))
  BY <1>1, RecordProgress, ProgressReflexive DEF Closing, Touched
<1>4. QED BY <1>2, <1>3, ProgressTransitive

(* Where replies are closed, the end of a Turn does not answer its message.    *)
LEMMA EndedOwn ==
  ASSUME NEW c0 \in Table, NEW o0 \in Turn, NEW status \in Outcome,
         o0.msg \in Msgs, c0[o0.msg].replyTo # None => c0[o0.msg].status = "closed"
  PROVE  SameAnswer(c0[o0.msg], Ended(c0, o0, status)[o0.msg])
<1> DEFINE m == o0.msg
<1>1. SameAnswer(c0[m], Running(c0, o0)[m])
  <2>1. CASE ~Markable(c0, o0)
    BY <2>1 DEF Running, SameAnswer
  <2>2. CASE Markable(c0, o0)
    <3> DEFINE new == Started(c0[m], o0)
               next == [c0 EXCEPT ![m] = new]
    <3>1. c0[m] \in Message /\ c0[m].delivery \in {"delivering", "delivered"}
      BY <2>2 DEF Markable, Table
    <3>2. SameAnswer(c0[m], new) /\ new.replyTo = c0[m].replyTo
      BY <3>1, StartedAdvanced DEF Advanced
    <3>3. Running(c0, o0) = IF c0[m].delivery = "delivering" THEN Answered(next, m) ELSE next
      BY <2>2 DEF Running
    <3>4. next[m] = new /\ DOMAIN next = Msgs
      BY DEF Table
    <3>5. Answered(next, m)[m] = new
      <4> HIDE DEF new, next
      <4>1. CASE next[m].replyTo # m
        <5> DEFINE q == next[m].replyTo
        <5> HIDE DEF q
        <5>1. q # m
          BY <4>1 DEF q
        <5>2. Answered(next, m) \in
                {next, [next EXCEPT ![q].status = "answered", ![q].resolution = "reply"]}
          BY DEF Answered, q
        <5>3. QED BY <3>4, <5>1, <5>2
      <4>2. CASE next[m].replyTo = m
        <5>1. next[m].status # "open"
          BY <3>2, <3>4, <4>2, MessageAssumption DEF SameAnswer
        <5>2. QED BY <3>4, <4>2, <5>1 DEF Answered
      <4>3. QED BY <4>1, <4>2
    <3>6. QED
      <4> HIDE DEF new, next
      <4> QED BY <3>2, <3>3, <3>4, <3>5
  <2>3. QED BY <2>1, <2>2
<1>2. PICK c \in Table :
        /\ c = c0 \/ c = Running(c0, o0)
        /\ \/ Ended(c0, o0, status) = c
           \/ /\ o0.msg \in Msgs
              /\ \E new \in Message : /\ Ended(c0, o0, status) = [c EXCEPT ![o0.msg] = new]
                                      /\ Closing(c[o0.msg], new)
  BY EndedRecord
<1>3. SameAnswer(c0[m], c[m])
  BY <1>1, <1>2 DEF SameAnswer
<1>4. SameAnswer(c[m], Ended(c0, o0, status)[m])
  BY <1>2 DEF Closing, SameAnswer, Table
<1>5. QED BY <1>3, <1>4 DEF SameAnswer

LEMMA ReboundProgress ==
  ASSUME NEW c0 \in Table, NEW o \in Turn, NEW id \in TurnId
  PROVE  Progress(c0, Rebound(c0, o, id))
<1> DEFINE c == Running(c0, [o EXCEPT !.id = id])
           k == IF ReboundTurn(c0, o, id).attempt # 0 THEN ReboundTurn(c0, o, id).attempt
                ELSE IF o.msg = None THEN 0 ELSE c[o.msg].active
           turn == IF c[o.msg].turn \in {0, o.id} THEN id ELSE c[o.msg].turn
           tries == ReboundAttempts(c[o.msg].attempts, k, o.id, id)
           new == [c[o.msg] EXCEPT !.turn = turn, !.attempts = tries]
<1>1. c \in Table /\ [o EXCEPT !.id = id] \in Turn
  BY ReboundTurnType
<1>2. Progress(c0, c)
  BY <1>1, RunningProgress
<1>3. CASE o.msg = None
  BY <1>2, <1>3 DEF Rebound
<1>4. CASE o.msg # None
  <2>1. o.msg \in Msgs
    BY <1>4 DEF Turn
  <2>2. c[o.msg] \in Message
    <3> HIDE DEF c
    <3> QED BY <1>1, <2>1 DEF Table
  <2>3. tries # <<>> \/ c[o.msg].attempts = <<>>
    <3> HIDE DEF c, k
    <3>1. DOMAIN tries = DOMAIN c[o.msg].attempts /\ c[o.msg].attempts \in Seq(Attempt)
      BY <2>2, MessageFields DEF ReboundAttempts
    <3>2. ASSUME c[o.msg].attempts # <<>> PROVE tries # <<>>
      <4>1. 1 \in DOMAIN c[o.msg].attempts
        BY <3>1, <3>2
      <4>2. 1 \in DOMAIN tries
        BY <3>1, <4>1
      <4>3. QED
        <5> HIDE DEF tries
        <5> QED BY <4>2
    <3>3. QED BY <3>2
  <2>4. Rebound(c0, o, id) = [c EXCEPT ![o.msg] = new]
    <3>1. Rebound(c0, o, id) = [c EXCEPT ![o.msg].turn = turn, ![o.msg].attempts = tries]
      BY <1>4 DEF Rebound
    <3>2. [c EXCEPT ![o.msg].turn = turn, ![o.msg].attempts = tries]
            = [c EXCEPT ![o.msg] = new]
      <4> HIDE DEF c, turn, tries
      <4> QED BY <1>1, <2>1 DEF Table
    <3>3. QED BY <3>1, <3>2
  <2>5. Rebound(c0, o, id) \in Table
    BY ReboundType
  <2>6. new \in Message
    <3>1. new = [c EXCEPT ![o.msg] = new][o.msg]
      <4> HIDE DEF c, new
      <4> QED BY <1>1, <2>1 DEF Table
    <3>2. QED
      <4> HIDE DEF c, new
      <4> QED BY <2>1, <2>4, <2>5, <3>1 DEF Table
  <2>7. Advanced(c[o.msg], new) /\ SameAnswer(c[o.msg], new) /\ new.delivery = c[o.msg].delivery
    <3> HIDE DEF c, turn, tries
    <3> QED BY <2>2, <2>3 DEF Advanced, SameAnswer, Message
  <2>8. Progress(c, [c EXCEPT ![o.msg] = new])
    <3> HIDE DEF c, new
    <3> QED BY <1>1, <2>1, <2>6, <2>7, RecordProgress
  <2>9. QED
    <3> HIDE DEF c, new
    <3> QED BY <1>2, <2>4, <2>8, ProgressTransitive
<1>5. QED BY <1>3, <1>4

----------------------------------------------------------------------------
(* Which records a Turn touches: at most that of its own message, and of the   *)
(* others at most the answer.                                                 *)

Moves(c, d, n) ==
  \A m \in Msgs : Touched(c[m], d[m]) /\ (m # n => Apart(c[m], d[m]))

LEMMA MovesReflexive ==
  ASSUME NEW c, NEW n
  PROVE  Moves(c, c, n)
BY DEF Moves, Touched, Apart

LEMMA MovesTransitive ==
  ASSUME NEW c, NEW d, NEW e, NEW n, Moves(c, d, n), Moves(d, e, n)
  PROVE  Moves(c, e, n)
BY DEF Moves, Touched, Apart

LEMMA RecordMoves ==
  ASSUME NEW c \in Table, NEW n \in Msgs, NEW new, Touched(c[n], new)
  PROVE  Moves(c, [c EXCEPT ![n] = new], n)
BY DEF Moves, Touched, Apart, Table

LEMMA AnsweredApart ==
  ASSUME NEW c \in Table, NEW r \in Msgs
  PROVE  \A m \in Msgs : Apart(c[m], Answered(c, r)[m]) /\ Touched(c[m], Answered(c, r)[m])
<1> DEFINE q == c[r].replyTo
           done == [c[q] EXCEPT !.status = "answered", !.resolution = "reply"]
<1>1. CASE c[r].replyTo # None /\ c[r].delivery = "delivered" /\ c[q].status = "open"
  <2>1. q \in Msgs /\ c[q] \in Message
    BY <1>1, MessageFields DEF Table
  <2>2. Answered(c, r) = [c EXCEPT ![q] = done]
    BY <1>1, <2>1 DEF Answered, Table
  <2>3. Apart(c[q], done)
    BY <2>1 DEF Apart, Message
  <2>4. [c EXCEPT ![q] = done][q] = done
        /\ \A m \in Msgs \ {q} : [c EXCEPT ![q] = done][m] = c[m]
    BY <2>1 DEF Table
  <2> HIDE DEF done
  <2>5. QED BY <2>2, <2>3, <2>4 DEF Apart, Touched
<1>2. CASE ~(c[r].replyTo # None /\ c[r].delivery = "delivered" /\ c[q].status = "open")
  BY <1>2 DEF Answered, Apart, Touched
<1>3. QED BY <1>1, <1>2

(* Codex confirmed a Turn: its message is delivered and handled.               *)
LEMMA RunningMoves ==
  ASSUME NEW c \in Table, NEW o \in Turn
  PROVE  /\ Moves(c, Running(c, o), o.msg)
         /\ \A m \in Msgs : c[m].delivery # "delivering" => Running(c, o)[m].turn = c[m].turn
         /\ Markable(c, o) => /\ Running(c, o)[o.msg].delivery = "delivered"
                              /\ Running(c, o)[o.msg].handling = "running"
                              /\ c[o.msg].delivery = "delivering"
                                   => Running(c, o)[o.msg].turn = o.id
<1>1. CASE ~Markable(c, o)
  BY <1>1, MovesReflexive DEF Running
<1>2. CASE Markable(c, o)
  <2> DEFINE msg == c[o.msg]
             new == Started(msg, o)
             next == [c EXCEPT ![o.msg] = new]
  <2>1. o.msg \in Msgs /\ msg \in Message /\ msg.delivery \in {"delivering", "delivered"}
    BY <1>2 DEF Markable, Turn, Table
  <2>2. new \in Message
    BY <2>1, StartedType
  <2>3. /\ new.from = msg.from /\ new.to = msg.to /\ new.source = msg.source
        /\ new.replyTo = msg.replyTo /\ new.delivery = "delivered" /\ new.handling = "running"
        /\ new.mode = (IF msg.delivery = "delivering" THEN "turn_start" ELSE msg.mode)
        /\ new.turn = (IF msg.delivery = "delivering" THEN o.id ELSE msg.turn)
    <3> HIDE DEF msg
    <3> QED BY <2>1 DEF Started, Message
  <2>4. Running(c, o) = IF msg.delivery = "delivering" THEN Answered(next, o.msg) ELSE next
    BY <1>2 DEF Running
  <2>5. Touched(msg, new)
    <3> HIDE DEF new, msg
    <3> QED BY <2>1, <2>3 DEF Touched
  <2> HIDE DEF new
  <2>6. next \in Table /\ next[o.msg] = new /\ \A m \in Msgs \ {o.msg} : next[m] = c[m]
    BY <2>1, <2>2 DEF Table
  <2>7. Moves(c, next, o.msg)
    BY <2>1, <2>5, RecordMoves
  <2> HIDE DEF next
  <2>8. \A m \in Msgs : Apart(next[m], Answered(next, o.msg)[m])
                        /\ Touched(next[m], Answered(next, o.msg)[m])
    BY <2>1, <2>6, AnsweredApart
  <2>9. Moves(next, Answered(next, o.msg), o.msg)
    BY <2>8 DEF Moves
  <2>10. Moves(c, Running(c, o), o.msg)
    BY <2>4, <2>7, <2>9, MovesTransitive
  <2>11. \A m \in Msgs : Apart(next[m], Running(c, o)[m])
    BY <2>4, <2>8 DEF Apart
  <2>12. QED BY <2>1, <2>3, <2>6, <2>10, <2>11 DEF Apart
<1>3. QED BY <1>1, <1>2

LEMMA EndedMoves ==
  ASSUME NEW c0 \in Table, NEW o0 \in Turn, NEW status \in Outcome
  PROVE  /\ Moves(c0, Ended(c0, o0, status), o0.msg)
         /\ \A m \in Msgs : c0[m].delivery # "delivering"
                              => Ended(c0, o0, status)[m].turn = c0[m].turn
<1>1. PICK c \in Table :
        /\ c = c0 \/ c = Running(c0, o0)
        /\ \/ Ended(c0, o0, status) = c
           \/ /\ o0.msg \in Msgs
              /\ \E new \in Message : /\ Ended(c0, o0, status) = [c EXCEPT ![o0.msg] = new]
                                      /\ Closing(c[o0.msg], new)
  BY EndedRecord
<1>2. Moves(c0, c, o0.msg)
      /\ \A m \in Msgs : c0[m].delivery # "delivering" => c[m].turn = c0[m].turn
  BY <1>1, RunningMoves, MovesReflexive
<1>3. Moves(c, Ended(c0, o0, status), o0.msg)
  BY <1>1, MovesReflexive, RecordMoves DEF Closing
<1>4. \A m \in Msgs : Ended(c0, o0, status)[m].turn = c[m].turn
  BY <1>1 DEF Closing, Table
<1>5. QED BY <1>2, <1>3, <1>4, MovesTransitive

(* A renamed Turn takes the claimed message it carries, and the record of a    *)
(* message under its old id follows.                                          *)
LEMMA ReboundMoves ==
  ASSUME NEW c0 \in Table, NEW o \in Turn, NEW id \in TurnId
  PROVE  LET d == Rebound(c0, o, id)
             n == o.msg
         IN  /\ Moves(c0, d, n)
             /\ n \in Msgs /\ id # 0 /\ c0[n].delivery \in {"delivering", "delivered"}
                  => /\ d[n].delivery = "delivered" /\ d[n].handling = "running"
                     /\ c0[n].delivery = "delivering" \/ c0[n].turn \in {0, o.id}
                          => d[n].turn = id
<1> DEFINE o1 == [o EXCEPT !.id = id]
           c == Running(c0, o1)
           k == IF ReboundTurn(c0, o, id).attempt # 0 THEN ReboundTurn(c0, o, id).attempt
                ELSE IF o.msg = None THEN 0 ELSE c[o.msg].active
           turn == IF c[o.msg].turn \in {0, o.id} THEN id ELSE c[o.msg].turn
           tries == ReboundAttempts(c[o.msg].attempts, k, o.id, id)
           new == [c[o.msg] EXCEPT !.turn = turn, !.attempts = tries]
<1>1. c \in Table /\ o1 \in Turn /\ o1.msg = o.msg /\ o1.id = id
  BY ReboundTurnType DEF Turn
<1> HIDE DEF o1
<1>2. /\ Moves(c0, c, o.msg)
      /\ (\A m \in Msgs : c0[m].delivery # "delivering" => c[m].turn = c0[m].turn)
      /\ Markable(c0, o1) =>
           /\ c[o.msg].delivery = "delivered" /\ c[o.msg].handling = "running"
           /\ c0[o.msg].delivery = "delivering" => c[o.msg].turn = id
  BY <1>1, RunningMoves
<1>3. CASE o.msg = None
  BY <1>2, <1>3, MessageAssumption DEF Rebound, o1
<1>4. CASE o.msg # None
  <2>1. o.msg \in Msgs
    BY <1>4 DEF Turn
  <2>2. c[o.msg] \in Message
    <3> HIDE DEF c
    <3> QED BY <1>1, <2>1 DEF Table
  <2>3. Rebound(c0, o, id) = [c EXCEPT ![o.msg] = new]
    <3>1. Rebound(c0, o, id) = [c EXCEPT ![o.msg].turn = turn, ![o.msg].attempts = tries]
      BY <1>4 DEF Rebound, o1
    <3>2. [c EXCEPT ![o.msg].turn = turn, ![o.msg].attempts = tries]
            = [c EXCEPT ![o.msg] = new]
      <4> HIDE DEF c, turn, tries
      <4> QED BY <1>1, <2>1 DEF Table
    <3>3. QED BY <3>1, <3>2
  <2>4. /\ Touched(c[o.msg], new) /\ new.delivery = c[o.msg].delivery
        /\ new.handling = c[o.msg].handling /\ new.turn = turn
    <3> HIDE DEF c, turn, tries
    <3> QED BY <2>2 DEF Touched, Message
  <2>5. Moves(c, Rebound(c0, o, id), o.msg) /\ Rebound(c0, o, id)[o.msg] = new
    <3> HIDE DEF c, new, turn, tries
    <3>1. Moves(c, [c EXCEPT ![o.msg] = new], o.msg)
      BY <1>1, <2>1, <2>4, RecordMoves
    <3>2. [c EXCEPT ![o.msg] = new][o.msg] = new
      BY <1>1, <2>1 DEF Table
    <3>3. QED BY <2>3, <3>1, <3>2
  <2>6. Moves(c0, Rebound(c0, o, id), o.msg)
    <3> HIDE DEF c, new
    <3> QED BY <1>2, <2>5, MovesTransitive
  <2>7. ASSUME id # 0, c0[o.msg].delivery \in {"delivering", "delivered"}
        PROVE  /\ new.delivery = "delivered" /\ new.handling = "running"
               /\ c0[o.msg].delivery = "delivering" \/ c0[o.msg].turn \in {0, o.id}
                    => new.turn = id
    <3>1. Markable(c0, o1)
      BY <1>1, <1>4, <2>7 DEF Markable
    <3> HIDE DEF c, new, tries
    <3>2. /\ c[o.msg].delivery = "delivered" /\ c[o.msg].handling = "running"
          /\ c0[o.msg].delivery = "delivering" => c[o.msg].turn = id
      BY <1>2, <3>1
    <3>3. c0[o.msg].delivery # "delivering" => c[o.msg].turn = c0[o.msg].turn
      BY <1>2, <2>1
    <3>4. QED BY <2>4, <3>2, <3>3
  <2>8. QED
    <3> HIDE DEF c, new
    <3> QED BY <2>1, <2>5, <2>6, <2>7
<1>5. QED BY <1>3, <1>4

(***************************************************************************)
(* Delivery (AgentDelivery).                                               *)
(***************************************************************************)

(* The idle records and the records of a running or interrupted Agent.         *)
LEMMA IdleTypes ==
  /\ NoTurn \in Turn /\ Idle \in Worker /\ IdleAgent \in Agent
  /\ \A id \in TurnId : /\ RunningAgent(id) \in Agent
                        /\ [status |-> "interrupted", turn |-> 0, last |-> id] \in Agent
  /\ \A a \in Agents, id \in TurnId : Adopted(a, id) \in Turn
BY ConstantTypes DEF NoTurn, Turn, Idle, Worker, Phases, Results, IdleAgent, Agent,
   AgentStatus, RunningAgent, Adopted

LEMMA InitType == Init => TypeOK
<1> SUFFICES ASSUME Init PROVE TypeOK
  OBVIOUS
<1> USE MessageAssumption, DeliveryAssumption
<1>1. LedgerOK
  BY NewRequestType, ConstantTypes DEF Init, LedgerOK
<1>2. RuntimeOK
  <2>1. /\ [status |-> "idle", turn |-> 0, last |-> 0] \in Agent
        /\ NoTurn \in Turn /\ Idle \in Worker
    BY IdleTypes DEF IdleAgent
  <2>2. QED BY <2>1 DEF Init, RuntimeOK, Idle
<1>3. ExternalOK
  BY ConstantTypes DEF Init, ExternalOK, CodexTurn
<1>4. ControlOK
  <2>1. MaxFaults \in Nat /\ MaxStops \in Nat /\ MaxRetries \in Nat /\ MaxCommands \in Nat
    OBVIOUS
  <2>2. stopping \in BOOLEAN /\ draining \in BOOLEAN
    BY DEF Init
  <2>3. spent = [faults |-> 0, stops |-> 0, retries |-> 0, commands |-> 0]
    BY DEF Init
  <2>4. QED BY <2>1, <2>2, <2>3 DEF ControlOK
<1>5. QED BY <1>1, <1>2, <1>3, <1>4 DEF TypeOK

(* The parts a step leaves alone keep their types, and no step overdraws the   *)
(* budget.                                                                     *)
LEMMA Frame ==
  ASSUME TypeOK
  PROVE  /\ UNCHANGED <<comms, commOrder>> => LedgerOK'
         /\ UNCHANGED runtime => RuntimeOK'
         /\ UNCHANGED external => ExternalOK'
         /\ UNCHANGED <<control, spent>> => ControlOK'
BY DEF TypeOK, LedgerOK, RuntimeOK, ExternalOK, ControlOK, runtime, external, control, Live,
       TurnOf

LEMMA Budget ==
  ASSUME TypeOK, stopping' \in BOOLEAN, draining' \in BOOLEAN,
         Fault \/ Stop \/ Again \/ Command \/ UNCHANGED spent
  PROVE  ControlOK'
BY DeliveryAssumption DEF TypeOK, ControlOK, Spend, Fault, Stop, Again, Command

LEMMA SourceTurnType ==
  ASSUME TypeOK, NEW a \in Sender
  PROVE  SourceTurn(a) \in TurnId
BY ConstantTypes DEF TypeOK, RuntimeOK, SourceTurn, Live, TurnOf, Turn

(* The Turn of a live Agent. *)
LEMMA LiveTurnType ==
  ASSUME TypeOK, NEW a \in Agents, Live(a)
  PROVE  TurnOf(a) \in Turn /\ active[a] \in Slots
BY DEF TypeOK, RuntimeOK, Live, TurnOf

(* The message commands change the table only. *)
LEMMA CommandType ==
  ASSUME TypeOK, NEW m \in Msgs,
         \/ \E route \in Routes : CreateMessage(m, route.from, route.to, route.response)
         \/ \E q \in Msgs : ReplyMessage(m, q)
         \/ CancelMessage(m) \/ ResolveMessage(m) \/ NoReplyMessage(m) \/ RetryMessage(m)
  PROVE  TypeOK'
<1>1. comms \in Table /\ commOrder \in Seq(Msgs) /\ comms[m] \in Message
  BY DEF TypeOK, LedgerOK, Table
<1>2. Append(commOrder, m) \in Seq(Msgs)
  BY <1>1, AppendProperties
<1>3. ASSUME NEW new \in Message
      PROVE  [comms EXCEPT ![m] = new] \in Table
  BY <1>1 DEF Table
<1>4. LedgerOK'
  <2>1. ASSUME NEW route \in Routes, CreateMessage(m, route.from, route.to, route.response)
        PROVE  LedgerOK'
    <3>1. /\ route.from \in Sender /\ route.to \in Sender
          /\ route.response \in {"required", "none"}
      BY DeliveryAssumption, ConstantTypes
    <3>2. NewRequest(route.from, route.to, route.response, SourceTurn(route.from)) \in Message
      BY <3>1, SourceTurnType, NewRequestType
    <3>3. QED BY <1>2, <1>3, <2>1, <3>2 DEF CreateMessage, LedgerOK, Table
  <2>2. ASSUME NEW q \in Msgs, ReplyMessage(m, q)
        PROVE  LedgerOK'
    <3> DEFINE source == IF comms[q].from = Scheduler THEN 0 ELSE SourceTurn(comms[q].to)
               next == [comms EXCEPT ![m] = NewReply(q, comms[q], source)]
    <3>1. comms[q] \in Message /\ comms[q].to \in Sender
      BY <1>1, MessageFields DEF Table
    <3>2. source \in TurnId
      BY <3>1, SourceTurnType, ConstantTypes
    <3>3. NewReply(q, comms[q], source) \in Message
      <4> HIDE DEF source
      <4> QED BY <3>1, <3>2, NewReplyType
    <3>4. Answered(next, m) \in Table
      <4> HIDE DEF source
      <4> QED BY <1>3, <3>3, AnsweredType
    <3>5. comms' = Answered(next, m) /\ commOrder' = Append(commOrder, m)
      BY <2>2 DEF ReplyMessage
    <3>6. QED
      <4> HIDE DEF next
      <4> QED BY <1>2, <3>4, <3>5 DEF LedgerOK, Table
  <2>3. ASSUME CancelMessage(m) \/ ResolveMessage(m) \/ NoReplyMessage(m) \/ RetryMessage(m)
        PROVE  LedgerOK'
    <3>1. comms' \in {[comms EXCEPT ![m] = Withdrawn(comms[m], "cancelled")],
                      [comms EXCEPT ![m] = Withdrawn(comms[m], "superseded")],
                      [comms EXCEPT ![m] = Closed(comms[m], "no_reply")],
                      [comms EXCEPT ![m] = Requeued(comms[m])]}
      BY <2>3 DEF CancelMessage, ResolveMessage, NoReplyMessage, RetryMessage
    <3>2. UNCHANGED commOrder
      BY <2>3 DEF CancelMessage, ResolveMessage, NoReplyMessage, RetryMessage
    <3>3. /\ Withdrawn(comms[m], "cancelled") \in Message
          /\ Withdrawn(comms[m], "superseded") \in Message
          /\ Closed(comms[m], "no_reply") \in Message
          /\ Requeued(comms[m]) \in Message
      BY <1>1, ClosedType, RequeuedType, ConstantTypes
    <3>4. comms' \in Table
      BY <1>3, <3>1, <3>3
    <3>5. QED BY <1>1, <3>2, <3>4 DEF LedgerOK, Table
  <2>4. QED BY <2>1, <2>2, <2>3
<1>5. UNCHANGED <<runtime, external, control>>
  BY DEF CreateMessage, ReplyMessage, CancelMessage, ResolveMessage, NoReplyMessage,
         RetryMessage
<1>6. Again \/ UNCHANGED spent
  BY DEF CreateMessage, ReplyMessage, CancelMessage, ResolveMessage, NoReplyMessage,
         RetryMessage
<1>7. ControlOK'
  BY <1>5, <1>6, Budget DEF TypeOK, ControlOK, control
<1>8. QED BY <1>4, <1>5, <1>7, Frame DEF TypeOK

(* Facts about one worker.                                                     *)
LEMMA WorkerFields ==
  ASSUME TypeOK, NEW w \in Workers
  PROVE  /\ workers[w] \in Worker /\ turns[w] \in Turn /\ w \in Slots
         /\ workers[w].phase # "idle" => workers[w].agent \in Agents
         /\ workers[w].phase \in {"steering", "steered"} => workers[w].msg \in Msgs
         /\ workers[w].msg \in Msgs \cup {None}
         /\ workers[w].turn \in TurnId
BY DEF TypeOK, RuntimeOK, Worker, Slots

(* A step of one worker, whatever it does to the Agents' runtime.              *)
LEMMA WorkerStep ==
  ASSUME TypeOK, NEW w \in Workers, NEW r \in Worker,
         r.phase # "idle" => r.agent \in Agents,
         r.phase \in {"steering", "steered"} => r.msg \in Msgs,
         workers' = [workers EXCEPT ![w] = r],
         meta' \in [Agents -> Agent], active' \in [Agents -> Slots \cup {None}],
         turns' \in [Slots -> Turn]
  PROVE  RuntimeOK'
<1> DEFINE after == [workers EXCEPT ![w] = r]
<1>1. after \in [Workers -> Worker]
  BY DEF TypeOK, RuntimeOK
<1>2. ASSUME NEW v \in Workers
      PROVE  /\ after[v].phase # "idle" => after[v].agent \in Agents
             /\ after[v].phase \in {"steering", "steered"} => after[v].msg \in Msgs
  BY DEF TypeOK, RuntimeOK
<1>3. QED BY <1>1, <1>2 DEF RuntimeOK

(* The table with one record replaced.                                         *)
LEMMA TableStep ==
  ASSUME TypeOK, NEW m \in Msgs
  PROVE  /\ comms \in Table /\ comms[m] \in Message
         /\ \A new \in Message : [comms EXCEPT ![m] = new] \in Table
         /\ \A d \in Delivery : [comms EXCEPT ![m].delivery = d] \in Table
<1>1. comms \in Table /\ comms[m] \in Message
  BY DEF TypeOK, LedgerOK, Table
<1>2. \A new \in Message : [comms EXCEPT ![m] = new] \in Table
  BY <1>1 DEF Table
<1>3. ASSUME NEW d \in Delivery PROVE [comms EXCEPT ![m].delivery = d] \in Table
  <2>1. [comms[m] EXCEPT !.delivery = d] \in Message
    BY <1>1, FieldType
  <2>2. [comms EXCEPT ![m].delivery = d] = [comms EXCEPT ![m] = [comms[m] EXCEPT !.delivery = d]]
    BY <1>1
  <2>3. QED BY <1>2, <2>1, <2>2
<1>4. QED BY <1>1, <1>2, <1>3

(* What a step that leaves the table, the runtime, ... alone keeps.            *)
LEMMA LedgerKept ==
  ASSUME TypeOK, comms' \in Table, UNCHANGED commOrder
  PROVE  LedgerOK'
BY DEF TypeOK, LedgerOK, Table

(* A worker claims a message, or an Owner task.                                *)
LEMMA ClaimType ==
  ASSUME TypeOK, NEW w \in Workers, NEW a \in Agents, NEW m \in Msgs \cup {None},
         \/ m \in Msgs /\ (ClaimNext(w, a, m) \/ ClaimSteer(w, a, m))
         \/ OwnerTask(w, a)
  PROVE  TypeOK'
<1>1. LedgerOK'
  <2>1. CASE OwnerTask(w, a)
    BY <2>1 DEF OwnerTask, TypeOK, LedgerOK
  <2>2. CASE m \in Msgs /\ (ClaimNext(w, a, m) \/ ClaimSteer(w, a, m))
    <3>1. comms' \in Table
      BY <2>2, TableStep, ConstantTypes DEF ClaimNext, ClaimSteer
    <3>2. QED BY <2>2, <3>1, LedgerKept DEF ClaimNext, ClaimSteer
  <2>3. QED BY <2>1, <2>2
<1>2. RuntimeOK'
  <2>1. /\ meta' \in [Agents -> Agent] /\ active' \in [Agents -> Slots \cup {None}]
        /\ turns' \in [Slots -> Turn]
    BY DEF TypeOK, RuntimeOK, ClaimNext, ClaimSteer, OwnerTask
  <2>2. CASE m \in Msgs /\ ClaimNext(w, a, m)
    <3> DEFINE r == [Idle EXCEPT !.phase = "sending", !.agent = a, !.msg = m]
    <3>1. r \in Worker /\ r.phase = "sending" /\ r.agent = a
      BY <2>2, ConstantTypes DEF Idle, Worker, Phases, Results
    <3>2. workers' = [workers EXCEPT ![w] = r]
      BY <2>2 DEF ClaimNext, Start
    <3>3. QED
      <4> HIDE DEF r
      <4> QED BY <2>1, <3>1, <3>2, WorkerStep
  <2>3. CASE OwnerTask(w, a)
    <3> DEFINE r == [Idle EXCEPT !.phase = "sending", !.agent = a, !.msg = None]
    <3>1. r \in Worker /\ r.phase = "sending" /\ r.agent = a
      BY ConstantTypes DEF Idle, Worker, Phases, Results
    <3>2. workers' = [workers EXCEPT ![w] = r]
      BY <2>3 DEF OwnerTask, Start
    <3>3. QED
      <4> HIDE DEF r
      <4> QED BY <2>1, <3>1, <3>2, WorkerStep
  <2>4. CASE m \in Msgs /\ ClaimSteer(w, a, m)
    <3> DEFINE r == [Idle EXCEPT !.phase = "steering", !.agent = a, !.msg = m,
                                 !.turn = TurnOf(a).id]
    <3>1. TurnOf(a).id \in TurnId
      BY <2>4, LiveTurnType DEF ClaimSteer, Turn
    <3>2. r \in Worker /\ r.agent = a /\ r.msg \in Msgs
      BY <2>4, <3>1 DEF Idle, Worker, Phases, Results
    <3>3. workers' = [workers EXCEPT ![w] = r]
      BY <2>4 DEF ClaimSteer
    <3>4. QED
      <4> HIDE DEF r
      <4> QED BY <2>1, <3>2, <3>3, WorkerStep
  <2>5. QED BY <2>2, <2>3, <2>4
<1>3. ExternalOK'
  BY Frame DEF ClaimNext, ClaimSteer, OwnerTask
<1>4. ControlOK'
  <2>1. stopping' \in BOOLEAN /\ draining' \in BOOLEAN
    BY DEF TypeOK, ControlOK, control, ClaimNext, ClaimSteer, OwnerTask
  <2>2. Command \/ UNCHANGED spent
    BY DEF ClaimNext, ClaimSteer, OwnerTask
  <2>3. QED BY <2>1, <2>2, Budget
<1>5. QED BY <1>1, <1>2, <1>3, <1>4 DEF TypeOK

(* A send refused, failed or reserved; a Turn that Codex accepts.              *)
LEMMA SendType ==
  ASSUME TypeOK, NEW w \in Workers,
         SendRefused(w) \/ SendFailed(w) \/ ReserveTurn(w)
  PROVE  TypeOK'
<1> DEFINE a == workers[w].agent
<1>1. a \in Agents
  BY WorkerFields DEF SendRefused, SendFailed, ReserveTurn
<1>2. LedgerOK' /\ ExternalOK'
  BY Frame DEF SendRefused, SendFailed, ReserveTurn
<1>3. ControlOK'
  <2>1. stopping' \in BOOLEAN /\ draining' \in BOOLEAN
    BY DEF TypeOK, ControlOK, control, SendRefused, SendFailed, ReserveTurn
  <2>2. Fault \/ UNCHANGED spent
    BY DEF SendRefused, SendFailed, ReserveTurn
  <2>3. QED BY <2>1, <2>2, Budget
<1>4. RuntimeOK'
  <2>1. CASE SendRefused(w) \/ SendFailed(w)
    <3>1. PICK result \in {"busy", "error"} : Return(w, result)
      BY <2>1 DEF SendRefused, SendFailed
    <3> DEFINE r == [workers[w] EXCEPT !.phase = "returning", !.result = result,
                                       !.turn = turns[w].id]
    <3>2. turns[w].id \in TurnId
      BY WorkerFields DEF Turn
    <3>3. r \in Worker /\ r.agent = a /\ r.phase = "returning"
      BY <3>2, WorkerFields DEF Worker, Phases, Results
    <3>4. workers' = [workers EXCEPT ![w] = r]
      BY <3>1 DEF Return, TypeOK, RuntimeOK
    <3>5. /\ meta' \in [Agents -> Agent] /\ active' \in [Agents -> Slots \cup {None}]
          /\ turns' \in [Slots -> Turn]
      BY <2>1 DEF TypeOK, RuntimeOK, SendRefused, SendFailed
    <3>6. QED
      <4> HIDE DEF r
      <4> QED BY <1>1, <3>3, <3>4, <3>5, WorkerStep
  <2>2. CASE ReserveTurn(w)
    <3> DEFINE r == [workers[w] EXCEPT !.phase = "starting"]
               o == [NoTurn EXCEPT !.agent = a, !.msg = workers[w].msg, !.finished = FALSE]
    <3>1. r \in Worker /\ r.agent = a /\ r.phase = "starting"
      BY WorkerFields DEF Worker, Phases
    <3>2. workers' = [workers EXCEPT ![w] = r]
      BY <2>2 DEF ReserveTurn, TypeOK, RuntimeOK
    <3>3. o \in Turn
      BY <1>1, IdleTypes, WorkerFields DEF Turn
    <3>4. turns' \in [Slots -> Turn]
      BY <2>2, <3>3, WorkerFields DEF ReserveTurn, TypeOK, RuntimeOK
    <3>5. active' \in [Agents -> Slots \cup {None}]
      BY <1>1, <2>2, WorkerFields DEF ReserveTurn, TypeOK, RuntimeOK
    <3>6. meta' \in [Agents -> Agent]
      <4>1. [status |-> "running", turn |-> 0, last |-> 0] \in Agent
        BY ConstantTypes DEF Agent, AgentStatus
      <4>2. QED BY <1>1, <2>2, <4>1 DEF ReserveTurn, TypeOK, RuntimeOK
    <3>7. QED
      <4> HIDE DEF r
      <4> QED BY <1>1, <3>1, <3>2, <3>4, <3>5, <3>6, WorkerStep
  <2>3. QED BY <2>1, <2>2
<1>5. QED BY <1>2, <1>3, <1>4 DEF TypeOK

(* The end of an Agent's Turn. *)
LEMMA FinishTurnType ==
  ASSUME TypeOK, NEW a \in Agents, Live(a), NEW o \in Turn, NEW status \in Outcome,
         NEW c \in Table, FinishTurn(a, o, status, c)
  PROVE  /\ comms' \in Table /\ meta' \in [Agents -> Agent]
         /\ active' \in [Agents -> Slots \cup {None}] /\ turns' \in [Slots -> Turn]
<1>1. comms' \in Table
  BY EndedType DEF FinishTurn
<1>2. meta' \in [Agents -> Agent]
  BY IdleTypes DEF FinishTurn, TypeOK, RuntimeOK
<1>3. active' \in [Agents -> Slots \cup {None}]
  BY DEF FinishTurn, TypeOK, RuntimeOK
<1>4. Over(active[a], o) \in Turn
  BY IdleTypes DEF Over, Turn
<1>5. turns' \in [Slots -> Turn]
  BY <1>4, LiveTurnType DEF FinishTurn, TypeOK, RuntimeOK
<1>6. QED BY <1>1, <1>2, <1>3, <1>5

(* turn/start came back. *)
LEMMA StartAnsweredType ==
  ASSUME TypeOK, NEW w \in Workers, StartAnswered(w)
  PROVE  TypeOK'
<1> DEFINE o == turns[w]
           a == workers[w].agent
           o1 == [o EXCEPT !.id = IF o.id = 0 THEN workers[w].turn ELSE o.id]
           t == IF o.finished THEN o.id ELSE o1.id
           r == [workers[w] EXCEPT !.phase = "returning", !.result = "ok", !.turn = t]
<1>1. a \in Agents /\ o \in Turn /\ workers[w].turn \in TurnId /\ w \in Slots
  BY WorkerFields DEF StartAnswered
<1>2. o1 \in Turn /\ o1.id \in TurnId /\ t \in TurnId
  BY <1>1 DEF Turn
<1>3. comms \in Table
  BY DEF TypeOK, LedgerOK, Table
<1>4. Running(comms, o1) \in Table /\ RunningTurn(comms, o1) \in Turn
  <2> HIDE DEF o1
  <2> QED BY <1>2, <1>3, RunningType
<1>5. comms' \in Table
  BY <1>3, <1>4 DEF StartAnswered
<1>6. turns' \in [Slots -> Turn]
  BY <1>1, <1>4 DEF StartAnswered, TypeOK, RuntimeOK
<1>7. meta' \in [Agents -> Agent]
  <2>1. [meta[a] EXCEPT !.turn = o1.id] \in Agent
    BY <1>1, <1>2 DEF TypeOK, RuntimeOK, Agent
  <2>2. [meta EXCEPT ![a].turn = o1.id] = [meta EXCEPT ![a] = [meta[a] EXCEPT !.turn = o1.id]]
    OBVIOUS
  <2>3. meta' \in {meta, [meta EXCEPT ![a].turn = o1.id]}
    BY DEF StartAnswered
  <2>4. QED BY <1>1, <2>1, <2>2, <2>3 DEF TypeOK, RuntimeOK
<1>8. r \in Worker /\ r.agent = a /\ r.phase = "returning"
  <2> HIDE DEF t
  <2> QED BY <1>2, WorkerFields DEF Worker, Phases, Results
<1>9. workers' = [workers EXCEPT ![w] = r]
  <2>1. workers' = [workers EXCEPT ![w].phase = "returning", ![w].result = "ok", ![w].turn = t]
    BY DEF StartAnswered
  <2> HIDE DEF t
  <2>2. QED BY <2>1 DEF TypeOK, RuntimeOK
<1>10. active' \in [Agents -> Slots \cup {None}]
  BY DEF StartAnswered, TypeOK, RuntimeOK
<1>11. RuntimeOK'
  <2> HIDE DEF r
  <2> QED BY <1>1, <1>6, <1>7, <1>8, <1>9, <1>10, WorkerStep
<1>12. LedgerOK'
  BY <1>5, LedgerKept DEF StartAnswered
<1>13. ExternalOK' /\ ControlOK'
  BY Frame DEF StartAnswered
<1>14. QED BY <1>11, <1>12, <1>13 DEF TypeOK

(* turn/start failed. *)
LEMMA StartFailedType ==
  ASSUME TypeOK, NEW w \in Workers, StartFailed(w)
  PROVE  TypeOK'
<1> DEFINE a == workers[w].agent
           r == [workers[w] EXCEPT !.phase = "returning", !.result = "error"]
<1>1. a \in Agents
  BY WorkerFields DEF StartFailed
<1>2. comms \in Table
  BY DEF TypeOK, LedgerOK, Table
<1>3. /\ comms' \in Table /\ meta' \in [Agents -> Agent]
      /\ active' \in [Agents -> Slots \cup {None}] /\ turns' \in [Slots -> Turn]
  <2>1. CASE Live(a) /\ FinishTurn(a, TurnOf(a), "failed", comms)
    <3>1. TurnOf(a) \in Turn /\ "failed" \in Outcome
      BY <1>1, <2>1, LiveTurnType DEF Outcome
    <3>2. QED BY <1>1, <1>2, <2>1, <3>1, FinishTurnType
  <2>2. CASE UNCHANGED <<comms, turns, active, meta>>
    BY <1>2, <2>2 DEF TypeOK, RuntimeOK
  <2>3. QED BY <2>1, <2>2 DEF StartFailed
<1>4. r \in Worker /\ r.agent = a /\ r.phase = "returning"
  BY WorkerFields DEF Worker, Phases, Results
<1>5. workers' = [workers EXCEPT ![w] = r]
  BY DEF StartFailed, TypeOK, RuntimeOK
<1>6. RuntimeOK'
  <2> HIDE DEF r
  <2> QED BY <1>1, <1>3, <1>4, <1>5, WorkerStep
<1>7. LedgerOK' /\ ExternalOK'
  BY <1>3, LedgerKept, Frame DEF StartFailed
<1>8. ControlOK'
  BY Budget DEF StartFailed, TypeOK, ControlOK, control
<1>9. QED BY <1>6, <1>7, <1>8 DEF TypeOK

(* The tail of a delivery, by a new Turn or into a running one. *)
LEMMA SettleType ==
  ASSUME TypeOK, NEW w \in Workers, Settle(w) \/ SteerSettled(w) \/ SteerDeferred(w)
  PROVE  TypeOK'
<1> DEFINE m == workers[w].msg
<1>1. workers' = [workers EXCEPT ![w] = Idle] /\ UNCHANGED <<commOrder, meta, active, external, control>>
  BY DEF Settle, SteerSettled, SteerDeferred
<1>2. turns' \in [Slots -> Turn]
  BY IdleTypes, WorkerFields DEF Settle, SteerSettled, SteerDeferred, TypeOK, RuntimeOK
<1>3. RuntimeOK'
  <2>1. Idle \in Worker /\ Idle.phase = "idle"
    BY IdleTypes DEF Idle
  <2>2. QED BY <1>1, <1>2, <2>1, WorkerStep DEF TypeOK, RuntimeOK
<1>4. comms \in Table /\ workers[w].turn \in TurnId
  BY WorkerFields DEF TypeOK, LedgerOK, Table
<1>5. comms' \in Table
  <2>1. CASE Settle(w)
    <3>1. CASE m = None
      BY <1>4, <2>1, <3>1 DEF Settle
    <3>2. CASE m # None
      <4> DEFINE new == Settled(comms[m], workers[w].result, workers[w].turn)
                 c == [comms EXCEPT ![m] = new]
      <4>1. m \in Msgs
        BY <3>2, WorkerFields
      <4>2. comms[m] \in Message
        BY <4>1, TableStep
      <4>3. new \in Message
        BY <1>4, <4>2, FieldType, DeliveredType, ConstantTypes DEF Settled
      <4>4. c \in Table
        <5> HIDE DEF new
        <5> QED BY <4>1, <4>3, TableStep
      <4>5. Answered(c, m) \in Table
        <5> HIDE DEF c
        <5> QED BY <4>1, <4>4, AnsweredType
      <4>6. comms' \in {comms, Answered(c, m)}
        BY <2>1, <3>2 DEF Settle
      <4>7. QED BY <1>4, <4>5, <4>6
    <3>3. QED BY <3>1, <3>2
  <2>2. CASE SteerSettled(w)
    <3> DEFINE new == Delivered(comms[m], "turn_steer", workers[w].turn)
               c == [comms EXCEPT ![m] = new]
    <3>1. m \in Msgs
      BY <2>2, WorkerFields DEF SteerSettled
    <3>2. new \in Message
      BY <1>4, <3>1, TableStep, DeliveredType
    <3>3. c \in Table
      <4> HIDE DEF new
      <4> QED BY <3>1, <3>2, TableStep
    <3>4. comms' = Answered(c, m)
      BY <2>2 DEF SteerSettled
    <3>5. QED
      <4> HIDE DEF c
      <4> QED BY <3>1, <3>3, <3>4, AnsweredType
  <2>3. CASE SteerDeferred(w)
    <3>1. m \in Msgs
      BY <2>3, WorkerFields DEF SteerDeferred
    <3>2. QED BY <2>3, <3>1, TableStep, ConstantTypes DEF SteerDeferred
  <2>4. QED BY <2>1, <2>2, <2>3
<1>6. ControlOK'
  BY <1>1, Budget DEF Settle, SteerSettled, SteerDeferred, TypeOK, ControlOK, control
<1>7. QED BY <1>1, <1>3, <1>5, <1>6, LedgerKept, Frame DEF TypeOK

(* Codex accepts a Turn, a remote client starts one, a Turn ends.              *)
LEMMA BeginType ==
  ASSUME TypeOK, NEW a \in Agents, NEW m \in Msgs \cup {None}, Begin(a, m)
  PROVE  ExternalOK' /\ LastId + 1 \in TurnId
<1> DEFINE e == [kind |-> "started", id |-> LastId + 1, status |-> "none"]
<1>1. LastId \in Nat /\ LastId + 1 \in TurnId
  BY MessageAssumption DEF TypeOK, ExternalOK, LastId, Begin, TurnId
<1>2. codex' \in [Agents -> CodexTurn]
  <2>1. [id |-> LastId + 1, status |-> "running"] \in CodexTurn
    BY <1>1 DEF CodexTurn
  <2>2. QED BY <2>1 DEF Begin, TypeOK, ExternalOK
<1>3. notes' \in [Agents -> Seq(Event)]
  <2>1. e \in Event
    BY <1>1 DEF Event
  <2>2. notes \in [Agents -> Seq(Event)] /\ notes[a] \in Seq(Event)
    BY DEF TypeOK, ExternalOK
  <2>3. Append(notes[a], e) \in Seq(Event)
    <3> HIDE DEF e
    <3> QED BY <2>1, <2>2, AppendProperties
  <2>4. notes' = [notes EXCEPT ![a] = Append(notes[a], e)]
    BY DEF Begin
  <2>5. QED
    <3> HIDE DEF e
    <3> QED BY <2>2, <2>3, <2>4
<1>4. carried' \in Seq(Msgs \cup {None}) /\ Len(carried') <= MaxTurnId
  <2>1. carried \in Seq(Msgs \cup {None}) /\ Len(carried) < MaxTurnId
    BY DEF TypeOK, ExternalOK, Begin, LastId
  <2>2. carried' = Append(carried, m)
    BY DEF Begin
  <2>3. QED BY <2>1, <2>2, AppendProperties, MessageAssumption
<1>5. QED BY <1>1, <1>2, <1>3, <1>4 DEF ExternalOK

LEMMA EndType ==
  ASSUME TypeOK, NEW a \in Agents, NEW status \in Outcome, End(a, status), UNCHANGED carried
  PROVE  ExternalOK'
<1> DEFINE e == [kind |-> "ended", id |-> codex[a].id, status |-> status]
<1>1. codex \in [Agents -> CodexTurn] /\ codex[a].id \in TurnId
  BY DEF TypeOK, ExternalOK, CodexTurn
<1>2. codex' \in [Agents -> CodexTurn]
  <2>1. [codex[a] EXCEPT !.status = status] \in CodexTurn
    BY <1>1 DEF CodexTurn
  <2>2. codex' = [codex EXCEPT ![a] = [codex[a] EXCEPT !.status = status]]
    BY <1>1 DEF End
  <2>3. QED BY <1>1, <2>1, <2>2
<1>3. notes' \in [Agents -> Seq(Event)]
  <2>1. e \in Event
    BY <1>1 DEF Event
  <2>2. notes \in [Agents -> Seq(Event)] /\ notes[a] \in Seq(Event)
    BY DEF TypeOK, ExternalOK
  <2>3. Append(notes[a], e) \in Seq(Event)
    <3> HIDE DEF e
    <3> QED BY <2>1, <2>2, AppendProperties
  <2>4. notes' = [notes EXCEPT ![a] = Append(notes[a], e)]
    BY DEF End
  <2>5. QED
    <3> HIDE DEF e
    <3> QED BY <2>2, <2>3, <2>4
<1>4. QED BY <1>2, <1>3 DEF TypeOK, ExternalOK

LEMMA CodexType ==
  ASSUME TypeOK,
         \/ \E w \in Workers : CodexAccepts(w) \/ SteerAccepted(w)
         \/ \E a \in Agents : RemoteStart(a) \/ CodexEnds(a)
  PROVE  TypeOK'
<1>1. ASSUME NEW w \in Workers, CodexAccepts(w)
      PROVE  TypeOK'
  <2> DEFINE r == [workers[w] EXCEPT !.phase = "accepted", !.turn = LastId + 1]
  <2>1. workers[w].agent \in Agents /\ workers[w].msg \in Msgs \cup {None}
    BY <1>1, WorkerFields DEF CodexAccepts
  <2>2. ExternalOK' /\ LastId + 1 \in TurnId
    BY <1>1, <2>1, BeginType DEF CodexAccepts
  <2>3. r \in Worker /\ r.agent = workers[w].agent /\ r.phase = "accepted"
    BY <2>2, WorkerFields DEF Worker, Phases
  <2>4. workers' = [workers EXCEPT ![w] = r]
    BY <1>1 DEF CodexAccepts, TypeOK, RuntimeOK
  <2>5. /\ meta' \in [Agents -> Agent] /\ active' \in [Agents -> Slots \cup {None}]
        /\ turns' \in [Slots -> Turn]
    BY <1>1 DEF CodexAccepts, TypeOK, RuntimeOK
  <2>6. RuntimeOK'
    <3> HIDE DEF r
    <3> QED BY <2>1, <2>3, <2>4, <2>5, WorkerStep
  <2>7. LedgerOK' /\ ControlOK'
    BY <1>1, Frame DEF CodexAccepts
  <2>8. QED BY <2>2, <2>6, <2>7 DEF TypeOK
<1>2. ASSUME NEW w \in Workers, SteerAccepted(w)
      PROVE  TypeOK'
  <2> DEFINE r == [workers[w] EXCEPT !.phase = "steered"]
  <2>1. workers[w].agent \in Agents /\ workers[w].msg \in Msgs
    BY <1>2, WorkerFields DEF SteerAccepted
  <2>2. /\ r \in Worker /\ r.phase = "steered"
        /\ r.agent = workers[w].agent /\ r.msg = workers[w].msg
    BY WorkerFields DEF Worker, Phases
  <2>3. workers' = [workers EXCEPT ![w] = r]
    BY <1>2 DEF SteerAccepted, TypeOK, RuntimeOK
  <2>4. /\ meta' \in [Agents -> Agent] /\ active' \in [Agents -> Slots \cup {None}]
        /\ turns' \in [Slots -> Turn]
    BY <1>2 DEF SteerAccepted, TypeOK, RuntimeOK
  <2>5. RuntimeOK'
    <3> HIDE DEF r
    <3> QED BY <2>1, <2>2, <2>3, <2>4, WorkerStep
  <2>6. LedgerOK' /\ ExternalOK' /\ ControlOK'
    BY <1>2, Frame DEF SteerAccepted
  <2>7. QED BY <2>5, <2>6 DEF TypeOK
<1>3. ASSUME NEW a \in Agents, RemoteStart(a)
      PROVE  TypeOK'
  <2>1. ExternalOK'
    BY <1>3, BeginType DEF RemoteStart
  <2>2. LedgerOK' /\ RuntimeOK'
    BY <1>3, Frame DEF RemoteStart
  <2>3. ControlOK'
    BY <1>3, Budget DEF RemoteStart, TypeOK, ControlOK, control
  <2>4. QED BY <2>1, <2>2, <2>3 DEF TypeOK
<1>4. ASSUME NEW a \in Agents, CodexEnds(a)
      PROVE  TypeOK'
  <2>1. ExternalOK'
    BY <1>4, EndType DEF CodexEnds, Outcome
  <2>2. LedgerOK' /\ RuntimeOK' /\ ControlOK'
    BY <1>4, Frame DEF CodexEnds
  <2>3. QED BY <2>1, <2>2 DEF TypeOK
<1>5. QED BY <1>1, <1>2, <1>3, <1>4

(* A step of an Agent's runtime that leaves the workers alone.                 *)
LEMMA AgentStep ==
  ASSUME TypeOK, UNCHANGED workers,
         meta' \in [Agents -> Agent], active' \in [Agents -> Slots \cup {None}],
         turns' \in [Slots -> Turn]
  PROVE  RuntimeOK'
BY DEF TypeOK, RuntimeOK

(* The two ways a running Turn is given another id.                            *)
LEMMA RebindType ==
  ASSUME TypeOK, NEW a \in Agents, Live(a), NEW id \in TurnId, NEW interrupting \in BOOLEAN,
         Rebind(a, TurnOf(a), id, interrupting)
  PROVE  /\ comms' \in Table /\ meta' \in [Agents -> Agent]
         /\ active' \in [Agents -> Slots \cup {None}] /\ turns' \in [Slots -> Turn]
<1> DEFINE o == TurnOf(a)
           t == ReboundTurn(comms, o, id)
           t1 == [t EXCEPT !.confirmed = TRUE, !.interrupting = interrupting]
<1>1. o \in Turn /\ active[a] \in Slots /\ comms \in Table
  BY LiveTurnType DEF TypeOK, LedgerOK, Table
<1>2. comms' \in Table
  <2> HIDE DEF o
  <2> QED BY <1>1, ReboundType DEF Rebind, o
<1>3. t \in Turn
  <2> HIDE DEF o
  <2> QED BY <1>1, ReboundTurnType
<1>4. t1 \in Turn
  <2> HIDE DEF t
  <2> QED BY <1>3 DEF Turn
<1>5. turns' = [turns EXCEPT ![active[a]] = t1]
  BY DEF Rebind
<1>6. turns' \in [Slots -> Turn]
  <2> HIDE DEF t1
  <2> QED BY <1>1, <1>4, <1>5 DEF TypeOK, RuntimeOK
<1>7. meta' \in [Agents -> Agent]
  BY IdleTypes DEF Rebind, TypeOK, RuntimeOK
<1>8. QED BY <1>2, <1>6, <1>7 DEF Rebind, TypeOK, RuntimeOK

LEMMA SucceedType ==
  ASSUME TypeOK, NEW a \in Agents, NEW id \in TurnId, NEW interrupting \in BOOLEAN,
         Succeed(a, id, interrupting)
  PROVE  /\ comms' \in Table /\ meta' \in [Agents -> Agent]
         /\ active' \in [Agents -> Slots \cup {None}] /\ turns' \in [Slots -> Turn]
<1>1. comms' \in Table
  <2>1. comms \in Table /\ "interrupted" \in Outcome
    BY DEF TypeOK, LedgerOK, Table, Outcome
  <2>2. CASE Live(a)
    BY <2>1, <2>2, LiveTurnType, EndedType DEF Succeed
  <2>3. CASE ~Live(a)
    BY <2>1, <2>3 DEF Succeed
  <2>4. QED BY <2>2, <2>3
<1>2. turns' \in [Slots -> Turn]
  <2>1. [Adopted(a, id) EXCEPT !.interrupting = interrupting] \in Turn
    BY IdleTypes DEF Turn
  <2>2. ASSUME NEW s \in Slots, Live(a) PROVE Over(s, TurnOf(a)) \in Turn
    BY <2>2, LiveTurnType, IdleTypes DEF Over, Turn
  <2>3. ASSUME NEW s \in Slots PROVE turns[s] \in Turn
    BY DEF TypeOK, RuntimeOK
  <2>4. QED BY <2>1, <2>2, <2>3 DEF Succeed
<1>3. meta' \in [Agents -> Agent]
  BY IdleTypes DEF Succeed, TypeOK, RuntimeOK
<1>4. active' \in [Agents -> Slots \cup {None}]
  BY DEF Succeed, TypeOK, RuntimeOK, Slots
<1>5. QED BY <1>1, <1>2, <1>3, <1>4

(* The end of the live Turn of an Agent, under the id it has or another.       *)
LEMMA TurnEndedType ==
  ASSUME TypeOK, NEW a \in Agents, NEW id \in TurnId, NEW status \in Outcome,
         TurnEnded(a, id, status)
  PROVE  /\ comms' \in Table /\ meta' \in [Agents -> Agent]
         /\ active' \in [Agents -> Slots \cup {None}] /\ turns' \in [Slots -> Turn]
<1> DEFINE o == TurnOf(a)
<1>1. comms \in Table
  BY DEF TypeOK, LedgerOK, Table
<1>2. CASE UNCHANGED <<comms, turns, active, meta>>
  BY <1>1, <1>2 DEF TypeOK, RuntimeOK
<1>3. CASE Live(a) /\ FinishTurn(a, ReboundTurn(comms, o, id), status, Rebound(comms, o, id))
  <2>1. o \in Turn
    BY <1>3, LiveTurnType
  <2>2. ReboundTurn(comms, o, id) \in Turn /\ Rebound(comms, o, id) \in Table
    <3> HIDE DEF o
    <3> QED BY <1>1, <2>1, ReboundTurnType, ReboundType
  <2>3. QED BY <1>3, <2>2, FinishTurnType
<1>4. CASE Live(a) /\ FinishTurn(a, o, status, comms)
  BY <1>1, <1>4, LiveTurnType, FinishTurnType
<1>5. QED BY <1>2, <1>3, <1>4 DEF TurnEnded

LEMMA TurnStartedType ==
  ASSUME TypeOK, NEW a \in Agents, NEW id \in TurnId, TurnStarted(a, id)
  PROVE  /\ comms' \in Table /\ meta' \in [Agents -> Agent]
         /\ active' \in [Agents -> Slots \cup {None}] /\ turns' \in [Slots -> Turn]
<1>1. CASE Succeed(a, id, FALSE)
  BY <1>1, SucceedType
<1>2. CASE Live(a) /\ Rebind(a, TurnOf(a), id, TurnOf(a).interrupting)
  BY <1>2, LiveTurnType, RebindType DEF Turn
<1>3. CASE /\ Live(a) /\ turns' = [turns EXCEPT ![active[a]].confirmed = TRUE]
           /\ UNCHANGED <<comms, active, meta>>
  <2>1. [TurnOf(a) EXCEPT !.confirmed = TRUE] \in Turn /\ active[a] \in Slots
    BY <1>3, LiveTurnType DEF Turn
  <2>2. turns' = [turns EXCEPT ![active[a]] = [TurnOf(a) EXCEPT !.confirmed = TRUE]]
    BY <1>3, <2>1 DEF TurnOf
  <2>3. QED BY <1>3, <2>1, <2>2 DEF TypeOK, RuntimeOK, LedgerOK, Table
<1>4. QED BY <1>1, <1>2, <1>3 DEF TurnStarted

(* A notification of the app-server. *)
LEMMA NotifyType ==
  ASSUME TypeOK, NEW a \in Agents, Notify(a)
  PROVE  TypeOK'
<1> DEFINE e == Head(notes[a])
<1>1. notes \in [Agents -> Seq(Event)] /\ notes[a] \in Seq(Event) /\ notes[a] # <<>>
  BY DEF TypeOK, ExternalOK, Notify
<1>2. e \in Event /\ Tail(notes[a]) \in Seq(Event)
  BY <1>1, HeadTailProperties
<1>3. /\ e.id \in TurnId /\ e.kind \in {"started", "ended"}
      /\ e.kind = "ended" => e.status \in Outcome
  BY <1>2 DEF Event
<1>4. /\ comms' \in Table /\ meta' \in [Agents -> Agent]
      /\ active' \in [Agents -> Slots \cup {None}] /\ turns' \in [Slots -> Turn]
  <2>1. CASE UNCHANGED <<comms, turns, active, meta>>
    BY <2>1 DEF TypeOK, RuntimeOK, LedgerOK, Table
  <2>2. CASE TurnStarted(a, e.id)
    BY <1>3, <2>2, TurnStartedType
  <2>3. CASE e.kind = "ended" /\ TurnEnded(a, e.id, e.status)
    BY <1>3, <2>3, TurnEndedType
  <2>4. QED BY <1>3, <2>1, <2>2, <2>3 DEF Notify
<1>5. ExternalOK'
  BY <1>1, <1>2 DEF Notify, TypeOK, ExternalOK
<1>6. ControlOK'
  BY Frame DEF Notify
<1>7. LedgerOK' /\ RuntimeOK'
  BY <1>4, LedgerKept, AgentStep DEF Notify
<1>8. QED BY <1>5, <1>6, <1>7 DEF TypeOK

(* An operator or the watchdog ends a Turn. *)
LEMMA InterruptType ==
  ASSUME TypeOK, NEW a \in Agents, Interrupt(a) \/ ForceFinish(a)
  PROVE  TypeOK'
<1>1. /\ comms' \in Table /\ meta' \in [Agents -> Agent]
      /\ active' \in [Agents -> Slots \cup {None}] /\ turns' \in [Slots -> Turn]
  <2>1. codex[a].id \in TurnId
    BY DEF TypeOK, ExternalOK, CodexTurn
  <2>2. CASE ForceFinish(a)
    <3>1. comms \in Table /\ "interrupted" \in Outcome
      BY DEF TypeOK, LedgerOK, Table, Outcome
    <3>2. QED BY <2>2, <3>1, LiveTurnType, FinishTurnType DEF ForceFinish
  <2>3. CASE Live(a) /\ Rebind(a, TurnOf(a), codex[a].id, TRUE)
    BY <2>1, <2>3, RebindType
  <2>4. CASE Succeed(a, codex[a].id, TRUE)
    BY <2>1, <2>4, SucceedType
  <2>5. CASE /\ Live(a) /\ turns' = [turns EXCEPT ![active[a]].interrupting = TRUE]
             /\ UNCHANGED <<comms, active, meta>>
    <3>1. [TurnOf(a) EXCEPT !.interrupting = TRUE] \in Turn /\ active[a] \in Slots
      BY <2>5, LiveTurnType DEF Turn
    <3>2. turns' = [turns EXCEPT ![active[a]] = [TurnOf(a) EXCEPT !.interrupting = TRUE]]
      BY <2>5, <3>1 DEF TurnOf
    <3>3. QED BY <2>5, <3>1, <3>2 DEF TypeOK, RuntimeOK, LedgerOK, Table
  <2>6. CASE meta' = [meta EXCEPT ![a] = IdleAgent] /\ UNCHANGED <<comms, active, turns>>
    BY <2>6, IdleTypes DEF TypeOK, RuntimeOK, LedgerOK, Table
  <2>7. QED BY <2>2, <2>3, <2>4, <2>5, <2>6 DEF Interrupt
<1>2. LedgerOK' /\ RuntimeOK'
  BY <1>1, LedgerKept, AgentStep DEF Interrupt, ForceFinish
<1>3. ExternalOK'
  <2>1. CASE End(a, "interrupted") /\ UNCHANGED carried
    BY <2>1, EndType DEF Outcome
  <2>2. CASE UNCHANGED external
    BY <2>2, Frame
  <2>3. QED BY <2>1, <2>2 DEF Interrupt, ForceFinish, external
<1>4. ControlOK'
  BY Budget DEF Interrupt, ForceFinish, TypeOK, ControlOK, control
<1>5. QED BY <1>2, <1>3, <1>4 DEF TypeOK

(* The registry: archival, the operator's answer to an interrupted Turn.       *)
LEMMA RegistryType ==
  ASSUME TypeOK, NEW a \in Agents, NEW m \in Msgs \cup {None},
         \/ ArchiveAgent(a) \/ DismissInterrupted(a)
         \/ m \in Msgs /\ ContinueInterrupted(a, m)
  PROVE  TypeOK'
<1>1. meta' \in [Agents -> Agent]
  <2>1. IdleAgent \in Agent /\ [IdleAgent EXCEPT !.status = "archived"] \in Agent
    BY IdleTypes DEF Agent, AgentStatus
  <2>2. QED BY <2>1 DEF ArchiveAgent, DismissInterrupted, ContinueInterrupted, TypeOK, RuntimeOK
<1>2. active' \in [Agents -> Slots \cup {None}] /\ turns' \in [Slots -> Turn]
  BY IdleTypes DEF ArchiveAgent, DismissInterrupted, ContinueInterrupted, TypeOK, RuntimeOK
<1>3. comms' \in Table
  <2>1. CASE m \in Msgs /\ ContinueInterrupted(a, m)
    BY <2>1, TableStep, RequeuedType DEF ContinueInterrupted
  <2>2. CASE ArchiveAgent(a) \/ DismissInterrupted(a)
    BY <2>2 DEF ArchiveAgent, DismissInterrupted, TypeOK, LedgerOK, Table
  <2>3. QED BY <2>1, <2>2
<1>4. LedgerOK' /\ RuntimeOK' /\ ExternalOK'
  BY <1>1, <1>2, <1>3, LedgerKept, AgentStep, Frame
  DEF ArchiveAgent, DismissInterrupted, ContinueInterrupted
<1>5. ControlOK'
  BY Budget DEF ArchiveAgent, DismissInterrupted, ContinueInterrupted, TypeOK, ControlOK, control
<1>6. QED BY <1>4, <1>5 DEF TypeOK

LEMMA FailQueuedType ==
  ASSUME TypeOK, NEW a \in Agents, FailQueued(a)
  PROVE  TypeOK'
<1>1. comms' \in Table
  <2>1. ASSUME NEW m \in Msgs PROVE [comms[m] EXCEPT !.delivery = "failed"] \in Message
    BY TableStep, FieldType, ConstantTypes
  <2>2. QED BY <2>1, TableStep DEF FailQueued, Table
<1>2. QED BY <1>1, LedgerKept, Frame DEF FailQueued, TypeOK

(* Drain and graceful shutdown. *)
LEMMA ShutdownType ==
  ASSUME TypeOK, BeginDrain \/ CancelDrain \/ Shutdown
  PROVE  TypeOK'
<1>1. ControlOK'
  BY Budget DEF BeginDrain, CancelDrain, Shutdown, TypeOK, ControlOK
<1>2. LedgerOK' /\ ExternalOK'
  BY Frame DEF BeginDrain, CancelDrain, Shutdown
<1>3. turns' \in [Slots -> Turn]
  <2>1. ASSUME NEW s \in Slots PROVE [turns[s] EXCEPT !.finished = TRUE] \in Turn
    BY DEF TypeOK, RuntimeOK, Turn
  <2>2. QED BY <2>1 DEF BeginDrain, CancelDrain, Shutdown, runtime, TypeOK, RuntimeOK
<1>4. RuntimeOK'
  BY <1>3, AgentStep DEF BeginDrain, CancelDrain, Shutdown, runtime, TypeOK, RuntimeOK
<1>5. QED BY <1>1, <1>2, <1>4 DEF TypeOK

LEMMA OrphanedType ==
  ASSUME TypeOK
  PROVE  Orphaned \in [Agents -> CodexTurn] /\ [a \in Agents |-> <<>>] \in [Agents -> Seq(Event)]
<1>1. ASSUME NEW a \in Agents
      PROVE  codex[a] \in CodexTurn /\ [codex[a] EXCEPT !.status = "orphan"] \in CodexTurn
  BY DEF TypeOK, ExternalOK, CodexTurn
<1>2. QED BY <1>1 DEF Orphaned

(* The CodexHost exits. *)
LEMMA HostExitType ==
  ASSUME TypeOK, HostExit
  PROVE  TypeOK'
<1>1. comms \in Table /\ "interrupted" \in Outcome
  BY DEF TypeOK, LedgerOK, Table, Outcome
<1>2. comms' \in Table
  <2>1. ASSUME NEW a \in Agents, Live(a), NEW m \in Msgs
        PROVE  Ended(comms, TurnOf(a), "interrupted")[m] \in Message
    <3>1. Ended(comms, TurnOf(a), "interrupted") \in Table
      BY <1>1, <2>1, LiveTurnType, EndedType
    <3>2. QED BY <3>1 DEF Table
  <2>2. ASSUME NEW m \in Msgs PROVE comms[m] \in Message
    BY <1>1 DEF Table
  <2>3. QED BY <2>1, <2>2 DEF HostExit, Table
<1>3. turns' \in [Slots -> Turn]
  <2>1. ASSUME NEW s \in Slots PROVE turns[s] \in Turn /\ Over(s, turns[s]) \in Turn
    BY IdleTypes DEF Over, TypeOK, RuntimeOK, Turn
  <2>2. QED BY <2>1 DEF HostExit
<1>4. meta' \in [Agents -> Agent] /\ active' \in [Agents -> Slots \cup {None}]
  BY IdleTypes DEF HostExit, TypeOK, RuntimeOK
<1>5. PICK S \in SUBSET {w \in Workers : workers[w].phase \in {"sending", "accepted"}} :
        workers' = [w \in Workers |->
          CASE w \in S /\ workers[w].phase = "sending" ->
                 [workers[w] EXCEPT !.phase = "returning", !.result = "busy"]
            [] \/ w \in S /\ workers[w].phase = "accepted"
               \/ workers[w].phase = "starting" -> [workers[w] EXCEPT !.phase = "lost"]
            [] OTHER -> workers[w]]
  BY DEF HostExit
<1>6. ASSUME NEW w \in Workers
      PROVE  /\ workers'[w] \in Worker
             /\ workers'[w].phase # "idle" => workers'[w].agent \in Agents
             /\ workers'[w].phase \in {"steering", "steered"} => workers'[w].msg \in Msgs
  <2>1. workers'[w] \in {[workers[w] EXCEPT !.phase = "returning", !.result = "busy"],
                         [workers[w] EXCEPT !.phase = "lost"], workers[w]}
    BY <1>5
  <2>2. workers'[w] # workers[w] => workers[w].phase \in {"sending", "accepted", "starting"}
    BY <1>5
  <2>3. /\ [workers[w] EXCEPT !.phase = "returning", !.result = "busy"] \in Worker
        /\ [workers[w] EXCEPT !.phase = "lost"] \in Worker
    BY WorkerFields DEF Worker, Phases, Results
  <2>4. workers'[w] \in Worker
    BY <2>1, <2>3, WorkerFields
  <2>5. CASE workers'[w] = workers[w]
    BY <2>4, <2>5, WorkerFields
  <2>6. CASE workers'[w] # workers[w]
    <3>1. workers[w].agent \in Agents
      BY <2>2, <2>6, WorkerFields
    <3>2. workers'[w].agent = workers[w].agent /\ workers'[w].phase \in {"returning", "lost"}
      BY <2>1, <2>6, WorkerFields DEF Worker
    <3>3. QED BY <2>4, <3>1, <3>2
  <2>7. QED BY <2>5, <2>6
<1>7. RuntimeOK'
  <2>1. workers' \in [Workers -> Worker]
    <3> DEFINE step(w) ==
          CASE w \in S /\ workers[w].phase = "sending" ->
                 [workers[w] EXCEPT !.phase = "returning", !.result = "busy"]
            [] \/ w \in S /\ workers[w].phase = "accepted"
               \/ workers[w].phase = "starting" -> [workers[w] EXCEPT !.phase = "lost"]
            [] OTHER -> workers[w]
    <3>1. workers' = [w \in Workers |-> step(w)]
      BY <1>5
    <3> HIDE DEF step
    <3>2. \A w \in Workers : step(w) \in Worker
      BY <1>6, <3>1
    <3>3. QED BY <3>1, <3>2
  <2>2. QED BY <1>3, <1>4, <1>6, <2>1 DEF RuntimeOK
<1>8. LedgerOK'
  BY <1>2, LedgerKept DEF HostExit
<1>9. ExternalOK'
  BY OrphanedType DEF HostExit, TypeOK, ExternalOK
<1>10. ControlOK'
  BY Budget DEF HostExit, TypeOK, ControlOK, control
<1>11. QED BY <1>7, <1>8, <1>9, <1>10 DEF TypeOK

(* Startup recovery, after a crash or a graceful shutdown.                     *)
LEMMA RecoveredType ==
  ASSUME TypeOK
  PROVE  RecoveredComms \in Table /\ \A a \in Agents : RecoveredAgent(a) \in Agent
<1> DEFINE loaded == [m \in Msgs |-> Loaded(comms[m])]
           c == Reconciled(loaded)
<1>1. loaded \in Table
  <2>1. ASSUME NEW m \in Msgs PROVE Loaded(comms[m]) \in Message
    BY TableStep, DeliveredType, ConstantTypes
  <2>2. QED BY <2>1 DEF Table
<1>2. c \in Table
  <2> HIDE DEF loaded
  <2> QED BY <1>1, ReconciledType
<1>3. ASSUME NEW a \in Agents PROVE LostTurn(a) \in TurnId /\ LostStatus(a) \in Outcome
  BY DEF LostTurn, LostStatus, Outcome, TypeOK, RuntimeOK, ExternalOK, Agent, CodexTurn
<1>4. ASSUME NEW m \in Msgs, NEW a \in Agents
      PROVE  Ended(c, [NoTurn EXCEPT !.msg = m, !.id = LostTurn(a)], LostStatus(a))[m] \in Message
  <2>1. [NoTurn EXCEPT !.msg = m, !.id = LostTurn(a)] \in Turn
    BY <1>3, IdleTypes DEF Turn
  <2>2. Ended(c, [NoTurn EXCEPT !.msg = m, !.id = LostTurn(a)], LostStatus(a)) \in Table
    <3> HIDE DEF c
    <3> QED BY <1>2, <1>3, <2>1, EndedType
  <2>3. QED BY <2>2 DEF Table
<1>5. \A m \in Msgs : c[m] \in Message
  <2> HIDE DEF c
  <2> QED BY <1>2 DEF Table
<1>6. RecoveredComms \in Table
  <2> HIDE DEF c
  <2>1. RecoveredComms =
          [m \in Msgs |->
             IF /\ c[m].to \in Agents /\ meta[c[m].to].status = "running" /\ LostTurn(c[m].to) # 0
                /\ c[m].mode = "turn_start" /\ c[m].turn = LostTurn(c[m].to)
             THEN Ended(c, [NoTurn EXCEPT !.msg = m, !.id = LostTurn(c[m].to)],
                        LostStatus(c[m].to))[m]
             ELSE c[m]]
    BY DEF RecoveredComms, c
  <2>2. QED BY <1>4, <1>5, <2>1 DEF Table
<1>7. ASSUME NEW a \in Agents PROVE RecoveredAgent(a) \in Agent
  BY <1>3, IdleTypes DEF RecoveredAgent, TypeOK, RuntimeOK
<1>8. QED BY <1>6, <1>7

LEMMA ReopenType ==
  ASSUME TypeOK, Crash \/ Restart
  PROVE  TypeOK'
<1>1. Reopen /\ (Fault \/ UNCHANGED spent)
  BY DEF Crash, Restart
<1>2. LedgerOK'
  BY <1>1, RecoveredType, LedgerKept DEF Reopen
<1>3. RuntimeOK'
  <2>1. /\ meta' \in [Agents -> Agent] /\ active' \in [Agents -> Slots \cup {None}]
        /\ turns' \in [Slots -> Turn] /\ workers' \in [Workers -> Worker]
    BY <1>1, RecoveredType, IdleTypes DEF Reopen
  <2>2. \A w \in Workers : workers'[w].phase = "idle"
    BY <1>1 DEF Reopen, Idle
  <2>3. QED BY <2>1, <2>2 DEF RuntimeOK
<1>4. ExternalOK'
  BY <1>1, OrphanedType DEF Reopen, TypeOK, ExternalOK
<1>5. ControlOK'
  BY <1>1, Budget DEF Reopen
<1>6. QED BY <1>2, <1>3, <1>4, <1>5 DEF TypeOK

----------------------------------------------------------------------------
LEMMA NextType == TypeOK /\ [Next]_vars => TypeOK'
<1> SUFFICES ASSUME TypeOK, [Next]_vars PROVE TypeOK'
  OBVIOUS
<1>1. CASE Commands
  <2>1. CASE \E m \in Msgs, route \in Routes :
               CreateMessage(m, route.from, route.to, route.response)
    BY <2>1, CommandType
  <2>2. CASE \E r, m \in Msgs : ReplyMessage(r, m)
    BY <2>2, CommandType
  <2>3. CASE \E m \in Msgs : \/ CancelMessage(m) \/ ResolveMessage(m)
                             \/ NoReplyMessage(m) \/ RetryMessage(m)
    BY <2>3, CommandType
  <2>4. CASE \E w \in Workers, a \in Agents : OwnerTask(w, a)
    BY <2>4, ClaimType
  <2>5. CASE \E a \in Agents : Interrupt(a)
    BY <2>5, InterruptType
  <2>6. CASE \E a \in Agents : ArchiveAgent(a) \/ DismissInterrupted(a)
    BY <2>6, RegistryType
  <2>7. CASE \E a \in Agents, m \in Msgs : ContinueInterrupted(a, m)
    BY <2>7, RegistryType
  <2>8. CASE BeginDrain \/ CancelDrain \/ Shutdown
    BY <2>8, ShutdownType
  <2>9. QED BY <1>1, <2>1, <2>2, <2>3, <2>4, <2>5, <2>6, <2>7, <2>8 DEF Commands
<1>2. CASE Delivering
  <2>1. CASE \E w \in Workers, a \in Agents, m \in Msgs : ClaimNext(w, a, m) \/ ClaimSteer(w, a, m)
    BY <2>1, ClaimType
  <2>2. CASE \E w \in Workers : SendRefused(w) \/ SendFailed(w) \/ ReserveTurn(w)
    BY <2>2, SendType
  <2>3. CASE \E w \in Workers : StartAnswered(w) \/ StartFailed(w)
    BY <2>3, StartAnsweredType, StartFailedType
  <2>4. CASE \E w \in Workers : Settle(w) \/ SteerSettled(w) \/ SteerDeferred(w)
    BY <2>4, SettleType
  <2>5. CASE \E w \in Workers : SteerAccepted(w) \/ CodexAccepts(w)
    BY <2>5, CodexType
  <2>6. CASE \E a \in Agents : FailQueued(a)
    BY <2>6, FailQueuedType
  <2>7. QED BY <1>2, <2>1, <2>2, <2>3, <2>4, <2>5, <2>6 DEF Delivering
<1>3. CASE Environment
  BY <1>3, NotifyType, InterruptType, CodexType, HostExitType, ReopenType DEF Environment
<1>4. CASE UNCHANGED vars
  BY <1>4, Frame DEF vars, runtime, external, control, TypeOK
<1>5. QED BY <1>1, <1>2, <1>3, <1>4 DEF Next

(* In every behaviour the tables, the runtime and the workers keep their types *)
(* and every busy worker serves an Agent: no command, notification, exit or    *)
(* recovery (communication.go, hub.go, agent.go) writes a record of another    *)
(* shape, a Turn id Codex never announced included.                            *)
THEOREM TypeCorrect == Spec => []TypeOK
<1>1. Init => TypeOK
  BY InitType
<1>2. TypeOK /\ [Next]_vars => TypeOK'
  BY NextType
<1>3. QED BY <1>1, <1>2, PTL DEF Spec

-----------------------------------------------------------------------------
(* Safety.  Sound is the inductive strengthening, stated of a table c and the  *)
(* workers W so that it can also be said of the tables between two parts of    *)
(* one step.  The difficulty is the reply a worker still holds when its Turn   *)
(* has already begun: settling it must not make it unreached.                  *)

Holding(W, w, m) == W[w].phase # "idle" /\ W[w].msg = m

(* A claimed message is held by a worker.                                     *)
Owned(c, W) ==
  \A m \in Msgs : c[m].delivery = "delivering" => \E w \in Workers : Holding(W, w, m)

(* A reply asks for nothing, so no command reopens or closes it.              *)
ClosedReplies(c) ==
  \A m \in Msgs : c[m].replyTo # None =>
    c[m].response = "none" /\ c[m].status = "closed" /\ c[m].resolution = "reply"

(* A reply has one holder, is not offered to another meanwhile, and if it is   *)
(* delivered already then a Turn has taken it.                                *)
HeldReplies(c, W) ==
  \A m \in Msgs, w \in Workers : c[m].replyTo # None /\ Holding(W, w, m) =>
    /\ c[m].delivery # "queued"
    /\ c[m].delivery \in {"delivering", "failed"} \/ c[m].attempts # <<>>
    /\ \A v \in Workers \ {w} : ~Holding(W, v, m)

(* An id not yet used answers nothing and nobody holds it.                    *)
Unused(c, W) ==
  \A m \in Msgs : c[m].delivery = "absent" =>
    /\ c[m].replyTo = None /\ c[m].status = "closed"
    /\ \A w \in Workers : ~Holding(W, w, m)

AnswerArrived(c) ==
  \A m \in Msgs : c[m].status = "answered" => \E r \in Msgs : c[r].replyTo = m /\ Arrived(c[r])

Sound(c, W) ==
  Owned(c, W) /\ ClosedReplies(c) /\ HeldReplies(c, W) /\ Unused(c, W) /\ AnswerArrived(c)

SameHolders(W, V) == \A w \in Workers, m \in Msgs : Holding(V, w, m) <=> Holding(W, w, m)

----------------------------------------------------------------------------
(* Tables.                                                                    *)

(* Turns that start, are renamed and end keep the table sound.                *)
LEMMA ProgressSound ==
  ASSUME NEW c, NEW d, NEW W, NEW V, Sound(c, W), Progress(c, d), SameHolders(W, V)
  PROVE  Sound(d, V)
<1> USE DEF Sound, SameHolders
<1>1. Owned(d, V)
  BY DEF Owned, Progress, Advanced
<1>2. ClosedReplies(d)
  BY DEF ClosedReplies, Progress, Advanced, SameAnswer
<1>3. HeldReplies(d, V)
  BY DEF HeldReplies, Progress, Advanced
<1>4. Unused(d, V)
  BY DEF Unused, Progress, Advanced, SameAnswer
<1>5. AnswerArrived(d)
  <2> SUFFICES ASSUME NEW m \in Msgs, d[m].status = "answered"
               PROVE  \E r \in Msgs : d[r].replyTo = m /\ Arrived(d[r])
    BY DEF AnswerArrived
  <2>1. CASE SameAnswer(c[m], d[m])
    <3>1. PICK r \in Msgs : c[r].replyTo = m /\ Arrived(c[r])
      BY <2>1 DEF AnswerArrived, SameAnswer
    <3>2. Advanced(c[r], d[r])
      BY DEF Progress
    <3>3. QED BY <3>1, <3>2, ArrivedStays DEF Advanced
  <2>2. CASE \E r \in Msgs : c[r].replyTo = m /\ Arrived(d[r])
    BY <2>2 DEF Progress, Advanced
  <2>3. QED BY <2>1, <2>2 DEF Progress
<1>6. QED BY <1>1, <1>2, <1>3, <1>4, <1>5

(* One known record changes and at most its own holders with it.              *)
LEMMA RecordSound ==
  ASSUME NEW c \in Table, NEW W, NEW V, NEW m \in Msgs, NEW new \in Message, Sound(c, W),
         c[m].delivery # "absent", new.delivery # "absent",
         new.replyTo = c[m].replyTo, new.response = c[m].response,
         c[m].replyTo # None => SameAnswer(c[m], new),
         new.status = "answered" => c[m].status = "answered",
         c[m].replyTo # None /\ Arrived(c[m]) => Arrived(new),
         new.delivery = "delivering" => \E w \in Workers : Holding(V, w, m),
         c[m].replyTo # None => \A w \in Workers : Holding(V, w, m) =>
           /\ new.delivery = "delivering"
           /\ \A v \in Workers \ {w} : ~Holding(V, v, m),
         \A w \in Workers, n \in Msgs \ {m} : Holding(V, w, n) <=> Holding(W, w, n)
  PROVE  Sound([c EXCEPT ![m] = new], V)
<1> DEFINE d == [c EXCEPT ![m] = new]
<1>1. d[m] = new /\ \A n \in Msgs \ {m} : d[n] = c[n]
  BY DEF Table
<1> HIDE DEF d
<1> USE DEF Sound
<1>2. Owned(d, V)
  BY <1>1 DEF Owned
<1>3. ClosedReplies(d)
  BY <1>1 DEF ClosedReplies, SameAnswer
<1>4. HeldReplies(d, V)
  BY <1>1 DEF HeldReplies
<1>5. Unused(d, V)
  BY <1>1 DEF Unused
<1>6. AnswerArrived(d)
  <2> SUFFICES ASSUME NEW k \in Msgs, d[k].status = "answered"
               PROVE  \E r \in Msgs : d[r].replyTo = k /\ Arrived(d[r])
    BY DEF AnswerArrived
  <2>1. c[k].status = "answered"
    BY <1>1
  <2>2. PICK r \in Msgs : c[r].replyTo = k /\ Arrived(c[r])
    BY <2>1 DEF AnswerArrived
  <2>3. d[r].replyTo = k
    BY <1>1, <2>2
  <2>4. Arrived(d[r])
    BY <1>1, <2>2, MessageAssumption
  <2>5. QED BY <2>3, <2>4
<1>7. QED BY <1>2, <1>3, <1>4, <1>5, <1>6 DEF d

(* A new message takes an unused id.                                          *)
LEMMA NewSound ==
  ASSUME NEW c \in Table, NEW W, NEW m \in Msgs, NEW new \in Message, Sound(c, W),
         c[m].delivery = "absent", new.delivery \in {"queued", "delivered"},
         new.status # "answered",
         new.replyTo # None =>
           new.response = "none" /\ new.status = "closed" /\ new.resolution = "reply"
  PROVE  Sound([c EXCEPT ![m] = new], W)
<1> DEFINE d == [c EXCEPT ![m] = new]
<1>1. d[m] = new /\ \A n \in Msgs \ {m} : d[n] = c[n]
  BY DEF Table
<1> HIDE DEF d
<1> USE DEF Sound
<1>2. Owned(d, W) /\ ClosedReplies(d) /\ HeldReplies(d, W) /\ Unused(d, W)
  BY <1>1 DEF Owned, ClosedReplies, HeldReplies, Unused
<1>3. AnswerArrived(d)
  BY <1>1, MessageAssumption DEF AnswerArrived, Unused
<1>4. QED BY <1>2, <1>3 DEF d

----------------------------------------------------------------------------
(* Steps.                                                                     *)

SafetyInv == Sound(comms, workers)

(* A step that only moves Turns along.                                        *)
LEMMA ProgressStep ==
  ASSUME SafetyInv, Progress(comms, comms'), SameHolders(workers, workers')
  PROVE  SafetyInv'
BY ProgressSound DEF SafetyInv

LEMMA SameWorkers ==
  ASSUME UNCHANGED workers
  PROVE  SameHolders(workers, workers')
BY DEF SameHolders, Holding

(* A command on a message that is no reply.                                   *)
LEMMA CommandStep ==
  ASSUME TypeOK, SafetyInv, NEW m \in Msgs, NEW new \in Message, Known(m),
         comms[m].replyTo = None, UNCHANGED workers,
         comms' = [comms EXCEPT ![m] = new], new.replyTo = None,
         new.response = comms[m].response,
         new.status \in {comms[m].status, "closed"},
         new.delivery \in {comms[m].delivery, "queued", "cancelled"}
  PROVE  SafetyInv'
<1>1. new.delivery = "delivering" => \E w \in Workers : Holding(workers, w, m)
  BY DEF SafetyInv, Sound, Owned
<1>2. comms \in Table /\ comms[m].delivery # "absent" /\ new.delivery # "absent"
  BY TableStep DEF Known
<1>3. Sound(comms', workers)
  BY <1>1, <1>2, RecordSound DEF SafetyInv
<1>4. QED BY <1>3 DEF SafetyInv

(* Only the delivery of a record changes. *)
LEMMA Redirected ==
  ASSUME NEW msg \in Message, NEW d \in Delivery
  PROVE  LET new == [msg EXCEPT !.delivery = d]
         IN  /\ new \in Message /\ new.delivery = d
             /\ new.replyTo = msg.replyTo /\ new.response = msg.response
             /\ new.status = msg.status /\ new.resolution = msg.resolution
             /\ new.attempts = msg.attempts
<1>1. [msg EXCEPT !.delivery = d] \in Message
  BY FieldType
<1>2. QED BY <1>1 DEF Message

LEMMA MessageCommandSound ==
  ASSUME TypeOK, SafetyInv, NEW m \in Msgs,
         \/ CancelMessage(m) \/ ResolveMessage(m) \/ NoReplyMessage(m) \/ RetryMessage(m)
         \/ \E a \in Agents : ContinueInterrupted(a, m)
  PROVE  SafetyInv'
<1>1. comms[m] \in Message /\ UNCHANGED workers
  BY TableStep DEF CancelMessage, ResolveMessage, NoReplyMessage, RetryMessage,
                   ContinueInterrupted, runtime
<1>2. Known(m)
  BY DEF CancelMessage, ResolveMessage, NoReplyMessage, RetryMessage, ContinueInterrupted,
         First, HeldMessages
<1>3. comms[m].replyTo = None
  BY DEF SafetyInv, Sound, ClosedReplies, CancelMessage, ResolveMessage, NoReplyMessage,
         RetryMessage, ContinueInterrupted
<1>4. CASE CancelMessage(m) \/ ResolveMessage(m)
  <2>1. PICK reason \in {"cancelled", "superseded"} :
          comms' = [comms EXCEPT ![m] = Withdrawn(comms[m], reason)]
    BY <1>4 DEF CancelMessage, ResolveMessage
  <2> DEFINE new == Withdrawn(comms[m], reason)
  <2>2. new \in Message
    BY <1>1, ClosedType, ConstantTypes
  <2>3. /\ new.replyTo = comms[m].replyTo /\ new.response = comms[m].response
        /\ new.status = "closed" /\ new.delivery \in {comms[m].delivery, "cancelled"}
    BY <1>1 DEF Withdrawn, Closed, Message
  <2>4. QED
    <3> HIDE DEF new
    <3> QED BY <1>1, <1>2, <1>3, <2>1, <2>2, <2>3, CommandStep DEF new
<1>5. CASE NoReplyMessage(m)
  <2> DEFINE new == Closed(comms[m], "no_reply")
  <2>1. comms' = [comms EXCEPT ![m] = new]
    BY <1>5 DEF NoReplyMessage
  <2>2. new \in Message
    BY <1>1, ClosedType, ConstantTypes
  <2>3. /\ new.replyTo = comms[m].replyTo /\ new.response = comms[m].response
        /\ new.status = "closed" /\ new.delivery = comms[m].delivery
    BY <1>1 DEF Closed, Message
  <2>4. QED
    <3> HIDE DEF new
    <3> QED BY <1>1, <1>2, <1>3, <2>1, <2>2, <2>3, CommandStep
<1>6. CASE RetryMessage(m) \/ \E a \in Agents : ContinueInterrupted(a, m)
  <2> DEFINE new == Requeued(comms[m])
  <2>1. comms' = [comms EXCEPT ![m] = new]
    BY <1>6 DEF RetryMessage, ContinueInterrupted
  <2>2. new \in Message
    BY <1>1, RequeuedType
  <2>3. /\ new.replyTo = comms[m].replyTo /\ new.response = comms[m].response
        /\ new.status = comms[m].status /\ new.delivery = "queued"
    BY <1>1 DEF Requeued, Message
  <2>4. QED
    <3> HIDE DEF new
    <3> QED BY <1>1, <1>2, <1>3, <2>1, <2>2, <2>3, CommandStep
<1>7. QED BY <1>4, <1>5, <1>6

LEMMA CreateSound ==
  ASSUME TypeOK, SafetyInv, NEW m \in Msgs, NEW route \in Routes,
         CreateMessage(m, route.from, route.to, route.response)
  PROVE  SafetyInv'
<1> DEFINE new == NewRequest(route.from, route.to, route.response, SourceTurn(route.from))
<1>1. comms' = [comms EXCEPT ![m] = new] /\ UNCHANGED workers
  BY DEF CreateMessage, runtime
<1>2. new \in Message
  <2>1. /\ route.from \in Sender /\ route.to \in Sender
        /\ route.response \in {"required", "none"}
    BY DeliveryAssumption, ConstantTypes
  <2>2. QED BY <2>1, SourceTurnType, NewRequestType
<1>3. new.delivery = "queued" /\ new.status # "answered" /\ new.replyTo = None
  BY DEF NewRequest, NoMessage
<1>4. comms \in Table /\ comms[m].delivery = "absent"
  BY TableStep DEF CreateMessage, Known
<1> HIDE DEF new
<1>5. Sound(comms', workers)
  BY <1>1, <1>2, <1>3, <1>4, NewSound DEF SafetyInv
<1>6. QED BY <1>1, <1>5 DEF SafetyInv

LEMMA ReplySound ==
  ASSUME TypeOK, SafetyInv, NEW r \in Msgs, NEW m \in Msgs, ReplyMessage(r, m)
  PROVE  SafetyInv'
<1> DEFINE source == IF comms[m].from = Scheduler THEN 0 ELSE SourceTurn(comms[m].to)
           new == NewReply(m, comms[m], source)
           next == [comms EXCEPT ![r] = new]
<1>1. comms' = Answered(next, r) /\ UNCHANGED workers
  BY DEF ReplyMessage, runtime
<1>2. new \in Message
  <2>1. comms[m] \in Message /\ comms[m].to \in Sender
    BY TableStep, MessageFields
  <2>2. source \in TurnId
    BY <2>1, SourceTurnType, ConstantTypes
  <2>3. QED
    <3> HIDE DEF source
    <3> QED BY <2>1, <2>2, NewReplyType
<1>3. /\ new.delivery \in {"queued", "delivered"} /\ new.status = "closed"
      /\ new.response = "none" /\ new.resolution = "reply"
  BY DEF NewReply, NoMessage
<1>4. comms \in Table /\ comms[r].delivery = "absent"
  BY TableStep DEF ReplyMessage, Known
<1> HIDE DEF new
<1>5. Sound(next, workers)
  BY <1>2, <1>3, <1>4, NewSound DEF SafetyInv
<1>6. next \in Table
  BY <1>2, TableStep
<1> HIDE DEF next
<1>7. Progress(next, Answered(next, r))
  BY <1>6, AnsweredProgress
<1>8. Sound(comms', workers')
  BY <1>1, <1>5, <1>7, ProgressSound, SameWorkers
<1>9. QED BY <1>8 DEF SafetyInv

(* A worker takes a queued message: nobody held it.                           *)
LEMMA ClaimSound ==
  ASSUME TypeOK, SafetyInv, NEW w \in Workers, NEW a \in Agents, NEW m \in Msgs,
         ClaimNext(w, a, m) \/ ClaimSteer(w, a, m)
  PROVE  SafetyInv'
<1> DEFINE new == [comms[m] EXCEPT !.delivery = "delivering"]
<1>1. comms' = [comms EXCEPT ![m] = new]
  BY DEF ClaimNext, ClaimSteer
<1>2. comms \in Table /\ comms[m] \in Message /\ comms[m].delivery = "queued"
  BY TableStep DEF ClaimNext, ClaimSteer, First, Startable, Steerable, Queued
<1>3. /\ new \in Message /\ new.replyTo = comms[m].replyTo /\ new.response = comms[m].response
      /\ new.status = comms[m].status /\ new.resolution = comms[m].resolution
      /\ new.attempts = comms[m].attempts /\ new.delivery = "delivering"
  BY <1>2, Redirected, ConstantTypes
<1>4. /\ workers[w].phase = "idle"
      /\ \A v \in Workers \ {w} : workers'[v] = workers[v]
      /\ workers'[w].phase # "idle" /\ workers'[w].msg = m
  <2>1. workers' \in
          {[workers EXCEPT ![w] = [Idle EXCEPT !.phase = "sending", !.agent = a, !.msg = m]],
           [workers EXCEPT ![w] = [Idle EXCEPT !.phase = "steering", !.agent = a,
                                               !.msg = m, !.turn = TurnOf(a).id]]}
    BY DEF ClaimNext, ClaimSteer, Start
  <2>2. workers[w].phase = "idle" /\ DOMAIN workers = Workers
    BY DEF ClaimNext, ClaimSteer, Free, TypeOK, RuntimeOK
  <2>3. QED BY <2>1, <2>2 DEF Idle
<1>5. /\ Holding(workers', w, m)
      /\ \A v \in Workers, n \in Msgs \ {m} : Holding(workers', v, n) <=> Holding(workers, v, n)
  BY <1>4 DEF Holding
<1>6. comms[m].replyTo # None => \A v \in Workers : ~Holding(workers, v, m)
  BY <1>2 DEF SafetyInv, Sound, HeldReplies
<1>7. comms[m].replyTo # None => \A v \in Workers :
        Holding(workers', v, m) => \A u \in Workers \ {v} : ~Holding(workers', u, m)
  BY <1>4, <1>6 DEF Holding
<1> HIDE DEF new
<1>8. Arrived(comms[m]) => Arrived(new)
  BY <1>2, <1>3 DEF Arrived
<1>9. Sound(comms', workers')
  BY <1>1, <1>2, <1>3, <1>5, <1>7, <1>8, RecordSound DEF SafetyInv, SameAnswer
<1>10. QED BY <1>9 DEF SafetyInv

(* A worker lets go of its message.                                           *)
LEMMA ReleaseSound ==
  ASSUME TypeOK, SafetyInv, NEW w \in Workers, NEW m \in Msgs, NEW new \in Message,
         Holding(workers, w, m), workers' = [workers EXCEPT ![w] = Idle],
         new.replyTo = comms[m].replyTo, new.response = comms[m].response,
         SameAnswer(comms[m], new), new.attempts = comms[m].attempts,
         new.delivery \in {"queued", "failed", "delivered"},
         comms' \in {[comms EXCEPT ![m] = new], Answered([comms EXCEPT ![m] = new], m)}
  PROVE  SafetyInv'
<1> DEFINE c == [comms EXCEPT ![m] = new]
<1>1. comms \in Table /\ comms[m].delivery # "absent"
  BY TableStep DEF SafetyInv, Sound, Unused
<1>2. /\ \A v \in Workers \ {w} : workers'[v] = workers[v]
      /\ workers'[w].phase = "idle"
  BY DEF TypeOK, RuntimeOK, Idle
<1>3. \A v \in Workers, n \in Msgs \ {m} : Holding(workers', v, n) <=> Holding(workers, v, n)
  BY <1>2 DEF Holding
<1>4. comms[m].replyTo # None => \A v \in Workers : ~Holding(workers', v, m)
  BY <1>2 DEF Holding, SafetyInv, Sound, HeldReplies
<1>5. comms[m].replyTo # None /\ Arrived(comms[m]) => Arrived(new)
  BY DEF Arrived, SafetyInv, Sound, HeldReplies
<1>6. Sound(c, workers')
  BY <1>1, <1>3, <1>4, <1>5, RecordSound DEF SafetyInv, SameAnswer
<1>7. c \in Table
  BY TableStep
<1> HIDE DEF c
<1>8. Sound(Answered(c, m), workers')
  BY <1>6, <1>7, AnsweredProgress, ProgressSound DEF SameHolders
<1>9. QED BY <1>6, <1>8 DEF SafetyInv, c

LEMMA SettleSound ==
  ASSUME TypeOK, SafetyInv, NEW w \in Workers, Settle(w) \/ SteerSettled(w) \/ SteerDeferred(w)
  PROVE  SafetyInv'
<1> DEFINE m == workers[w].msg
<1>1. workers' = [workers EXCEPT ![w] = Idle] /\ workers[w].phase # "idle"
  BY DEF Settle, SteerSettled, SteerDeferred
<1>2. workers[w].turn \in TurnId /\ (m = None \/ m \in Msgs)
  BY WorkerFields
<1>3. CASE m = None
  <2>1. Settle(w)
    BY <1>3, WorkerFields, MessageAssumption DEF SteerSettled, SteerDeferred
  <2>2. UNCHANGED comms
    BY <1>3, <2>1 DEF Settle
  <2>3. SameHolders(workers, workers')
    BY <1>1, <1>3, MessageAssumption DEF SameHolders, Holding, Idle, TypeOK, RuntimeOK
  <2>4. QED BY <2>2, <2>3, ProgressReflexive, ProgressStep
<1>4. CASE m \in Msgs
  <2>1. comms[m] \in Message /\ Holding(workers, w, m) /\ m # None
    BY <1>1, <1>4, TableStep, MessageAssumption DEF Holding
  <2>2. CASE Settle(w)
    <3> DEFINE new == Settled(comms[m], workers[w].result, workers[w].turn)
    <3>1. new \in Message
      BY <1>2, <2>1, FieldType, DeliveredType, ConstantTypes DEF Settled
    <3>2. /\ new.replyTo = comms[m].replyTo /\ new.response = comms[m].response
          /\ new.status = comms[m].status /\ new.resolution = comms[m].resolution
          /\ new.attempts = comms[m].attempts
          /\ new.delivery \in {"queued", "failed", "delivered"}
      BY <2>1 DEF Settled, Delivered, Message
    <3>3. /\ [comms EXCEPT ![m] = new][m] = new
          /\ new = comms[m] => comms = [comms EXCEPT ![m] = new]
      <4> HIDE DEF new
      <4> QED BY <1>4, TableStep DEF Table
    <3>4. comms' \in {[comms EXCEPT ![m] = new], Answered([comms EXCEPT ![m] = new], m)}
      BY <2>1, <2>2, <3>3 DEF Settle
    <3>5. QED
      <4> HIDE DEF new
      <4> QED BY <1>1, <1>4, <2>1, <3>1, <3>2, <3>4, ReleaseSound DEF SameAnswer
  <2>3. CASE SteerSettled(w)
    <3> DEFINE new == Delivered(comms[m], "turn_steer", workers[w].turn)
    <3>1. new \in Message
      BY <1>2, <2>1, DeliveredType
    <3>2. /\ new.replyTo = comms[m].replyTo /\ new.response = comms[m].response
          /\ new.status = comms[m].status /\ new.resolution = comms[m].resolution
          /\ new.attempts = comms[m].attempts /\ new.delivery = "delivered"
      BY <2>1 DEF Delivered, Message
    <3>3. comms' = Answered([comms EXCEPT ![m] = new], m)
      BY <2>3 DEF SteerSettled
    <3>4. QED
      <4> HIDE DEF new
      <4> QED BY <1>1, <1>4, <2>1, <3>1, <3>2, <3>3, ReleaseSound DEF SameAnswer
  <2>4. CASE SteerDeferred(w)
    <3> DEFINE new == [comms[m] EXCEPT !.delivery = "queued"]
    <3>1. /\ new \in Message
          /\ new.replyTo = comms[m].replyTo /\ new.response = comms[m].response
          /\ new.status = comms[m].status /\ new.resolution = comms[m].resolution
          /\ new.attempts = comms[m].attempts /\ new.delivery = "queued"
      BY <2>1, Redirected, ConstantTypes
    <3>2. comms' = [comms EXCEPT ![m] = new]
      BY <2>4 DEF SteerDeferred
    <3>3. QED
      <4> HIDE DEF new
      <4> QED BY <1>1, <1>4, <2>1, <3>1, <3>2, ReleaseSound DEF SameAnswer
  <2>5. QED BY <2>2, <2>3, <2>4
<1>5. QED BY <1>2, <1>3, <1>4

(* The Turn of a worker whose turn/start came back.                            *)
LEMMA StartSound ==
  ASSUME TypeOK, SafetyInv, NEW w \in Workers, StartAnswered(w) \/ StartFailed(w)
  PROVE  SafetyInv'
<1> DEFINE o == turns[w]
           o1 == [o EXCEPT !.id = IF o.id = 0 THEN workers[w].turn ELSE o.id]
           a == workers[w].agent
<1>1. comms \in Table /\ o \in Turn /\ workers[w].turn \in TurnId
  BY WorkerFields DEF TypeOK, LedgerOK, Table
<1>2. o1 \in Turn
  <2>1. o.id \in TurnId
    BY <1>1 DEF Turn
  <2>2. QED
    <3> HIDE DEF o
    <3> QED BY <1>1, <2>1 DEF Turn
<1>3. /\ workers[w].phase \in {"starting", "accepted", "lost"}
      /\ workers'[w].phase # "idle" /\ workers'[w].msg = workers[w].msg
      /\ \A v \in Workers \ {w} : workers'[v] = workers[v]
  BY DEF StartAnswered, StartFailed, TypeOK, RuntimeOK, Worker
<1>4. SameHolders(workers, workers')
  BY <1>3 DEF SameHolders, Holding
<1>5. Progress(comms, comms')
  <2>1. CASE StartAnswered(w)
    <3>1. comms' = comms \/ comms' = Running(comms, o1)
      BY <2>1 DEF StartAnswered
    <3>2. QED
      <4> HIDE DEF o1
      <4> QED BY <1>1, <1>2, <3>1, ProgressReflexive, RunningProgress
  <2>2. CASE StartFailed(w)
    <3>1. a \in Agents
      BY <1>3, WorkerFields
    <3>2. comms' = comms \/ (Live(a) /\ comms' = Ended(comms, TurnOf(a), "failed"))
      BY <2>2 DEF StartFailed, FinishTurn
    <3>3. "failed" \in Outcome
      BY DEF Outcome
    <3>4. QED BY <1>1, <3>1, <3>2, <3>3, LiveTurnType, ProgressReflexive, EndedProgress
  <2>3. QED BY <2>1, <2>2
<1>6. QED BY <1>4, <1>5, ProgressStep

LEMMA SucceedProgress ==
  ASSUME TypeOK, NEW a \in Agents, NEW id, NEW interrupting, Succeed(a, id, interrupting)
  PROVE  Progress(comms, comms')
<1>1. comms \in Table /\ "interrupted" \in Outcome
  BY DEF TypeOK, LedgerOK, Table, Outcome
<1>2. comms' = comms \/ (Live(a) /\ comms' = Ended(comms, TurnOf(a), "interrupted"))
  BY DEF Succeed
<1>3. QED BY <1>1, <1>2, LiveTurnType, ProgressReflexive, EndedProgress

LEMMA RebindProgress ==
  ASSUME TypeOK, NEW a \in Agents, Live(a), NEW id \in TurnId, NEW interrupting,
         Rebind(a, TurnOf(a), id, interrupting)
  PROVE  Progress(comms, comms')
BY LiveTurnType, ReboundProgress DEF Rebind, TypeOK, LedgerOK, Table

LEMMA NotifySound ==
  ASSUME TypeOK, SafetyInv, NEW a \in Agents, Notify(a)
  PROVE  SafetyInv'
<1> DEFINE e == Head(notes[a])
           o == TurnOf(a)
<1>1. notes[a] \in Seq(Event) /\ notes[a] # <<>>
  BY DEF TypeOK, ExternalOK, Notify
<1>2. e \in Event
  BY <1>1, HeadTailProperties
<1>3. /\ e.id \in TurnId /\ e.kind \in {"started", "ended"}
      /\ e.kind = "ended" => e.status \in Outcome
  BY <1>2 DEF Event
<1>4. comms \in Table
  BY DEF TypeOK, LedgerOK, Table
<1>5. Progress(comms, comms')
  <2>1. CASE UNCHANGED comms
    BY <2>1, ProgressReflexive
  <2>2. CASE TurnStarted(a, e.id)
    BY <1>3, <2>1, <2>2, SucceedProgress, RebindProgress DEF TurnStarted
  <2>3. CASE e.kind = "ended" /\ TurnEnded(a, e.id, e.status)
    <3>1. CASE Live(a)
      <4>1. o \in Turn
        BY <3>1, LiveTurnType
      <4> DEFINE c == Rebound(comms, o, e.id)
                 t == ReboundTurn(comms, o, e.id)
      <4>2. \/ comms' = comms \/ comms' = Ended(comms, o, e.status)
            \/ comms' = Ended(c, t, e.status)
        BY <2>3 DEF TurnEnded, FinishTurn
      <4>3. t \in Turn /\ c \in Table /\ Progress(comms, c)
        <5> HIDE DEF o, e
        <5> QED BY <1>3, <1>4, <4>1, ReboundTurnType, ReboundType, ReboundProgress
      <4>4. e.status \in Outcome
        BY <1>3, <2>3
      <4>5. QED
        <5> HIDE DEF o, e, c, t
        <5> QED BY <1>4, <4>1, <4>2, <4>3, <4>4, ProgressReflexive, EndedProgress,
                   ProgressTransitive
    <3>2. CASE ~Live(a)
      BY <2>1, <2>3, <3>2 DEF TurnEnded
    <3>3. QED BY <3>1, <3>2
  <2>4. QED BY <1>3, <2>1, <2>2, <2>3 DEF Notify
<1>6. QED BY <1>5, SameWorkers, ProgressStep DEF Notify

LEMMA InterruptSound ==
  ASSUME TypeOK, SafetyInv, NEW a \in Agents, Interrupt(a) \/ ForceFinish(a)
  PROVE  SafetyInv'
<1>1. comms \in Table /\ "interrupted" \in Outcome /\ codex[a].id \in TurnId
  BY DEF TypeOK, LedgerOK, Table, Outcome, ExternalOK, CodexTurn
<1>2. Progress(comms, comms')
  <2>1. CASE UNCHANGED comms
    BY <2>1, ProgressReflexive
  <2>2. CASE Live(a) /\ Rebind(a, TurnOf(a), codex[a].id, TRUE)
    BY <1>1, <2>2, RebindProgress
  <2>3. CASE Succeed(a, codex[a].id, TRUE)
    BY <2>3, SucceedProgress
  <2>4. CASE ForceFinish(a)
    BY <1>1, <2>4, LiveTurnType, EndedProgress DEF ForceFinish, FinishTurn
  <2>5. QED BY <2>1, <2>2, <2>3, <2>4 DEF Interrupt
<1>3. UNCHANGED workers
  BY DEF Interrupt, ForceFinish
<1>4. QED BY <1>2, <1>3, SameWorkers, ProgressStep

LEMMA FailQueuedSound ==
  ASSUME TypeOK, SafetyInv, NEW a \in Agents, FailQueued(a)
  PROVE  SafetyInv'
<1>1. ASSUME NEW m \in Msgs PROVE Advanced(comms[m], comms'[m]) /\ SameAnswer(comms[m], comms'[m])
                                  /\ (comms[m].delivery = "absent" => comms'[m].delivery = "absent")
  <2>1. comms[m] \in Message
    BY TableStep
  <2>2. CASE m \in Queued(a)
    <3> DEFINE new == [comms[m] EXCEPT !.delivery = "failed"]
    <3>1. comms'[m] = new /\ comms[m].delivery = "queued"
      BY <2>2 DEF FailQueued, Queued
    <3>2. /\ new.delivery = "failed"
          /\ new.replyTo = comms[m].replyTo /\ new.response = comms[m].response
          /\ new.status = comms[m].status /\ new.resolution = comms[m].resolution
          /\ new.attempts = comms[m].attempts
      BY <2>1, Redirected, ConstantTypes
    <3>3. QED
      <4> HIDE DEF new
      <4> QED BY <3>1, <3>2 DEF Advanced, SameAnswer
  <2>3. CASE m \notin Queued(a)
    BY <2>3 DEF FailQueued, Advanced, SameAnswer
  <2>4. QED BY <2>2, <2>3
<1>2. Progress(comms, comms')
  BY <1>1 DEF Progress
<1>3. QED BY <1>2, SameWorkers, ProgressStep DEF FailQueued, runtime

(* Ending several Turns at once, each in the record of its own message.       *)
LEMMA OwnEndsProgress ==
  ASSUME NEW c \in Table, NEW d, ClosedReplies(c),
         \A m \in Msgs : d[m] = c[m] \/ \E o \in Turn, status \in Outcome :
                           o.msg = m /\ d[m] = Ended(c, o, status)[m]
  PROVE  Progress(c, d)
<1> SUFFICES ASSUME NEW m \in Msgs
             PROVE  /\ Advanced(c[m], d[m]) /\ SameAnswer(c[m], d[m])
                    /\ c[m].delivery = "absent" => d[m].delivery = "absent"
  BY DEF Progress
<1>1. CASE d[m] = c[m]
  BY <1>1 DEF Advanced, SameAnswer
<1>2. CASE \E o \in Turn, status \in Outcome : o.msg = m /\ d[m] = Ended(c, o, status)[m]
  <2>1. PICK o \in Turn, status \in Outcome : o.msg = m /\ d[m] = Ended(c, o, status)[m]
    BY <1>2
  <2>2. Progress(c, Ended(c, o, status))
    BY EndedProgress
  <2>3. SameAnswer(c[m], d[m])
    BY <2>1, EndedOwn DEF ClosedReplies
  <2>4. QED BY <2>1, <2>2, <2>3 DEF Progress
<1>3. QED BY <1>1, <1>2

LEMMA HostExitSound ==
  ASSUME TypeOK, SafetyInv, HostExit
  PROVE  SafetyInv'
<1>1. comms \in Table /\ ClosedReplies(comms) /\ "interrupted" \in Outcome
  BY DEF TypeOK, LedgerOK, Table, SafetyInv, Sound, Outcome
<1>2. ASSUME NEW m \in Msgs
      PROVE  comms'[m] = comms[m] \/ \E o \in Turn, status \in Outcome :
               o.msg = m /\ comms'[m] = Ended(comms, o, status)[m]
  <2> DEFINE a == comms[m].to
  <2>1. CASE a \in Agents /\ Live(a) /\ TurnOf(a).msg = m
    <3>1. comms'[m] = Ended(comms, TurnOf(a), "interrupted")[m]
      BY <2>1 DEF HostExit
    <3>2. QED BY <1>1, <2>1, <3>1, LiveTurnType
  <2>2. CASE ~(a \in Agents /\ Live(a) /\ TurnOf(a).msg = m)
    BY <2>2 DEF HostExit
  <2>3. QED BY <2>1, <2>2
<1>3. Progress(comms, comms')
  BY <1>1, <1>2, OwnEndsProgress
<1>4. PICK S \in SUBSET {w \in Workers : workers[w].phase \in {"sending", "accepted"}} :
        workers' = [w \in Workers |->
          CASE w \in S /\ workers[w].phase = "sending" ->
                 [workers[w] EXCEPT !.phase = "returning", !.result = "busy"]
            [] \/ w \in S /\ workers[w].phase = "accepted"
               \/ workers[w].phase = "starting" -> [workers[w] EXCEPT !.phase = "lost"]
            [] OTHER -> workers[w]]
  BY DEF HostExit
<1>5. ASSUME NEW w \in Workers
      PROVE  /\ workers'[w].msg = workers[w].msg
             /\ workers'[w].phase = "idle" <=> workers[w].phase = "idle"
  <2>1. workers[w] \in Worker
    BY WorkerFields
  <2> DEFINE busy == [workers[w] EXCEPT !.phase = "returning", !.result = "busy"]
             lost == [workers[w] EXCEPT !.phase = "lost"]
  <2>2. /\ busy.msg = workers[w].msg /\ busy.phase = "returning"
        /\ lost.msg = workers[w].msg /\ lost.phase = "lost"
    BY <2>1 DEF Worker
  <2>3. \/ workers'[w] = workers[w]
        \/ workers[w].phase # "idle" /\ workers'[w] \in {busy, lost}
    BY <1>4
  <2>4. QED
    <3> HIDE DEF busy, lost
    <3> QED BY <2>2, <2>3
<1>6. SameHolders(workers, workers')
  BY <1>5 DEF SameHolders, Holding
<1>7. QED BY <1>3, <1>6, ProgressStep

(* Startup: claimed messages are queued again, delivered replies answer their *)
(* requests, interrupted Turns end.  No worker survives.                      *)
LEMMA ReopenSound ==
  ASSUME TypeOK, SafetyInv, Crash \/ Restart
  PROVE  SafetyInv'
<1> DEFINE loaded == [m \in Msgs |-> Loaded(comms[m])]
           c == Reconciled(loaded)
<1>1. comms' = RecoveredComms /\ \A w \in Workers : workers'[w].phase = "idle"
  BY DEF Crash, Restart, Reopen, Idle
<1>2. \A w \in Workers, m \in Msgs : ~Holding(workers', w, m)
  BY <1>1 DEF Holding
<1>3. ASSUME NEW m \in Msgs
      PROVE  /\ loaded[m] \in Message
             /\ loaded[m].replyTo = comms[m].replyTo /\ loaded[m].response = comms[m].response
             /\ SameAnswer(comms[m], loaded[m]) /\ loaded[m].attempts = comms[m].attempts
             /\ loaded[m].delivery = IF comms[m].delivery = "delivering" THEN "queued"
                                     ELSE comms[m].delivery
  <2> DEFINE d == IF comms[m].delivery = "delivering" THEN "queued" ELSE comms[m].delivery
  <2>1. comms[m] \in Message /\ d \in Delivery
    BY TableStep, MessageFields, ConstantTypes
  <2>2. loaded[m] = [comms[m] EXCEPT !.delivery = d]
    BY DEF Loaded
  <2> HIDE DEF d, loaded
  <2>3. QED BY <2>1, <2>2, Redirected DEF SameAnswer, d
<1>4. loaded \in Table
  <2>1. loaded = [m \in Msgs |-> loaded[m]]
    OBVIOUS
  <2>2. QED
    <3> HIDE DEF loaded
    <3> QED BY <1>3, <2>1 DEF Table
<1>5. Sound(loaded, workers')
  <2> HIDE DEF loaded
  <2> USE DEF SafetyInv, Sound
  <2>1. Owned(loaded, workers') /\ HeldReplies(loaded, workers')
    BY <1>2, <1>3 DEF Owned, HeldReplies
  <2>2. ClosedReplies(loaded) /\ Unused(loaded, workers')
    BY <1>2, <1>3 DEF ClosedReplies, Unused, SameAnswer
  <2>3. AnswerArrived(loaded)
    <3> SUFFICES ASSUME NEW m \in Msgs, loaded[m].status = "answered"
                 PROVE  \E r \in Msgs : loaded[r].replyTo = m /\ Arrived(loaded[r])
      BY DEF AnswerArrived
    <3>1. comms[m].status = "answered"
      BY <1>3 DEF SameAnswer
    <3>2. PICK r \in Msgs : comms[r].replyTo = m /\ Arrived(comms[r])
      BY <3>1 DEF AnswerArrived
    <3>3. QED BY <1>3, <3>2 DEF Arrived
  <2>4. QED BY <2>1, <2>2, <2>3
<1>6. c \in Table /\ Progress(loaded, c)
  <2> HIDE DEF loaded
  <2>1. c \in Table
    BY <1>4, ReconciledType
  <2>2. ASSUME NEW m \in Msgs
        PROVE  /\ Advanced(loaded[m], c[m])
               /\ loaded[m].delivery = "absent" => c[m].delivery = "absent"
               /\ \/ SameAnswer(loaded[m], c[m])
                  \/ /\ loaded[m].status = "open" /\ c[m].status = "answered"
                     /\ \E r \in Msgs : loaded[r].replyTo = m /\ loaded[r].delivery = "delivered"
    <3>1. CASE c[m] = loaded[m]
      BY <3>1 DEF Advanced, SameAnswer
    <3>2. CASE c[m] # loaded[m]
      <4>1. loaded[m] \in Message
        BY <1>3
      <4>2. /\ c[m] = [loaded[m] EXCEPT !.status = "answered", !.resolution = "reply"]
            /\ loaded[m].status = "open"
            /\ \E r \in Msgs : loaded[r].replyTo = m /\ loaded[r].delivery = "delivered"
        BY <3>2 DEF Reconciled
      <4> HIDE DEF c
      <4>3. /\ c[m].status = "answered" /\ c[m].replyTo = loaded[m].replyTo
            /\ c[m].response = loaded[m].response /\ c[m].attempts = loaded[m].attempts
            /\ c[m].delivery = loaded[m].delivery
        BY <4>1, <4>2 DEF Message
      <4>4. QED BY <4>2, <4>3 DEF Advanced
    <3>3. QED BY <3>1, <3>2
  <2> HIDE DEF c
  <2>3. ASSUME NEW r \in Msgs, loaded[r].delivery = "delivered" PROVE Arrived(c[r])
    BY <2>2, <2>3, ArrivedStays DEF Arrived
  <2>4. QED BY <2>1, <2>2, <2>3 DEF Progress
<1>7. Sound(c, workers')
  <2> HIDE DEF c, loaded
  <2>1. SameHolders(workers', workers')
    BY DEF SameHolders
  <2>2. QED BY <1>5, <1>6, <2>1, ProgressSound
<1>8. ASSUME NEW a \in Agents, NEW m \in Msgs
      PROVE  /\ [NoTurn EXCEPT !.msg = m, !.id = LostTurn(a)] \in Turn
             /\ LostStatus(a) \in Outcome
  <2>1. LostTurn(a) \in TurnId /\ LostStatus(a) \in Outcome
    BY DEF LostTurn, LostStatus, Outcome, TypeOK, RuntimeOK, ExternalOK, Agent, CodexTurn
  <2>2. QED BY <2>1, IdleTypes DEF Turn
<1>9. ASSUME NEW m \in Msgs
      PROVE  comms'[m] = c[m] \/ \E o \in Turn, status \in Outcome :
               o.msg = m /\ comms'[m] = Ended(c, o, status)[m]
  <2> DEFINE a == c[m].to
             o == [NoTurn EXCEPT !.msg = m, !.id = LostTurn(a)]
  <2>1. comms'[m] = c[m] \/ (a \in Agents /\ comms'[m] = Ended(c, o, LostStatus(a))[m])
    <3> HIDE DEF loaded
    <3>1. RecoveredComms[m] = IF /\ a \in Agents /\ meta[a].status = "running" /\ LostTurn(a) # 0
                                 /\ c[m].mode = "turn_start" /\ c[m].turn = LostTurn(a)
                              THEN Ended(c, o, LostStatus(a))[m] ELSE c[m]
      BY DEF RecoveredComms, loaded
    <3> HIDE DEF c, o
    <3>2. QED BY <1>1, <3>1
  <2>2. o.msg = m
    BY DEF NoTurn
  <2>3. a \in Agents => o \in Turn /\ LostStatus(a) \in Outcome
    <3> HIDE DEF c, loaded
    <3> QED BY <1>8
  <2>4. QED
    <3> HIDE DEF o, c, loaded
    <3> QED BY <2>1, <2>2, <2>3
<1>10. Progress(c, comms')
  <2> HIDE DEF c, loaded
  <2>1. ClosedReplies(c)
    BY <1>7 DEF Sound
  <2>2. QED BY <1>6, <1>9, <2>1, OwnEndsProgress
<1>11. Sound(comms', workers')
  <2> HIDE DEF c, loaded
  <2>1. SameHolders(workers', workers')
    BY DEF SameHolders
  <2>2. QED BY <1>7, <1>10, <2>1, ProgressSound
<1>12. QED BY <1>11 DEF SafetyInv

(* Steps that neither touch the table nor let a worker change its message.     *)
LEMMA QuietSound ==
  ASSUME TypeOK, SafetyInv, UNCHANGED comms, SameHolders(workers, workers')
  PROVE  SafetyInv'
BY ProgressReflexive, ProgressStep

LEMMA WorkerQuiet ==
  ASSUME TypeOK, SafetyInv, NEW w \in Workers,
         \/ SendRefused(w) \/ SendFailed(w) \/ ReserveTurn(w)
         \/ SteerAccepted(w) \/ CodexAccepts(w)
         \/ \E a \in Agents : OwnerTask(w, a)
  PROVE  SafetyInv'
<1>1. UNCHANGED comms
  BY DEF SendRefused, SendFailed, ReserveTurn, SteerAccepted, CodexAccepts, OwnerTask
<1>2. \A v \in Workers \ {w} : workers'[v] = workers[v]
  BY DEF SendRefused, SendFailed, Return, ReserveTurn, SteerAccepted, CodexAccepts,
         OwnerTask, Start, TypeOK, RuntimeOK
<1>3. CASE \E a \in Agents : OwnerTask(w, a)
  <2>1. workers[w].phase = "idle" /\ workers'[w].msg = None
    BY <1>3 DEF OwnerTask, Free, Start, Idle, TypeOK, RuntimeOK
  <2>2. SameHolders(workers, workers')
    BY <1>2, <2>1, MessageAssumption DEF SameHolders, Holding
  <2>3. QED BY <1>1, <2>2, QuietSound
<1>4. CASE SendRefused(w) \/ SendFailed(w) \/ ReserveTurn(w) \/ SteerAccepted(w) \/ CodexAccepts(w)
  <2>1. workers[w].phase # "idle" /\ workers'[w].phase # "idle" /\ workers'[w].msg = workers[w].msg
    BY <1>4, WorkerFields DEF SendRefused, SendFailed, Return, ReserveTurn, SteerAccepted,
       CodexAccepts, TypeOK, RuntimeOK, Worker
  <2>2. SameHolders(workers, workers')
    BY <1>2, <2>1 DEF SameHolders, Holding
  <2>3. QED BY <1>1, <2>2, QuietSound
<1>5. QED BY <1>3, <1>4

----------------------------------------------------------------------------
LEMMA InitSound == Init => SafetyInv
BY MessageAssumption DEF Init, SafetyInv, Sound, Owned, ClosedReplies, HeldReplies, Unused, AnswerArrived,
       Holding, Idle, NoMessage

LEMMA NextSound == TypeOK /\ SafetyInv /\ [Next]_vars => SafetyInv'
<1> SUFFICES ASSUME TypeOK, SafetyInv, [Next]_vars PROVE SafetyInv'
  OBVIOUS
<1>1. CASE Commands
  <2>1. CASE \E m \in Msgs, route \in Routes :
               CreateMessage(m, route.from, route.to, route.response)
    BY <2>1, CreateSound
  <2>2. CASE \E r, m \in Msgs : ReplyMessage(r, m)
    BY <2>2, ReplySound
  <2>3. CASE \E m \in Msgs : \/ CancelMessage(m) \/ ResolveMessage(m)
                             \/ NoReplyMessage(m) \/ RetryMessage(m)
    BY <2>3, MessageCommandSound
  <2>4. CASE \E w \in Workers, a \in Agents : OwnerTask(w, a)
    BY <2>4, WorkerQuiet
  <2>5. CASE \E a \in Agents : Interrupt(a)
    BY <2>5, InterruptSound
  <2>6. CASE \/ \E a \in Agents : ArchiveAgent(a) \/ DismissInterrupted(a)
             \/ BeginDrain \/ CancelDrain \/ Shutdown
    BY <2>6, SameWorkers, QuietSound
       DEF ArchiveAgent, DismissInterrupted, BeginDrain, CancelDrain, Shutdown, runtime
  <2>7. CASE \E a \in Agents, m \in Msgs : ContinueInterrupted(a, m)
    BY <2>7, MessageCommandSound
  <2>8. QED BY <1>1, <2>1, <2>2, <2>3, <2>4, <2>5, <2>6, <2>7 DEF Commands
<1>2. CASE Delivering
  <2>1. CASE \E w \in Workers, a \in Agents, m \in Msgs : ClaimNext(w, a, m) \/ ClaimSteer(w, a, m)
    BY <2>1, ClaimSound
  <2>2. CASE \E w \in Workers : \/ SendRefused(w) \/ SendFailed(w) \/ ReserveTurn(w)
                                \/ SteerAccepted(w) \/ CodexAccepts(w)
    BY <2>2, WorkerQuiet
  <2>3. CASE \E w \in Workers : StartAnswered(w) \/ StartFailed(w)
    BY <2>3, StartSound
  <2>4. CASE \E w \in Workers : Settle(w) \/ SteerSettled(w) \/ SteerDeferred(w)
    BY <2>4, SettleSound
  <2>5. CASE \E a \in Agents : FailQueued(a)
    BY <2>5, FailQueuedSound
  <2>6. QED BY <1>2, <2>1, <2>2, <2>3, <2>4, <2>5 DEF Delivering
<1>3. CASE Environment
  <2>1. CASE \E a \in Agents : CodexEnds(a) \/ RemoteStart(a)
    BY <2>1, SameWorkers, QuietSound DEF CodexEnds, RemoteStart, runtime
  <2>2. CASE \E a \in Agents : Notify(a) \/ ForceFinish(a)
    BY <2>2, NotifySound, InterruptSound
  <2>3. QED BY <1>3, <2>1, <2>2, HostExitSound, ReopenSound DEF Environment
<1>4. CASE UNCHANGED vars
  BY <1>4, SameWorkers, QuietSound DEF vars
<1>5. QED BY <1>1, <1>2, <1>3, <1>4 DEF Next

(* The strengthening holds in every behaviour: claims have holders, replies    *)
(* stay closed, and the reply a worker holds is settled without taking back    *)
(* that it arrived, whatever a Turn or a crash did meanwhile.                  *)
THEOREM SafetyInvariant == Spec => [](TypeOK /\ SafetyInv)
<1>1. Init => TypeOK /\ SafetyInv
  BY InitType, InitSound
<1>2. (TypeOK /\ SafetyInv) /\ [Next]_vars => (TypeOK /\ SafetyInv)'
  BY NextType, NextSound
<1>3. QED BY <1>1, <1>2, PTL DEF Spec

(* Whatever the workers, commands, notifications, exits and restarts do, and   *)
(* in whatever order, a message marked "delivering" has a worker that will     *)
(* settle it (deliverNextQueuedForTarget, tryDeliverReplyToActiveTurn).        *)
THEOREM ClaimsAreHeld == Spec => []DeliveringIsOwned
<1>1. SafetyInv => DeliveringIsOwned
  BY DEF SafetyInv, Sound, Owned, Holding, DeliveringIsOwned
<1>2. QED BY <1>1, SafetyInvariant, PTL

(* A request reads "answered" only if some reply to it reached the asking      *)
(* Agent (answerRootForDeliveredReplyLocked, reconcileAnsweredCommsLocked): a  *)
(* reply that is queued, lost with its Turn or refused never closes it.        *)
THEOREM AnswersArrived == Spec => []AnsweredByReply
<1>1. SafetyInv => AnsweredByReply
  BY DEF SafetyInv, Sound, AnswerArrived, Arrived, Reached, AnsweredByReply
<1>2. QED BY <1>1, SafetyInvariant, PTL
=============================================================================
