-------------------------- MODULE Occurrences_proofs --------------------------
(***************************************************************************)
(* For any number of schedules and triggers, any cron expression and any   *)
(* pattern of failed saves and crashes: every occurrence of a schedule     *)
(* becomes a message once and in order, and a trigger resumes its Agent    *)
(* with one message at most.                                               *)
(*                                                                         *)
(* A schedule's queue of sent times says nothing of what will be appended  *)
(* next: Orderly ties it to the schedule's record and to the clock.        *)
(***************************************************************************)
EXTENDS Occurrences, SequenceTheorems, WellFoundedInduction, TLAPS

SentTime == Time \cup {Manual}

(* A time at which a message was sent has passed, unless it was sent by hand.  *)
Planned(q, i) == q[i] # Manual

InOrder(q) ==
  \A i, j \in DOMAIN q : i < j /\ Planned(q, i) /\ Planned(q, j) => q[i] < q[j]

(* The record r of a schedule, the times q of its messages, the time t.  A     *)
(* one-shot schedule has one occurrence; a recurring one has sent nothing      *)
(* beyond its next run.                                                        *)
Orderly(r, q, t) ==
  /\ InOrder(q)
  /\ \A i \in DOMAIN q : Planned(q, i) => q[i] <= t
  /\ r.status = "unused" => q = <<>>
  /\ r.at # Never => /\ r.next \in {Never, r.at}
                     /\ \A i \in DOMAIN q : Planned(q, i) => q[i] = r.at
  /\ r.at = Never /\ r.status # "unused" =>
       r.next # Never /\ \A i \in DOMAIN q : Planned(q, i) => q[i] <= r.next

----------------------------------------------------------------------------
(* Times and records.                                                          *)

LEMMA LeastTime ==
  ASSUME NEW S \in SUBSET Time, S # {}
  PROVE  \E c \in S : \A d \in S : c <= d
<1>1. S \subseteq Nat
  BY DEF Time
<1>2. PICK c \in S : \A d \in S : ~(<<d, c>> \in OpToRel(<, Nat))
  BY <1>1, NatLessThanWellFounded, WFMin
<1>3. ASSUME NEW d \in S PROVE ~(d < c)
  BY <1>1, <1>2 DEF OpToRel
<1>4. QED BY <1>1, <1>3

(* The next run of a recurring schedule is later than the given time.          *)
LEMMA NextCronIsLater ==
  ASSUME NEW t \in Time
  PROVE  NextCron(t) \in Time \cup {Later} /\ NextCron(t) > t
<1> DEFINE S == {c \in CronTimes : c > t}
<1>1. S \in SUBSET Time
  BY ScheduleAssumption
<1>2. CASE S = {}
  BY <1>2, ProcessAssumption DEF NextCron, Later, Time
<1>3. CASE S # {}
  <2>1. \E c \in S : \A d \in S : c <= d
    BY <1>1, <1>3, LeastTime
  <2>2. NextCron(t) \in S
    BY <1>3, <2>1 DEF NextCron
  <2>3. QED BY <1>1, <2>2
<1>4. QED BY <1>2, <1>3

LEMMA NextRunType ==
  ASSUME NEW r \in Schedule, NEW t \in Time
  PROVE  /\ NextRun(r, t) \in {Later} \cup Time
         /\ r.at # Never => NextRun(r, t) = r.at
         /\ r.at = Never => NextRun(r, t) = NextCron(t)
BY NextCronIsLater DEF NextRun, Schedule

(* The fields of a record.                                                     *)
LEMMA ScheduleFields ==
  ASSUME NEW r \in Schedule
  PROVE  /\ r.at \in {Never} \cup Time
         /\ r.next \in {Never, Later} \cup Time
         /\ r.last \in {Never, Manual} \cup Time
         /\ r.enabled \in BOOLEAN
         /\ r.status \in {"unused", "kept", "deleted"}
BY DEF Schedule

LEMMA AdvancedType ==
  ASSUME NEW r \in Schedule, clock \in Time, r.next \in Time
  PROVE  Advanced(r) \in Schedule
<1>1. NextCron(clock) \in Time \cup {Later}
  BY NextCronIsLater
<1>2. QED BY <1>1 DEF Advanced, Schedule

LEMMA EnsuredType ==
  ASSUME NEW q \in Seq(SentTime), NEW t \in Time
  PROVE  Ensured(q, t) \in Seq(SentTime)
BY DEF Ensured, SentTime


----------------------------------------------------------------------------
(* One schedule and its messages.                                              *)

(* A message sent by hand is no occurrence.                                    *)
LEMMA ManualAppended ==
  ASSUME NEW r, NEW q \in Seq(SentTime), NEW t, Orderly(r, q, t), r.status # "unused"
  PROVE  Orderly(r, Append(q, Manual), t)
<1> DEFINE p == Append(q, Manual)
<1>1. Manual \in SentTime
  BY DEF SentTime
<1>2. /\ DOMAIN p = 1..(Len(q) + 1) /\ DOMAIN q = 1..Len(q) /\ Len(q) \in Nat
      /\ \A i \in 1..Len(q) : p[i] = q[i]
      /\ p[Len(q) + 1] = Manual
  BY <1>1, AppendProperties, LenProperties
<1>3. \A i \in DOMAIN p : Planned(p, i) => i \in DOMAIN q /\ p[i] = q[i] /\ Planned(q, i)
  BY <1>2 DEF Planned
<1>4. Orderly(r, p, t)
  <2> HIDE DEF p
  <2> QED BY <1>3 DEF Orderly, InOrder
<1>5. QED BY <1>4

(* The time of a due occurrence is appended where it is not there yet.         *)
LEMMA OccurrenceEnsured ==
  ASSUME NEW r \in Schedule, NEW q \in Seq(SentTime), NEW t \in Time, Orderly(r, q, t),
         r.status # "unused", r.next \in 1..t
  PROVE  /\ Orderly(r, Ensured(q, r.next), t)
         /\ \E i \in DOMAIN Ensured(q, r.next) : Ensured(q, r.next)[i] = r.next
<1>1. CASE \E i \in DOMAIN q : q[i] = r.next
  BY <1>1 DEF Ensured
<1>2. CASE ~\E i \in DOMAIN q : q[i] = r.next
  <2> DEFINE n == r.next
             p == Append(q, n)
  <2>1. n \in SentTime /\ n \in Time /\ n # Manual /\ n # Never /\ n <= t
    BY ProcessAssumption DEF SentTime, Time, Manual, Later, Never
  <2>2. /\ DOMAIN p = 1..(Len(q) + 1) /\ DOMAIN q = 1..Len(q) /\ Len(q) \in Nat
        /\ \A i \in 1..Len(q) : p[i] = q[i]
        /\ p[Len(q) + 1] = n
    BY <2>1, AppendProperties, LenProperties
  <2>3. Ensured(q, n) = p
    BY <1>2 DEF Ensured
  <2>4. \A i \in DOMAIN q : q[i] \in SentTime
    BY <2>2, ElementOfSeq
  <2>5. \A i \in DOMAIN q : Planned(q, i) => q[i] < n
    <3>1. SUFFICES ASSUME NEW i \in DOMAIN q, Planned(q, i) PROVE q[i] < n
      OBVIOUS
    <3>2. q[i] # n /\ q[i] \in Time
      BY <1>2, <2>4, <3>1 DEF Planned, SentTime
    <3>3. q[i] <= n
      BY <2>1, <3>1, <3>2, ScheduleFields DEF Orderly
    <3>4. QED BY <2>1, <3>2, <3>3 DEF Time
  <2>6. \A i \in DOMAIN p : \/ i = Len(q) + 1 /\ p[i] = n
                            \/ i \in DOMAIN q /\ p[i] = q[i]
    BY <2>2
  <2>7. \A i \in DOMAIN p : Planned(p, i) => p[i] = n \/ (p[i] = q[i] /\ Planned(q, i) /\ i \in DOMAIN q)
    BY <2>6 DEF Planned
  <2>8. n \in Nat /\ \A i \in DOMAIN p : Planned(p, i) => p[i] \in Nat
    BY <2>1, <2>4, <2>7 DEF Time, SentTime, Planned
  <2>9. InOrder(p)
    <3> SUFFICES ASSUME NEW i \in DOMAIN p, NEW j \in DOMAIN p, i < j, Planned(p, i), Planned(p, j)
                 PROVE  p[i] < p[j]
      BY DEF InOrder
    <3>1. i \in DOMAIN q /\ p[i] = q[i] /\ Planned(q, i)
      BY <2>2, <2>6 DEF Planned
    <3>2. CASE j = Len(q) + 1 /\ p[j] = n
      BY <2>5, <3>1, <3>2
    <3>3. CASE j \in DOMAIN q /\ p[j] = q[j]
      BY <3>1, <3>3 DEF Orderly, InOrder, Planned
    <3>4. QED BY <2>6, <3>2, <3>3
  <2>10. \A i \in DOMAIN p : Planned(p, i) => p[i] <= t
    BY <2>1, <2>7 DEF Orderly
  <2>11. r.at # Never => \A i \in DOMAIN p : Planned(p, i) => p[i] = r.at
    BY <2>1, <2>7 DEF Orderly
  <2>12. r.at = Never => \A i \in DOMAIN p : Planned(p, i) => p[i] <= r.next
    BY <2>1, <2>7, <2>8 DEF Orderly
  <2>13. Orderly(r, p, t)
    <3> HIDE DEF p
    <3> QED BY <2>9, <2>10, <2>11, <2>12 DEF Orderly
  <2>14. \E i \in DOMAIN p : p[i] = n
    BY <2>2
  <2>15. QED BY <2>3, <2>13, <2>14
<1>3. QED BY <1>1, <1>2

(* What has passed is before the next run that is searched from now.           *)
LEMMA NextRunSet ==
  ASSUME NEW r \in Schedule, NEW q \in Seq(SentTime), NEW t \in Time, Orderly(r, q, t),
         r.status # "unused",
         NEW u \in Schedule, u.at = r.at, u.status # "unused",
         u.at # Never => u.next \in {Never, r.at},
         u.at = Never => u.next \in {r.next, NextCron(t)}
  PROVE  Orderly(u, q, t)
<1>1. CASE u.at # Never
  BY <1>1 DEF Orderly
<1>2. CASE u.at = Never
  <2>1. NextCron(t) \in Nat /\ NextCron(t) > t /\ t \in Nat /\ t > 0
    BY NextCronIsLater, ProcessAssumption DEF Time, Later
  <2>2. \A i \in DOMAIN q : Planned(q, i) => q[i] \in Nat /\ q[i] <= t
    <3>1. \A i \in DOMAIN q : q[i] \in SentTime
      BY ElementOfSeq, LenProperties
    <3>2. QED BY <3>1 DEF Orderly, SentTime, Planned, Time
  <2>3. CASE u.next = r.next
    BY <1>2, <2>3 DEF Orderly
  <2>4. CASE u.next = NextCron(t)
    <3>1. u.next # Never
      BY <2>1, <2>4 DEF Never
    <3>2. \A i \in DOMAIN q : Planned(q, i) => q[i] <= u.next
      BY <2>1, <2>2, <2>4
    <3>3. QED BY <1>2, <3>1, <3>2 DEF Orderly
  <2>5. QED BY <1>2, <2>3, <2>4
<1>3. QED BY <1>1, <1>2


(* Of one schedule: types, order, and the run it shows as its last was sent.   *)
Faithful(r, q, t) ==
  /\ r \in Schedule /\ q \in Seq(SentTime)
  /\ Orderly(r, q, t)
  /\ r.last = Never \/ \E i \in DOMAIN q : q[i] = r.last

ScheduleInv ==
  /\ schedules \in [Schedules -> Schedule] /\ sent \in [Schedules -> Seq(SentTime)]
  /\ \A s \in Schedules : Faithful(schedules[s], sent[s], clock)

(* A run by hand, recorded or not.                                             *)
LEMMA ManualRun ==
  ASSUME NEW r, NEW q, NEW t \in Time, Faithful(r, q, t), r.status # "unused"
  PROVE  /\ Faithful(r, Append(q, Manual), t)
         /\ Faithful([r EXCEPT !.last = Manual,
                               !.next = IF r.at = Never THEN NextCron(t) ELSE @],
                     Append(q, Manual), t)
<1> DEFINE p == Append(q, Manual)
           n == IF r.at = Never THEN NextCron(t) ELSE r.next
           u == [r EXCEPT !.last = Manual, !.next = IF r.at = Never THEN NextCron(t) ELSE @]
<1>1. r \in Schedule /\ q \in Seq(SentTime) /\ Orderly(r, q, t)
  BY DEF Faithful
<1>2. Manual \in SentTime
  BY DEF SentTime
<1>3. /\ p \in Seq(SentTime) /\ DOMAIN p = 1..(Len(q) + 1) /\ DOMAIN q = 1..Len(q)
      /\ Len(q) \in Nat /\ \A i \in 1..Len(q) : p[i] = q[i]
      /\ p[Len(q) + 1] = Manual
  BY <1>1, <1>2, AppendProperties, LenProperties
<1>4. Orderly(r, p, t)
  BY <1>1, ManualAppended
<1>5. r.last = Never \/ \E i \in DOMAIN p : p[i] = r.last
  BY <1>3 DEF Faithful
<1>6. n \in {Never, Later} \cup Time
  BY <1>1, NextCronIsLater, ScheduleFields
<1>7. u \in Schedule /\ u.at = r.at /\ u.status = r.status /\ u.last = Manual /\ u.next = n
  BY <1>1, <1>6 DEF Schedule
<1>8. Orderly(u, p, t)
  <2>1. u.at # Never => u.next \in {Never, r.at}
    BY <1>1, <1>7 DEF Orderly
  <2>2. u.at = Never => u.next \in {r.next, NextCron(t)}
    BY <1>7
  <2> HIDE DEF u, n, p
  <2>3. QED BY <1>1, <1>3, <1>4, <1>7, <2>1, <2>2, NextRunSet
<1>9. \E i \in DOMAIN p : p[i] = u.last
  BY <1>3, <1>7
<1>10. Faithful(u, p, t)
  <2> HIDE DEF u, p
  <2> QED BY <1>3, <1>7, <1>8, <1>9 DEF Faithful
<1>11. Faithful(r, p, t)
  <2> HIDE DEF p
  <2> QED BY <1>1, <1>3, <1>4, <1>5 DEF Faithful
<1>12. QED BY <1>10, <1>11

(* A tick of the loop, whatever is saved of it.                                *)
LEMMA TickOfOne ==
  ASSUME NEW s \in Schedules, ScheduleInv, clock \in Time, Due(s)
  PROVE  /\ Faithful(schedules[s], Ensured(sent[s], schedules[s].next), clock)
         /\ Faithful(Advanced(schedules[s]), Ensured(sent[s], schedules[s].next), clock)
<1> DEFINE r == schedules[s]
           q == sent[s]
           p == Ensured(q, r.next)
           u == Advanced(r)
<1>1. r \in Schedule /\ q \in Seq(SentTime) /\ Orderly(r, q, clock) /\ Faithful(r, q, clock)
  BY DEF ScheduleInv, Faithful
<1>2. r.status # "unused" /\ r.next \in 1..clock /\ r.next \in Time
  BY ProcessAssumption DEF Due, Kept, Time
<1> HIDE DEF r, q
<1>3. Orderly(r, p, clock) /\ \E i \in DOMAIN p : p[i] = r.next
  BY <1>1, <1>2, OccurrenceEnsured
<1>4. p \in Seq(SentTime)
  BY <1>1, <1>2, EnsuredType
<1>5. r.last = Never \/ \E i \in DOMAIN p : p[i] = r.last
  <2>1. CASE \E i \in DOMAIN q : q[i] = r.next
    BY <1>1, <2>1 DEF Faithful, Ensured
  <2>2. CASE ~\E i \in DOMAIN q : q[i] = r.next
    <3>1. r.next \in SentTime
      BY <1>2 DEF SentTime
    <3>2. \A i \in DOMAIN q : i \in DOMAIN p /\ p[i] = q[i]
      BY <1>1, <2>2, <3>1, AppendProperties, LenProperties DEF Ensured
    <3>3. QED BY <1>1, <3>2 DEF Faithful
  <2>3. QED BY <2>1, <2>2
<1>6. Faithful(r, p, clock)
  <2> HIDE DEF p
  <2> QED BY <1>1, <1>3, <1>4, <1>5 DEF Faithful
<1>7. u \in Schedule
  BY <1>1, <1>2, AdvancedType
<1>8. /\ u.at = r.at /\ u.status = r.status /\ u.last = r.next
      /\ u.at # Never => u.next = Never
      /\ u.at = Never => u.next = NextCron(clock)
  BY <1>1 DEF Advanced, Schedule
<1> HIDE DEF p, u
<1>9. Orderly(u, p, clock)
  BY <1>1, <1>2, <1>3, <1>4, <1>7, <1>8, NextRunSet
<1>10. Faithful(u, p, clock)
  BY <1>3, <1>4, <1>7, <1>8, <1>9 DEF Faithful
<1>11. QED BY <1>6, <1>10 DEF r, q, p, u


----------------------------------------------------------------------------
(* The steps of the Scheduler.                                                 *)

LEMMA InitSchedules == Init => ScheduleInv
<1> SUFFICES ASSUME Init PROVE ScheduleInv
  OBVIOUS
<1>1. /\ schedules = [s \in Schedules |-> NoSchedule] /\ sent = [s \in Schedules |-> <<>>]
      /\ clock = 1
  BY DEF Init, SchedulesInit, ProcessInit
<1>2. NoSchedule \in Schedule /\ <<>> \in Seq(SentTime)
  BY EmptySeq DEF NoSchedule, Schedule
<1>3. Faithful(NoSchedule, <<>>, 1)
  BY <1>2 DEF Faithful, Orderly, InOrder, NoSchedule
<1>4. QED BY <1>1, <1>2, <1>3 DEF ScheduleInv

(* One schedule changes, its messages with it.                                 *)
LEMMA OneScheduleStep ==
  ASSUME ScheduleInv, NEW s \in Schedules, NEW r, NEW q, Faithful(r, q, clock), clock' = clock,
         schedules' = [schedules EXCEPT ![s] = r], sent' = [sent EXCEPT ![s] = q]
  PROVE  ScheduleInv'
<1>1. r \in Schedule /\ q \in Seq(SentTime)
  BY DEF Faithful
<1>2. /\ schedules' \in [Schedules -> Schedule] /\ sent' \in [Schedules -> Seq(SentTime)]
  BY <1>1 DEF ScheduleInv
<1>3. ASSUME NEW x \in Schedules PROVE Faithful(schedules'[x], sent'[x], clock')
  <2>1. CASE x = s
    BY <2>1 DEF ScheduleInv
  <2>2. CASE x # s
    BY <2>2 DEF ScheduleInv
  <2>3. QED BY <2>1, <2>2
<1>4. QED BY <1>2, <1>3 DEF ScheduleInv

(* A record whose next run is set anew, with the messages it had.              *)
LEMMA Replanned ==
  ASSUME NEW r, NEW q, NEW t \in Time, Faithful(r, q, t), r.status # "unused",
         NEW u \in Schedule, u.at = r.at, u.status # "unused", u.last = r.last,
         u.next = r.next \/ u.next = NextRun(r, t)
  PROVE  Faithful(u, q, t)
<1>1. r \in Schedule /\ q \in Seq(SentTime) /\ Orderly(r, q, t)
  BY DEF Faithful
<1>2. u.at # Never => u.next \in {Never, r.at}
  BY <1>1 DEF NextRun, Orderly
<1>3. u.at = Never => u.next \in {r.next, NextCron(t)}
  BY DEF NextRun
<1>4. Orderly(u, q, t)
  BY <1>1, <1>2, <1>3, NextRunSet
<1>5. QED BY <1>1, <1>4 DEF Faithful

LEMMA CreateKeeps ==
  ASSUME ScheduleInv, clock \in Time, NEW s \in Schedules, NEW at \in {Never} \cup Time,
         NEW enabled \in BOOLEAN, CreateSchedule(s, at, enabled)
  PROVE  ScheduleInv'
<1> DEFINE r == [NoSchedule EXCEPT !.status = "kept", !.enabled = enabled, !.at = at]
           u == [r EXCEPT !.next = NextRun(r, clock)]
<1>1. r \in Schedule /\ r.at = at /\ r.status = "kept" /\ r.last = Never
  BY DEF NoSchedule, Schedule
<1>2. NextRun(r, clock) \in {Later} \cup Time
  BY <1>1, NextRunType
<1>3. u \in Schedule /\ u.at = at /\ u.status = "kept" /\ u.last = Never
      /\ u.next = NextRun(r, clock)
  BY <1>1, <1>2 DEF Schedule
<1>4. sent[s] = <<>>
  BY DEF CreateSchedule, ScheduleInv, Faithful, Orderly
<1>5. u.at # Never => u.next = u.at
  BY <1>1, <1>3, NextRunType
<1>6. u.next # Never
  BY <1>2, <1>3, ProcessAssumption DEF Later, Time, Never
<1>7. Faithful(u, <<>>, clock)
  <2> HIDE DEF u
  <2> QED BY <1>3, <1>5, <1>6, EmptySeq DEF Faithful, Orderly, InOrder
<1>8. clock' = clock /\ schedules' = [schedules EXCEPT ![s] = u] /\ sent' = sent
  BY DEF CreateSchedule
<1>9. sent' = [sent EXCEPT ![s] = <<>>]
  BY <1>4, <1>8 DEF ScheduleInv
<1> HIDE DEF u
<1>10. QED BY <1>7, <1>8, <1>9, OneScheduleStep

LEMMA SetEnabledKeeps ==
  ASSUME ScheduleInv, clock \in Time, NEW s \in Schedules, NEW enabled \in BOOLEAN,
         SetScheduleEnabled(s, enabled)
  PROVE  ScheduleInv'
<1> DEFINE r == schedules[s]
           n == IF enabled /\ r.next = Never THEN NextRun(r, clock) ELSE r.next
           u == [r EXCEPT !.enabled = enabled, !.next = n]
<1>1. r \in Schedule /\ Faithful(r, sent[s], clock) /\ r.status # "unused"
  BY DEF ScheduleInv, SetScheduleEnabled, Kept
<1>2. n \in {Never, Later} \cup Time
  BY <1>1, NextRunType, ScheduleFields
<1>3. u \in Schedule /\ u.at = r.at /\ u.status = r.status /\ u.last = r.last /\ u.next = n
  BY <1>1, <1>2 DEF Schedule
<1>4. schedules' = [schedules EXCEPT ![s] = u]
  BY DEF SetScheduleEnabled, ScheduleInv
<1>5. Faithful(u, sent[s], clock)
  <2>1. u.next = r.next \/ u.next = NextRun(r, clock)
    BY <1>3
  <2> HIDE DEF u, r, n
  <2>2. QED BY <1>1, <1>3, <2>1, Replanned
<1>6. clock' = clock /\ sent' = [sent EXCEPT ![s] = sent[s]]
  BY DEF SetScheduleEnabled, ScheduleInv
<1> HIDE DEF u
<1>7. QED BY <1>4, <1>5, <1>6, OneScheduleStep

LEMMA DeleteKeeps ==
  ASSUME ScheduleInv, clock \in Time, NEW s \in Schedules, DeleteSchedule(s)
  PROVE  ScheduleInv'
<1> DEFINE r == schedules[s]
           u == [r EXCEPT !.status = "deleted", !.enabled = FALSE]
<1>1. r \in Schedule /\ Faithful(r, sent[s], clock) /\ r.status # "unused"
  BY DEF ScheduleInv, DeleteSchedule, Kept
<1>2. u \in Schedule /\ u.at = r.at /\ u.status = "deleted" /\ u.last = r.last /\ u.next = r.next
  BY <1>1 DEF Schedule
<1>3. schedules' = [schedules EXCEPT ![s] = u]
  BY DEF DeleteSchedule, ScheduleInv
<1>4. Faithful(u, sent[s], clock)
  <2> HIDE DEF u, r
  <2> QED BY <1>1, <1>2, Replanned
<1>5. clock' = clock /\ sent' = [sent EXCEPT ![s] = sent[s]]
  BY DEF DeleteSchedule, ScheduleInv
<1> HIDE DEF u
<1>6. QED BY <1>3, <1>4, <1>5, OneScheduleStep

LEMMA RunKeeps ==
  ASSUME ScheduleInv, clock \in Time, NEW s \in Schedules, RunSchedule(s) \/ RunScheduleUnsaved(s)
  PROVE  ScheduleInv'
<1> DEFINE r == schedules[s]
           q == Append(sent[s], Manual)
           u == [r EXCEPT !.last = Manual, !.next = IF r.at = Never THEN NextCron(clock) ELSE @]
<1>1. Faithful(r, sent[s], clock) /\ r.status # "unused"
  BY DEF ScheduleInv, RunSchedule, RunScheduleUnsaved, Kept
<1>2. Faithful(r, q, clock) /\ Faithful(u, q, clock)
  BY <1>1, ManualRun
<1>3. clock' = clock /\ sent' = [sent EXCEPT ![s] = q]
  BY DEF RunSchedule, RunScheduleUnsaved
<1>4. CASE RunSchedule(s)
  <2>1. schedules' = [schedules EXCEPT ![s] = u]
    BY <1>4 DEF RunSchedule, ScheduleInv
  <2> HIDE DEF u, q
  <2>2. QED BY <1>2, <1>3, <2>1, OneScheduleStep
<1>5. CASE RunScheduleUnsaved(s)
  <2>1. schedules' = [schedules EXCEPT ![s] = r]
    BY <1>5 DEF RunScheduleUnsaved, ScheduleInv
  <2> HIDE DEF r, q
  <2>2. QED BY <1>2, <1>3, <2>1, OneScheduleStep
<1>6. QED BY <1>4, <1>5


LEMMA CollectKeeps ==
  ASSUME ScheduleInv, clock \in Time, CollectDueSchedules
  PROVE  ScheduleInv'
<1> DEFINE ready == {s \in Schedules : Due(s) /\ (registered \/ schedules[s].next \in Sent(s))}
<1>1. PICK outcome \in [ready -> {"recorded", "unrecorded", "unsent"}] :
        /\ sent' = [s \in Schedules |->
                      IF s \in ready /\ outcome[s] # "unsent"
                      THEN Ensured(sent[s], schedules[s].next) ELSE sent[s]]
        /\ schedules' = [s \in Schedules |->
                           IF s \in ready THEN AfterTick(s, outcome[s]) ELSE schedules[s]]
  BY DEF CollectDueSchedules
<1>2. clock' = clock
  BY DEF CollectDueSchedules
<1>3. ASSUME NEW s \in Schedules PROVE Faithful(schedules'[s], sent'[s], clock')
  <2>1. CASE s \notin ready
    BY <1>1, <1>2, <2>1 DEF ScheduleInv
  <2>2. CASE s \in ready /\ outcome[s] = "unsent"
    BY <1>1, <1>2, <2>2 DEF ScheduleInv, AfterTick
  <2>3. CASE s \in ready /\ outcome[s] = "unrecorded"
    <3>1. schedules'[s] = schedules[s] /\ sent'[s] = Ensured(sent[s], schedules[s].next)
      BY <1>1, <2>3 DEF AfterTick
    <3>2. QED BY <1>2, <2>3, <3>1, TickOfOne
  <2>4. CASE s \in ready /\ outcome[s] = "recorded"
    <3>1. schedules'[s] = Advanced(schedules[s]) /\ sent'[s] = Ensured(sent[s], schedules[s].next)
      BY <1>1, <2>4 DEF AfterTick
    <3>2. QED BY <1>2, <2>4, <3>1, TickOfOne
  <2>5. QED BY <2>1, <2>2, <2>3, <2>4
<1>4. \A s \in Schedules : schedules'[s] \in Schedule /\ sent'[s] \in Seq(SentTime)
  BY <1>3 DEF Faithful
<1>5. /\ schedules' = [s \in Schedules |-> schedules'[s]]
      /\ sent' = [s \in Schedules |-> sent'[s]]
  BY <1>1
<1>6. QED BY <1>3, <1>4, <1>5 DEF ScheduleInv

LEMMA RecomputeKeeps ==
  ASSUME ScheduleInv, clock \in Time, clock' = clock, RecomputeSchedules
  PROVE  ScheduleInv'
<1>1. ASSUME NEW s \in Schedules PROVE Faithful(Recomputed(schedules[s]), sent[s], clock)
  <2> DEFINE r == schedules[s]
             u == [r EXCEPT !.next = NextRun(r, clock)]
  <2>1. r \in Schedule /\ Faithful(r, sent[s], clock)
    BY DEF ScheduleInv
  <2>2. CASE r.status = "kept" /\ r.next = Never /\ (r.at = Never \/ r.enabled)
    <3>1. NextRun(r, clock) \in {Never, Later} \cup Time
      BY <2>1, NextRunType
    <3>2. /\ u \in Schedule /\ u.at = r.at /\ u.status = r.status /\ u.last = r.last
          /\ u.next = NextRun(r, clock)
      BY <2>1, <3>1 DEF Schedule
    <3>3. Recomputed(r) = u
      BY <2>2 DEF Recomputed
    <3> HIDE DEF u, r
    <3>4. QED BY <2>1, <2>2, <3>2, <3>3, Replanned DEF r
  <2>3. CASE ~(r.status = "kept" /\ r.next = Never /\ (r.at = Never \/ r.enabled))
    BY <2>1, <2>3 DEF Recomputed
  <2>4. QED BY <2>2, <2>3
<1>2. \A s \in Schedules : Recomputed(schedules[s]) \in Schedule
  BY <1>1 DEF Faithful
<1>3. schedules' = [s \in Schedules |-> Recomputed(schedules[s])] /\ sent' = sent
  BY DEF RecomputeSchedules
<1>4. \A s \in Schedules : schedules'[s] = Recomputed(schedules[s])
  BY <1>3
<1>5. schedules' \in [Schedules -> Schedule]
  BY <1>2, <1>3
<1>6. \A s \in Schedules : Faithful(schedules'[s], sent'[s], clock')
  BY <1>1, <1>3, <1>4
<1>7. QED BY <1>3, <1>5, <1>6 DEF ScheduleInv

(* Time only moves forward. *)
LEMMA TimePasses ==
  ASSUME ScheduleInv, UNCHANGED scheduler, clock \in Time, clock' \in Time, clock <= clock'
  PROVE  ScheduleInv'
<1>1. schedules' = schedules /\ sent' = sent
  BY DEF scheduler
<1>2. ASSUME NEW s \in Schedules PROVE Faithful(schedules[s], sent[s], clock')
  <2> DEFINE r == schedules[s]
             q == sent[s]
  <2>1. r \in Schedule /\ q \in Seq(SentTime) /\ Faithful(r, q, clock)
    BY DEF ScheduleInv
  <2> HIDE DEF r, q
  <2>2. \A i \in DOMAIN q : Planned(q, i) => q[i] <= clock'
    <3>1. \A i \in DOMAIN q : q[i] \in SentTime
      BY <2>1, ElementOfSeq, LenProperties
    <3>2. QED BY <2>1, <3>1 DEF Faithful, Orderly, SentTime, Planned, Time
  <2>3. QED BY <2>1, <2>2 DEF Faithful, Orderly, r, q
<1>3. QED BY <1>1, <1>2 DEF ScheduleInv

----------------------------------------------------------------------------
(* The process and the triggers.                                               *)

LEMMA ProcessType ==
  ASSUME ProcessOK, [Next]_vars
  PROVE  ProcessOK' /\ clock <= clock'
<1> USE BudgetAssumption, ProcessAssumption DEF ProcessOK, BudgetOK, Time
<1>1. clock \in Nat
  OBVIOUS
<1>2. CASE Tick
  BY <1>2 DEF Tick
<1>3. CASE clock' = clock /\ up' \in BOOLEAN /\ registered' \in BOOLEAN
             /\ (Fault \/ Command \/ UNCHANGED spent)
  <2>1. BudgetOK'
    BY <1>3 DEF Fault, Command, Spend
  <2>2. QED BY <1>1, <1>3, <2>1
<1>4. CASE Next
  <2>1. CASE Tick \/ Register
    BY <1>2, <1>3, <2>1 DEF Register
  <2>2. CASE SchedulerStep
    BY <1>3, <2>2 DEF SchedulerStep, ScheduleCommands, CreateSchedule, SetScheduleEnabled,
       DeleteSchedule, RunSchedule, RunScheduleUnsaved, CollectDueSchedules
  <2>3. CASE TriggerStep
    BY <1>3, <2>3 DEF TriggerStep, TriggerCommands, CreateTrigger, PauseTrigger, ResumeTrigger,
       CancelTrigger, Expire, Observing, Observe, ProviderAnswers, ObservationFails,
       ApplyObservation, ApplyMatch, FactChanges, process
  <2>4. CASE Crash \/ Startup
    BY <1>3, <2>4 DEF Crash, Startup, Die, Start
  <2>5. QED BY <1>4, <2>1, <2>2, <2>3, <2>4 DEF Next
<1>5. CASE UNCHANGED vars
  BY <1>1, <1>5 DEF vars, process
<1>6. QED BY <1>4, <1>5

(* A trigger and its messages. *)
OneMessage(r, q) == Len(q) <= 1 /\ (r.state = "triggered" => Len(q) = 1)

TriggerInv == TriggersOK /\ \A t \in Triggers : OneMessage(triggers[t], resumed[t])

LEMMA TriggerFields ==
  ASSUME NEW r \in Trigger, NEW state \in TriggerState, NEW e \in Events
  PROVE  /\ [r EXCEPT !.state = state] \in Trigger /\ [r EXCEPT !.state = state].state = state
         /\ [r EXCEPT !.state = state, !.event = e] \in Trigger
         /\ [r EXCEPT !.state = state, !.event = e].state = state
BY DEF Trigger

(* The message of a trigger is written once. *)
LEMMA MessageWritten ==
  ASSUME NEW q \in Seq(Events), Len(q) <= 1, NEW e \in Events
  PROVE  WithMessage(q, e) \in Seq(Events) /\ Len(WithMessage(q, e)) = 1
<1>1. CASE q = <<>>
  BY <1>1 DEF WithMessage
<1>2. CASE q # <<>>
  <2>1. Len(q) \in Nat \ {0}
    BY <1>2, EmptySeq
  <2>2. Len(q) = 1
    <3> DEFINE n == Len(q)
    <3>1. n \in Nat \ {0} /\ n <= 1
      BY <2>1
    <3> HIDE DEF n
    <3>2. n = 1
      BY <3>1
    <3>3. QED BY <3>2 DEF n
  <2>3. WithMessage(q, e) = q
    BY <1>2 DEF WithMessage
  <2>4. QED BY <2>2, <2>3
<1>3. QED BY <1>1, <1>2


LEMMA InitTriggers == Init => TriggerInv
<1> SUFFICES ASSUME Init PROVE TriggerInv
  OBVIOUS
<1>1. NoTrigger \in Trigger /\ NoObservation \in Observation /\ <<>> \in Seq(Events)
      /\ Len(<<>>) = 0
  BY EmptySeq DEF NoTrigger, Trigger, TriggerState, NoObservation, Observation
<1>2. QED BY <1>1 DEF Init, TriggersInit, TriggerInv, TriggersOK, OneMessage, NoTrigger

(* One trigger goes to a state in which it needs no message.                   *)
LEMMA MovedKeeps ==
  ASSUME TriggerInv, NEW t \in Triggers, NEW state \in TriggerState \ {"triggered"},
         triggers' = Moved(t, state), resumed' = resumed,
         observing' \in [Triggers -> Observation], fact' = fact
  PROVE  TriggerInv'
<1> DEFINE r == [triggers[t] EXCEPT !.state = state]
<1>1. triggers' = [triggers EXCEPT ![t] = r] /\ triggers \in [Triggers -> Trigger]
  BY DEF Moved, TriggerInv, TriggersOK
<1>2. r \in Trigger /\ r.state = state
  BY <1>1 DEF Trigger
<1> HIDE DEF r
<1>3. triggers' \in [Triggers -> Trigger]
  BY <1>1, <1>2
<1>4. triggers'[t].state = state /\ \A x \in Triggers \ {t} : triggers'[x] = triggers[x]
  BY <1>1, <1>2
<1>5. ASSUME NEW x \in Triggers PROVE OneMessage(triggers'[x], resumed'[x])
  <2>1. OneMessage(triggers[x], resumed[x])
    BY DEF TriggerInv
  <2>2. QED BY <1>4, <2>1 DEF OneMessage
<1>6. QED BY <1>3, <1>5 DEF TriggerInv, TriggersOK

(* Only the provider or the observations in flight change.                     *)
LEMMA ObservationKeeps ==
  ASSUME TriggerInv, triggers' = triggers, resumed' = resumed,
         observing' \in [Triggers -> Observation], fact' \in [Triggers -> Events \cup {NoEvent}]
  PROVE  TriggerInv'
BY DEF TriggerInv, TriggersOK

LEMMA TriggerCommandKeeps ==
  ASSUME TriggerInv, TriggerCommands
  PROVE  TriggerInv'
<1>1. observing \in [Triggers -> Observation]
  BY DEF TriggerInv, TriggersOK
<1>2. ASSUME NEW t \in Triggers, NEW expires \in {Never} \cup Time, CreateTrigger(t, expires)
      PROVE  TriggerInv'
  <2> DEFINE r == [triggers[t] EXCEPT !.state = "pending", !.expires = expires]
  <2>1. triggers[t] \in Trigger /\ triggers' = [triggers EXCEPT ![t] = r]
    BY <1>2 DEF CreateTrigger, TriggerInv, TriggersOK
  <2>2. r \in Trigger /\ r.state = "pending"
    BY <2>1 DEF Trigger, TriggerState
  <2>3. /\ triggers' \in [Triggers -> Trigger] /\ triggers'[t] = r
        /\ \A x \in Triggers \ {t} : triggers'[x] = triggers[x]
    <3> HIDE DEF r
    <3> QED BY <2>1, <2>2 DEF TriggerInv, TriggersOK
  <2>4. resumed' = resumed /\ observing' = observing /\ fact' = fact
    BY <1>2 DEF CreateTrigger
  <2>5. ASSUME NEW x \in Triggers PROVE OneMessage(triggers'[x], resumed'[x])
    <3>1. OneMessage(triggers[x], resumed[x])
      BY DEF TriggerInv
    <3>2. QED BY <2>2, <2>3, <2>4, <3>1 DEF OneMessage
  <2>6. QED BY <2>3, <2>4, <2>5 DEF TriggerInv, TriggersOK
<1>3. ASSUME NEW t \in Triggers, PauseTrigger(t) \/ ResumeTrigger(t) \/ CancelTrigger(t)
      PROVE  TriggerInv'
  <2>1. \E state \in {"paused", "armed", "cancelled", "expired"} : triggers' = Moved(t, state)
    BY <1>3 DEF PauseTrigger, ResumeTrigger, CancelTrigger
  <2>2. resumed' = resumed /\ observing' = observing /\ fact' = fact
    BY <1>3 DEF PauseTrigger, ResumeTrigger, CancelTrigger
  <2>3. QED BY <1>1, <2>1, <2>2, MovedKeeps DEF TriggerState
<1>4. QED BY <1>2, <1>3 DEF TriggerCommands

(* An observation is applied: the only place where a message is written.       *)
LEMMA ApplyKeeps ==
  ASSUME TriggerInv, NEW t \in Triggers, ApplyObservation(t)
  PROVE  TriggerInv'
<1> DEFINE e == observing[t].event
<1>1. observing' \in [Triggers -> Observation] /\ fact' = fact
  BY DEF ApplyObservation, Released, NoObservation, Observation, TriggerInv, TriggersOK
<1>2. fact' \in [Triggers -> Events \cup {NoEvent}]
  BY <1>1 DEF TriggerInv, TriggersOK
<1>3. CASE triggers' = triggers /\ resumed' = resumed
  BY <1>1, <1>2, <1>3, ObservationKeeps
<1>4. CASE resumed' = resumed /\ \E state \in {"armed", "expired"} : triggers' = Moved(t, state)
  BY <1>1, <1>4, MovedKeeps DEF TriggerState
<1>5. CASE Matched(t) /\ resumed' = Resumed(t)
           /\ triggers' \in {triggers, [triggers EXCEPT ![t].state = "triggered", ![t].event = e]}
  <2>1. e \in Events
    BY <1>5 DEF Matched, TriggerInv, TriggersOK, Observation
  <2>2. /\ resumed[t] \in Seq(Events) /\ triggers[t] \in Trigger
        /\ Len(resumed[t]) <= 1
    BY DEF TriggerInv, TriggersOK, OneMessage
  <2>3. WithMessage(resumed[t], e) \in Seq(Events) /\ Len(WithMessage(resumed[t], e)) = 1
    BY <2>1, <2>2, MessageWritten
  <2>4. resumed' = [resumed EXCEPT ![t] = WithMessage(resumed[t], e)]
    BY <1>5 DEF Resumed
  <2>5. /\ resumed' \in [Triggers -> Seq(Events)] /\ Len(resumed'[t]) = 1
        /\ \A x \in Triggers \ {t} : resumed'[x] = resumed[x]
    BY <2>3, <2>4 DEF TriggerInv, TriggersOK
  <2>6. /\ triggers' \in [Triggers -> Trigger]
        /\ \A x \in Triggers \ {t} : triggers'[x] = triggers[x]
    <3> DEFINE r == [triggers[t] EXCEPT !.state = "triggered", !.event = e]
    <3>1. r \in Trigger
      BY <2>1, <2>2, TriggerFields DEF TriggerState
    <3>2. triggers' \in {triggers, [triggers EXCEPT ![t] = r]}
      BY <1>5 DEF TriggerInv, TriggersOK
    <3> HIDE DEF r
    <3>3. QED BY <3>1, <3>2 DEF TriggerInv, TriggersOK
  <2>7. ASSUME NEW x \in Triggers PROVE OneMessage(triggers'[x], resumed'[x])
    <3>1. CASE x = t
      <4>1. Len(resumed'[x]) = 1
        BY <2>5, <3>1
      <4>2. QED BY <4>1 DEF OneMessage
    <3>2. CASE x # t
      BY <2>5, <2>6, <3>2 DEF OneMessage, TriggerInv
    <3>3. QED BY <3>1, <3>2
  <2>8. QED BY <1>1, <1>2, <2>5, <2>6, <2>7 DEF TriggerInv, TriggersOK
<1>6. QED BY <1>3, <1>4, <1>5 DEF ApplyObservation, ApplyMatch


LEMMA ObservingKeeps ==
  ASSUME TriggerInv, NEW t \in Triggers, Observing(t)
  PROVE  TriggerInv'
<1>1. /\ observing \in [Triggers -> Observation] /\ fact \in [Triggers -> Events \cup {NoEvent}]
  BY DEF TriggerInv, TriggersOK
<1>2. CASE Observe(t) \/ ProviderAnswers(t)
  <2>1. observing' \in [Triggers -> Observation]
    BY <1>1, <1>2 DEF Observe, ProviderAnswers, Observation
  <2>2. triggers' = triggers /\ resumed' = resumed /\ fact' = fact
    BY <1>2 DEF Observe, ProviderAnswers
  <2>3. QED BY <1>1, <2>1, <2>2, ObservationKeeps
<1>3. CASE ObservationFails(t)
  <2>1. observing' \in [Triggers -> Observation]
    BY <1>1, <1>3 DEF ObservationFails, Released, NoObservation, Observation
  <2>2. resumed' = resumed /\ fact' = fact /\ (triggers' = triggers \/ triggers' = Moved(t, "failed"))
    BY <1>3 DEF ObservationFails
  <2>3. QED BY <1>1, <2>1, <2>2, MovedKeeps, ObservationKeeps DEF TriggerState
<1>4. CASE ApplyObservation(t)
  BY <1>4, ApplyKeeps
<1>5. QED BY <1>2, <1>3, <1>4 DEF Observing

(* Startup gives a waiting trigger the state its message proves.               *)
LEMMA ReconcileKeeps ==
  ASSUME TriggerInv, ReconcileTriggers
  PROVE  TriggerInv'
<1>1. /\ observing' \in [Triggers -> Observation] /\ resumed' = resumed /\ fact' = fact
      /\ triggers' = [t \in Triggers |-> Reconciled(t)]
  BY DEF ReconcileTriggers, NoObservation, Observation
<1>2. ASSUME NEW t \in Triggers
      PROVE  Reconciled(t) \in Trigger /\ OneMessage(Reconciled(t), resumed[t])
  <2>1. triggers[t] \in Trigger /\ resumed[t] \in Seq(Events) /\ OneMessage(triggers[t], resumed[t])
    BY DEF TriggerInv, TriggersOK
  <2>2. CASE Watching(t) /\ resumed[t] # <<>>
    <3> DEFINE n == Len(resumed[t])
               u == [triggers[t] EXCEPT !.state = "triggered", !.event = resumed[t][1]]
    <3>1. n \in Nat \ {0} /\ n <= 1
      BY <2>1, <2>2, EmptySeq DEF OneMessage
    <3>2. n = 1
      <4> HIDE DEF n
      <4> QED BY <3>1
    <3>3. resumed[t][1] \in Events
      BY <2>1, <3>2, ElementOfSeq
    <3>4. u \in Trigger /\ u.state = "triggered"
      BY <2>1, <3>3 DEF Trigger, TriggerState
    <3>5. Reconciled(t) = u
      BY <2>2 DEF Reconciled
    <3>6. OneMessage(u, resumed[t])
      BY <2>1, <3>2 DEF OneMessage
    <3>7. QED BY <3>4, <3>5, <3>6
  <2>3. CASE ~(Watching(t) /\ resumed[t] # <<>>)
    BY <2>1, <2>3 DEF Reconciled
  <2>4. QED BY <2>2, <2>3
<1>3. ASSUME NEW t \in Triggers PROVE OneMessage(triggers'[t], resumed'[t])
  BY <1>1, <1>2
<1>4. triggers' \in [Triggers -> Trigger]
  BY <1>1, <1>2
<1>5. QED BY <1>1, <1>3, <1>4 DEF TriggerInv, TriggersOK

----------------------------------------------------------------------------
(* The composition.                                                            *)

OccurrenceInv == ProcessOK /\ ScheduleInv /\ TriggerInv

LEMMA InitInv == Init => OccurrenceInv
<1>1. Init => ProcessOK
  BY BudgetAssumption, ProcessAssumption
     DEF Init, ProcessInit, ProcessOK, BudgetInit, BudgetOK, Time
<1>2. QED BY <1>1, InitSchedules, InitTriggers DEF OccurrenceInv

LEMMA NextInv == OccurrenceInv /\ [Next]_vars => OccurrenceInv'
<1> SUFFICES ASSUME OccurrenceInv, [Next]_vars PROVE OccurrenceInv'
  OBVIOUS
<1>1. ProcessOK /\ ScheduleInv /\ TriggerInv /\ clock \in Time
  BY DEF OccurrenceInv, ProcessOK
<1>2. ProcessOK' /\ clock <= clock' /\ clock' \in Time
  <2>1. ProcessOK' /\ clock <= clock'
    BY <1>1, ProcessType
  <2>2. QED BY <2>1 DEF ProcessOK
<1>3. ASSUME UNCHANGED scheduler PROVE ScheduleInv'
  BY <1>1, <1>2, <1>3, TimePasses
<1>4. ASSUME UNCHANGED triggering PROVE TriggerInv'
  BY <1>1, <1>4, ObservationKeeps DEF triggering, TriggerInv, TriggersOK
<1>5. ScheduleInv'
  <2>1. CASE SchedulerStep
    <3>1. CASE ScheduleCommands
      BY <1>1, <3>1, CreateKeeps, SetEnabledKeeps, DeleteKeeps, RunKeeps DEF ScheduleCommands
    <3>2. CASE CollectDueSchedules
      BY <1>1, <3>2, CollectKeeps
    <3>3. QED BY <2>1, <3>1, <3>2 DEF SchedulerStep
  <2>2. CASE Startup
    BY <1>1, <2>2, RecomputeKeeps DEF Startup, Start
  <2>3. CASE ~SchedulerStep /\ ~Startup
    BY <1>3, <2>3 DEF Next, TriggerStep, Crash, vars
  <2>4. QED BY <2>1, <2>2, <2>3
<1>6. TriggerInv'
  <2>1. CASE TriggerStep
    <3>1. CASE TriggerCommands
      BY <1>1, <3>1, TriggerCommandKeeps
    <3>2. ASSUME NEW t \in Triggers, Expire(t) PROVE TriggerInv'
      <4>1. observing' \in [Triggers -> Observation]
        BY <1>1, <3>2 DEF Expire, TriggerInv, TriggersOK
      <4>2. triggers' = Moved(t, "expired") /\ resumed' = resumed /\ fact' = fact
        BY <3>2 DEF Expire
      <4>3. QED BY <1>1, <4>1, <4>2, MovedKeeps DEF TriggerState
    <3>3. ASSUME NEW t \in Triggers, NEW e \in Events \cup {NoEvent}, FactChanges(t, e)
          PROVE  TriggerInv'
      <4>1. triggers' = triggers /\ resumed' = resumed /\ observing' = observing
        BY <3>3 DEF FactChanges
      <4>2. fact' \in [Triggers -> Events \cup {NoEvent}]
        BY <1>1, <3>3 DEF FactChanges, TriggerInv, TriggersOK
      <4>3. QED BY <1>1, <4>1, <4>2, ObservationKeeps DEF TriggerInv, TriggersOK
    <3>4. QED BY <1>1, <2>1, <3>1, <3>2, <3>3, ObservingKeeps DEF TriggerStep
  <2>2. CASE Startup
    BY <1>1, <2>2, ReconcileKeeps DEF Startup
  <2>3. CASE Crash
    <3>1. observing' \in [Triggers -> Observation]
      BY <2>3 DEF Crash, NoObservation, Observation
    <3>2. QED BY <1>1, <2>3, <3>1, ObservationKeeps DEF Crash, TriggerInv, TriggersOK
  <2>4. CASE ~TriggerStep /\ ~Startup /\ ~Crash
    BY <1>4, <2>4 DEF Next, SchedulerStep, vars
  <2>5. QED BY <2>1, <2>2, <2>3, <2>4
<1>7. QED BY <1>2, <1>5, <1>6 DEF OccurrenceInv

THEOREM OccurrenceInvariant == Spec => []OccurrenceInv
<1>1. Init => OccurrenceInv
  BY InitInv
<1>2. OccurrenceInv /\ [Next]_vars => OccurrenceInv'
  BY NextInv
<1>3. QED BY <1>1, <1>2, PTL DEF Spec

(* The clock, the process, schedules and triggers have their types.            *)
THEOREM TypesKept == Spec => []TypeOK
<1>1. OccurrenceInv => TypeOK
  BY DEF OccurrenceInv, ScheduleInv, TriggerInv, TypeOK, SchedulesOK, SentTime
<1>2. QED BY <1>1, OccurrenceInvariant, PTL

(* The occurrences of a schedule become messages in the order of their times   *)
(* and each at most once (collectDueLocked, ensureScheduleMessageLocked),      *)
(* whatever save fails between message and schedule and wherever the process   *)
(* dies.                                                                       *)
THEOREM OccurrencesOrdered == Spec => []OccurrencesInOrder
<1>1. OccurrenceInv => OccurrencesInOrder
  BY DEF OccurrenceInv, ScheduleInv, Faithful, Orderly, InOrder, Planned, OccurrencesInOrder
<1>2. QED BY <1>1, OccurrenceInvariant, PTL

(* The run that a schedule shows as its last has its message in the ledger.    *)
THEOREM RunsWereSent == Spec => []RecordedRunWasSent
<1>1. OccurrenceInv => RecordedRunWasSent
  BY DEF OccurrenceInv, ScheduleInv, Faithful, RecordedRunWasSent, Sent
<1>2. QED BY <1>1, OccurrenceInvariant, PTL

(* A trigger never writes two messages, and has written one when it says       *)
(* "triggered" (ensureTriggerMessageLocked, reconcileTriggersLocked).          *)
THEOREM TriggersResumeOnce == Spec => []OneMessagePerTrigger
<1>1. OccurrenceInv => OneMessagePerTrigger
  BY DEF OccurrenceInv, TriggerInv, OneMessage, OneMessagePerTrigger
<1>2. QED BY <1>1, OccurrenceInvariant, PTL

----------------------------------------------------------------------------
(* Who may be resumed.                                                         *)

(* One observation is applied: if it writes a message, the trigger it was made *)
(* for waits at that moment, and no other trigger's messages change.           *)
LEMMA AppliedToWaiting ==
  ASSUME TriggersOK, NEW t \in Triggers, ApplyObservation(t)
  PROVE  \A x \in Triggers : resumed'[x] # resumed[x] => x = t /\ Applicable(t)
<1>1. resumed' = resumed \/ (Applicable(t) /\ resumed' = Resumed(t))
  BY DEF ApplyObservation, ApplyMatch
<1>2. \A x \in Triggers : x # t => Resumed(t)[x] = resumed[x]
  BY DEF Resumed, TriggersOK
<1>3. QED BY <1>1, <1>2

(* Commands, polls, the reading of a fact and startup write no message.        *)
LEMMA ResumedByApplying ==
  ASSUME [Next]_vars, resumed' # resumed
  PROVE  \E t \in Triggers : ApplyObservation(t)
<1>1. TriggerStep
  BY DEF Next, SchedulerStep, Crash, Startup, ReconcileTriggers, vars, triggering
<1>2. ~TriggerCommands
  BY DEF TriggerCommands, CreateTrigger, PauseTrigger, ResumeTrigger, CancelTrigger
<1>3. \A t \in Triggers : ~Expire(t)
  BY DEF Expire
<1>4. \A t \in Triggers, e \in Events \cup {NoEvent} : ~FactChanges(t, e)
  BY DEF FactChanges
<1>5. \A t \in Triggers : Observing(t) => ApplyObservation(t)
  BY DEF Observing, Observe, ProviderAnswers, ObservationFails
<1>6. QED BY <1>1, <1>2, <1>3, <1>4, <1>5 DEF TriggerStep

(* An observation that was under way when its trigger was paused, cancelled or *)
(* expired resumes nobody (applyTriggerObservation reads the trigger again     *)
(* under the lock).                                                            *)
THEOREM WaitingTriggersResume == Spec => OnlyWaitingTriggersResume
<1> DEFINE Waits == \A t \in Triggers : resumed'[t] # resumed[t] => Watching(t) /\ ~Expired(t)
<1>1. ASSUME OccurrenceInv, [Next]_vars PROVE Waits
  <2>1. TriggersOK
    BY <1>1 DEF OccurrenceInv, TriggerInv
  <2>2. CASE resumed' = resumed
    BY <2>2
  <2>3. CASE resumed' # resumed
    <3>1. PICK t \in Triggers : ApplyObservation(t)
      BY <1>1, <2>3, ResumedByApplying
    <3>2. \A x \in Triggers : resumed'[x] # resumed[x] => x = t /\ Applicable(t)
      BY <2>1, <3>1, AppliedToWaiting
    <3>3. QED BY <3>2 DEF Applicable
  <2>4. QED BY <2>2, <2>3
<1>2. OccurrenceInv /\ [Next]_vars => [Waits]_<<process, triggering>>
  BY <1>1
<1>3. QED BY <1>2, OccurrenceInvariant, PTL DEF Spec, OnlyWaitingTriggersResume
=============================================================================
