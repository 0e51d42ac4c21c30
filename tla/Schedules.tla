------------------------------ MODULE Schedules ------------------------------
(***************************************************************************)
(* The Scheduler (internal/hub/scheduler.go): at its time a schedule puts  *)
(* one durable message into the queue of its target Agent.  The message is *)
(* committed first, then the schedule's record; the two are separate       *)
(* files, and a failed save of the record is rolled back in memory, so the *)
(* record in memory is the one on disk.  Every command and every tick runs *)
(* in one critical section of Hub.mu.                                      *)
(***************************************************************************)
EXTENDS HubProcess

CONSTANTS Schedules,  \* schedule ids
          CronTimes   \* when the cron expression of a recurring schedule matches

ASSUME ScheduleAssumption == CronTimes \subseteq Time

VARIABLES schedules,  \* h.schedules
          sent        \* the scheduledAt of a schedule's messages, in commit order

scheduler == <<schedules, sent>>

Manual == Later  \* the scheduledAt of a manual run

Schedule == [status: {"unused", "kept", "deleted"}, enabled: BOOLEAN,
             at: {Never} \cup Time, next: {Never, Later} \cup Time,
             last: {Never, Manual} \cup Time]

NoSchedule == [status |-> "unused", enabled |-> FALSE, at |-> Never, next |-> Never,
               last |-> Never]

SchedulesInit ==
  /\ schedules = [s \in Schedules |-> NoSchedule]
  /\ sent = [s \in Schedules |-> <<>>]

Kept(s) == schedules[s].status = "kept"
Sent(s) == {sent[s][i] : i \in DOMAIN sent[s]}

(* Mutant: the time itself is found again. *)
NextCronAt(t) ==
  LET S == {c \in CronTimes : c >= t}
  IN  IF S = {} THEN Later ELSE CHOOSE c \in S : \A d \in S : c <= d

NextCron(t) ==
  LET S == {c \in CronTimes : c > t}
  IN  IF S = {} THEN Later ELSE CHOOSE c \in S : \A d \in S : c <= d

NextRun(r, t) == IF r.at # Never THEN r.at ELSE NextCron(t)

----------------------------------------------------------------------------
(* Commands.  A save that fails changes nothing.                             *)

CreateSchedule(s, at, enabled) ==
  /\ up /\ Command /\ registered
  /\ schedules[s].status = "unused"
  /\ LET r == [NoSchedule EXCEPT !.status = "kept", !.enabled = enabled, !.at = at]
     IN  schedules' = [schedules EXCEPT ![s] = [r EXCEPT !.next = NextRun(r, clock)]]
  /\ UNCHANGED <<clock, up, registered, sent>>

(* A one-shot schedule that has run is not enabled again.  The next run is    *)
(* computed only where there is none.                                         *)
SetScheduleEnabled(s, enabled) ==
  /\ up /\ Command /\ Kept(s)
  /\ ~(enabled /\ schedules[s].at # Never /\ schedules[s].last # Never)
  /\ schedules' = [schedules EXCEPT
       ![s].enabled = enabled,
       ![s].next = IF enabled /\ @ = Never THEN NextRun(schedules[s], clock) ELSE @]
  /\ UNCHANGED <<clock, up, registered, sent>>

DeleteSchedule(s) ==
  /\ up /\ Command /\ Kept(s)
  /\ schedules' = [schedules EXCEPT ![s].status = "deleted", ![s].enabled = FALSE]
  /\ UNCHANGED <<clock, up, registered, sent>>

RunSchedule(s) ==
  /\ up /\ Command /\ Kept(s) /\ registered
  /\ sent' = [sent EXCEPT ![s] = Append(@, Manual)]
  /\ schedules' = [schedules EXCEPT
       ![s].last = Manual,
       ![s].next = IF schedules[s].at = Never THEN NextCron(clock) ELSE @]
  /\ UNCHANGED <<clock, up, registered>>

(* The message is committed, the save of the schedule fails: an error is      *)
(* reported and the schedule is as before.                                    *)
RunScheduleUnsaved(s) ==
  /\ up /\ Fault /\ Kept(s) /\ registered
  /\ sent' = [sent EXCEPT ![s] = Append(@, Manual)]
  /\ UNCHANGED <<clock, up, registered, schedules>>

----------------------------------------------------------------------------
(* The loop's tick. *)

Due(s) == Kept(s) /\ schedules[s].enabled /\ schedules[s].next \in 1..clock

(* Mutant: no search for the message of this occurrence. *)
EnsuredAgain(q, t) == Append(q, t)

(* ensureScheduleMessageLocked *)
Ensured(q, t) == IF \E i \in DOMAIN q : q[i] = t THEN q ELSE Append(q, t)

Advanced(r) ==
  IF r.at # Never
  THEN [r EXCEPT !.last = r.next, !.enabled = FALSE, !.next = Never]
  ELSE [r EXCEPT !.last = r.next, !.next = NextCron(clock)]

(* Mutant: the schedule moves on although its message could not be committed. *)
AfterTickEarly(s, outcome) ==
  IF outcome = "unrecorded" THEN schedules[s] ELSE Advanced(schedules[s])

(* Of a due schedule: message and record are saved; the message only; neither. *)
AfterTick(s, outcome) ==
  IF outcome = "recorded" THEN Advanced(schedules[s]) ELSE schedules[s]

CollectDueSchedules ==
  LET ready == {s \in Schedules : Due(s) /\ (registered \/ schedules[s].next \in Sent(s))}
  IN  /\ up /\ ready # {}
      /\ \E outcome \in [ready -> {"recorded", "unrecorded", "unsent"}] :
           /\ IF \A s \in ready : outcome[s] = "recorded" THEN UNCHANGED spent ELSE Fault
           /\ sent' = [s \in Schedules |->
                         IF s \in ready /\ outcome[s] # "unsent"
                         THEN Ensured(sent[s], schedules[s].next) ELSE sent[s]]
           /\ schedules' = [s \in Schedules |->
                              IF s \in ready THEN AfterTick(s, outcome[s]) ELSE schedules[s]]
      /\ UNCHANGED <<clock, up, registered>>

(* recomputeMissingScheduleRuns, at startup. *)
Recomputed(r) ==
  IF r.status = "kept" /\ r.next = Never /\ (r.at = Never \/ r.enabled)
  THEN [r EXCEPT !.next = NextRun(r, clock)] ELSE r

RecomputeSchedules ==
  /\ schedules' = [s \in Schedules |-> Recomputed(schedules[s])]
  /\ UNCHANGED sent

ScheduleCommands ==
  \E s \in Schedules :
    \/ \E at \in {Never} \cup Time, enabled \in BOOLEAN : CreateSchedule(s, at, enabled)
    \/ \E enabled \in BOOLEAN : SetScheduleEnabled(s, enabled)
    \/ DeleteSchedule(s) \/ RunSchedule(s) \/ RunScheduleUnsaved(s)

----------------------------------------------------------------------------
(* Properties. *)

SchedulesOK ==
  /\ schedules \in [Schedules -> Schedule]
  /\ sent \in [Schedules -> Seq(Time \cup {Manual})]

(* A schedule's occurrences become messages in the order of their times, each  *)
(* at most once, whatever save fails and whenever the process dies.            *)
OccurrencesInOrder ==
  \A s \in Schedules : \A i, j \in DOMAIN sent[s] :
    i < j /\ sent[s][i] # Manual /\ sent[s][j] # Manual => sent[s][i] < sent[s][j]

(* "Commit the message, then advance the schedule" (handbook.md:131): a run    *)
(* that the schedule shows as its last is a message in the ledger.             *)
RecordedRunWasSent == \A s \in Schedules : schedules[s].last \in {Never} \cup Sent(s)

(* No schedule with a registered target stays due for ever.                    *)
NoneDueForever ==
  \A s \in Schedules :
    ~<>[](Kept(s) /\ schedules[s].enabled /\ schedules[s].next \in 1..clock /\ registered)

(* handbook.md:131: no occurrence is skipped; a schedule that is due moves on  *)
(* only when the message of that occurrence exists.                            *)
DueIsNotSkipped ==
  [][\A s \in Schedules :
       Due(s) /\ schedules'[s].next # schedules[s].next =>
         schedules[s].next \in {sent'[s][i] : i \in DOMAIN sent'[s]}]_<<process, scheduler>>
=============================================================================
