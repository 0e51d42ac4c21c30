----------------------------- MODULE Occurrences -----------------------------
(***************************************************************************)
(* The two sources of timed work of one CodexLoom process: schedules and   *)
(* triggers share the clock, the crashes and restarts of the process, the  *)
(* Agent they address and the ledger their messages are committed to.      *)
(***************************************************************************)
EXTENDS Schedules, Triggers

vars == <<process, scheduler, triggering>>

Init == ProcessInit /\ SchedulesInit /\ TriggersInit

(* A process dies anywhere; observations in flight die with it.               *)
Crash == Die /\ UNCHANGED scheduler
             /\ observing' = [t \in Triggers |-> NoObservation]
             /\ UNCHANGED <<triggers, resumed, fact>>

(* Open repairs the triggers, then the scheduler's loop the schedules.        *)
Startup == Start /\ RecomputeSchedules /\ ReconcileTriggers

SchedulerStep == (ScheduleCommands \/ CollectDueSchedules) /\ UNCHANGED triggering

TriggerStep ==
  /\ \/ TriggerCommands
     \/ \E t \in Triggers : \/ Expire(t) \/ Observing(t)
                            \/ \E e \in Events \cup {NoEvent} : FactChanges(t, e)
  /\ UNCHANGED scheduler

Next ==
  \/ (Tick \/ Register) /\ UNCHANGED <<scheduler, triggering>>
  \/ SchedulerStep \/ TriggerStep
  \/ Crash \/ Startup

Spec == Init /\ [][Next]_vars

(* The scheduler ticks each second and the triggers are polled each 30, and    *)
(* the provider answers or the read times out; a dead process is started again.*)
FairSpec ==
  /\ Spec
  /\ WF_vars(Startup)
  /\ WF_vars(CollectDueSchedules /\ UNCHANGED triggering)
  /\ \A t \in Triggers : WF_vars(Observing(t) /\ UNCHANGED scheduler)

(* Clock, process, schedules and triggers have their types.                    *)
TypeOK == ProcessOK /\ SchedulesOK /\ TriggersOK
=============================================================================
