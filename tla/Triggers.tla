------------------------------- MODULE Triggers -------------------------------
(***************************************************************************)
(* Triggering (internal/hub/trigger.go): a one-shot trigger polls a fact   *)
(* of an external resource and, when the fact holds, puts one durable      *)
(* message into the queue of its Agent.  The provider is read without the  *)
(* lock: between the read and its application the trigger may be paused,   *)
(* cancelled, resumed or expire, and the fact may change.  The message is  *)
(* committed first, then the trigger; startup repairs what a crash left    *)
(* between the two.                                                        *)
(***************************************************************************)
EXTENDS HubProcess

CONSTANTS Triggers,  \* trigger ids
          Events,    \* the event keys the conditions can match
          NoEvent    \* no condition matches

ASSUME TriggerAssumption == NoEvent \notin Events

VARIABLES triggers,   \* h.triggers
          resumed,    \* the events of a trigger's messages, in commit order
          observing,  \* h.triggerObservations and the read in flight
          fact        \* external: what the provider would answer now

triggering == <<triggers, resumed, observing, fact>>

TriggerState == {"unused", "pending", "armed", "paused", "triggered", "cancelled",
                 "expired", "failed"}
Trigger == [state: TriggerState, expires: {Never} \cup Time, event: Events \cup {NoEvent}]
Observation == [phase: {"none", "reading", "read"}, event: Events \cup {NoEvent}]

NoTrigger == [state |-> "unused", expires |-> Never, event |-> NoEvent]
NoObservation == [phase |-> "none", event |-> NoEvent]

TriggersInit ==
  /\ triggers = [t \in Triggers |-> NoTrigger]
  /\ resumed = [t \in Triggers |-> <<>>]
  /\ observing = [t \in Triggers |-> NoObservation]
  /\ fact = [t \in Triggers |-> NoEvent]

Watching(t) == triggers[t].state \in {"pending", "armed"}
Expired(t)  == triggers[t].expires \in 1..clock
Moved(t, state) == [triggers EXCEPT ![t].state = state]

----------------------------------------------------------------------------
(* Commands.  A save that fails changes nothing.                             *)

CreateTrigger(t, expires) ==
  /\ up /\ Command /\ registered
  /\ triggers[t].state = "unused"
  /\ expires = Never \/ expires > clock
  /\ triggers' = [triggers EXCEPT ![t].state = "pending", ![t].expires = expires]
  /\ UNCHANGED <<clock, up, registered, resumed, observing, fact>>

PauseTrigger(t) ==
  /\ up /\ Command /\ Watching(t)
  /\ triggers' = Moved(t, "paused")
  /\ UNCHANGED <<clock, up, registered, resumed, observing, fact>>

(* The deadline is looked at before the state is.                             *)
ResumeTrigger(t) ==
  /\ up /\ Command /\ triggers[t].state # "unused"
  /\ \/ /\ Expired(t)
        /\ triggers' = Moved(t, "expired")
     \/ /\ ~Expired(t) /\ triggers[t].state \in {"paused", "failed"}
        /\ triggers' = Moved(t, "armed")
  /\ UNCHANGED <<clock, up, registered, resumed, observing, fact>>

CancelTrigger(t) ==
  /\ up /\ Command
  /\ triggers[t].state \in {"pending", "armed", "paused", "failed"}
  /\ triggers' = Moved(t, "cancelled")
  /\ UNCHANGED <<clock, up, registered, resumed, observing, fact>>

----------------------------------------------------------------------------
(* Observation. *)

FactChanges(t, e) ==
  /\ e # fact[t]
  /\ fact' = [fact EXCEPT ![t] = e]
  /\ UNCHANGED <<process, triggers, resumed, observing>>

(* A poll, or the look at the deadline before a read.                         *)
Expire(t) ==
  /\ up /\ Watching(t) /\ Expired(t)
  /\ triggers' = Moved(t, "expired")
  /\ UNCHANGED <<process, resumed, observing, fact>>

(* observeTriggerNow: one observation of a trigger at a time.                 *)
Observe(t) ==
  /\ up /\ Watching(t) /\ ~Expired(t)
  /\ observing[t].phase = "none"
  /\ observing' = [observing EXCEPT ![t].phase = "reading"]
  /\ UNCHANGED <<process, triggers, resumed, fact>>

ProviderAnswers(t) ==
  /\ observing[t].phase = "reading"
  /\ observing' = [observing EXCEPT ![t] = [phase |-> "read", event |-> fact[t]]]
  /\ UNCHANGED <<process, triggers, resumed, fact>>

Released(t) == [observing EXCEPT ![t] = NoObservation]

(* recordTriggerError: only an unusable definition ends the trigger.          *)
ObservationFails(t) ==
  /\ observing[t].phase = "reading" /\ Fault
  /\ triggers' \in {triggers, IF Watching(t) THEN Moved(t, "failed") ELSE triggers}
  /\ observing' = Released(t)
  /\ UNCHANGED <<clock, up, registered, resumed, fact>>

(* Mutant: every match is a message. *)
WithEveryMessage(q, e) == Append(q, e)

(* ensureTriggerMessageLocked: one message for a trigger, whatever the event. *)
WithMessage(q, e) == IF q = <<>> THEN <<e>> ELSE q

Resumed(t) == [resumed EXCEPT ![t] = WithMessage(@, observing[t].event)]

Sendable(t) == registered \/ resumed[t] # <<>>
Matched(t) == observing[t].event # NoEvent

(* Mutant: the state read before the observation is relied on. *)
ApplicableStale(t) == TRUE

(* Mutant: the first observation only arms the trigger. *)
ApplicableArmed(t) == triggers[t].state = "armed" /\ ~Expired(t)

(* The trigger, read again under the lock, still waits.                       *)
Applicable(t) == Watching(t) /\ ~Expired(t)

(* The message is not committed, or its Agent is gone: nothing changes.  It    *)
(* is committed and the save of the trigger fails: the trigger is as before.   *)
ApplyMatch(t) ==
  \/ /\ ~Sendable(t)
     /\ UNCHANGED <<triggers, resumed, spent>>
  \/ /\ Sendable(t) /\ Fault
     /\ resumed' \in {resumed, Resumed(t)}
     /\ UNCHANGED triggers
  \/ /\ Sendable(t)
     /\ resumed' = Resumed(t)
     /\ triggers' = [triggers EXCEPT ![t].state = "triggered", ![t].event = observing[t].event]
     /\ UNCHANGED spent

ApplyObservation(t) ==
  /\ observing[t].phase = "read"
  /\ \/ /\ Applicable(t) /\ Matched(t)
        /\ ApplyMatch(t)
     \/ /\ Applicable(t) /\ ~Matched(t)
        /\ triggers' = Moved(t, "armed")
        /\ UNCHANGED <<resumed, spent>>
     \/ /\ ~Applicable(t)
        /\ triggers' = IF Watching(t) /\ Expired(t) THEN Moved(t, "expired") ELSE triggers
        /\ UNCHANGED <<resumed, spent>>
  /\ observing' = Released(t)
  /\ UNCHANGED <<clock, up, registered, fact>>

----------------------------------------------------------------------------
(* Startup. *)

(* reconcileTriggersLocked *)
Reconciled(t) ==
  IF Watching(t) /\ resumed[t] # <<>>
  THEN [triggers[t] EXCEPT !.state = "triggered", !.event = resumed[t][1]]
  ELSE triggers[t]

ReconcileTriggers ==
  /\ triggers' = [t \in Triggers |-> Reconciled(t)]
  /\ observing' = [t \in Triggers |-> NoObservation]
  /\ UNCHANGED <<resumed, fact>>

TriggerCommands ==
  \E t \in Triggers :
    \/ \E expires \in {Never} \cup Time : CreateTrigger(t, expires)
    \/ PauseTrigger(t) \/ ResumeTrigger(t) \/ CancelTrigger(t)

Observing(t) ==
  \/ Observe(t) \/ ProviderAnswers(t) \/ ObservationFails(t) \/ ApplyObservation(t)

----------------------------------------------------------------------------
(* Properties. *)

TriggersOK ==
  /\ triggers \in [Triggers -> Trigger]
  /\ resumed \in [Triggers -> Seq(Events)]
  /\ observing \in [Triggers -> Observation]
  /\ fact \in [Triggers -> Events \cup {NoEvent}]

(* triggers.md: "triggered" means that the one durable message exists, and no  *)
(* trigger ever has two, whatever it observed before a failed save or a crash. *)
OneMessagePerTrigger ==
  \A t \in Triggers : /\ Len(resumed[t]) <= 1
                      /\ triggers[t].state = "triggered" => Len(resumed[t]) = 1

(* An observation that was under way when the trigger was paused, cancelled or *)
(* expired resumes nobody: a message is written for a waiting trigger only,    *)
(* and before its deadline.                                                    *)
OnlyWaitingTriggersResume ==
  [][\A t \in Triggers : resumed'[t] # resumed[t] => Watching(t) /\ ~Expired(t)]_
    <<process, triggering>>

(* A condition that holds and stays so is noticed: no trigger with a           *)
(* registered Agent waits for ever for a fact that is there.                   *)
FactIsNoticed ==
  \A t \in Triggers :
    ~<>[](Watching(t) /\ fact[t] # NoEvent /\ registered /\ ~Expired(t))

(* trigger.go:454: a triggered or cancelled trigger cannot be resumed; it      *)
(* keeps that state for ever.                                                  *)
TerminalStays ==
  [][\A t \in Triggers : triggers[t].state \in {"triggered", "cancelled", "expired"}
       => triggers'[t].state = triggers[t].state]_<<process, triggering>>
=============================================================================
