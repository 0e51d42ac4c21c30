------------------------------ MODULE HubProcess ------------------------------
(***************************************************************************)
(* The CodexLoom process as its timed components see it: a wall clock, a   *)
(* process that dies and is started again, and the registration of the     *)
(* Agent their work is addressed to.  Schedules and Triggers extend it,    *)
(* Occurrences composes them.                                              *)
(***************************************************************************)
EXTENDS Sequences, Budget

CONSTANT MaxTime  \* bound on the clock

ASSUME ProcessAssumption == MaxTime \in Nat \ {0}

VARIABLES clock,       \* the time, in steps that matter
          up,          \* a process is running
          registered   \* the target Agent is in h.agents

process == <<clock, up, registered, spent>>

Time  == 1..MaxTime
Never == 0               \* the empty timestamp
Later == MaxTime + 1     \* beyond the clock of a behaviour

ProcessInit ==
  /\ clock = 1
  /\ up = TRUE
  /\ registered = TRUE
  /\ BudgetInit

(* Time also passes while the process is down. *)
Tick == clock < MaxTime /\ clock' = clock + 1 /\ UNCHANGED <<up, registered, spent>>

(* ArchiveAgent and RestoreAgent. *)
Register ==
  /\ up /\ Command
  /\ registered' = ~registered
  /\ UNCHANGED <<clock, up>>

Die   == up /\ Fault /\ up' = FALSE /\ UNCHANGED <<clock, registered>>
Start == ~up /\ up' = TRUE /\ UNCHANGED <<clock, registered, spent>>

ProcessOK == clock \in Time /\ up \in BOOLEAN /\ registered \in BOOLEAN /\ BudgetOK
=============================================================================
