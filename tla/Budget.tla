------------------------------- MODULE Budget -------------------------------
(***************************************************************************)
(* What bounds a behaviour: how many faults its environment may inject and *)
(* how many commands its clients may give.                                 *)
(***************************************************************************)
EXTENDS Naturals

CONSTANTS MaxFaults,   \* bound on crashes, failed writes and lost messages
          MaxCommands, \* bound on the commands of clients
          MaxTogether  \* bound on both in one behaviour

ASSUME BudgetAssumption == {MaxFaults, MaxCommands, MaxTogether} \subseteq Nat

VARIABLE spent  \* the budget used

Spend(kind, bound) ==
  /\ spent[kind] < bound /\ spent.faults + spent.commands < MaxTogether
  /\ spent' = [spent EXCEPT ![kind] = @ + 1]

Fault   == Spend("faults", MaxFaults)
Command == Spend("commands", MaxCommands)

BudgetInit == spent = [faults |-> 0, commands |-> 0]
BudgetOK   == spent \in [faults: 0..MaxFaults, commands: 0..MaxCommands]
=============================================================================
