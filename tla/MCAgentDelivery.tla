-------------------------- MODULE MCAgentDelivery --------------------------
(* Small instances of AgentDelivery. *)
EXTENDS AgentDelivery, TLC

CONSTANTS asker, helper, m1, m2

\* The asker asks the helper; the reply travels back.
Asking == {[from |-> asker, to |-> helper, response |-> "required"]}

\* The helper is asked by a schedule, and told something by the asker.
Telling == {[from |-> Scheduler, to |-> helper, response |-> "required"],
            [from |-> asker, to |-> helper, response |-> "none"]}

Symmetry == Permutations(Workers) \cup Permutations(Msgs)
=============================================================================
