------------------------------ MODULE MCConsole ------------------------------
(* Two Agents, and one that may be created, for Console: a page with a tab   *)
(* open, that is opened at the address of the other Agent.                   *)
EXTENDS Console

MCInitial == {"a", "b"}
MCSpare == {"c"}
MCSessions == {[tabs |-> <<"a">>, current |-> "a", hash |-> "b"]}
=============================================================================
