------------------------------ MODULE MCGateways ------------------------------
(***************************************************************************)
(* A small instance of Gateways for TLC.                                   *)
(***************************************************************************)
EXTENDS Gateways, TLC

CONSTANTS e1, e2, e3, m1, r1, h1, h2

MCMessageOf == (e1 :> m1) @@ (e2 :> m1) @@ (e3 :> m1)
MCParts == (r1 :> 2)

=============================================================================
