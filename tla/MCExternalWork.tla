---------------------------- MODULE MCExternalWork ----------------------------
(***************************************************************************)
(* Small instances of ExternalWork for TLC.                                *)
(***************************************************************************)
EXTENDS ExternalWork, TLC

(* Workers are alike; no safety property tells them apart.                    *)
WorkerSymmetry == Permutations(Workers)
=============================================================================
