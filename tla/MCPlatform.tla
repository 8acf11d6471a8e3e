------------------------------ MODULE MCPlatform ------------------------------
(***************************************************************************)
(* Platform for TLC.                                                       *)
(***************************************************************************)
EXTENDS Platform, TLC

\* The requests that run at once are alike.
RequestSymmetry == Permutations(Requests)
================================================================================
