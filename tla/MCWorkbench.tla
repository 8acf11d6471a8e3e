------------------------------ MODULE MCWorkbench ------------------------------
(***************************************************************************)
(* Workbench for TLC.                                                      *)
(***************************************************************************)
EXTENDS Workbench

\* Short hashes that collide for all texts until they are salted.
ShortHash(text, salt) == IF salt = 0 THEN 0 ELSE text + 10 * salt
================================================================================
