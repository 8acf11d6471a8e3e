-------------------------------- MODULE MCInbox --------------------------------
(* One conversation; each of its messages may be old, new or late. *)
EXTENDS Inbox, TLC

CONSTANT s1
MCSidOf == [m \in Mids |-> s1]

Symmetry == {p @@ q : p \in Permutations(Mids), q \in Permutations(Dirs)}
================================================================================
