----------------------------- MODULE MCOutboxStore -----------------------------
(* Keys of one seller and data directory: the scope in which claims are unique. *)
EXTENDS OutboxStore, TLC

CONSTANT s1
MCScopeOf == [k \in Keys |-> s1]

KeySymmetry == Permutations(Keys)
================================================================================
