-------------------------- MODULE MCSendVerification ---------------------------
(* Every task has the text hello; a person may also type another text. *)
EXTENDS SendVerification

CONSTANT hello

MCTextOf == [t \in Tasks |-> hello]
================================================================================
