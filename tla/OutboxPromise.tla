----------------------------- MODULE OutboxPromise -----------------------------
(***************************************************************************)
(* What the outbox promises about each submitted message, with no word on  *)
(* queues, screenshots, versions or restarts: as long as a task is open    *)
(* nothing can have been sent; once a send may have happened the task is   *)
(* never worked on again, it can only be matched with one local message;   *)
(* and no local message proves two tasks.                                  *)
(***************************************************************************)
CONSTANTS Keys,                 \* the submitted messages
          Scopes, ScopeOf,      \* seller and data directory of each
          Messages, NoMessage   \* local chat messages

VARIABLES phase, claim

pvars == <<phase, claim>>

Phases == {"absent", "open", "retryable", "uncertain", "maybeSent", "observed", "done"}

\* The phases a task may move to from each phase.
Moves == ({"absent"} \X {"open"})
    \cup ({"open"} \X {"retryable", "uncertain", "maybeSent", "done"})
    \cup ({"retryable"} \X {"open"})
    \cup ({"uncertain", "maybeSent"} \X {"observed"})

PTypeOK == /\ phase \in [Keys -> Phases]
           /\ claim \in [Keys -> Messages \cup {NoMessage}]

ClaimsUnique(c) ==
  \A j, k \in Keys :
    j # k /\ ScopeOf[j] = ScopeOf[k] /\ c[j] # NoMessage => c[j] # c[k]

PInit == /\ phase = [k \in Keys |-> "absent"]
         /\ claim = [k \in Keys |-> NoMessage]

\* Several tasks may move at once: a restart settles every open task.
PNext == /\ phase' \in [Keys -> Phases]
         /\ claim' \in [Keys -> Messages \cup {NoMessage}]
         /\ \A k \in Keys :
              /\ phase'[k] = phase[k] \/ <<phase[k], phase'[k]>> \in Moves
              /\ claim'[k] # NoMessage <=> phase'[k] = "observed"
              /\ phase[k] = "observed" => claim'[k] = claim[k]
         /\ ClaimsUnique(claim')

PSpec == PInit /\ [][PNext]_pvars
================================================================================
