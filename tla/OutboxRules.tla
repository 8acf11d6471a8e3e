------------------------------ MODULE OutboxRules ------------------------------
(***************************************************************************)
(* The rules of one app_outbox row: the status classes and the transition  *)
(* table of outbox_state.py, and the checks every write of outbox_store.py *)
(* makes on the row it is about to store.  Constant level: the store and   *)
(* the service are both built from these operators.                        *)
(***************************************************************************)
EXTENDS Naturals

CONSTANTS Messages, NoMessage,     \* local chat messages a task can claim
          Shots, NoShot,           \* confirmation screenshots (id, time, digest)
          Baselines, NoBaseline    \* source snapshots taken before a send

ASSUME RulesAssumption == /\ NoMessage \notin Messages
                          /\ NoShot \notin Shots
                          /\ NoBaseline \notin Baselines

--------------------------------------------------------------------------------
(* outbox_state.py *)

NON_EXECUTING == {"queued", "awaiting_confirmation", "queued_send"}
GUI_RISK      == {"navigating", "running"}
EXECUTING     == GUI_RISK \cup {"verifying"}

PENDING       == NON_EXECUTING \cup EXECUTING
Statuses      == PENDING \cup {"observed", "filled", "failed", "unknown", "cancelled"}

COMPENSATABLE        == NON_EXECUTING \cup GUI_RISK
ACTIVE_COMPENSATABLE == (NON_EXECUTING \ {"awaiting_confirmation"}) \cup GUI_RISK

\* Mutant of Transitions: an edge around the confirmation.
TransitionsUnconfirmed ==
       ({"queued"} \X {"navigating", "failed", "cancelled"})
  \cup ({"navigating"} \X {"awaiting_confirmation", "failed", "unknown"})
  \cup ({"awaiting_confirmation"} \X {"queued_send", "running", "failed", "cancelled"})
  \cup ({"queued_send"} \X {"awaiting_confirmation", "running", "failed", "cancelled"})

\* TRANSITIONS as a set of <<from, to>> pairs.
Transitions ==
       ({"queued"} \X {"navigating", "failed", "cancelled"})
  \cup ({"navigating"} \X {"awaiting_confirmation", "failed", "unknown"})
  \cup ({"awaiting_confirmation"} \X {"queued_send", "failed", "cancelled"})
  \cup ({"queued_send"} \X {"awaiting_confirmation", "running", "failed", "cancelled"})
  \cup ({"running"} \X {"verifying", "filled", "failed", "unknown"})
  \cup ({"verifying"} \X {"observed", "failed", "unknown"})
  \cup ({"unknown"} \X {"observed"})

\* Statuses from which a possible send can no longer be excluded at a restart.
IsRecoveryUncertain(row) == row.mayHaveSent \/ row.status \in EXECUTING

--------------------------------------------------------------------------------
(* The row.  "absent" is the status of an idempotency key that has no row. *)

Row == [status      : Statuses \cup {"absent"},
        version     : Nat,
        attempt     : Nat,
        action      : {"send", "test"},
        mayHaveSent : BOOLEAN,
        shot        : Shots \cup {NoShot},
        baseline    : Baselines \cup {NoBaseline},
        evidence    : BOOLEAN,
        matched     : Messages \cup {NoMessage}]

NoRow == [status |-> "absent", version |-> 0, attempt |-> 0, action |-> "send",
          mayHaveSent |-> FALSE, shot |-> NoShot, baseline |-> NoBaseline,
          evidence |-> FALSE, matched |-> NoMessage]

\* The row create() inserts.
NewRow(act) ==
  [status |-> "queued", version |-> 1, attempt |-> 1, action |-> act,
   mayHaveSent |-> FALSE, shot |-> NoShot, baseline |-> NoBaseline,
   evidence |-> FALSE, matched |-> NoMessage]

--------------------------------------------------------------------------------
(* The checks of one write, prev -> cur. *)

\* _validate_transition
ValidTransition(prev, cur) ==
  /\ <<prev.status, cur.status>> \in Transitions
  /\ ~(prev.status = "queued_send" /\ cur.status = "awaiting_confirmation" /\ prev.mayHaveSent)

\* _validate_editable: payload, ownership and attempt are not editable; without
\* a transition neither are the status and the claimed message.
SamePayload(prev, cur) ==
  cur.attempt = prev.attempt /\ cur.action = prev.action

ValidUpdate(prev, cur) ==
  /\ SamePayload(prev, cur)
  /\ prev.status \in PENDING
  /\ cur.status = prev.status
  /\ cur.matched = prev.matched

\* The changes a caller may ask transition() and update_fields() for.
Edited(prev, status, sent, shot, base, proof, m) ==
  [prev EXCEPT !.status = status, !.mayHaveSent = sent, !.shot = shot,
               !.baseline = base, !.evidence = proof, !.matched = m]

\* Mutant of ValidValues: only the screenshot and the direction of the mark are checked.
ValidValuesLoose(prev, cur) ==
  /\ cur.status \in {"awaiting_confirmation", "queued_send"} => cur.shot # NoShot
  /\ prev.mayHaveSent => cur.mayHaveSent

\* _validate_values
ValidValues(prev, cur) ==
  /\ cur.status \in {"awaiting_confirmation", "queued_send"} => cur.shot # NoShot
  /\ prev.mayHaveSent => cur.mayHaveSent
  /\ cur.mayHaveSent =>
       /\ cur.action = "send"
       /\ cur.status \notin {"queued", "navigating", "awaiting_confirmation",
                             "queued_send", "filled", "cancelled"}
  /\ cur.status = "verifying" => cur.action = "send" /\ cur.mayHaveSent
  /\ cur.status = "filled" => cur.action = "test"
  /\ cur.status = "observed" =>
       cur.action = "send" /\ cur.mayHaveSent /\ cur.matched # NoMessage /\ cur.evidence
  /\ cur.status # "observed" => cur.matched = NoMessage

\* _save: every write that changes a row takes the next version.
Saved(cur) == [cur EXCEPT !.version = @ + 1]

\* Mutant of Recovered: every interrupted task is declared failed.
RecoveredAsFailed(prev) ==
  Saved([prev EXCEPT !.status = "failed", !.mayHaveSent = FALSE, !.shot = NoShot])

\* The row retry() and recover() write; both bypass _validate_values.
Retried(prev) ==
  Saved([prev EXCEPT !.status = "queued", !.attempt = @ + 1, !.shot = NoShot,
                     !.baseline = NoBaseline, !.evidence = FALSE, !.matched = NoMessage])

Recovered(prev) ==
  Saved([prev EXCEPT
    !.status = IF prev.status # "awaiting_confirmation" /\ IsRecoveryUncertain(prev)
               THEN "unknown" ELSE "failed",
    !.shot = NoShot])

\* One write of the store to one row, whichever operation makes it.
Accepts(prev, next) ==
  \/ prev.status = "absent" /\ \E action \in {"send", "test"} : next = NewRow(action)
  \/ /\ next.version = prev.version + 1
     /\ SamePayload(prev, next)
     /\ ValidTransition(prev, next) \/ ValidUpdate(prev, next)
     /\ ValidValues(prev, next)
  \/ prev.status = "failed" /\ ~prev.mayHaveSent /\ next = Retried(prev)
  \/ prev.status \in PENDING /\ next = Recovered(prev)

\* What a row means to the user: the phase of its task in OutboxPromise.
PhaseOf(row) ==
  CASE row.status = "absent" -> "absent"
    [] row.status = "observed" -> "observed"
    [] row.status \in {"filled", "cancelled"} -> "done"
    [] row.status # "observed" /\ row.mayHaveSent -> "maybeSent"
    [] row.status = "unknown" /\ ~row.mayHaveSent -> "uncertain"
    [] row.status = "failed" /\ ~row.mayHaveSent -> "retryable"
    [] OTHER -> "open"
================================================================================
