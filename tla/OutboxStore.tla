------------------------------ MODULE OutboxStore ------------------------------
(***************************************************************************)
(* OutboxStore of outbox_store.py: the app_outbox table of the CRM         *)
(* database.  Every write is one BEGIN IMMEDIATE transaction, so one       *)
(* action; a write the store refuses leaves the table alone, so it is no   *)
(* action.  The callers are arbitrary: they may ask for any change the     *)
(* checks let through, in any order.  Keys stands for the (seller,         *)
(* data_dir, idempotency_key) triples, which are UNIQUE, so a key names at *)
(* most one row and plays the part of its uuid.                            *)
(***************************************************************************)
EXTENDS OutboxRules

CONSTANTS Keys,              \* idempotency keys, each within its scope
          Scopes, ScopeOf,   \* seller and data_dir of each key
          MaxVersion         \* bound on the writes to one row

ASSUME StoreAssumption == /\ ScopeOf \in [Keys -> Scopes]
                          /\ MaxVersion \in Nat

VARIABLES rows,     \* the app_outbox table
          logged    \* version and status of the newest app_outbox_events entry of each row

vars == <<rows, logged>>

Event(row) == [version |-> row.version, status |-> row.status]

TypeOK == /\ rows \in [Keys -> Row]
          /\ logged \in [Keys -> [version : Nat, status : Statuses \cup {"absent"}]]

Init == /\ rows = [k \in Keys |-> NoRow]
        /\ logged = [k \in Keys |-> Event(NoRow)]

\* The row can still be written within the bound of the model.
Writable(k) == rows[k].status # "absent" /\ rows[k].version < MaxVersion

\* UNIQUE(seller, data_dir, matched_message_id); NULL never conflicts.
Unclaimed(k, m) ==
  m # NoMessage =>
    \A j \in Keys \ {k} : ScopeOf[j] = ScopeOf[k] => rows[j].matched # m

\* create(): a key that has a row returns it (same payload) or conflicts, both no-ops.
Create(k, action) ==
  /\ rows[k].status = "absent"
  /\ rows' = [rows EXCEPT ![k] = NewRow(action)]
  /\ logged' = [logged EXCEPT ![k] = Event(NewRow(action))]

\* transition()
Transition(k, cur) ==
  /\ Writable(k)
  /\ ValidTransition(rows[k], cur)
  /\ SamePayload(rows[k], cur)
  /\ ValidValues(rows[k], cur)
  /\ Unclaimed(k, cur.matched)
  /\ rows' = [rows EXCEPT ![k] = Saved(cur)]
  /\ logged' = [logged EXCEPT ![k] = Event(Saved(cur))]

\* update_fields(): writes the row but no event.
UpdateFields(k, cur) ==
  /\ Writable(k)
  /\ ValidUpdate(rows[k], cur)
  /\ ValidValues(rows[k], cur)
  /\ rows' = [rows EXCEPT ![k] = Saved(cur)]
  /\ UNCHANGED logged

\* Mutant of Retry: the may_have_sent check is dropped.
RetryAnyFailure(k) ==
  /\ Writable(k)
  /\ rows[k].status = "failed"
  /\ rows' = [rows EXCEPT ![k] = Retried(rows[k])]
  /\ logged' = [logged EXCEPT ![k] = Event(Retried(rows[k]))]

\* retry()
Retry(k) ==
  /\ Writable(k)
  /\ rows[k].status = "failed"
  /\ ~rows[k].mayHaveSent
  /\ rows' = [rows EXCEPT ![k] = Retried(rows[k])]
  /\ logged' = [logged EXCEPT ![k] = Event(Retried(rows[k]))]

\* cancel() is transition() with a fixed expectation and target.
Cancel(k) ==
  /\ rows[k].status \in {"queued", "awaiting_confirmation", "queued_send"}
  /\ Transition(k, [rows[k] EXCEPT !.status = "cancelled"])

\* recover(): one transaction over every pending row of the database.
Recover ==
  LET pending == {k \in Keys : rows[k].status \in PENDING} IN
  /\ pending # {}
  /\ \A k \in pending : Writable(k)
  /\ rows' = [k \in Keys |-> IF k \in pending THEN Recovered(rows[k]) ELSE rows[k]]
  /\ logged' = [k \in Keys |-> IF k \in pending THEN Event(Recovered(rows[k])) ELSE logged[k]]

Next ==
  \/ \E k \in Keys :
       \/ \E action \in {"send", "test"} : Create(k, action)
       \/ \E sent, proof \in BOOLEAN, shot \in Shots \cup {NoShot},
            base \in Baselines \cup {NoBaseline}, m \in Messages \cup {NoMessage} :
            \/ \E status \in Statuses :
                 Transition(k, Edited(rows[k], status, sent, shot, base, proof, m))
            \/ UpdateFields(k, Edited(rows[k], rows[k].status, sent, shot, base, proof, m))
       \/ Retry(k)
       \/ Cancel(k)
  \/ Recover

Spec == Init /\ [][Next]_vars

--------------------------------------------------------------------------------
(* Invariants *)

\* A row whose send may have happened is a "send" that is out of every status
\* from which the service would type, navigate, ask again or offer a cancel.
SendRiskOK(row) ==
  row.mayHaveSent => /\ row.action = "send"
                     /\ row.status \in {"running", "verifying", "failed", "unknown", "observed"}

\* A row waiting for or holding a confirmation still carries its screenshot.
ScreenshotOK(row) ==
  row.status \in {"awaiting_confirmation", "queued_send"} => row.shot # NoShot

\* Only evidence settles a row as observed, and only an observed row claims a message.
EvidenceOK(row) ==
  /\ row.status = "observed" <=> row.matched # NoMessage
  /\ row.status = "observed" => row.mayHaveSent /\ row.evidence
  /\ row.status = "verifying" => row.mayHaveSent
  /\ row.status = "filled" => row.action = "test"

\* The rules of _validate_values hold of every stored row, although retry() and
\* recover() write without them (outbox_store.py:366-377, 388-416).
RowsConsistent ==
  \A k \in Keys : SendRiskOK(rows[k]) /\ ScreenshotOK(rows[k]) /\ EvidenceOK(rows[k])

\* No two tasks of one seller and data directory are proved by the same local
\* message (UNIQUE(seller, data_dir, matched_message_id), outbox_store.py:125).
ClaimsUnique ==
  \A j, k \in Keys :
    j # k /\ ScopeOf[j] = ScopeOf[k] /\ rows[j].matched # NoMessage
      => rows[j].matched # rows[k].matched

\* The audit trail never falls behind the status: the newest event of a row has its
\* status, although field updates write no event and five operations do.
AuditCurrent == \A k \in Keys : logged[k].status = rows[k].status

(* Action properties *)

\* After a send may have happened no sequence of calls makes the task executable
\* again: it stays marked, keeps its attempt and never re-enters a status that
\* leads to input ("Recovery ... never replay", outbox_store.py:389).
NeverReplayed ==
  [][\A k \in Keys :
       rows[k].mayHaveSent =>
         /\ rows'[k].mayHaveSent
         /\ rows'[k].attempt = rows[k].attempt
         /\ rows'[k].status \notin {"queued", "navigating", "awaiting_confirmation", "queued_send"}
         /\ rows'[k].status = "running" => rows[k].status = "running"]_vars

\* Input needs a confirmation of the same attempt: a row gets to running only from
\* queued_send, and to queued_send only from a row showing a screenshot to confirm,
\* so retry, recovery and edits offer no way around the user.
ConfirmedBeforeInput ==
  [][\A k \in Keys :
       rows'[k].status # rows[k].status =>
         /\ rows'[k].status = "running" =>
              rows[k].status = "queued_send" /\ rows'[k].attempt = rows[k].attempt
         /\ rows'[k].status = "queued_send" =>
              rows[k].status = "awaiting_confirmation" /\ rows[k].shot # NoShot]_vars

\* observed, filled and cancelled are final whatever is called afterwards.
FinalStays ==
  [][\A k \in Keys :
       rows[k].status \in {"observed", "filled", "cancelled"} => rows'[k] = rows[k]]_vars

--------------------------------------------------------------------------------
(* The store keeps the promise of the outbox. *)

Promise == INSTANCE OutboxPromise
             WITH phase <- [k \in Keys |-> PhaseOf(rows[k])],
                  claim <- [k \in Keys |-> rows[k].matched]

\* Every behaviour of the store is a behaviour of the abstract outbox.
KeepsPromise == Promise!PSpec
================================================================================
