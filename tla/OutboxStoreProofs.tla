--------------------------- MODULE OutboxStoreProofs ---------------------------
(***************************************************************************)
(* Theorems about OutboxStore, for every set of keys, scopes, messages,    *)
(* screenshots and baselines and every bound.  Each write is first shown   *)
(* to be an accepted write of one row (StepsAreAccepted); the rest is      *)
(* argued once per row, over Accepts.                                      *)
(***************************************************************************)
EXTENDS OutboxStore, TLAPS

\* The part of the invariant that speaks of one row.
RowOK(row) == SendRiskOK(row) /\ ScreenshotOK(row) /\ EvidenceOK(row)

LEMMA SavedType ==
  ASSUME NEW cur \in Row
  PROVE  /\ Saved(cur) \in Row
         /\ Saved(cur).version = cur.version + 1
         /\ Saved(cur).status = cur.status
         /\ Saved(cur).matched = cur.matched
         /\ Saved(cur).mayHaveSent = cur.mayHaveSent
BY DEF Saved, Row

LEMMA StatusNames == {"queued", "failed", "unknown", "cancelled"} \subseteq Statuses
BY DEF Statuses, PENDING, NON_EXECUTING

LEMMA NewRowType ==
  ASSUME NEW action \in {"send", "test"}
  PROVE  NewRow(action) \in Row
BY StatusNames DEF NewRow, Row

LEMMA RetriedType ==
  ASSUME NEW prev \in Row
  PROVE  /\ Retried(prev) \in Row /\ Retried(prev).matched = NoMessage
         /\ Retried(prev).status = "queued"
<1>1. \A n \in Nat : [prev EXCEPT !.status = "queued", !.attempt = n, !.shot = NoShot,
                        !.baseline = NoBaseline, !.evidence = FALSE, !.matched = NoMessage] \in
                    {row \in Row : row.matched = NoMessage /\ row.status = "queued"}
  BY StatusNames DEF Row
<1>2. prev.attempt + 1 \in Nat
  BY DEF Row
<1> QED BY <1>1, <1>2, SavedType DEF Retried

LEMMA RecoveredType ==
  ASSUME NEW prev \in Row
  PROVE  /\ Recovered(prev) \in Row /\ Recovered(prev).matched = prev.matched
         /\ Recovered(prev).status \in {"unknown", "failed"}
         /\ Recovered(prev).mayHaveSent = prev.mayHaveSent
<1> DEFINE marked(s) == [prev EXCEPT !.status = s, !.shot = NoShot]
<1>1. \A s \in Statuses : /\ marked(s) \in Row /\ marked(s).matched = prev.matched
                          /\ marked(s).status = s /\ marked(s).mayHaveSent = prev.mayHaveSent
  BY DEF Row
<1>2. \A s \in Statuses : /\ Saved(marked(s)) \in Row /\ Saved(marked(s)).matched = prev.matched
                          /\ Saved(marked(s)).status = s
                          /\ Saved(marked(s)).mayHaveSent = prev.mayHaveSent
  BY <1>1, SavedType
<1>3. PICK s \in {"unknown", "failed"} : Recovered(prev) = Saved(marked(s))
  BY DEF Recovered
<1>4. s \in Statuses
  BY StatusNames
<1> HIDE DEF marked
<1> QED BY <1>2, <1>3, <1>4

LEMMA EditedType ==
  ASSUME NEW prev \in Row, NEW status \in Statuses \cup {"absent"},
         NEW sent \in BOOLEAN, NEW proof \in BOOLEAN,
         NEW shot \in Shots \cup {NoShot}, NEW base \in Baselines \cup {NoBaseline},
         NEW m \in Messages \cup {NoMessage}
  PROVE  /\ Edited(prev, status, sent, shot, base, proof, m) \in Row
         /\ Edited(prev, status, sent, shot, base, proof, m).version = prev.version
<1> DEFINE r1 == [prev EXCEPT !.status = status]
           r2 == [r1 EXCEPT !.mayHaveSent = sent]
           r3 == [r2 EXCEPT !.shot = shot]
           r4 == [r3 EXCEPT !.baseline = base]
           r5 == [r4 EXCEPT !.evidence = proof]
           r6 == [r5 EXCEPT !.matched = m]
<1>1. r1 \in Row /\ r1.version = prev.version
  BY DEF Row
<1>2. r2 \in Row /\ r2.version = r1.version
  <2> HIDE DEF r1
  <2> QED BY <1>1 DEF Row
<1>3. r3 \in Row /\ r3.version = r2.version
  <2> HIDE DEF r2
  <2> QED BY <1>2 DEF Row
<1>4. r4 \in Row /\ r4.version = r3.version
  <2> HIDE DEF r3
  <2> QED BY <1>3 DEF Row
<1>5. r5 \in Row /\ r5.version = r4.version
  <2> HIDE DEF r4
  <2> QED BY <1>4 DEF Row
<1>6. r6 \in Row /\ r6.version = r5.version
  <2> HIDE DEF r5
  <2> QED BY <1>5 DEF Row
<1>7. Edited(prev, status, sent, shot, base, proof, m) = r6
  BY DEF Edited
<1> HIDE DEF r1, r2, r3, r4, r5, r6
<1> QED BY <1>1, <1>2, <1>3, <1>4, <1>5, <1>6, <1>7

\* A transition or a field update that passes its checks is an accepted write.
LEMMA EditAccepted ==
  ASSUME NEW prev \in Row, NEW cur \in Row, cur.version = prev.version, SamePayload(prev, cur),
         ValidTransition(prev, cur) \/ ValidUpdate(prev, cur), ValidValues(prev, cur)
  PROVE  Accepts(prev, Saved(cur))
<1> DEFINE next == Saved(cur)
<1>1. next.version = prev.version + 1 /\ SamePayload(prev, next)
  BY DEF Saved, Row, SamePayload
<1>2. ValidTransition(prev, next) \/ ValidUpdate(prev, next)
  BY <1>1 DEF Saved, Row, ValidTransition, ValidUpdate
<1>3. ValidValues(prev, next)
  BY DEF Saved, Row, ValidValues
<1> QED BY <1>1, <1>2, <1>3 DEF Accepts

\* What a step of the store does to each row and to its newest event.
StepFacts ==
  /\ rows' \in [Keys -> Row]
  /\ logged' \in [Keys -> [version : Nat, status : Statuses \cup {"absent"}]]
  /\ \A k \in Keys : rows'[k] = rows[k] \/ Accepts(rows[k], rows'[k])
  /\ \A k \in Keys : \/ logged'[k] = Event(rows'[k])
                     \/ logged'[k] = logged[k] /\ rows'[k].status = rows[k].status
  /\ \/ \A k \in Keys : rows'[k].matched \in {NoMessage, rows[k].matched}
     \/ \E j \in Keys : /\ Unclaimed(j, rows'[j].matched)
                        /\ \A k \in Keys \ {j} : rows'[k] = rows[k]

LEMMA EventType ==
  ASSUME NEW row \in Row
  PROVE  Event(row) \in [version : Nat, status : Statuses \cup {"absent"}]
BY DEF Event, Row

LEMMA OneRowStep ==
  ASSUME TypeOK, NEW k \in Keys, NEW row \in Row, Accepts(rows[k], row),
         row.matched \in {NoMessage, rows[k].matched} \/ Unclaimed(k, row.matched),
         rows' = [rows EXCEPT ![k] = row],
         logged' = [logged EXCEPT ![k] = Event(row)] \/ (logged' = logged /\ row.status = rows[k].status)
  PROVE  StepFacts
<1>1. Event(row) \in [version : Nat, status : Statuses \cup {"absent"}]
  BY EventType
<1>2. rows' \in [Keys -> Row]
  BY DEF TypeOK
<1>3. logged' \in [Keys -> [version : Nat, status : Statuses \cup {"absent"}]]
  BY <1>1 DEF TypeOK
<1>4. \A j \in Keys : rows'[j] = IF j = k THEN row ELSE rows[j]
  BY DEF TypeOK
<1>5. \A j \in Keys : logged'[j] = logged[j] \/ (j = k /\ logged'[j] = Event(row))
  BY DEF TypeOK
<1>6. \A j \in Keys : \/ logged'[j] = Event(rows'[j])
                      \/ logged'[j] = logged[j] /\ rows'[j].status = rows[j].status
  <2> SUFFICES ASSUME NEW j \in Keys
               PROVE  \/ logged'[j] = Event(rows'[j])
                      \/ logged'[j] = logged[j] /\ rows'[j].status = rows[j].status
    OBVIOUS
  <2>1. CASE j # k
    BY <2>1, <1>4, <1>5
  <2>2. CASE j = k /\ logged' = [logged EXCEPT ![k] = Event(row)]
    BY <2>2, <1>4 DEF TypeOK
  <2>3. CASE j = k /\ logged' = logged /\ row.status = rows[k].status
    BY <2>3, <1>4
  <2> QED BY <2>1, <2>2, <2>3
<1>7. \/ \A j \in Keys : rows'[j].matched \in {NoMessage, rows[j].matched}
      \/ /\ Unclaimed(k, rows'[k].matched)
         /\ \A j \in Keys \ {k} : rows'[j] = rows[j]
  BY <1>4
<1> QED BY <1>2, <1>3, <1>4, <1>6, <1>7 DEF StepFacts

LEMMA StepsAreAccepted == TypeOK /\ [Next]_vars => StepFacts
<1> SUFFICES ASSUME TypeOK, [Next]_vars PROVE StepFacts
  OBVIOUS
<1>0. \A k \in Keys : rows[k] \in Row
  BY DEF TypeOK
<1>1. CASE UNCHANGED vars
  BY <1>1 DEF vars, TypeOK, StepFacts
<1>2. ASSUME NEW k \in Keys, NEW action \in {"send", "test"}, Create(k, action)
      PROVE  StepFacts
  <2>1. NewRow(action) \in Row /\ Accepts(rows[k], NewRow(action))
    BY <1>2, NewRowType DEF Create, Accepts
  <2>2. NewRow(action).matched = NoMessage
    BY DEF NewRow
  <2> QED BY <1>2, <2>1, <2>2, OneRowStep DEF Create
<1>3. ASSUME NEW k \in Keys, NEW cur, cur \in Row, cur.version = rows[k].version,
             Transition(k, cur)
      PROVE  StepFacts
  <2>1. Accepts(rows[k], Saved(cur))
    BY <1>0, <1>3, EditAccepted DEF Transition
  <2>2. Saved(cur) \in Row /\ Saved(cur).matched = cur.matched
    BY <1>3, SavedType
  <2> QED BY <1>3, <2>1, <2>2, OneRowStep DEF Transition
<1>4. ASSUME NEW k \in Keys, NEW cur, cur \in Row, cur.version = rows[k].version,
             UpdateFields(k, cur)
      PROVE  StepFacts
  <2>1. Accepts(rows[k], Saved(cur))
    BY <1>0, <1>4, EditAccepted DEF UpdateFields, ValidUpdate
  <2>2. /\ Saved(cur) \in Row /\ Saved(cur).status = rows[k].status
        /\ Saved(cur).matched = rows[k].matched
    BY <1>4, SavedType DEF UpdateFields, ValidUpdate
  <2> QED BY <1>4, <2>1, <2>2, OneRowStep DEF UpdateFields
<1>5. ASSUME NEW k \in Keys, Retry(k)
      PROVE  StepFacts
  <2>1. /\ Retried(rows[k]) \in Row /\ Retried(rows[k]).matched = NoMessage
        /\ Accepts(rows[k], Retried(rows[k]))
    BY <1>0, <1>5, RetriedType DEF Retry, Accepts
  <2> QED BY <1>5, <2>1, OneRowStep DEF Retry
<1>6. ASSUME NEW k \in Keys, Cancel(k)
      PROVE  StepFacts
  <2>1. /\ [rows[k] EXCEPT !.status = "cancelled"] \in Row
        /\ [rows[k] EXCEPT !.status = "cancelled"].version = rows[k].version
    BY <1>0, StatusNames DEF Row
  <2> QED BY <1>3, <1>6, <2>1 DEF Cancel
<1>7. CASE Recover
  <2> DEFINE hit == {k \in Keys : rows[k].status \in PENDING}
  <2>1. \A k \in Keys : Recovered(rows[k]) \in Row
    BY <1>0, RecoveredType
  <2>2. /\ rows' = [k \in Keys |-> IF k \in hit THEN Recovered(rows[k]) ELSE rows[k]]
        /\ logged' = [k \in Keys |-> IF k \in hit THEN Event(Recovered(rows[k])) ELSE logged[k]]
    BY <1>7 DEF Recover
  <2>3. \A k \in Keys : Event(Recovered(rows[k])) \in [version : Nat, status : Statuses \cup {"absent"}]
    BY <2>1, EventType
  <2>4. \A k \in Keys : rows'[k] = rows[k] \/ Accepts(rows[k], rows'[k])
    BY <2>2 DEF Accepts
  <2>5. \A k \in Keys : \/ logged'[k] = Event(rows'[k])
                        \/ logged'[k] = logged[k] /\ rows'[k].status = rows[k].status
    BY <2>2
  <2>6. rows' \in [Keys -> Row]
    BY <1>0, <2>1, <2>2
  <2>7. logged' \in [Keys -> [version : Nat, status : Statuses \cup {"absent"}]]
    BY <2>2, <2>3 DEF TypeOK
  <2>8. \A k \in Keys : rows'[k].matched \in {NoMessage, rows[k].matched}
    BY <1>0, <2>2, RecoveredType
  <2> QED BY <2>4, <2>5, <2>6, <2>7, <2>8 DEF StepFacts
<1>8. ASSUME NEW k \in Keys, NEW sent \in BOOLEAN, NEW proof \in BOOLEAN,
             NEW shot \in Shots \cup {NoShot}, NEW base \in Baselines \cup {NoBaseline},
             NEW m \in Messages \cup {NoMessage},
             \/ \E status \in Statuses :
                  Transition(k, Edited(rows[k], status, sent, shot, base, proof, m))
             \/ UpdateFields(k, Edited(rows[k], rows[k].status, sent, shot, base, proof, m))
      PROVE  StepFacts
  <2> DEFINE edit(status) == Edited(rows[k], status, sent, shot, base, proof, m)
  <2>1. \A status \in Statuses \cup {"absent"} :
          edit(status) \in Row /\ edit(status).version = rows[k].version
    BY <1>0, EditedType
  <2>2. rows[k].status \in Statuses \cup {"absent"}
    BY <1>0 DEF Row
  <2>3. ASSUME NEW status \in Statuses, Transition(k, edit(status)) PROVE StepFacts
    <3> HIDE DEF edit
    <3> QED BY <1>3, <2>1, <2>3
  <2>4. ASSUME UpdateFields(k, edit(rows[k].status)) PROVE StepFacts
    <3> HIDE DEF edit
    <3> QED BY <1>4, <2>1, <2>2, <2>4
  <2> QED BY <1>8, <2>3, <2>4
<1>9. ASSUME NEW k \in Keys,
             \/ \E action \in {"send", "test"} : Create(k, action)
             \/ \E sent, proof \in BOOLEAN, shot \in Shots \cup {NoShot},
                  base \in Baselines \cup {NoBaseline}, m \in Messages \cup {NoMessage} :
                  \/ \E status \in Statuses :
                       Transition(k, Edited(rows[k], status, sent, shot, base, proof, m))
                  \/ UpdateFields(k, Edited(rows[k], rows[k].status, sent, shot, base, proof, m))
             \/ Retry(k)
             \/ Cancel(k)
      PROVE  StepFacts
  BY <1>2, <1>5, <1>6, <1>8, <1>9
<1> QED BY <1>1, <1>7, <1>9 DEF Next

\* The table and its newest events are well formed in every reachable state.
THEOREM TypeCorrect == Spec => []TypeOK
<1>1. Init => TypeOK
  BY DEF Init, TypeOK, NoRow, Row, Event
<1>2. TypeOK /\ [Next]_vars => TypeOK'
  BY StepsAreAccepted DEF StepFacts, TypeOK
<1> QED BY <1>1, <1>2, PTL DEF Spec

--------------------------------------------------------------------------------
(* The invariant of the store. *)

Inv == TypeOK /\ RowsConsistent /\ ClaimsUnique /\ AuditCurrent

\* Every accepted write leads from a consistent row to a consistent row.
LEMMA AcceptedRowOK ==
  ASSUME NEW prev \in Row, NEW next \in Row, RowOK(prev), Accepts(prev, next)
  PROVE  RowOK(next)
<1> USE DEF RowOK, SendRiskOK, ScreenshotOK, EvidenceOK
<1>1. CASE \E action \in {"send", "test"} : next = NewRow(action)
  BY <1>1 DEF NewRow
<1>2. CASE ValidValues(prev, next) /\ (ValidTransition(prev, next) \/ ValidUpdate(prev, next))
  <2>0. next.status # "absent"
    BY <1>2 DEF ValidTransition, ValidUpdate, Transitions,
                PENDING, NON_EXECUTING, EXECUTING, GUI_RISK
  <2>1. SendRiskOK(next)
    BY <1>2, <2>0 DEF ValidValues, Row, Statuses, PENDING, NON_EXECUTING, EXECUTING, GUI_RISK
  <2>2. ScreenshotOK(next) /\ EvidenceOK(next)
    BY <1>2 DEF ValidValues
  <2> QED BY <2>1, <2>2
<1>3. CASE prev.status = "failed" /\ ~prev.mayHaveSent /\ next = Retried(prev)
  BY <1>3 DEF Retried, Saved, Row
<1>4. CASE prev.status \in PENDING /\ next = Recovered(prev)
  <2>1. prev.matched = NoMessage
    BY <1>4 DEF PENDING, NON_EXECUTING, EXECUTING, GUI_RISK
  <2>2. /\ next.status \in {"unknown", "failed"} /\ next.action = prev.action
        /\ next.mayHaveSent = prev.mayHaveSent /\ next.matched = prev.matched
    BY <1>4 DEF Recovered, Saved, Row
  <2> QED BY <2>1, <2>2
<1> QED BY <1>1, <1>2, <1>3, <1>4 DEF Accepts

LEMMA InvInductive == Inv /\ [Next]_vars => Inv'
<1> SUFFICES ASSUME Inv, [Next]_vars PROVE Inv'
  OBVIOUS
<1>1. StepFacts
  BY StepsAreAccepted DEF Inv
<1>2. TypeOK'
  BY <1>1 DEF StepFacts, TypeOK
<1>3. RowsConsistent'
  <2> SUFFICES ASSUME NEW k \in Keys PROVE RowOK(rows'[k])
    BY DEF RowsConsistent, RowOK
  <2>1. rows[k] \in Row /\ rows'[k] \in Row /\ RowOK(rows[k])
    BY <1>1 DEF Inv, TypeOK, RowsConsistent, RowOK, StepFacts
  <2> QED BY <1>1, <2>1, AcceptedRowOK DEF StepFacts
<1>4. ClaimsUnique'
  <2> SUFFICES ASSUME NEW j \in Keys, NEW k \in Keys, j # k, ScopeOf[j] = ScopeOf[k],
                      rows'[j].matched # NoMessage
               PROVE  rows'[j].matched # rows'[k].matched
    BY DEF ClaimsUnique
  <2>1. CASE \A i \in Keys : rows'[i].matched \in {NoMessage, rows[i].matched}
    BY <2>1 DEF Inv, ClaimsUnique
  <2>2. ASSUME NEW i \in Keys, Unclaimed(i, rows'[i].matched),
               \A h \in Keys \ {i} : rows'[h] = rows[h]
        PROVE  rows'[j].matched # rows'[k].matched
    BY <2>2 DEF Unclaimed, Inv, ClaimsUnique
  <2> QED BY <1>1, <2>1, <2>2 DEF StepFacts
<1>5. AuditCurrent'
  BY <1>1 DEF StepFacts, Inv, AuditCurrent, Event
<1> QED BY <1>2, <1>3, <1>4, <1>5 DEF Inv

LEMMA InvCorrect == Spec => []Inv
<1>1. Init => Inv
  BY DEF Init, Inv, TypeOK, RowsConsistent, SendRiskOK, ScreenshotOK, EvidenceOK,
         ClaimsUnique, AuditCurrent, NoRow, Row, Event
<1> QED BY <1>1, InvInductive, PTL DEF Spec

\* Every stored row obeys the rules of _validate_values in every reachable state,
\* the rows that retry() and recover() write without that check included.
THEOREM RowsAlwaysConsistent == Spec => []RowsConsistent
BY InvCorrect, PTL DEF Inv

\* A local message never proves two tasks of one seller and data directory.
THEOREM ClaimsAlwaysUnique == Spec => []ClaimsUnique
BY InvCorrect, PTL DEF Inv

\* The newest event of a row always names the row's status.
THEOREM AuditAlwaysCurrent == Spec => []AuditCurrent
BY InvCorrect, PTL DEF Inv

--------------------------------------------------------------------------------
(* Action properties, from the accepted writes. *)

LEMMA StepInv == Inv /\ [Next]_vars => StepFacts /\ \A k \in Keys :
                   rows[k] \in Row /\ rows'[k] \in Row /\ RowOK(rows[k])
BY StepsAreAccepted DEF Inv, TypeOK, StepFacts, RowsConsistent, RowOK

\* Once a send may have happened no operation of the store makes the task
\* executable again, whatever the callers ask for and in whatever order.
THEOREM NoReplay == Spec => NeverReplayed
<1>1. ASSUME NEW prev \in Row, NEW next \in Row, RowOK(prev), Accepts(prev, next), prev.mayHaveSent
      PROVE  /\ next.mayHaveSent /\ next.attempt = prev.attempt
             /\ next.status \notin {"queued", "navigating", "awaiting_confirmation", "queued_send"}
             /\ next.status = "running" => prev.status = "running"
  <2>1. prev.status \in {"running", "verifying", "failed", "unknown", "observed"}
    BY <1>1 DEF RowOK, SendRiskOK
  <2>2. CASE /\ SamePayload(prev, next) /\ ValidValues(prev, next)
             /\ ValidTransition(prev, next) \/ ValidUpdate(prev, next)
    BY <1>1, <2>1, <2>2 DEF SamePayload, ValidValues, ValidTransition, ValidUpdate, Transitions
  <2>3. CASE prev.status \in PENDING /\ next = Recovered(prev)
    BY <1>1, <2>1, <2>3 DEF Recovered, Saved, Row
  <2> QED BY <1>1, <2>1, <2>2, <2>3 DEF Accepts
<1>2. Inv /\ [Next]_vars =>
        \A k \in Keys :
          rows[k].mayHaveSent =>
            /\ rows'[k].mayHaveSent
            /\ rows'[k].attempt = rows[k].attempt
            /\ rows'[k].status \notin {"queued", "navigating", "awaiting_confirmation", "queued_send"}
            /\ rows'[k].status = "running" => rows[k].status = "running"
  <2> SUFFICES ASSUME Inv, [Next]_vars, NEW k \in Keys, rows[k].mayHaveSent
               PROVE  /\ rows'[k].mayHaveSent
                      /\ rows'[k].attempt = rows[k].attempt
                      /\ rows'[k].status \notin {"queued", "navigating", "awaiting_confirmation", "queued_send"}
                      /\ rows'[k].status = "running" => rows[k].status = "running"
    OBVIOUS
  <2>1. rows[k] \in Row /\ rows'[k] \in Row /\ RowOK(rows[k])
    BY StepInv
  <2>2. CASE Accepts(rows[k], rows'[k])
    BY <1>1, <2>1, <2>2
  <2>3. CASE rows'[k] = rows[k]
    BY <2>1, <2>3 DEF RowOK, SendRiskOK
  <2> QED BY <2>2, <2>3, StepInv DEF StepFacts
<1> QED BY <1>2, InvCorrect, PTL DEF Spec, NeverReplayed

\* observed, filled and cancelled rows are never written again.
THEOREM FinalsStay == Spec => FinalStays
<1>1. ASSUME NEW prev \in Row, NEW next \in Row, Accepts(prev, next)
      PROVE  prev.status \notin {"observed", "filled", "cancelled"}
  BY <1>1 DEF Accepts, ValidTransition, ValidUpdate, Transitions,
              PENDING, NON_EXECUTING, EXECUTING, GUI_RISK
<1>2. Inv /\ [Next]_vars =>
        \A k \in Keys :
          rows[k].status \in {"observed", "filled", "cancelled"} => rows'[k] = rows[k]
  BY <1>1, StepInv DEF StepFacts
<1> QED BY <1>2, InvCorrect, PTL DEF Spec, FinalStays

\* Input is reached only through a confirmed screenshot of the same attempt.
THEOREM InputIsConfirmed == Spec => ConfirmedBeforeInput
<1>1. ASSUME NEW prev \in Row, NEW next \in Row, RowOK(prev), Accepts(prev, next),
             next.status # prev.status
      PROVE  /\ next.status = "running" =>
                  prev.status = "queued_send" /\ next.attempt = prev.attempt
             /\ next.status = "queued_send" =>
                  prev.status = "awaiting_confirmation" /\ prev.shot # NoShot
  <2>1. CASE /\ SamePayload(prev, next)
             /\ ValidTransition(prev, next) \/ ValidUpdate(prev, next)
    <3>1. <<prev.status, next.status>> \in Transitions
      BY <1>1, <2>1 DEF ValidTransition, ValidUpdate
    <3>2. /\ next.status = "running" => prev.status = "queued_send"
          /\ next.status = "queued_send" => prev.status = "awaiting_confirmation"
      BY <3>1 DEF Transitions
    <3>3. prev.status = "awaiting_confirmation" => prev.shot # NoShot
      BY <1>1 DEF RowOK, ScreenshotOK
    <3>4. next.attempt = prev.attempt
      BY <2>1 DEF SamePayload
    <3> QED BY <3>2, <3>3, <3>4
  <2>2. CASE \E action \in {"send", "test"} : next = NewRow(action)
    BY <2>2 DEF NewRow
  <2>3. CASE next = Retried(prev) \/ next = Recovered(prev)
    BY <2>3, RetriedType, RecoveredType
  <2> QED BY <1>1, <2>1, <2>2, <2>3 DEF Accepts
<1>2. Inv /\ [Next]_vars =>
        \A k \in Keys :
          rows'[k].status # rows[k].status =>
            /\ rows'[k].status = "running" =>
                 rows[k].status = "queued_send" /\ rows'[k].attempt = rows[k].attempt
            /\ rows'[k].status = "queued_send" =>
                 rows[k].status = "awaiting_confirmation" /\ rows[k].shot # NoShot
  <2> SUFFICES ASSUME Inv, [Next]_vars, NEW k \in Keys, rows'[k].status # rows[k].status
               PROVE  /\ rows'[k].status = "running" =>
                           rows[k].status = "queued_send" /\ rows'[k].attempt = rows[k].attempt
                      /\ rows'[k].status = "queued_send" =>
                           rows[k].status = "awaiting_confirmation" /\ rows[k].shot # NoShot
    OBVIOUS
  <2>1. rows[k] \in Row /\ rows'[k] \in Row /\ RowOK(rows[k]) /\ Accepts(rows[k], rows'[k])
    BY StepInv DEF StepFacts
  <2> QED BY <1>1, <2>1
<1> QED BY <1>2, InvCorrect, PTL DEF Spec, ConfirmedBeforeInput

--------------------------------------------------------------------------------
(* The store keeps the promise of the outbox. *)

LEMMA PhaseType == ASSUME NEW row \in Row PROVE PhaseOf(row) \in Promise!Phases
BY DEF PhaseOf, Promise!Phases, Row

\* An accepted write moves the task along the promise or leaves its phase alone.
LEMMA AcceptedMove ==
  ASSUME NEW prev \in Row, NEW next \in Row, RowOK(prev), RowOK(next), Accepts(prev, next)
  PROVE  \/ PhaseOf(next) = PhaseOf(prev)
         \/ <<PhaseOf(prev), PhaseOf(next)>> \in Promise!Moves
<1>1. CASE prev.status = "absent" /\ \E action \in {"send", "test"} : next = NewRow(action)
  <2>1. next.status = "queued" /\ ~next.mayHaveSent
    BY <1>1 DEF NewRow
  <2>2. ~prev.mayHaveSent
    BY <1>1 DEF RowOK, SendRiskOK
  <2>3. PhaseOf(prev) = "absent" /\ PhaseOf(next) = "open"
    BY <1>1, <2>1, <2>2 DEF PhaseOf
  <2> QED BY <2>3 DEF Promise!Moves
<1>2. CASE /\ SamePayload(prev, next) /\ ValidValues(prev, next)
           /\ ValidTransition(prev, next) \/ ValidUpdate(prev, next)
  <2>1. prev.mayHaveSent => next.mayHaveSent
    BY <1>2 DEF ValidValues
  <2>2. CASE ValidTransition(prev, next)
    <3>1. <<prev.status, next.status>> \in Transitions
      BY <2>2 DEF ValidTransition
    <3>2. CASE prev.mayHaveSent
      <4>1. prev.status \in {"running", "verifying", "unknown"}
        BY <3>1, <3>2 DEF RowOK, SendRiskOK, Transitions
      <4>2. next.status \in {"verifying", "observed", "failed", "unknown", "filled"}
        BY <3>1, <4>1 DEF Transitions
      <4>3. next.status # "filled"
        BY <2>1, <3>2 DEF RowOK, SendRiskOK
      <4>4. PhaseOf(prev) = "maybeSent" /\ PhaseOf(next) \in {"maybeSent", "observed"}
        BY <2>1, <3>2, <4>1, <4>2, <4>3 DEF PhaseOf
      <4> QED BY <4>4 DEF Promise!Moves
    <3>3. CASE ~prev.mayHaveSent /\ prev.status = "unknown"
      <4>1. PhaseOf(prev) = "uncertain" /\ next.status = "observed"
        BY <3>1, <3>3 DEF PhaseOf, Transitions
      <4>2. PhaseOf(next) = "observed"
        BY <4>1 DEF PhaseOf
      <4> QED BY <4>1, <4>2 DEF Promise!Moves
    <3>4. CASE ~prev.mayHaveSent /\ prev.status # "unknown"
      <4>1. prev.status \in PENDING \ {"verifying"}
        BY <3>1, <3>4 DEF RowOK, EvidenceOK, Transitions, PENDING, NON_EXECUTING, EXECUTING, GUI_RISK
      <4>2. PhaseOf(prev) = "open"
        BY <3>4, <4>1 DEF PhaseOf, PENDING, NON_EXECUTING, EXECUTING, GUI_RISK
      <4>3. next.status \notin {"absent", "observed"}
        BY <3>1, <4>1 DEF Transitions, PENDING, NON_EXECUTING, EXECUTING, GUI_RISK
      <4>4. PhaseOf(next) \in {"open", "retryable", "uncertain", "maybeSent", "done"}
        BY <4>3 DEF PhaseOf
      <4> QED BY <4>2, <4>4 DEF Promise!Moves
    <3> QED BY <3>2, <3>3, <3>4
  <2>3. CASE ValidUpdate(prev, next)
    <3>1. prev.status \in PENDING /\ next.status = prev.status
      BY <2>3 DEF ValidUpdate
    <3>2. PhaseOf(prev) \in {"open", "maybeSent"} /\ PhaseOf(next) \in {"open", "maybeSent"}
      BY <3>1 DEF PhaseOf, PENDING, NON_EXECUTING, EXECUTING, GUI_RISK
    <3>3. PhaseOf(prev) = "maybeSent" => PhaseOf(next) = "maybeSent"
      BY <2>1, <3>1 DEF PhaseOf, PENDING, NON_EXECUTING, EXECUTING, GUI_RISK
    <3> QED BY <3>2, <3>3 DEF Promise!Moves
  <2> QED BY <1>2, <2>2, <2>3
<1>3. CASE prev.status = "failed" /\ ~prev.mayHaveSent /\ next = Retried(prev)
  <2>1. next.status = "queued"
    BY <1>3, RetriedType
  <2>2. ~next.mayHaveSent
    BY <2>1 DEF RowOK, SendRiskOK
  <2>3. PhaseOf(prev) = "retryable" /\ PhaseOf(next) = "open"
    BY <1>3, <2>1, <2>2 DEF PhaseOf
  <2> QED BY <2>3 DEF Promise!Moves
<1>4. CASE prev.status \in PENDING /\ next = Recovered(prev)
  <2>1. next.status \in {"unknown", "failed"} /\ next.mayHaveSent = prev.mayHaveSent
    BY <1>4, RecoveredType
  <2>2. CASE prev.mayHaveSent
    BY <1>4, <2>1, <2>2 DEF PhaseOf, PENDING, NON_EXECUTING, EXECUTING, GUI_RISK
  <2>3. CASE ~prev.mayHaveSent
    <3>1. PhaseOf(prev) = "open"
      BY <1>4, <2>3 DEF PhaseOf, PENDING, NON_EXECUTING, EXECUTING, GUI_RISK
    <3>2. PhaseOf(next) \in {"uncertain", "retryable"}
      BY <2>1, <2>3 DEF PhaseOf
    <3> QED BY <3>1, <3>2 DEF Promise!Moves
  <2> QED BY <2>2, <2>3
<1> QED BY <1>1, <1>2, <1>3, <1>4 DEF Accepts

\* Every behaviour of the store is a behaviour of OutboxPromise: seen through
\* PhaseOf, the table never reopens a task that may have been sent and never
\* proves two tasks by one message.
THEOREM StoreKeepsPromise == Spec => KeepsPromise
<1>1. Init => Promise!PInit
  BY DEF Init, NoRow, PhaseOf, Promise!PInit
<1>2. Inv /\ Inv' /\ [Next]_vars => [Promise!PNext]_(Promise!pvars)
  <2> SUFFICES ASSUME Inv, Inv', [Next]_vars PROVE Promise!PNext
    OBVIOUS
  <2> DEFINE phase == [k \in Keys |-> PhaseOf(rows[k])]
             claim == [k \in Keys |-> rows[k].matched]
  <2>1. \A k \in Keys : /\ rows[k] \in Row /\ RowOK(rows[k])
                        /\ rows'[k] \in Row /\ RowOK(rows'[k])
                        /\ rows'[k] = rows[k] \/ Accepts(rows[k], rows'[k])
    BY StepInv DEF StepFacts, Inv, RowsConsistent, RowOK
  <2>2. phase' \in [Keys -> Promise!Phases]
    BY <2>1, PhaseType
  <2>3. claim' \in [Keys -> Messages \cup {NoMessage}]
    BY <2>1 DEF Row
  <2>4. \A k \in Keys : phase'[k] = phase[k] \/ <<phase[k], phase'[k]>> \in Promise!Moves
    BY <2>1, AcceptedMove
  <2>5. \A k \in Keys : claim'[k] # NoMessage <=> phase'[k] = "observed"
    BY <2>1 DEF RowOK, EvidenceOK, PhaseOf
  <2>6. \A k \in Keys : phase[k] = "observed" => claim'[k] = claim[k]
    <3> SUFFICES ASSUME NEW k \in Keys, phase[k] = "observed" PROVE claim'[k] = claim[k]
      OBVIOUS
    <3>1. rows[k].status = "observed"
      BY DEF PhaseOf
    <3>2. ~Accepts(rows[k], rows'[k])
      BY <2>1, <3>1 DEF Accepts, ValidTransition, ValidUpdate, Transitions,
                        PENDING, NON_EXECUTING, EXECUTING, GUI_RISK
    <3> QED BY <2>1, <3>2
  <2>7. Promise!ClaimsUnique(claim')
    BY DEF Inv, ClaimsUnique, Promise!ClaimsUnique
  <2> QED BY <2>2, <2>3, <2>4, <2>5, <2>6, <2>7 DEF Promise!PNext
<1> QED BY <1>1, <1>2, InvCorrect, PTL DEF Spec, KeepsPromise, Promise!PSpec
================================================================================
