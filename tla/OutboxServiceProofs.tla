-------------------------- MODULE OutboxServiceProofs --------------------------
(***************************************************************************)
(* Theorems about OutboxService, for any finite set of tasks and every     *)
(* bound: whatever the threads, the user, the account, the window, faults, *)
(* stop() and restarts do, a task is clicked at most once, as confirmed    *)
(* and after its mark, no deferred write lies in wait for an attempt that  *)
(* is authorized, no task is stranded unless the queue is full or the      *)
(* first read of a job fails, and the service keeps the promise of the     *)
(* outbox (OutboxPromise).                                                 *)
(***************************************************************************)
EXTENDS OutboxService, FiniteSetTheorems, TLAPS

GuardedPcs == {"navigate", "capture", "decide", "input", "barrier", "armed", "posting",
               "wait", "settle"}
InputPcs == {"input", "barrier", "armed", "posting", "wait", "settle"}
Pcs == {"idle", "baseline", "guard", "finish"} \cup GuardedPcs

PendingType == [attempt : Nat, version : Nat]
WorkerRecord ==
  [pc : Pcs, job : OrNone(JobType), rec : OrNone(Row), snap : OrNone(Row),
   frame : Shots \cup {NoShot}, base : Baselines \cup {NoBaseline}, failed : BOOLEAN]

WorkerType ==
  /\ worker \in WorkerRecord
  /\ worker.pc # "idle" => worker.job \in JobType /\ worker.snap \in Row
  /\ worker.pc \in GuardedPcs => worker.rec \in Row

--------------------------------------------------------------------------------
(* The invariant *)

\* A row and the frame that was approved for it.
RowOK(r, shot) ==
  /\ r.version = 0 <=> r.status = "absent"
  /\ r.attempt = 0 <=> r.status = "absent"
  /\ r.version = 1 => r.status = "queued" /\ r.attempt = 1
  /\ r.status \in {"absent", "queued", "navigating", "awaiting_confirmation", "queued_send"}
       => ~r.mayHaveSent
  /\ r.status \in {"awaiting_confirmation", "queued_send", "running"} => r.shot # NoShot
  /\ r.status \in {"queued_send", "running"} => shot = r.shot

RowsOK == \A t \in Tasks : RowOK(rows[t], approved[t])

\* A job and its row: the job is for this version of the row or an older one.
Fits(job, r) ==
  /\ r.status # "absent" /\ job.version <= r.version /\ job.bind.attempt <= r.attempt
  /\ r.version = job.version => /\ r.status = (IF job.send THEN "queued_send" ELSE "queued")
                                /\ r.attempt = job.bind.attempt

QueueOK == \A i \in 1..Len(queue) : Fits(queue[i], rows[queue[i].task])

\* row is r, or what r was at an earlier version.
Copy(row, r) == row.version <= r.version /\ (row.version = r.version => row = r)

\* The task of the worker keeps its attempt; the snapshot is a copy of its row.
ActiveOK ==
  worker.pc # "idle" =>
    LET r == rows[worker.job.task] IN
      /\ Fits(worker.job, r)
      /\ r.attempt = worker.job.bind.attempt /\ worker.snap.attempt = worker.job.bind.attempt
      /\ worker.snap.action = r.action /\ Copy(worker.snap, r)
      /\ r.status = "failed" => life = "stopped"
      /\ worker.pc \in {"guard"} \cup GuardedPcs /\ worker.job.send /\ r.action = "send"
           => worker.base \in Baselines

\* Inside the guard the local record is a copy of the row too.
RecordOK ==
  worker.pc \in GuardedPcs =>
    LET r == rows[worker.job.task] IN
      /\ worker.rec.attempt = worker.job.bind.attempt
      /\ worker.rec.action = r.action /\ Copy(worker.rec, r)
      /\ worker.pc \in {"navigate", "capture", "decide"} =>
           worker.rec.status = (IF worker.job.send THEN "queued_send" ELSE "navigating")
      /\ worker.pc = "decide" => worker.frame # NoShot

\* From the input on the row is what the worker wrote, unless stop() settled it.
InputOK ==
  worker.pc \in InputPcs =>
    LET r == rows[worker.job.task]
        rec == worker.rec IN
      /\ worker.job.send /\ rec.status = "running"
      /\ r = rec \/ (life = "stopped" /\ r.status = "unknown" /\ r.version # rec.version)
      /\ worker.frame = rec.shot /\ rec.baseline = worker.base
      /\ rec.mayHaveSent <=> worker.pc \notin {"input", "barrier"}
      /\ worker.pc \notin {"input", "barrier"} => rec.action = "send"
      /\ worker.pc \in {"armed", "posting"} =>
           life \in {"up", "flagged"} /\ clicks[worker.job.task] = 0

\* Nothing knows of a task before submit() has bound it.
Fresh(t) == rows[t].status = "absent" \/ submitting = t
Unknown(t) ==
  /\ attempts[t] = None /\ pending[t] = None
  /\ \A i \in 1..Len(queue) : queue[i].task # t
  /\ worker.pc # "idle" => worker.job.task # t
FreshOK == \A t \in Tasks : Fresh(t) => Unknown(t)

\* A deferred write that still applies is of an attempt without authorization, and
\* the worker is not at that task.
Unused(t, attempt) ==
  /\ attempts[t] = None \/ attempts[t].attempt # attempt
  /\ worker.pc # "idle" => worker.job.task # t
Deferred(t) ==
  pending[t] # None =>
    /\ pending[t].attempt <= rows[t].attempt /\ pending[t].version <= rows[t].version
    /\ Applies(rows[t], pending[t]) => Unused(t, pending[t].attempt)
PendingOK == \A t \in Tasks : Deferred(t)

LifeOK ==
  /\ life = "down" => worker.pc = "idle" /\ submitting = None
  /\ submitting # None => rows[submitting].status # "absent"

IInv == /\ TypeOK /\ WorkerType /\ RowsOK /\ QueueOK /\ ActiveOK /\ RecordOK /\ InputOK
        /\ ClickedOnceAndMarked /\ FreshOK /\ PendingOK /\ LifeOK

--------------------------------------------------------------------------------
(* Writes of one row *)

\* Every write takes a later version and never takes back the mark.
Advance(p, q) ==
  /\ q \in Row /\ q.version > p.version /\ q.attempt >= p.attempt
  /\ p.mayHaveSent => q.mayHaveSent
  /\ q.status # "absent"
  /\ p.status # "absent" => q.action = p.action

Moved(t) == rows'[t] = rows[t] \/ Advance(rows[t], rows'[t])

LEMMA StatusNames ==
  /\ {"queued", "navigating", "awaiting_confirmation", "queued_send", "running", "verifying",
      "observed", "filled", "failed", "unknown", "cancelled"} \subseteq Statuses
  /\ "absent" \notin Statuses
BY DEF Statuses, PENDING, NON_EXECUTING, EXECUTING, GUI_RISK

LEMMA SavedFacts ==
  ASSUME NEW cur \in Row
  PROVE  /\ Saved(cur) \in Row /\ Saved(cur).version = cur.version + 1
         /\ Saved(cur).status = cur.status /\ Saved(cur).attempt = cur.attempt
         /\ Saved(cur).action = cur.action /\ Saved(cur).mayHaveSent = cur.mayHaveSent
         /\ Saved(cur).shot = cur.shot /\ Saved(cur).baseline = cur.baseline
         /\ Saved(cur).matched = cur.matched
BY DEF Saved, Row

LEMMA SettledFacts ==
  ASSUME NEW row \in Row, NEW proof \in BOOLEAN
  PROVE  /\ Settled(row, proof) \in Row /\ Settled(row, proof).version = row.version + 1
         /\ Settled(row, proof).status = (IF row.status \in GUI_RISK THEN "unknown" ELSE "failed")
         /\ Settled(row, proof).attempt = row.attempt /\ Settled(row, proof).action = row.action
         /\ Settled(row, proof).mayHaveSent = row.mayHaveSent
         /\ Settled(row, proof).matched = row.matched
<1> DEFINE status == IF row.status \in GUI_RISK THEN "unknown" ELSE "failed"
           evidence == IF proof THEN TRUE ELSE row.evidence
           cur == [row EXCEPT !.status = status, !.evidence = evidence, !.shot = NoShot]
<1>1. status \in Statuses /\ evidence \in BOOLEAN
  BY StatusNames DEF Row
<1>2. /\ cur \in Row /\ cur.version = row.version /\ cur.status = status
      /\ cur.attempt = row.attempt /\ cur.action = row.action
      /\ cur.mayHaveSent = row.mayHaveSent /\ cur.matched = row.matched
  <2> HIDE DEF status, evidence
  <2> QED BY <1>1 DEF Row
<1>3. Settled(row, proof) = Saved(cur)
  <2>1. [row EXCEPT !.status = status, !.evidence = IF proof THEN TRUE ELSE @, !.shot = NoShot] = cur
    BY DEF Row
  <2> QED BY <2>1 DEF Settled
<1> HIDE DEF cur
<1> QED BY <1>2, <1>3, SavedFacts

LEMMA RetriedFacts ==
  ASSUME NEW row \in Row
  PROVE  /\ Retried(row) \in Row /\ Retried(row).version = row.version + 1
         /\ Retried(row).status = "queued" /\ Retried(row).attempt = row.attempt + 1
         /\ Retried(row).action = row.action /\ Retried(row).mayHaveSent = row.mayHaveSent
         /\ Retried(row).matched = NoMessage
<1> DEFINE first(n) == [row EXCEPT !.status = "queued", !.attempt = n, !.shot = NoShot]
           rest(r) == [r EXCEPT !.baseline = NoBaseline, !.evidence = FALSE, !.matched = NoMessage]
<1>1. \A n \in Nat : /\ first(n) \in Row /\ first(n).version = row.version
                     /\ first(n).status = "queued" /\ first(n).attempt = n
                     /\ first(n).action = row.action /\ first(n).mayHaveSent = row.mayHaveSent
  BY StatusNames DEF Row
<1>2. \A r \in Row : /\ rest(r) \in Row /\ rest(r).version = r.version
                     /\ rest(r).status = r.status /\ rest(r).attempt = r.attempt
                     /\ rest(r).action = r.action /\ rest(r).mayHaveSent = r.mayHaveSent
                     /\ rest(r).matched = NoMessage
  BY DEF Row
<1>3. row.attempt + 1 \in Nat
  BY DEF Row
<1>4. Retried(row) = Saved(rest(first(row.attempt + 1)))
  BY DEF Retried, Row
<1> HIDE DEF first, rest
<1> QED BY <1>1, <1>2, <1>3, <1>4, SavedFacts

LEMMA RecoveredFacts ==
  ASSUME NEW row \in Row
  PROVE  /\ Recovered(row) \in Row /\ Recovered(row).version = row.version + 1
         /\ Recovered(row).status \in {"unknown", "failed"}
         /\ Recovered(row).attempt = row.attempt /\ Recovered(row).action = row.action
         /\ Recovered(row).mayHaveSent = row.mayHaveSent
         /\ Recovered(row).matched = row.matched
         /\ Recovered(row).status = "failed"
              => ~row.mayHaveSent \/ row.status = "awaiting_confirmation"
<1> DEFINE cur(s) == [row EXCEPT !.status = s, !.shot = NoShot]
<1>1. \A s \in Statuses : /\ cur(s) \in Row /\ cur(s).version = row.version /\ cur(s).status = s
                          /\ cur(s).attempt = row.attempt /\ cur(s).action = row.action
                          /\ cur(s).mayHaveSent = row.mayHaveSent
                          /\ cur(s).matched = row.matched
  BY DEF Row
<1>2. PICK s \in {"unknown", "failed"} :
        /\ Recovered(row) = Saved(cur(s))
        /\ s = "failed" => ~row.mayHaveSent \/ row.status = "awaiting_confirmation"
  BY DEF Recovered, IsRecoveryUncertain
<1>3. s \in Statuses
  BY StatusNames
<1> HIDE DEF cur
<1> QED BY <1>1, <1>2, <1>3, SavedFacts

LEMMA NewRowFacts ==
  ASSUME NEW action \in {"send", "test"}
  PROVE  /\ NewRow(action) \in Row /\ NewRow(action).version = 1
         /\ NewRow(action).status = "queued" /\ NewRow(action).attempt = 1
         /\ ~NewRow(action).mayHaveSent
BY StatusNames DEF NewRow, Row

\* A row that has been written again and is past its confirmation.
LEMMA SettledRowOK ==
  ASSUME NEW p \in Row, NEW q \in Row, NEW shot, NEW other, RowOK(p, other), p.status # "absent",
         q.version > p.version, q.attempt >= p.attempt,
         q.status \in {"verifying", "observed", "filled", "failed", "unknown", "cancelled"}
  PROVE  RowOK(q, shot)
BY DEF RowOK, Row

LEMMA FitsStable ==
  ASSUME NEW job \in JobType, NEW p \in Row, NEW q, Fits(job, p), q = p \/ Advance(p, q)
  PROVE  Fits(job, q)
BY DEF Fits, Advance, Row, JobType, BindingType

LEMMA CopyStable ==
  ASSUME NEW p \in Row, NEW q, q = p \/ Advance(p, q), NEW row \in Row, Copy(row, p)
  PROVE  Copy(row, q)
<1>1. row.version \in Nat /\ p.version \in Nat
  BY DEF Row
<1>2. CASE Advance(p, q)
  <2>1. q.version \in Nat /\ q.version > p.version
    BY <1>2 DEF Advance, Row
  <2> QED BY <1>1, <2>1 DEF Copy
<1> QED BY <1>2

LEMMA AdvanceTrans ==
  ASSUME NEW p \in Row, NEW q \in Row, NEW r, q = p \/ Advance(p, q), r = q \/ Advance(q, r)
  PROVE  r = p \/ Advance(p, r)
BY DEF Advance, Row

--------------------------------------------------------------------------------
(* Deferred writes *)

\* What a flush may do to the row and the deferred write of one task.
Flushed(t, r, p, act) ==
  \/ rows'[t] = r /\ (pending'[t] = p \/ (pending'[t] = None /\ ~Applies(r, p)))
  \/ /\ t # act /\ p # None /\ Applies(r, p)
     /\ rows'[t] = Settled(r, TRUE) /\ pending'[t] = None

LEMMA FlushFacts ==
  ASSUME NEW R \in [Tasks -> Row], NEW P \in [Tasks -> OrNone(PendingType)], NEW act,
         NEW failed \in Nat, FlushAfter(failed, R, P, act)
  PROVE  /\ faults' \in 0..MaxFault
         /\ rows' \in [Tasks -> Row] /\ pending' \in [Tasks -> OrNone(PendingType)]
         /\ \A t \in Tasks : Flushed(t, R[t], P[t], act)
<1> DEFINE due == {t \in Tasks : P[t] # None /\ t # act}
<1>1. PICK broken \in SUBSET due :
        /\ failed + Cardinality(broken) <= MaxFault
        /\ faults' = failed + Cardinality(broken)
        /\ rows' = [t \in Tasks |-> IF t \in due \ broken /\ Applies(R[t], P[t])
                                    THEN Settled(R[t], TRUE) ELSE R[t]]
        /\ pending' = [t \in Tasks |-> IF t \in due \ broken THEN None ELSE P[t]]
  BY DEF FlushAfter
<1>2. Cardinality(broken) \in Nat
  <2>1. broken \subseteq Tasks
    OBVIOUS
  <2> QED BY <2>1, FS_Subset, FS_CardinalityType, ServiceAssumption
<1>3. faults' \in 0..MaxFault
  BY <1>1, <1>2, ServiceAssumption
<1>4. \A t \in Tasks : Settled(R[t], TRUE) \in Row
  BY SettledFacts
<1>5. rows' \in [Tasks -> Row]
  BY <1>1, <1>4
<1>6. pending' \in [Tasks -> OrNone(PendingType)]
  BY <1>1 DEF OrNone
<1>7. \A t \in Tasks : Flushed(t, R[t], P[t], act)
  BY <1>1 DEF Flushed
<1> QED BY <1>3, <1>5, <1>6, <1>7

LEMMA RecordedFacts ==
  ASSUME NEW P \in [Tasks -> OrNone(PendingType)], NEW t \in Tasks, NEW rec,
         rec.attempt \in Nat, rec.version \in Nat
  PROVE  /\ Recorded(P, t, rec) \in [Tasks -> OrNone(PendingType)]
         /\ Recorded(P, t, rec)[t] \in {P[t], [attempt |-> rec.attempt, version |-> rec.version]}
         /\ \A u \in Tasks \ {t} : Recorded(P, t, rec)[u] = P[u]
BY DEF Recorded, OrNone, PendingType

\* The binding of a failed attempt is gone, the others are as they were.
LEMMA UnboundFacts ==
  ASSUME NEW A \in [Tasks -> OrNone(BindingType)], NEW t \in Tasks, NEW attempt
  PROVE  /\ Unbound(A, t, attempt) \in [Tasks -> OrNone(BindingType)]
         /\ Unbound(A, t, attempt)[t] \in {None, A[t]}
         /\ \/ Unbound(A, t, attempt)[t] = None
            \/ Unbound(A, t, attempt)[t].attempt # attempt
         /\ \A u \in Tasks \ {t} : Unbound(A, t, attempt)[u] = A[u]
BY DEF Unbound, OrNone

\* What _fail_if_current may do to bindings, rows and deferred writes.
Refused(R, A, t, rec, act) ==
  /\ faults' \in 0..MaxFault /\ rows' \in [Tasks -> Row]
  /\ pending' \in [Tasks -> OrNone(PendingType)]
  /\ attempts' \in [Tasks -> OrNone(BindingType)]
  /\ attempts'[t] \in {None, A[t]}
  /\ \A u \in Tasks \ {t} : attempts'[u] = A[u] /\ Flushed(u, R[u], pending[u], act)
  /\ \/ t = act /\ rows'[t] = R[t] /\ pending'[t] = pending[t]
     \/ /\ t # act
        /\ attempts'[t] = None \/ attempts'[t].attempt # rec.attempt
        /\ \E p \in {pending[t], [attempt |-> rec.attempt, version |-> rec.version]} :
             Flushed(t, R[t], p, act)

LEMMA FailIfCurrentFacts ==
  ASSUME NEW R \in [Tasks -> Row], NEW A \in [Tasks -> OrNone(BindingType)],
         pending \in [Tasks -> OrNone(PendingType)], faults \in 0..MaxFault,
         NEW t \in Tasks, NEW rec, rec.attempt \in Nat, rec.version \in Nat,
         NEW act, FailIfCurrent(R, A, t, rec, act)
  PROVE  Refused(R, A, t, rec, act)
<1>1. CASE t = act
  BY <1>1 DEF FailIfCurrent, Flushed, Refused
<1>2. CASE t # act
  <2> DEFINE P == Recorded(pending, t, rec)
  <2>1. attempts' = Unbound(A, t, rec.attempt) /\ FlushAfter(faults, R, P, act)
    BY <1>2 DEF FailIfCurrent, Flush
  <2>2. /\ P \in [Tasks -> OrNone(PendingType)]
        /\ P[t] \in {pending[t], [attempt |-> rec.attempt, version |-> rec.version]}
        /\ \A u \in Tasks \ {t} : P[u] = pending[u]
    BY RecordedFacts
  <2> HIDE DEF P
  <2>3. faults \in Nat
    BY ServiceAssumption
  <2>4. /\ faults' \in 0..MaxFault
        /\ rows' \in [Tasks -> Row] /\ pending' \in [Tasks -> OrNone(PendingType)]
        /\ \A u \in Tasks : Flushed(u, R[u], P[u], act)
    BY <2>1, <2>2, <2>3, FlushFacts
  <2>5. /\ attempts' \in [Tasks -> OrNone(BindingType)]
        /\ attempts'[t] \in {None, A[t]}
        /\ attempts'[t] = None \/ attempts'[t].attempt # rec.attempt
        /\ \A u \in Tasks \ {t} : attempts'[u] = A[u]
    BY <2>1, UnboundFacts
  <2> QED BY <1>2, <2>2, <2>4, <2>5 DEF Refused
<1> QED BY <1>1, <1>2

--------------------------------------------------------------------------------
(* What the calls, the verifier, stop() and the surroundings leave alone *)

\* The worker's task keeps its attempt; once it is typed in only stop() writes it.
LeavesActive ==
  worker.pc # "idle" =>
    LET r == rows[worker.job.task]
        s == rows'[worker.job.task] IN
      /\ s.attempt = r.attempt
      /\ s # r /\ s.status = "failed" => life' = "stopped"
      /\ s # r /\ worker.pc \in InputPcs => life' = "stopped" /\ s.status = "unknown"
      /\ life = "stopped" => life' = "stopped"
      /\ worker.pc \in {"armed", "posting"} => life' \in {"up", "flagged"}

SameWorker ==
  \/ worker' = worker
  \/ worker.pc # "idle" /\ worker' = [worker EXCEPT !.snap = rows'[worker.job.task]]

Requeued ==
  \/ queue' = queue
  \/ queue # <<>> /\ queue' = Tail(queue)
  \/ \E job \in JobType : /\ queue' = Append(queue, job)
                          /\ Fits(job, rows'[job.task]) /\ ~Fresh(job.task)'

LEMMA DeferredStable ==
  ASSUME IInv, NEW t \in Tasks, Moved(t),
         worker'.pc = "idle" \/ (worker.pc # "idle" /\ worker'.job = worker.job),
         pending'[t] \in {None, pending[t]},
         attempts'[t] \in {None, attempts[t]} \/ rows'[t] # rows[t]
  PROVE  Deferred(t)'
<1>1. /\ Deferred(t) /\ rows[t] \in Row
      /\ pending[t] # None => pending[t] \in PendingType
  BY DEF IInv, PendingOK, TypeOK, OrNone, PendingType
<1>2. CASE rows'[t] = rows[t]
  BY <1>1, <1>2 DEF Deferred, Unused, Applies
<1>3. CASE Advance(rows[t], rows'[t])
  <2>1. /\ rows'[t].version \in Nat /\ rows[t].version \in Nat
        /\ rows'[t].attempt \in Nat /\ rows[t].attempt \in Nat
        /\ rows'[t].version > rows[t].version /\ rows'[t].attempt >= rows[t].attempt
    BY <1>1, <1>3 DEF Advance, Row
  <2>2. pending[t] # None => pending[t].attempt \in Nat /\ pending[t].version \in Nat
    BY <1>1 DEF PendingType
  <2> QED BY <1>1, <2>1, <2>2 DEF Deferred, Applies
<1> QED BY <1>2, <1>3 DEF Moved

LEMMA OutsideKeeps ==
  ASSUME IInv, TypeOK', clicks' = clicks, SameWorker, Requeued, LeavesActive, LifeOK',
         \A t \in Tasks : Moved(t) /\ RowOK(rows'[t], approved'[t]) /\ Deferred(t)',
         \A t \in Tasks : Fresh(t)' => Fresh(t) /\ attempts'[t] = None /\ pending'[t] = None
  PROVE  IInv'
<1> USE DEF IInv
<1>1. rows \in [Tasks -> Row] /\ rows' \in [Tasks -> Row]
  BY DEF TypeOK
<1>2. RowsOK' /\ PendingOK'
  BY DEF RowsOK, PendingOK
<1>3. ClickedOnceAndMarked'
  BY DEF ClickedOnceAndMarked, Moved, Advance
<1>4. QueueOK'
  <2>0. queue \in Seq(JobType)
    BY DEF TypeOK
  <2>1. ASSUME NEW job \in JobType, Fits(job, rows[job.task])
        PROVE  Fits(job, rows'[job.task])
    <3>1. job.task \in Tasks
      BY DEF JobType
    <3> QED BY <1>1, <2>1, <3>1, FitsStable DEF Moved
  <2>2. \A i \in 1..Len(queue) : Fits(queue[i], rows'[queue[i].task])
    BY <2>0, <2>1 DEF QueueOK
  <2>3. CASE queue' = queue
    BY <2>2, <2>3 DEF QueueOK
  <2>4. ASSUME NEW job \in JobType, queue' = Append(queue, job), Fits(job, rows'[job.task])
        PROVE  QueueOK'
    <3>1. Len(queue') = Len(queue) + 1 /\ Len(queue) \in Nat
      BY <2>0, <2>4
    <3>2. \A i \in 1..Len(queue') : queue'[i] = (IF i = Len(queue) + 1 THEN job ELSE queue[i])
      BY <2>0, <2>4
    <3> QED BY <2>2, <2>4, <3>1, <3>2 DEF QueueOK
  <2>5. CASE queue # <<>> /\ queue' = Tail(queue)
    <3>1. /\ Len(queue) \in Nat \ {0} /\ Len(queue') = Len(queue) - 1
          /\ \A i \in 1..Len(queue') : queue'[i] = queue[i + 1] /\ i + 1 \in 1..Len(queue)
      BY <2>0, <2>5
    <3> QED BY <2>2, <3>1 DEF QueueOK
  <2> QED BY <2>3, <2>4, <2>5 DEF Requeued
<1>5. FreshOK'
  <2>0. queue \in Seq(JobType)
    BY DEF TypeOK
  <2> SUFFICES ASSUME NEW t \in Tasks, Fresh(t)'
               PROVE  Unknown(t)'
    BY DEF FreshOK
  <2>1. Unknown(t) /\ attempts'[t] = None /\ pending'[t] = None
    BY DEF FreshOK
  <2>2. worker'.pc # "idle" => worker'.job.task # t
    BY <2>1 DEF SameWorker, WorkerType, WorkerRecord, Unknown
  <2>3. \A i \in 1..Len(queue') : queue'[i].task # t
    <3>1. CASE queue' = queue
      BY <2>1, <3>1 DEF Unknown
    <3>2. ASSUME NEW job \in JobType, queue' = Append(queue, job), ~Fresh(job.task)'
          PROVE  \A i \in 1..Len(queue') : queue'[i].task # t
      <4>1. Len(queue') = Len(queue) + 1 /\ Len(queue) \in Nat
        BY <2>0, <3>2
      <4>2. \A i \in 1..Len(queue') : queue'[i] = (IF i = Len(queue) + 1 THEN job ELSE queue[i])
        BY <2>0, <3>2
      <4>3. job.task # t
        BY <3>2
      <4> QED BY <2>1, <4>1, <4>2, <4>3 DEF Unknown
    <3>3. CASE queue # <<>> /\ queue' = Tail(queue)
      <4>1. \A i \in 1..Len(queue') : queue'[i] = queue[i + 1] /\ i + 1 \in 1..Len(queue)
        BY <2>0, <3>3
      <4> QED BY <2>1, <4>1 DEF Unknown
    <3> QED BY <3>1, <3>2, <3>3 DEF Requeued
  <2> QED BY <2>1, <2>2, <2>3 DEF Unknown
<1>6. WorkerType'
  BY <1>1 DEF SameWorker, WorkerType, WorkerRecord, OrNone, JobType
<1>7. CASE worker.pc = "idle"
  BY <1>2, <1>3, <1>4, <1>5, <1>6, <1>7
     DEF SameWorker, ActiveOK, RecordOK, InputOK, GuardedPcs, InputPcs
<1>8. CASE worker.pc # "idle"
  <2> DEFINE t == worker.job.task
             r == rows[t]
             s == rows'[t]
  <2>1. /\ worker.job \in JobType /\ t \in Tasks /\ worker.snap \in Row
        /\ worker.pc \in GuardedPcs => worker.rec \in Row
    BY <1>8 DEF WorkerType, JobType
  <2>2. /\ r \in Row /\ s \in Row
        /\ s = r \/ Advance(r, s)
        /\ s.attempt = r.attempt
        /\ s # r /\ s.status = "failed" => life' = "stopped"
        /\ s # r /\ worker.pc \in InputPcs => life' = "stopped" /\ s.status = "unknown"
        /\ life = "stopped" => life' = "stopped"
        /\ worker.pc \in {"armed", "posting"} => life' \in {"up", "flagged"}
    BY <1>1, <1>8, <2>1 DEF LeavesActive, Moved
  <2>3. /\ worker'.pc = worker.pc /\ worker'.job = worker.job /\ worker'.rec = worker.rec
        /\ worker'.frame = worker.frame /\ worker'.base = worker.base
        /\ worker'.snap = worker.snap \/ worker'.snap = s
    BY DEF SameWorker, WorkerType, WorkerRecord
  <2>4. /\ Fits(worker.job, r)
        /\ r.attempt = worker.job.bind.attempt /\ worker.snap.attempt = worker.job.bind.attempt
        /\ worker.snap.action = r.action /\ Copy(worker.snap, r)
        /\ r.status = "failed" => life = "stopped"
        /\ worker.pc \in {"guard"} \cup GuardedPcs /\ worker.job.send /\ r.action = "send"
             => worker.base \in Baselines
    BY <1>8 DEF ActiveOK
  <2>5. Fits(worker.job, s)
    BY <2>1, <2>2, <2>4, FitsStable
  <2>6. s.action = r.action
    BY <2>2, <2>4 DEF Advance, Fits
  <2>7. \A row \in Row : Copy(row, r) => Copy(row, s)
    BY <2>1, <2>2, CopyStable
  <2> HIDE DEF t, r, s
  <2>8. ActiveOK'
    <3>1. Copy(worker'.snap, s) /\ worker'.snap.attempt = worker.job.bind.attempt
          /\ worker'.snap.action = s.action
      BY <2>1, <2>2, <2>3, <2>4, <2>6, <2>7 DEF Copy, Row
    <3>2. s.status = "failed" => life' = "stopped"
      BY <2>2, <2>4
    <3>3. s = rows'[worker'.job.task]
      BY <2>3 DEF t, s
    <3> QED BY <2>2, <2>3, <2>4, <2>5, <2>6, <3>1, <3>2, <3>3 DEF ActiveOK
  <2>9. RecordOK'
    <3>1. worker.pc \in GuardedPcs =>
            /\ worker.rec.attempt = worker.job.bind.attempt
            /\ worker.rec.action = r.action /\ Copy(worker.rec, r)
            /\ worker.pc \in {"navigate", "capture", "decide"} =>
                 worker.rec.status = (IF worker.job.send THEN "queued_send" ELSE "navigating")
            /\ worker.pc = "decide" => worker.frame # NoShot
      BY DEF RecordOK, t, r
    <3>2. s = rows'[worker'.job.task]
      BY <2>3 DEF t, s
    <3>3. worker.pc \in GuardedPcs => Copy(worker.rec, s)
      BY <2>1, <2>7, <3>1
    <3> QED BY <2>3, <2>6, <3>1, <3>2, <3>3 DEF RecordOK
  <2>10. InputOK'
    <3>1. CASE worker.pc \notin InputPcs
      BY <2>3, <3>1 DEF InputOK
    <3>2. CASE worker.pc \in InputPcs
      <4>1. /\ worker.job.send /\ worker.rec.status = "running"
            /\ r = worker.rec \/ (life = "stopped" /\ r.status = "unknown"
                                    /\ r.version # worker.rec.version)
            /\ worker.frame = worker.rec.shot /\ worker.rec.baseline = worker.base
            /\ worker.rec.mayHaveSent <=> worker.pc \notin {"input", "barrier"}
            /\ worker.pc \notin {"input", "barrier"} => worker.rec.action = "send"
            /\ worker.pc \in {"armed", "posting"} => clicks[t] = 0
        BY <3>2 DEF InputOK, t, r
      <4>2. worker.pc \in GuardedPcs
        BY <3>2 DEF InputPcs, GuardedPcs
      <4>3. s = worker.rec \/ (life' = "stopped" /\ s.status = "unknown"
                                /\ s.version # worker.rec.version)
        <5>1. CASE s = r
          BY <2>2, <4>1, <5>1
        <5>2. CASE s # r
          <6>1. Copy(worker.rec, r)
            BY <4>2 DEF RecordOK, t, r
          <6> QED BY <2>1, <2>2, <3>2, <4>2, <5>2, <6>1 DEF Copy, Advance, Row
        <5> QED BY <5>1, <5>2
      <4>4. s = rows'[worker'.job.task] /\ clicks'[worker'.job.task] = clicks[t]
        BY <2>3 DEF t, s
      <4> QED BY <2>2, <2>3, <4>1, <4>3, <4>4 DEF InputOK
    <3> QED BY <3>1, <3>2
  <2> QED BY <1>2, <1>3, <1>4, <1>5, <1>6, <2>8, <2>9, <2>10
<1> QED BY <1>7, <1>8

LEMMA QuietKeeps ==
  ASSUME IInv, TypeOK',
         UNCHANGED <<rows, clicks, attempts, queue, worker, pending, submitting, approved>>,
         life' = life \/ (life = "up" /\ life' = "flagged")
  PROVE  IInv'
<1>1. LeavesActive /\ LifeOK'
  BY DEF LeavesActive, LifeOK, IInv, ActiveOK, InputOK, InputPcs
<1>2. \A t \in Tasks : Moved(t) /\ RowOK(rows'[t], approved'[t])
  BY DEF Moved, RowsOK, IInv
<1>3. \A t \in Tasks : Deferred(t)'
  BY <1>2, DeferredStable
<1>4. \A t \in Tasks : Fresh(t)' => Fresh(t) /\ attempts'[t] = None /\ pending'[t] = None
  BY DEF Fresh, FreshOK, Unknown, IInv
<1>5. SameWorker /\ Requeued
  BY DEF SameWorker, Requeued
<1> QED BY <1>1, <1>2, <1>3, <1>4, <1>5, OutsideKeeps

LEMMA LookKeeps == ASSUME IInv, NEW t \in Tasks, Look(t) PROVE IInv'
<1>1. rows[t] \in Row /\ RowOK(rows[t], approved[t])
  BY DEF IInv, TypeOK, RowsOK
<1>2. [version |-> rows[t].version, shot |-> rows[t].shot] \in [version : Nat, shot : Shots]
  BY <1>1 DEF Look, RowOK, Row
<1>3. TypeOK'
  BY <1>2 DEF Look, IInv, TypeOK, OrNone
<1> QED BY <1>3, QuietKeeps DEF Look

LEMMA SurroundingsKeep ==
  ASSUME IInv, StopFlag \/ SwitchAccount \/ WindowChanges \/ ScreenChanges
  PROVE  IInv'
<1>1. TypeOK'
  BY ServiceAssumption
     DEF StopFlag, SwitchAccount, WindowChanges, ScreenChanges, IInv, TypeOK, OrNone
<1> QED BY <1>1, QuietKeeps DEF StopFlag, SwitchAccount, WindowChanges, ScreenChanges

LEMMA SubmitKeeps ==
  ASSUME IInv, NEW t \in Tasks, NEW action \in {"send", "test"}, Submit(t, action)
  PROVE  IInv'
<1> USE DEF IInv
<1>1. rows[t] \in Row /\ rows \in [Tasks -> Row] /\ RowOK(rows[t], approved[t])
  BY DEF TypeOK, RowsOK
<1>2. /\ NewRow(action) \in Row /\ NewRow(action).version = 1
      /\ NewRow(action).status = "queued" /\ NewRow(action).attempt = 1
      /\ ~NewRow(action).mayHaveSent
  BY NewRowFacts
<1> DEFINE new == NewRow(action)
<1>3. new \in Row /\ rows'[t] = new /\ \A u \in Tasks \ {t} : rows'[u] = rows[u]
  BY <1>1, <1>2 DEF Submit
<1> HIDE DEF new
<1>4. Advance(rows[t], new) /\ RowOK(new, approved[t])
  <2>1. new.version = 1 /\ new.status = "queued" /\ new.attempt = 1 /\ ~new.mayHaveSent
    BY <1>2 DEF new
  <2>2. rows[t].version = 0 /\ rows[t].attempt = 0 /\ ~rows[t].mayHaveSent
        /\ rows[t].status = "absent"
    BY <1>1 DEF Submit, RowOK
  <2> QED BY <1>3, <2>1, <2>2 DEF Advance, RowOK
<1>5. \A u \in Tasks : Moved(u) /\ RowOK(rows'[u], approved'[u])
  BY <1>3, <1>4 DEF Moved, RowsOK, Submit
<1>6. TypeOK'
  BY <1>1, <1>2 DEF Submit, TypeOK, OrNone
<1>7. Fresh(t) /\ Unknown(t)
  BY DEF Submit, Fresh, FreshOK
<1>8. LeavesActive
  <2>1. worker.pc # "idle" => worker.job.task \in Tasks \ {t}
    BY <1>7 DEF Unknown, WorkerType, JobType
  <2> QED BY <1>3, <2>1 DEF LeavesActive, Submit, InputOK, InputPcs
<1>9. LifeOK'
  BY <1>2, <1>3 DEF LifeOK, Submit, new, Accepting
<1>10. \A u \in Tasks : Deferred(u)'
  BY <1>5, DeferredStable DEF Submit
<1>11. \A u \in Tasks : Fresh(u)' => Fresh(u) /\ attempts'[u] = None /\ pending'[u] = None
  BY <1>3, <1>7 DEF Fresh, FreshOK, Unknown, Submit
<1>12. SameWorker /\ Requeued /\ clicks' = clicks
  BY DEF SameWorker, Requeued, Submit
<1> QED BY <1>5, <1>6, <1>8, <1>9, <1>10, <1>11, <1>12, OutsideKeeps

--------------------------------------------------------------------------------
(* Flushes and refused jobs *)

LEMMA FlushedRow ==
  ASSUME NEW t \in Tasks, NEW r \in Row, NEW p, NEW act, NEW shot, RowOK(r, shot),
         Flushed(t, r, p, act)
  PROVE  /\ RowOK(rows'[t], shot) /\ rows'[t] \in Row
         /\ \/ rows'[t] = r
            \/ /\ t # act /\ Advance(r, rows'[t])
               /\ rows'[t].attempt = r.attempt /\ rows'[t].status \in {"failed", "unknown"}
<1>1. CASE rows'[t] = r
  BY <1>1
<1>2. CASE t # act /\ Applies(r, p) /\ rows'[t] = Settled(r, TRUE)
  <2> DEFINE q == rows'[t]
  <2>1. /\ q \in Row /\ q.version = r.version + 1
        /\ q.status \in {"failed", "unknown"}
        /\ q.attempt = r.attempt /\ q.action = r.action /\ q.mayHaveSent = r.mayHaveSent
    <3>1. TRUE \in BOOLEAN
      OBVIOUS
    <3> HIDE DEF q
    <3>2. q = Settled(r, TRUE)
      BY <1>2 DEF q
    <3> QED BY <3>1, <3>2, SettledFacts
  <2>2. r.status # "absent"
    BY <1>2 DEF Applies, COMPENSATABLE, NON_EXECUTING, GUI_RISK
  <2>3. q.version > r.version /\ q.attempt >= r.attempt
    BY <2>1 DEF Row
  <2> HIDE DEF q
  <2>4. RowOK(q, shot)
    BY <2>1, <2>2, <2>3, SettledRowOK
  <2>5. Advance(r, q)
    BY <2>1, <2>2, <2>3 DEF Advance
  <2> QED BY <1>2, <2>1, <2>4, <2>5 DEF q
<1> QED BY <1>1, <1>2 DEF Flushed

\* Nothing is authorized or at work for that attempt of the task any more.
Freed(t, attempt) ==
  /\ attempts'[t] = None \/ attempts'[t].attempt # attempt
  /\ worker'.pc # "idle" => worker'.job.task # t

LEMMA FlushedDeferred ==
  ASSUME NEW t \in Tasks, NEW r, NEW p, NEW act, Flushed(t, r, p, act),
         p # None => /\ p.attempt <= r.attempt /\ p.version <= r.version
                     /\ Applies(r, p) => Freed(t, p.attempt)
  PROVE  Deferred(t)'
BY DEF Flushed, Deferred, Applies, Unused, Freed

\* The deferred write of a task whose row may just have been written.
LEMMA PendingOf ==
  ASSUME IInv, NEW t \in Tasks, NEW r \in Row, r = rows[t] \/ Advance(rows[t], r),
         worker'.pc = "idle" \/ (worker.pc # "idle" /\ worker'.job = worker.job),
         attempts'[t] \in {None, attempts[t]} \/ r # rows[t],
         pending[t] # None
  PROVE  /\ pending[t].attempt <= r.attempt /\ pending[t].version <= r.version
         /\ Applies(r, pending[t]) => Freed(t, pending[t].attempt)
<1>1. Deferred(t) /\ rows[t] \in Row /\ pending[t] \in PendingType
  BY DEF IInv, PendingOK, TypeOK, OrNone, PendingType
<1>2. CASE r = rows[t]
  BY <1>1, <1>2 DEF Deferred, Unused, Freed, Applies
<1>3. CASE Advance(rows[t], r)
  <2>1. /\ r.version \in Nat /\ rows[t].version \in Nat
        /\ r.attempt \in Nat /\ rows[t].attempt \in Nat
        /\ r.version > rows[t].version /\ r.attempt >= rows[t].attempt
        /\ pending[t].attempt \in Nat /\ pending[t].version \in Nat
    BY <1>1, <1>3 DEF Advance, Row, PendingType
  <2> QED BY <1>1, <2>1 DEF Deferred, Applies
<1> QED BY <1>2, <1>3

\* What a call about task t leaves, R being the table with its own write.
Orderly(t, R, act) ==
  /\ faults' \in 0..MaxFault /\ rows' \in [Tasks -> Row]
  /\ pending' \in [Tasks -> OrNone(PendingType)]
  /\ attempts' \in [Tasks -> OrNone(BindingType)]
  /\ \A u \in Tasks : /\ Moved(u) /\ RowOK(rows'[u], approved'[u]) /\ Deferred(u)'
                      /\ u = act => rows'[u] = R[u]
  /\ \A u \in Tasks \ {t} : attempts'[u] = attempts[u] /\ pending'[u] \in {None, pending[u]}

\* _fail_if_current for a task that was just written, bound or is as it was.
LEMMA RefusedFacts ==
  ASSUME IInv, NEW t \in Tasks, NEW R \in [Tasks -> Row],
         NEW A \in [Tasks -> OrNone(BindingType)], NEW rec, NEW act,
         R[t] = rows[t] \/ Advance(rows[t], R[t]),
         A[t] \in {None, attempts[t]} \/ R[t] # rows[t] \/ (pending[t] = None /\ t # act),
         \A u \in Tasks \ {t} : R[u] = rows[u] /\ A[u] = attempts[u],
         \A u \in Tasks : RowOK(R[u], approved'[u]),
         rec.attempt \in Nat, rec.version \in Nat,
         rec.attempt <= R[t].attempt, rec.version <= R[t].version,
         worker'.pc = "idle" \/ (worker.pc # "idle" /\ worker'.job = worker.job),
         worker'.pc # "idle" /\ worker'.job.task = t => t = act,
         FailIfCurrent(R, A, t, rec, act)
  PROVE  Orderly(t, R, act)
<1>1. /\ pending \in [Tasks -> OrNone(PendingType)] /\ faults \in 0..MaxFault
      /\ rows \in [Tasks -> Row]
  BY DEF IInv, TypeOK, PendingType
<1>2. Refused(R, A, t, rec, act)
  BY <1>1, FailIfCurrentFacts
<1>3. \A u \in Tasks : R[u] \in Row /\ (R[u] = rows[u] \/ Advance(rows[u], R[u]))
  OBVIOUS
<1>4. \A u \in Tasks : \E p : Flushed(u, R[u], p, act)
  BY <1>2 DEF Flushed, Refused
<1>5. ASSUME NEW u \in Tasks
      PROVE  /\ Moved(u) /\ RowOK(rows'[u], approved'[u])
             /\ u = act => rows'[u] = R[u]
  <2>1. PICK p : Flushed(u, R[u], p, act)
    BY <1>4
  <2>2. /\ RowOK(rows'[u], approved'[u]) /\ rows'[u] \in Row
        /\ rows'[u] = R[u] \/ (u # act /\ Advance(R[u], rows'[u]))
    BY <1>3, <2>1, FlushedRow
  <2>3. rows'[u] = rows[u] \/ Advance(rows[u], rows'[u])
    BY <1>1, <1>3, <2>2, AdvanceTrans
  <2> QED BY <2>2, <2>3 DEF Moved
<1>6. ASSUME NEW u \in Tasks \ {t}
      PROVE  /\ Deferred(u)'
             /\ attempts'[u] = attempts[u] /\ pending'[u] \in {None, pending[u]}
  <2>1. Flushed(u, R[u], pending[u], act) /\ attempts'[u] = attempts[u]
    BY <1>2 DEF Refused
  <2>2. pending[u] # None =>
          /\ pending[u].attempt <= R[u].attempt /\ pending[u].version <= R[u].version
          /\ Applies(R[u], pending[u]) => Freed(u, pending[u].attempt)
    BY <1>3, <2>1, PendingOf
  <2>3. Deferred(u)'
    BY <2>1, <2>2, FlushedDeferred
  <2> QED BY <2>1, <2>3 DEF Flushed
<1>7. attempts'[t] \in {None, attempts[t]} \/ R[t] # rows[t] \/ (pending[t] = None /\ t # act)
  BY <1>2 DEF Refused
<1>8. pending[t] # None =>
        /\ pending[t].attempt <= R[t].attempt /\ pending[t].version <= R[t].version
        /\ Applies(R[t], pending[t]) => Freed(t, pending[t].attempt)
  BY <1>3, <1>7, PendingOf
<1>9. Deferred(t)'
  <2>1. CASE t = act /\ rows'[t] = R[t] /\ pending'[t] = pending[t]
    BY <1>8, <2>1 DEF Deferred, Applies, Unused, Freed
  <2>2. ASSUME t # act, attempts'[t] = None \/ attempts'[t].attempt # rec.attempt,
               NEW p \in {pending[t], [attempt |-> rec.attempt, version |-> rec.version]},
               Flushed(t, R[t], p, act)
        PROVE  Deferred(t)'
    <3>1. worker'.pc # "idle" => worker'.job.task # t
      BY <2>2
    <3>2. CASE p = pending[t]
      BY <1>8, <2>2, <3>2, FlushedDeferred
    <3>3. CASE p = [attempt |-> rec.attempt, version |-> rec.version]
      <4>1. Freed(t, p.attempt)
        BY <2>2, <3>1, <3>3 DEF Freed
      <4> QED BY <2>2, <3>3, <4>1, FlushedDeferred
    <3> QED BY <2>2, <3>2, <3>3
  <2> QED BY <1>2, <2>1, <2>2 DEF Refused
<1> QED BY <1>2, <1>5, <1>6, <1>9 DEF Refused, Orderly

--------------------------------------------------------------------------------
(* The calls *)

LEMMA TokenType == ASSUME IInv PROVE token \in (0..MaxEpoch) \X (0..MaxWindow)
BY DEF token, IInv, TypeOK

LEMMA SubmitBindKeeps == ASSUME IInv, SubmitBind PROVE IInv'
<1> USE DEF IInv
<1>0. PICK t \in Tasks : t = submitting
  BY DEF SubmitBind, TypeOK, OrNone
<1> DEFINE first == [attempt |-> 1, version |-> 1]
           bind == [tok |-> token, attempt |-> 1]
           bound == [attempts EXCEPT ![t] = bind]
           job == [task |-> t, version |-> 1, bind |-> bind, send |-> FALSE]
<1>1. /\ rows[t].status # "absent" /\ rows[t] \in Row /\ RowOK(rows[t], approved[t])
      /\ rows \in [Tasks -> Row] /\ attempts \in [Tasks -> OrNone(BindingType)]
      /\ Unknown(t)
  BY <1>0 DEF SubmitBind, TypeOK, LifeOK, RowsOK, FreshOK, Fresh, OrNone
<1>2. bind \in BindingType /\ bound \in [Tasks -> OrNone(BindingType)] /\ bound[t] = bind
      /\ \A u \in Tasks \ {t} : bound[u] = attempts[u]
  BY <1>1, TokenType DEF BindingType, OrNone
<1>3. job \in JobType /\ Fits(job, rows[t])
  <2>1. rows[t].version >= 1 /\ rows[t].attempt >= 1
    BY <1>1 DEF RowOK, Row
  <2> QED BY <1>1, <1>2, <2>1 DEF JobType, Fits, RowOK
<1>4. t # Active
  BY <1>1, ServiceAssumption DEF Unknown, Active
<1>5. first.attempt = 1 /\ first.version = 1 /\ 1 <= rows[t].attempt /\ 1 <= rows[t].version
  BY <1>1 DEF RowOK, Row
<1>6. \/ /\ queue' = Append(queue, job) /\ attempts' = bound
         /\ UNCHANGED <<rows, pending, faults>>
      \/ /\ queue' = queue
         /\ \E A \in {bound, attempts} : FailIfCurrent(rows, A, t, first, Active)
  BY <1>0, <1>2 DEF SubmitBind
<1> HIDE DEF bound, job, first, bind
<1>7. SameWorker /\ clicks' = clicks /\ LifeOK' /\ submitting' = None /\ life' = life
      /\ worker' = worker /\ approved' = approved
  BY DEF SubmitBind, SameWorker, LifeOK
<1>8. Orderly(t, rows, Active)
  <2>1. CASE attempts' = bound /\ UNCHANGED <<rows, pending, faults>>
    <3>1. \A u \in Tasks : Moved(u) /\ RowOK(rows'[u], approved'[u])
      BY <1>7, <2>1 DEF Moved, RowsOK
    <3>2. \A u \in Tasks \ {t} : Deferred(u)'
      BY <1>2, <1>7, <2>1, <3>1, DeferredStable
    <3>3. Deferred(t)'
      BY <1>1, <2>1 DEF Deferred, Unknown
    <3>4. \A u \in Tasks : Deferred(u)'
      BY <3>2, <3>3
    <3> QED BY <1>2, <2>1, <3>1, <3>4 DEF Orderly, TypeOK, PendingType
  <2>2. ASSUME NEW A \in {bound, attempts}, FailIfCurrent(rows, A, t, first, Active)
        PROVE  Orderly(t, rows, Active)
    <3>1. /\ A \in [Tasks -> OrNone(BindingType)]
          /\ \A u \in Tasks \ {t} : A[u] = attempts[u]
      BY <1>1, <1>2, <2>2
    <3>2. pending[t] = None /\ t # Active
      BY <1>1, <1>4 DEF Unknown
    <3>3. \A u \in Tasks : RowOK(rows[u], approved'[u])
      BY <1>7 DEF RowsOK
    <3>4. /\ worker'.pc = "idle" \/ (worker.pc # "idle" /\ worker'.job = worker.job)
          /\ ~(worker'.pc # "idle" /\ worker'.job.task = t)
      BY <1>1, <1>7 DEF Unknown
    <3> QED BY <1>1, <1>5, <1>7, <2>2, <3>1, <3>2, <3>3, <3>4, RefusedFacts
  <2> QED BY <1>6, <2>1, <2>2
<1>9. TypeOK'
  <2>1. queue' \in Seq(JobType)
    <3>1. queue \in Seq(JobType)
      BY DEF TypeOK
    <3> QED BY <1>3, <1>6, <3>1
  <2> QED BY <1>7, <1>8, <2>1 DEF Orderly, SubmitBind, TypeOK, PendingType, OrNone
<1>10. Requeued
  <2>1. job.task = t
    BY DEF job
  <2>2. CASE queue' = Append(queue, job) /\ rows' = rows
    BY <1>1, <1>3, <1>7, <2>1, <2>2, ServiceAssumption DEF Requeued, Fresh
  <2> QED BY <1>6, <2>2 DEF Requeued
<1>11. LeavesActive
  BY <1>7, <1>8 DEF Orderly, LeavesActive, Active, WorkerType, JobType, ActiveOK, InputOK, InputPcs
<1>12. \A u \in Tasks : Fresh(u)' => Fresh(u) /\ attempts'[u] = None /\ pending'[u] = None
  <2> SUFFICES ASSUME NEW u \in Tasks, rows'[u].status = "absent"
               PROVE  Fresh(u) /\ attempts'[u] = None /\ pending'[u] = None
    BY <1>7, ServiceAssumption DEF Fresh
  <2>1. rows[u].status = "absent"
    BY <1>8 DEF Orderly, Moved, Advance
  <2> QED BY <1>1, <1>8, <2>1 DEF Orderly, Fresh, FreshOK, Unknown
<1> QED BY <1>7, <1>8, <1>9, <1>10, <1>11, <1>12, OutsideKeeps DEF Orderly

\* A call that writes its task and queues a job for it.
LEMMA EnqueueKeeps ==
  ASSUME IInv, NEW t \in Tasks, NEW new \in Row, NEW send \in BOOLEAN,
         NEW A \in [Tasks -> OrNone(BindingType)],
         Enqueue([rows EXCEPT ![t] = new], A, t, send),
         rows[t].status # "absent", Advance(rows[t], new), RowOK(new, approved'[t]),
         new.status = (IF send THEN "queued_send" ELSE "queued"),
         A[t] \in BindingType, A[t].attempt = new.attempt,
         \A u \in Tasks \ {t} : A[u] = attempts[u] /\ approved'[u] = approved[u],
         t = Active => new.attempt = rows[t].attempt /\ worker.pc \notin InputPcs,
         worker' = Snapped([rows EXCEPT ![t] = new], t),
         approved' \in [Tasks -> Shots \cup {NoShot}], submitting = None,
         UNCHANGED <<clicks, life, verifier, submitting, epoch, win, screen, seen, crashes>>
  PROVE  IInv'
<1> USE DEF IInv
<1> DEFINE R == [rows EXCEPT ![t] = new]
           job == Job(t, R, A[t], send)
<1>1. /\ rows[t] \in Row /\ rows \in [Tasks -> Row] /\ R \in [Tasks -> Row]
      /\ R[t] = new /\ \A u \in Tasks \ {t} : R[u] = rows[u]
  BY DEF TypeOK
<1>2. R[t] # rows[t] /\ R[t].version \in Nat /\ R[t].attempt \in Nat
  BY <1>1 DEF Advance, Row
<1>3. \A u \in Tasks : RowOK(R[u], approved'[u])
  BY <1>1 DEF RowsOK
<1>4. /\ job \in JobType /\ job.task = t /\ job.version = new.version /\ job.send = send
      /\ job.bind.attempt = new.attempt
  BY <1>1 DEF Job, JobType, Row
<1>5. worker'.pc = worker.pc /\ worker'.job = worker.job /\ (t # Active => worker' = worker)
      /\ (t = Active => worker.pc # "idle" /\ worker' = [worker EXCEPT !.snap = new])
  BY <1>1, ServiceAssumption DEF Snapped, Active, WorkerType, WorkerRecord
<1>6. \/ /\ queue' = Append(queue, job) /\ rows' = R /\ attempts' = A
         /\ UNCHANGED <<pending, faults>>
      \/ queue' = queue /\ FailIfCurrent(R, A, t, R[t], Active)
  BY DEF Enqueue
<1> HIDE DEF R, job
<1>7. Orderly(t, R, Active)
  <2>1. CASE rows' = R /\ attempts' = A /\ UNCHANGED <<pending, faults>>
    <3>1. \A u \in Tasks : Moved(u) /\ RowOK(rows'[u], approved'[u])
      BY <1>1, <1>3, <2>1 DEF Moved
    <3>2. worker'.pc = "idle" \/ (worker.pc # "idle" /\ worker'.job = worker.job)
      BY <1>5
    <3>3. \A u \in Tasks : attempts'[u] \in {None, attempts[u]} \/ rows'[u] # rows[u]
      BY <1>2, <2>1
    <3>4. \A u \in Tasks : Deferred(u)'
      BY <2>1, <3>1, <3>2, <3>3, DeferredStable
    <3> QED BY <1>1, <2>1, <3>1, <3>4 DEF Orderly, TypeOK, PendingType
  <2>2. CASE FailIfCurrent(R, A, t, R[t], Active)
    <3>1. PICK rec : rec = R[t]
      OBVIOUS
    <3>2. /\ rec.attempt \in Nat /\ rec.version \in Nat
          /\ rec.attempt <= R[t].attempt /\ rec.version <= R[t].version
          /\ FailIfCurrent(R, A, t, rec, Active)
      BY <1>2, <2>2, <3>1
    <3>3. Advance(rows[t], R[t]) /\ \A u \in Tasks \ {t} : R[u] = rows[u] /\ A[u] = attempts[u]
      BY <1>1
    <3>4. /\ worker'.pc = "idle" \/ (worker.pc # "idle" /\ worker'.job = worker.job)
          /\ worker'.pc # "idle" /\ worker'.job.task = t => t = Active
      BY <1>5 DEF Active
    <3> QED BY <1>1, <1>2, <1>3, <3>2, <3>3, <3>4, RefusedFacts
  <2> QED BY <1>6, <2>1, <2>2
<1>8. t = Active => rows'[t] = new
  BY <1>1, <1>7 DEF Orderly
<1>9. SameWorker /\ clicks' = clicks
  BY <1>5, <1>8 DEF SameWorker, Active
<1>10. TypeOK'
  <2>1. queue' \in Seq(JobType)
    <3>1. queue \in Seq(JobType)
      BY DEF TypeOK
    <3> QED BY <1>4, <1>6, <3>1
  <2>2. worker'.job \in OrNone(JobType) /\ worker'.rec \in OrNone(Row)
        /\ worker'.snap \in OrNone(Row) /\ worker'.frame \in Shots \cup {NoShot}
    BY <1>5 DEF TypeOK, WorkerType, WorkerRecord, OrNone
  <2> QED BY <1>7, <2>1, <2>2 DEF Orderly, TypeOK, PendingType, OrNone
<1>11. Requeued
  <2>1. CASE queue' = Append(queue, job) /\ rows' = R
    <3>1. Fits(job, rows'[t])
      BY <1>1, <1>4, <2>1 DEF Fits, Advance, Row
    <3>2. ~Fresh(t)'
      BY <1>1, <2>1, ServiceAssumption DEF Fresh, Advance
    <3> QED BY <1>4, <2>1, <3>1, <3>2 DEF Requeued
  <2> QED BY <1>6, <2>1 DEF Requeued
<1>12. LeavesActive
  <2>1. worker.pc # "idle" => worker.job.task \in Tasks /\ Active = worker.job.task
    BY DEF Active, WorkerType, JobType
  <2>2. worker.pc # "idle" => rows'[Active] = R[Active]
    BY <1>7, <2>1 DEF Orderly
  <2>3. new.status # "failed"
    OBVIOUS
  <2> QED BY <1>1, <2>1, <2>2, <2>3 DEF LeavesActive, InputOK, InputPcs
<1>13. LifeOK'
  BY <1>5, ServiceAssumption DEF LifeOK
<1>14. \A u \in Tasks : Fresh(u)' => Fresh(u) /\ attempts'[u] = None /\ pending'[u] = None
  <2> SUFFICES ASSUME NEW u \in Tasks, rows'[u].status = "absent"
               PROVE  Fresh(u) /\ attempts'[u] = None /\ pending'[u] = None
    BY ServiceAssumption DEF Fresh
  <2>1. rows[u].status = "absent" /\ u # t
    BY <1>7 DEF Orderly, Moved, Advance
  <2> QED BY <1>7, <2>1 DEF Orderly, Fresh, FreshOK, Unknown
<1> QED BY <1>7, <1>9, <1>10, <1>11, <1>12, <1>13, <1>14, OutsideKeeps DEF Orderly

LEMMA ConfirmKeeps == ASSUME IInv, NEW t \in Tasks, Confirm(t) PROVE IInv'
<1> USE DEF IInv
<1> DEFINE cur == [rows[t] EXCEPT !.status = "queued_send"]
           new == Saved(cur)
<1>1. /\ rows[t] \in Row /\ rows[t].status = "awaiting_confirmation"
      /\ RowOK(rows[t], approved[t]) /\ seen[t].shot = rows[t].shot
      /\ attempts[t] # None /\ attempts[t].attempt = rows[t].attempt
  BY DEF TypeOK, RowsOK, Confirm, Binding
<1>2. /\ cur \in Row /\ cur.version = rows[t].version /\ cur.status = "queued_send"
      /\ cur.attempt = rows[t].attempt /\ cur.action = rows[t].action
      /\ cur.mayHaveSent = rows[t].mayHaveSent /\ cur.shot = rows[t].shot
  BY <1>1, StatusNames DEF Row
<1>3. [rows EXCEPT ![t] = Saved([@ EXCEPT !.status = "queued_send"])]
        = [rows EXCEPT ![t] = new]
  BY DEF TypeOK
<1>4. /\ Enqueue([rows EXCEPT ![t] = new], attempts, t, TRUE)
      /\ worker' = Snapped([rows EXCEPT ![t] = new], t)
  BY <1>3 DEF Confirm
<1> HIDE DEF cur
<1>5. /\ new \in Row /\ new.version = rows[t].version + 1 /\ new.status = "queued_send"
      /\ new.attempt = rows[t].attempt /\ new.action = rows[t].action
      /\ new.mayHaveSent = rows[t].mayHaveSent /\ new.shot = rows[t].shot
  BY <1>2, SavedFacts
<1> HIDE DEF new
<1>6. approved' = [approved EXCEPT ![t] = rows[t].shot] /\ rows[t].shot \in Shots
  BY <1>1 DEF Confirm, RowOK, Row
<1>7. Advance(rows[t], new)
  BY <1>1, <1>5 DEF Advance, Row
<1>8. RowOK(new, approved'[t])
  BY <1>1, <1>5, <1>6 DEF RowOK, Row, TypeOK
<1>9. /\ attempts \in [Tasks -> OrNone(BindingType)] /\ attempts[t] \in BindingType
      /\ approved' \in [Tasks -> Shots \cup {NoShot}]
      /\ \A u \in Tasks \ {t} : approved'[u] = approved[u]
  BY <1>1, <1>6 DEF TypeOK, OrNone
<1>10. t = Active => new.attempt = rows[t].attempt /\ worker.pc \notin InputPcs
  <2> SUFFICES ASSUME t = Active, worker.pc \in InputPcs
               PROVE  FALSE
    BY <1>5
  <2>1. worker.job.task = t
    BY ServiceAssumption DEF Active
  <2>2. rows[t] = worker.rec \/ rows[t].status = "unknown"
    BY <2>1 DEF InputOK
  <2> QED BY <1>1, <2>2 DEF InputOK
<1>11. submitting = None
       /\ UNCHANGED <<clicks, life, verifier, submitting, epoch, win, screen, seen, crashes>>
  BY DEF Confirm, AccountFree
<1> QED
  BY <1>1, <1>4, <1>5, <1>7, <1>8, <1>9, <1>10, <1>11, EnqueueKeeps

LEMMA RetryKeeps == ASSUME IInv, NEW t \in Tasks, Retry(t) PROVE IInv'
<1> USE DEF IInv
<1> DEFINE new == Retried(rows[t])
           bind == [tok |-> token, attempt |-> new.attempt]
           A == [attempts EXCEPT ![t] = bind]
<1>1. /\ rows[t] \in Row /\ rows[t].status = "failed" /\ ~rows[t].mayHaveSent
      /\ RowOK(rows[t], approved[t])
  BY DEF TypeOK, RowsOK, Retry
<1>2. /\ new \in Row /\ new.version = rows[t].version + 1 /\ new.status = "queued"
      /\ new.attempt = rows[t].attempt + 1 /\ new.action = rows[t].action
      /\ new.mayHaveSent = rows[t].mayHaveSent
  BY <1>1, RetriedFacts
<1>3. [rows EXCEPT ![t] = Retried(@)] = [rows EXCEPT ![t] = new] /\ [rows EXCEPT ![t] = new][t] = new
  BY DEF TypeOK
<1>4. Enqueue([rows EXCEPT ![t] = new], A, t, FALSE)
  BY <1>3 DEF Retry
<1>5. bind \in BindingType /\ bind.attempt = new.attempt
  BY <1>2, TokenType DEF BindingType, Row
<1> HIDE DEF new, bind
<1>6. /\ A \in [Tasks -> OrNone(BindingType)] /\ A[t] = bind
      /\ \A u \in Tasks \ {t} : A[u] = attempts[u]
  BY <1>5 DEF TypeOK, OrNone
<1> HIDE DEF A
<1>7. Advance(rows[t], new)
  BY <1>1, <1>2 DEF Advance, Row
<1>8. RowOK(new, approved'[t])
  BY <1>1, <1>2 DEF RowOK, Row
<1>9. /\ approved' \in [Tasks -> Shots \cup {NoShot}]
      /\ \A u \in Tasks \ {t} : approved'[u] = approved[u]
  BY DEF TypeOK, Retry
<1>10. t # Active
  <2> SUFFICES ASSUME t = Active
               PROVE  FALSE
    OBVIOUS
  <2>1. worker.pc # "idle" /\ worker.job.task = t
    BY ServiceAssumption DEF Active
  <2> QED BY <1>1, <2>1 DEF ActiveOK, Retry, Accepting
<1>11. worker' = Snapped([rows EXCEPT ![t] = new], t)
  BY <1>10 DEF Snapped, Retry
<1>12. submitting = None
       /\ UNCHANGED <<clicks, life, verifier, submitting, epoch, win, screen, seen, crashes>>
  BY DEF Retry, AccountFree
<1> QED
  BY <1>1, <1>2, <1>4, <1>5, <1>6, <1>7, <1>8, <1>9, <1>10, <1>11, <1>12, EnqueueKeeps

LEMMA CancelKeeps == ASSUME IInv, NEW t \in Tasks, Cancel(t) PROVE IInv'
<1> USE DEF IInv
<1> DEFINE cur == [rows[t] EXCEPT !.status = "cancelled"]
           new == Saved(cur)
<1>1. /\ rows \in [Tasks -> Row] /\ rows[t] \in Row /\ RowOK(rows[t], approved[t])
      /\ rows[t].status \in {"queued", "awaiting_confirmation", "queued_send"}
  BY DEF TypeOK, RowsOK, Cancel
<1>2. /\ cur \in Row /\ cur.version = rows[t].version /\ cur.status = "cancelled"
      /\ cur.attempt = rows[t].attempt /\ cur.action = rows[t].action
      /\ cur.mayHaveSent = rows[t].mayHaveSent
  BY <1>1, StatusNames DEF Row
<1>3. rows' = [rows EXCEPT ![t] = new]
  BY <1>1 DEF Cancel
<1> HIDE DEF cur
<1>4. /\ new \in Row /\ new.version = rows[t].version + 1 /\ new.status = "cancelled"
      /\ new.attempt = rows[t].attempt /\ new.action = rows[t].action
      /\ new.mayHaveSent = rows[t].mayHaveSent
  BY <1>2, SavedFacts
<1> HIDE DEF new
<1>5. Advance(rows[t], new) /\ \A shot : RowOK(new, shot)
  <2>1. rows[t].status # "absent" /\ new.version > rows[t].version
        /\ new.attempt >= rows[t].attempt
    BY <1>1, <1>4 DEF Row
  <2> QED BY <1>1, <1>4, <2>1, SettledRowOK DEF Advance
<1>6. rows'[t] = new /\ \A u \in Tasks \ {t} : rows'[u] = rows[u]
  BY <1>1, <1>3
<1>7. \A u \in Tasks : Moved(u) /\ RowOK(rows'[u], approved'[u])
  BY <1>5, <1>6 DEF Moved, RowsOK, Cancel
<1>8. TypeOK'
  BY <1>3, <1>4 DEF TypeOK, Cancel, OrNone
<1>9. \A u \in Tasks : Deferred(u)'
  <2>1. \A u \in Tasks : attempts'[u] \in {None, attempts[u]}
    BY DEF Cancel, TypeOK
  <2> QED BY <1>7, <2>1, DeferredStable DEF Cancel
<1>10. LeavesActive
  <2>1. CASE worker.job.task = t
    BY <1>1, <1>4, <1>6, <2>1 DEF LeavesActive, Cancel, InputOK, InputPcs, ActiveOK
  <2>2. CASE worker.job.task # t
    BY <1>6, <2>2 DEF LeavesActive, Cancel, InputOK, InputPcs, ActiveOK, WorkerType, JobType
  <2> QED BY <2>1, <2>2
<1>11. LifeOK'
  BY <1>1, <1>4, <1>6, ServiceAssumption DEF LifeOK, Cancel, TypeOK, OrNone
<1>12. \A u \in Tasks : Fresh(u)' => Fresh(u) /\ attempts'[u] = None /\ pending'[u] = None
  BY <1>4, <1>6 DEF Fresh, FreshOK, Unknown, Cancel, TypeOK
<1>13. SameWorker /\ Requeued /\ clicks' = clicks
  BY DEF SameWorker, Requeued, Cancel
<1> QED BY <1>7, <1>8, <1>9, <1>10, <1>11, <1>12, <1>13, OutsideKeeps

--------------------------------------------------------------------------------
(* The verifier, stop(), exit and restart *)

LEMMA ScanKeeps == ASSUME IInv, Scan PROVE IInv'
<1> USE DEF IInv
<1>1. /\ rows \in [Tasks -> Row] /\ pending \in [Tasks -> OrNone(PendingType)] /\ faults \in Nat
  BY ServiceAssumption DEF TypeOK, PendingType
<1>2. /\ faults' \in 0..MaxFault /\ rows' \in [Tasks -> Row]
      /\ pending' \in [Tasks -> OrNone(PendingType)]
      /\ \A t \in Tasks : Flushed(t, rows[t], pending[t], Active)
  BY <1>1, FlushFacts DEF Scan, Flush
<1>3. \A t \in Tasks : /\ RowOK(rows'[t], approved'[t])
                       /\ rows'[t] = rows[t] \/ (t # Active /\ Advance(rows[t], rows'[t]))
  BY <1>1, <1>2, FlushedRow DEF Scan, envOfVerifier, RowsOK
<1>4. \A t \in Tasks : Moved(t) /\ RowOK(rows'[t], approved'[t])
  BY <1>3 DEF Moved
<1>5. \A t \in Tasks : Deferred(t)'
  BY <1>2, <1>4, DeferredStable DEF Flushed, Scan
<1>6. TypeOK'
  BY <1>2 DEF Scan, envOfVerifier, TypeOK, PendingType, OrNone
<1>7. LeavesActive
  BY <1>3, ServiceAssumption
     DEF LeavesActive, Active, WorkerType, JobType, Scan, envOfVerifier, InputOK, InputPcs
<1>8. LifeOK'
  BY <1>4 DEF LifeOK, Scan, envOfVerifier, TypeOK, OrNone, Moved, Advance
<1>9. \A t \in Tasks : Fresh(t)' => Fresh(t) /\ attempts'[t] = None /\ pending'[t] = None
  <2> SUFFICES ASSUME NEW t \in Tasks, Fresh(t)'
               PROVE  Fresh(t) /\ attempts'[t] = None /\ pending'[t] = None
    OBVIOUS
  <2>1. Fresh(t)
    BY <1>4 DEF Fresh, Scan, envOfVerifier, Moved, Advance
  <2> QED BY <1>2, <2>1 DEF FreshOK, Unknown, Scan, Flushed
<1>10. SameWorker /\ Requeued /\ clicks' = clicks
  BY DEF SameWorker, Requeued, Scan, envOfVerifier
<1> QED BY <1>4, <1>5, <1>6, <1>7, <1>8, <1>9, <1>10, OutsideKeeps

LEMMA ApplyKeeps ==
  ASSUME IInv, NEW verdict \in [Verifiable -> Messages \cup {"unknown", "wait"}], Apply(verdict)
  PROVE  IInv'
<1> USE DEF IInv
<1> DEFINE seenRow(t) == [rows[t] EXCEPT !.status = "observed", !.evidence = TRUE,
                                         !.matched = verdict[t]]
           doubtRow(t) == [rows[t] EXCEPT !.status = "unknown", !.evidence = TRUE]
<1>1. CASE ~Accepting \/ epoch # verifier
  <2>1. /\ TypeOK'
        /\ UNCHANGED <<rows, clicks, attempts, queue, worker, pending, submitting, approved>>
        /\ life' = life
    BY <1>1 DEF Apply, envOfVerifier, TypeOK, OrNone
  <2> QED BY <2>1, QuietKeeps
<1>2. CASE Accepting /\ epoch = verifier
  <2>1. /\ rows' = [t \in Tasks |->
               CASE t \in Verifiable /\ verdict[t] \in Messages -> Saved(seenRow(t))
                 [] t \in Verifiable /\ verdict[t] = "unknown" /\ rows[t].status = "verifying" ->
                      Saved(doubtRow(t))
                 [] OTHER -> rows[t]]
        /\ worker' = IF Active # None /\ rows'[Active] # rows[Active]
                     THEN [worker EXCEPT !.snap = rows'[Active]] ELSE worker
        /\ verifier' = None
        /\ UNCHANGED <<clicks, life, queue, submitting, epoch, win, screen, seen, approved,
                       crashes, attempts, pending, faults>>
    BY <1>2 DEF Apply, envOfVerifier
  <2>2. \A t \in Tasks : verdict[t] \in Messages =>
          /\ seenRow(t) \in Row /\ seenRow(t).version = rows[t].version
          /\ seenRow(t).status = "observed" /\ seenRow(t).attempt = rows[t].attempt
          /\ seenRow(t).action = rows[t].action /\ seenRow(t).mayHaveSent = rows[t].mayHaveSent
    <3>1. \A t \in Tasks : rows[t] \in Row
      BY DEF TypeOK
    <3>2. \A r \in Row, m \in Messages :
            LET q == [r EXCEPT !.status = "observed", !.evidence = TRUE, !.matched = m]
            IN  /\ q \in Row /\ q.version = r.version /\ q.status = "observed"
                /\ q.attempt = r.attempt /\ q.action = r.action
                /\ q.mayHaveSent = r.mayHaveSent
      <4> TAKE r \in Row, m \in Messages
      <4>1. "observed" \in Statuses /\ m \in Messages \cup {NoMessage}
        BY StatusNames
      <4> DEFINE q == [r EXCEPT !.status = "observed", !.evidence = TRUE, !.matched = m]
      <4>2. q \in Row
        BY <4>1 DEF Row
      <4>3. /\ q.version = r.version /\ q.status = "observed" /\ q.attempt = r.attempt
            /\ q.action = r.action /\ q.mayHaveSent = r.mayHaveSent
        BY DEF Row
      <4> QED BY <4>2, <4>3
    <3> SUFFICES ASSUME NEW t \in Tasks, verdict[t] \in Messages
                 PROVE  /\ seenRow(t) \in Row /\ seenRow(t).version = rows[t].version
                        /\ seenRow(t).status = "observed" /\ seenRow(t).attempt = rows[t].attempt
                        /\ seenRow(t).action = rows[t].action
                        /\ seenRow(t).mayHaveSent = rows[t].mayHaveSent
      OBVIOUS
    <3>3. rows[t] \in Row
      BY <3>1
    <3> QED BY <3>2, <3>3
  <2>3. \A t \in Tasks :
          /\ doubtRow(t) \in Row /\ doubtRow(t).version = rows[t].version
          /\ doubtRow(t).status = "unknown" /\ doubtRow(t).attempt = rows[t].attempt
          /\ doubtRow(t).action = rows[t].action /\ doubtRow(t).mayHaveSent = rows[t].mayHaveSent
    <3>1. \A t \in Tasks : rows[t] \in Row
      BY DEF TypeOK
    <3>2. \A r \in Row :
            LET q == [r EXCEPT !.status = "unknown", !.evidence = TRUE]
            IN  /\ q \in Row /\ q.version = r.version /\ q.status = "unknown"
                /\ q.attempt = r.attempt /\ q.action = r.action
                /\ q.mayHaveSent = r.mayHaveSent
      <4> TAKE r \in Row
      <4> QED BY StatusNames DEF Row
    <3> QED BY <3>1, <3>2
  <2> HIDE DEF seenRow, doubtRow
  <2>4. ASSUME NEW t \in Tasks
        PROVE  \/ rows'[t] = rows[t]
               \/ /\ t \in Verifiable
                  /\ rows'[t] \in Row /\ rows'[t].version = rows[t].version + 1
                  /\ rows'[t].status \in {"observed", "unknown"}
                  /\ rows'[t].attempt = rows[t].attempt /\ rows'[t].action = rows[t].action
                  /\ rows'[t].mayHaveSent = rows[t].mayHaveSent
    <3>1. \/ t \in Verifiable /\ verdict[t] \in Messages /\ rows'[t] = Saved(seenRow(t))
          \/ t \in Verifiable /\ rows'[t] = Saved(doubtRow(t))
          \/ rows'[t] = rows[t]
      BY <2>1
    <3> QED BY <2>2, <2>3, <3>1, SavedFacts
  <2>5. ASSUME NEW t \in Tasks
        PROVE  /\ Moved(t) /\ RowOK(rows'[t], approved'[t]) /\ rows'[t] \in Row
               /\ rows'[t].attempt = rows[t].attempt
               /\ rows'[t] # rows[t] => /\ rows[t].status \in {"verifying", "unknown"}
                                        /\ rows'[t].status \in {"observed", "unknown"}
    <3>1. rows[t] \in Row /\ RowOK(rows[t], approved[t])
      BY DEF TypeOK, RowsOK
    <3>2. CASE rows'[t] = rows[t]
      BY <2>1, <3>1, <3>2 DEF Moved
    <3>3. CASE rows'[t] # rows[t]
      <4>1. rows[t].status \in {"verifying", "unknown"}
        BY <2>4, <3>3 DEF Verifiable
      <4>2. rows'[t].version > rows[t].version /\ rows'[t].attempt >= rows[t].attempt
        BY <2>4, <3>1, <3>3 DEF Row
      <4>3. Advance(rows[t], rows'[t])
        BY <2>4, <3>3, <4>2 DEF Advance
      <4>4. RowOK(rows'[t], approved'[t])
        BY <2>4, <3>1, <3>3, <4>1, <4>2, SettledRowOK
      <4> QED BY <2>4, <3>3, <4>1, <4>3, <4>4 DEF Moved
    <3> QED BY <3>2, <3>3
  <2>6. SameWorker
    BY <2>1, ServiceAssumption DEF SameWorker, Active
  <2>7. TypeOK'
    <3>1. rows' \in [Tasks -> Row]
      BY <2>1, <2>5
    <3>2. worker'.job \in OrNone(JobType) /\ worker'.rec \in OrNone(Row)
          /\ worker'.snap \in OrNone(Row) /\ worker'.frame \in Shots \cup {NoShot}
      BY <2>6, <3>1 DEF SameWorker, WorkerType, WorkerRecord, JobType, OrNone
    <3> QED BY <2>1, <3>1, <3>2 DEF TypeOK, OrNone
  <2>8. \A t \in Tasks : Deferred(t)'
    <3>1. worker'.pc = "idle" \/ (worker.pc # "idle" /\ worker'.job = worker.job)
      BY <2>6 DEF SameWorker, WorkerType, WorkerRecord
    <3> QED BY <2>1, <2>5, <3>1, DeferredStable
  <2>9. LeavesActive
    <3> SUFFICES ASSUME worker.pc # "idle"
                 PROVE  LeavesActive
      BY DEF LeavesActive
    <3>1. worker.job.task \in Tasks
      BY DEF WorkerType, JobType
    <3>2. life' = "up" /\ life = "up"
      BY <1>2, <2>1 DEF Accepting
    <3>3. worker.pc \in InputPcs => rows'[worker.job.task] = rows[worker.job.task]
      BY <2>5, <3>1, <3>2 DEF InputOK
    <3> QED BY <2>5, <3>1, <3>2, <3>3 DEF LeavesActive
  <2>10. LifeOK'
    <3>1. life' # "down" /\ submitting' = submitting
      BY <1>2, <2>1 DEF Accepting
    <3>2. submitting # None => submitting \in Tasks /\ rows[submitting].status # "absent"
      BY DEF LifeOK, TypeOK, OrNone
    <3>3. submitting # None => rows'[submitting].status # "absent"
      BY <2>5, <3>2
    <3> QED BY <3>1, <3>3 DEF LifeOK
  <2>11. ASSUME NEW t \in Tasks, Fresh(t)'
         PROVE  Fresh(t) /\ attempts'[t] = None /\ pending'[t] = None
    <3>1. rows'[t].status = "absent" => rows'[t] = rows[t]
      BY <2>5
    <3>2. Fresh(t) /\ UNCHANGED <<attempts, pending>>
      BY <2>1, <2>11, <3>1 DEF Fresh
    <3> QED BY <3>2 DEF FreshOK, Unknown
  <2>12. Requeued /\ clicks' = clicks
    BY <2>1 DEF Requeued
  <2> QED BY <2>5, <2>6, <2>7, <2>8, <2>9, <2>10, <2>11, <2>12, OutsideKeeps
<1> QED BY <1>1, <1>2

LEMMA StopDrainKeeps == ASSUME IInv, StopDrain PROVE IInv'
<1> USE DEF IInv
<1>1. PICK unread \in SUBSET {t \in Tasks : attempts[t] # None /\ t # Active} :
        LET waiting == {t \in Tasks \ unread : /\ attempts[t] # None /\ t # Active
                                               /\ rows[t].status \in NON_EXECUTING} IN
          /\ attempts' = [t \in Tasks |-> IF t \in waiting
                                          THEN Unbound(attempts, t, rows[t].attempt)[t]
                                          ELSE attempts[t]]
          /\ FlushAfter(faults + Cardinality(unread), rows,
                        [t \in Tasks |-> IF t \in waiting THEN Recorded(pending, t, rows[t])[t]
                                         ELSE pending[t]], Active)
  BY DEF StopDrain
<1> DEFINE waiting == {t \in Tasks \ unread : /\ attempts[t] # None /\ t # Active
                                              /\ rows[t].status \in NON_EXECUTING}
           P == [t \in Tasks |-> IF t \in waiting THEN Recorded(pending, t, rows[t])[t]
                                 ELSE pending[t]]
<1>2. /\ rows \in [Tasks -> Row] /\ pending \in [Tasks -> OrNone(PendingType)]
      /\ attempts \in [Tasks -> OrNone(BindingType)]
  BY DEF TypeOK, PendingType
<1>3. faults + Cardinality(unread) \in Nat
  <2>1. unread \subseteq Tasks /\ faults \in Nat
    BY ServiceAssumption DEF TypeOK
  <2> QED BY <2>1, FS_Subset, FS_CardinalityType, ServiceAssumption
<1>4. /\ attempts' = [t \in Tasks |-> IF t \in waiting
                                      THEN Unbound(attempts, t, rows[t].attempt)[t]
                                      ELSE attempts[t]]
      /\ FlushAfter(faults + Cardinality(unread), rows, P, Active)
  BY <1>1
<1>5. /\ clicks' = clicks /\ queue' = queue /\ worker' = worker /\ life' = "draining"
      /\ life = "flagged" /\ LockFree
      /\ UNCHANGED <<verifier, submitting, epoch, win, screen, seen, approved, crashes>>
  BY DEF StopDrain
<1>6. \A t \in waiting : t \in Tasks /\ t # Active
  OBVIOUS
<1> HIDE DEF waiting
<1>7. ASSUME NEW t \in Tasks
      PROVE  /\ P[t] \in OrNone(PendingType) /\ attempts'[t] \in OrNone(BindingType)
             /\ attempts'[t] \in {None, attempts[t]}
             /\ P[t] = pending[t]
                \/ /\ t # Active
                   /\ P[t] = [attempt |-> rows[t].attempt, version |-> rows[t].version]
                   /\ attempts'[t] = None \/ attempts'[t].attempt # rows[t].attempt
             /\ pending[t] = None /\ attempts[t] = None => P[t] = None
  <2>0. rows[t].attempt \in Nat /\ rows[t].version \in Nat
    BY <1>2 DEF Row
  <2>1. CASE t \in waiting
    <3>1. /\ Recorded(pending, t, rows[t]) \in [Tasks -> OrNone(PendingType)]
          /\ Recorded(pending, t, rows[t])[t]
               \in {pending[t], [attempt |-> rows[t].attempt, version |-> rows[t].version]}
      BY <1>2, <2>0, RecordedFacts
    <3>2. /\ Unbound(attempts, t, rows[t].attempt) \in [Tasks -> OrNone(BindingType)]
          /\ Unbound(attempts, t, rows[t].attempt)[t] \in {None, attempts[t]}
          /\ \/ Unbound(attempts, t, rows[t].attempt)[t] = None
             \/ Unbound(attempts, t, rows[t].attempt)[t].attempt # rows[t].attempt
      BY <1>2, UnboundFacts
    <3>3. attempts[t] # None
      BY <2>1 DEF waiting
    <3> QED BY <1>4, <1>6, <2>1, <3>1, <3>2, <3>3
  <2>2. CASE t \notin waiting
    BY <1>2, <1>4, <2>2
  <2> QED BY <2>1, <2>2
<1>8. P \in [Tasks -> OrNone(PendingType)]
  BY <1>7
<1> HIDE DEF P
<1>9. /\ faults' \in 0..MaxFault /\ rows' \in [Tasks -> Row]
      /\ pending' \in [Tasks -> OrNone(PendingType)]
      /\ \A t \in Tasks : Flushed(t, rows[t], P[t], Active)
  BY <1>2, <1>3, <1>4, <1>8, FlushFacts
<1>10. \A t \in Tasks : /\ RowOK(rows'[t], approved'[t])
                        /\ rows'[t] = rows[t] \/ (t # Active /\ Advance(rows[t], rows'[t]))
  BY <1>2, <1>5, <1>9, FlushedRow DEF RowsOK
<1>11. \A t \in Tasks : Moved(t) /\ RowOK(rows'[t], approved'[t])
  BY <1>10 DEF Moved
<1>12. ASSUME NEW t \in Tasks PROVE Deferred(t)'
  <2>1. Flushed(t, rows[t], P[t], Active) /\ rows[t] \in Row
    BY <1>2, <1>9
  <2>2. CASE P[t] = pending[t]
    <3>1. pending[t] # None =>
            /\ pending[t].attempt <= rows[t].attempt /\ pending[t].version <= rows[t].version
            /\ Applies(rows[t], pending[t]) => Freed(t, pending[t].attempt)
      BY <1>5, <1>7, <2>1, PendingOf
    <3> QED BY <2>1, <2>2, <3>1, FlushedDeferred
  <2>3. CASE /\ t # Active
             /\ P[t] = [attempt |-> rows[t].attempt, version |-> rows[t].version]
             /\ attempts'[t] = None \/ attempts'[t].attempt # rows[t].attempt
    <3>1. Freed(t, rows[t].attempt)
      BY <1>5, <2>3 DEF Freed, Active
    <3>2. /\ P[t].attempt <= rows[t].attempt /\ P[t].version <= rows[t].version
          /\ Freed(t, P[t].attempt)
      BY <2>1, <2>3, <3>1 DEF Row
    <3> QED BY <2>1, <3>2, FlushedDeferred
  <2> QED BY <1>7, <2>2, <2>3
<1>13. TypeOK'
  <2>1. attempts' \in [Tasks -> OrNone(BindingType)]
    BY <1>4, <1>7
  <2> QED BY <1>5, <1>9, <2>1 DEF TypeOK, PendingType
<1>14. LeavesActive
  <2>1. worker.pc # "idle" => /\ worker.job.task \in Tasks
                              /\ rows'[worker.job.task] = rows[worker.job.task]
    BY <1>10 DEF Active, WorkerType, JobType
  <2> QED BY <1>5, <2>1 DEF LeavesActive, LockFree
<1>15. LifeOK'
  BY <1>5, <1>11, ServiceAssumption DEF LifeOK, TypeOK, OrNone, Moved, Advance
<1>16. \A t \in Tasks : Fresh(t)' => Fresh(t) /\ attempts'[t] = None /\ pending'[t] = None
  <2> SUFFICES ASSUME NEW t \in Tasks, Fresh(t)'
               PROVE  Fresh(t) /\ attempts'[t] = None /\ pending'[t] = None
    OBVIOUS
  <2>1. Fresh(t)
    BY <1>5, <1>11 DEF Fresh, Moved, Advance
  <2>2. attempts[t] = None /\ pending[t] = None
    BY <2>1 DEF FreshOK, Unknown
  <2> QED BY <1>7, <1>9, <2>1, <2>2 DEF Flushed
<1>17. SameWorker /\ Requeued
  BY <1>5 DEF SameWorker, Requeued
<1> QED BY <1>5, <1>11, <1>12, <1>13, <1>14, <1>15, <1>16, <1>17, OutsideKeeps

LEMMA StopFinishKeeps == ASSUME IInv, StopFinish PROVE IInv'
<1> USE DEF IInv
<1> DEFINE snap == worker.snap
           late == /\ Active # None /\ snap.status \in ACTIVE_COMPENSATABLE
                   /\ rows[Active].version = snap.version
           S == [rows EXCEPT ![Active] = Settled(snap, FALSE)]
<1>1. /\ rows \in [Tasks -> Row] /\ pending \in [Tasks -> OrNone(PendingType)]
      /\ attempts \in [Tasks -> OrNone(BindingType)] /\ faults \in Nat
  BY ServiceAssumption DEF TypeOK, PendingType
<1>2. /\ attempts' = [t \in Tasks |-> None] /\ life' = "stopped" /\ LockFree /\ life = "draining"
      /\ clicks' = clicks /\ queue' = queue
      /\ UNCHANGED <<verifier, submitting, epoch, win, screen, seen, approved, crashes>>
  BY DEF StopFinish
<1>3. \/ late /\ worker' = [worker EXCEPT !.snap = S[Active]]
              /\ FlushAfter(faults, S, pending, Active)
      \/ worker' = worker /\ \E failed \in {faults, faults + 1} :
                               FlushAfter(failed, rows, pending, Active)
  BY DEF StopFinish, Flush
<1>4. ASSUME late
      PROVE  /\ worker.pc # "idle" /\ Active = worker.job.task /\ Active \in Tasks
             /\ rows[Active] = snap /\ snap \in Row
             /\ Settled(snap, FALSE) \in Row /\ Advance(snap, Settled(snap, FALSE))
             /\ \A shot : RowOK(Settled(snap, FALSE), shot)
             /\ Settled(snap, FALSE).attempt = snap.attempt
             /\ worker.pc \in InputPcs => Settled(snap, FALSE).status = "unknown"
  <2>1. worker.pc # "idle" /\ Active = worker.job.task /\ Active \in Tasks /\ snap \in Row
    BY <1>4 DEF Active, WorkerType, JobType
  <2>2. rows[Active] = snap
    BY <1>4, <2>1 DEF ActiveOK, Copy
  <2>3. RowOK(snap, approved[Active])
    BY <2>1, <2>2 DEF RowsOK
  <2> DEFINE q == Settled(snap, FALSE)
  <2>4. /\ q \in Row /\ q.version = snap.version + 1
        /\ q.status = (IF snap.status \in GUI_RISK THEN "unknown" ELSE "failed")
        /\ q.attempt = snap.attempt /\ q.action = snap.action
        /\ q.mayHaveSent = snap.mayHaveSent
    BY <2>1, SettledFacts
  <2> HIDE DEF q, snap
  <2>5. snap.status # "absent" /\ q.version > snap.version /\ q.attempt >= snap.attempt
    BY <1>4, <2>1, <2>4 DEF Row, ACTIVE_COMPENSATABLE, NON_EXECUTING, GUI_RISK
  <2>6. Advance(snap, q) /\ \A shot : RowOK(q, shot)
    BY <2>1, <2>3, <2>4, <2>5, SettledRowOK DEF Advance
  <2>7. worker.pc \in InputPcs => snap.status = "running"
    BY <1>2, <2>1, <2>2 DEF InputOK
  <2> QED BY <2>1, <2>2, <2>4, <2>6, <2>7 DEF q, GUI_RISK
<1>5. PICK R \in [Tasks -> Row], failed \in Nat :
        /\ FlushAfter(failed, R, pending, Active)
        /\ \A t \in Tasks : t # Active => R[t] = rows[t]
        /\ \/ late /\ R[Active] = Settled(snap, FALSE)
                   /\ worker' = [worker EXCEPT !.snap = Settled(snap, FALSE)]
           \/ R = rows /\ worker' = worker
  <2>1. CASE late /\ worker' = [worker EXCEPT !.snap = S[Active]]
                  /\ FlushAfter(faults, S, pending, Active)
    <3>1. S \in [Tasks -> Row] /\ S[Active] = Settled(snap, FALSE)
          /\ \A t \in Tasks : t # Active => S[t] = rows[t]
      BY <1>1, <1>4, <2>1
    <3> HIDE DEF S
    <3> QED BY <1>1, <2>1, <3>1
  <2>2. CASE worker' = worker /\ \E failed \in {faults, faults + 1} :
                                   FlushAfter(failed, rows, pending, Active)
    <3>1. faults \in Nat /\ faults + 1 \in Nat
      BY <1>1
    <3> QED BY <1>1, <2>2, <3>1
  <2> QED BY <1>3, <2>1, <2>2
<1> HIDE DEF S, late, snap
<1>6. ASSUME NEW t \in Tasks
      PROVE  /\ R[t] \in Row /\ RowOK(R[t], approved'[t])
             /\ R[t] = rows[t] \/ Advance(rows[t], R[t])
  BY <1>1, <1>2, <1>4, <1>5 DEF RowsOK
<1>7. /\ faults' \in 0..MaxFault /\ rows' \in [Tasks -> Row]
      /\ pending' \in [Tasks -> OrNone(PendingType)]
      /\ \A t \in Tasks : Flushed(t, R[t], pending[t], Active)
  BY <1>1, <1>5, FlushFacts
<1>8. ASSUME NEW t \in Tasks
      PROVE  Moved(t) /\ RowOK(rows'[t], approved'[t]) /\ (t = Active => rows'[t] = R[t])
  <2>1. /\ RowOK(rows'[t], approved'[t]) /\ rows'[t] \in Row
        /\ rows'[t] = R[t] \/ (t # Active /\ Advance(R[t], rows'[t]))
    BY <1>6, <1>7, FlushedRow
  <2>2. rows'[t] = rows[t] \/ Advance(rows[t], rows'[t])
    BY <1>1, <1>6, <2>1, AdvanceTrans
  <2> QED BY <2>1, <2>2 DEF Moved
<1>9. worker'.pc = worker.pc /\ worker'.job = worker.job
  BY <1>5 DEF WorkerType, WorkerRecord
<1>10. SameWorker
  BY <1>4, <1>5, <1>8 DEF SameWorker, Active
<1>11. \A t \in Tasks : Deferred(t)'
  BY <1>2, <1>7, <1>8, <1>9, DeferredStable DEF Flushed
<1>12. TypeOK'
  <2>1. worker'.job \in OrNone(JobType) /\ worker'.rec \in OrNone(Row)
        /\ worker'.snap \in OrNone(Row) /\ worker'.frame \in Shots \cup {NoShot}
    BY <1>7, <1>10 DEF SameWorker, WorkerType, WorkerRecord, JobType, OrNone
  <2> QED BY <1>2, <1>7, <2>1 DEF TypeOK, PendingType, OrNone
<1>13. LeavesActive
  <2> SUFFICES ASSUME worker.pc # "idle"
               PROVE  LeavesActive
    BY DEF LeavesActive
  <2>1. worker.job.task = Active /\ Active \in Tasks /\ rows'[Active] = R[Active]
    BY <1>8 DEF Active, WorkerType, JobType
  <2>2. R = rows \/ (R[Active].attempt = rows[Active].attempt
                      /\ (worker.pc \in InputPcs => R[Active].status = "unknown"))
    BY <1>4, <1>5
  <2> QED BY <1>2, <2>1, <2>2 DEF LeavesActive, LockFree
<1>14. LifeOK'
  BY <1>2, <1>8, ServiceAssumption DEF LifeOK, TypeOK, OrNone, Moved, Advance
<1>15. \A t \in Tasks : Fresh(t)' => Fresh(t) /\ attempts'[t] = None /\ pending'[t] = None
  <2> SUFFICES ASSUME NEW t \in Tasks, Fresh(t)'
               PROVE  Fresh(t) /\ attempts'[t] = None /\ pending'[t] = None
    OBVIOUS
  <2>1. Fresh(t)
    BY <1>2, <1>8 DEF Fresh, Moved, Advance
  <2> QED BY <1>2, <1>7, <2>1 DEF Flushed, FreshOK, Unknown
<1>16. Requeued
  BY <1>2 DEF Requeued
<1> QED BY <1>2, <1>8, <1>10, <1>11, <1>12, <1>13, <1>14, <1>15, <1>16, OutsideKeeps

LEMMA ExitKeeps == ASSUME IInv, Exit PROVE IInv'
<1> USE DEF IInv
<1>1. /\ rows' = rows /\ clicks' = clicks /\ approved' = approved
      /\ life' = "down" /\ queue' = <<>> /\ worker' = Idle /\ submitting' = None
      /\ \A t \in Tasks : attempts'[t] = None /\ pending'[t] = None
  BY DEF Exit
<1>2. Idle \in WorkerRecord /\ Idle.pc = "idle"
  BY DEF Idle, WorkerRecord, Pcs, OrNone
<1>3. TypeOK'
  <2>1. /\ Idle.job = None /\ Idle.rec = None /\ Idle.snap = None /\ Idle.frame = NoShot
        /\ <<>> \in Seq(JobType)
    BY DEF Idle
  <2> QED BY <2>1, ServiceAssumption DEF Exit, TypeOK, OrNone
<1>4. WorkerType' /\ ActiveOK' /\ RecordOK' /\ InputOK'
  BY <1>1, <1>2 DEF WorkerType, ActiveOK, RecordOK, InputOK, GuardedPcs, InputPcs
<1>5. RowsOK' /\ ClickedOnceAndMarked' /\ PendingOK'
  BY <1>1 DEF RowsOK, ClickedOnceAndMarked, PendingOK, Deferred
<1>6. QueueOK' /\ FreshOK' /\ LifeOK'
  BY <1>1, <1>2 DEF QueueOK, FreshOK, Unknown, LifeOK
<1> QED BY <1>3, <1>4, <1>5, <1>6

LEMMA BootKeeps == ASSUME IInv, Boot PROVE IInv'
<1> USE DEF IInv
<1>1. /\ rows' = [t \in Tasks |-> IF rows[t].status \in PENDING THEN Recovered(rows[t])
                                  ELSE rows[t]]
      /\ UNCHANGED <<clicks, attempts, queue, worker, pending, submitting, approved>>
      /\ worker.pc = "idle"
  BY DEF Boot, LifeOK
<1>2. ASSUME NEW t \in Tasks
      PROVE  Moved(t) /\ RowOK(rows'[t], approved'[t]) /\ rows'[t] \in Row
  <2>1. rows[t] \in Row /\ RowOK(rows[t], approved[t])
    BY DEF TypeOK, RowsOK
  <2>2. CASE rows[t].status \in PENDING
    <3> DEFINE q == Recovered(rows[t])
    <3>1. /\ q \in Row /\ q.version = rows[t].version + 1 /\ q.status \in {"unknown", "failed"}
          /\ q.attempt = rows[t].attempt /\ q.action = rows[t].action
          /\ q.mayHaveSent = rows[t].mayHaveSent
      BY <2>1, RecoveredFacts
    <3> HIDE DEF q
    <3>2. rows[t].status # "absent" /\ q.version > rows[t].version
          /\ q.attempt >= rows[t].attempt
      BY <2>1, <2>2, <3>1, StatusNames DEF Row, Statuses
    <3>3. Advance(rows[t], q) /\ RowOK(q, approved'[t])
      BY <2>1, <3>1, <3>2, SettledRowOK DEF Advance
    <3> QED BY <1>1, <2>2, <3>1, <3>3 DEF q, Moved
  <2>3. CASE rows[t].status \notin PENDING
    BY <1>1, <2>1, <2>3 DEF Moved
  <2> QED BY <2>2, <2>3
<1>3. \A t \in Tasks : Deferred(t)'
  BY <1>1, <1>2, DeferredStable
<1>4. TypeOK'
  <2>1. rows' \in [Tasks -> Row]
    BY <1>1, <1>2
  <2> QED BY <2>1 DEF Boot, TypeOK, OrNone
<1>5. LeavesActive /\ LifeOK'
  BY <1>1 DEF LeavesActive, LifeOK, Boot
<1>6. \A t \in Tasks : Fresh(t)' => Fresh(t) /\ attempts'[t] = None /\ pending'[t] = None
  BY <1>1, <1>2 DEF Fresh, FreshOK, Unknown, Moved, Advance
<1>7. SameWorker /\ Requeued /\ clicks' = clicks
  BY <1>1 DEF SameWorker, Requeued
<1> QED BY <1>2, <1>3, <1>4, <1>5, <1>6, <1>7, OutsideKeeps

--------------------------------------------------------------------------------
(* The worker *)

\* Nothing but the worker, the row, the click and the approval of its task changes.
OwnTaskOnly ==
  LET t == worker.job.task IN
    /\ worker.pc # "idle" /\ worker'.pc # "idle" /\ worker'.job = worker.job
    /\ UNCHANGED <<life, queue, attempts, pending, submitting>>
    /\ \A u \in Tasks \ {t} : /\ rows'[u] = rows[u] /\ approved'[u] = approved[u]
                              /\ clicks'[u] = clicks[u]

LEMMA OwnTaskKeeps ==
  ASSUME IInv, TypeOK', WorkerType', OwnTaskOnly, NEW t \in Tasks, t = worker.job.task,
         Moved(t), RowOK(rows'[t], approved'[t]),
         clicks'[t] <= 1 /\ (clicks'[t] = 1 => rows'[t].mayHaveSent),
         ActiveOK', RecordOK', InputOK'
  PROVE  IInv'
<1> USE DEF IInv
<1>1. \A u \in Tasks \ {t} : /\ rows'[u] = rows[u] /\ approved'[u] = approved[u]
                             /\ clicks'[u] = clicks[u]
  BY DEF OwnTaskOnly
<1>2. \A u \in Tasks : Moved(u)
  BY <1>1 DEF Moved
<1>3. RowsOK' /\ ClickedOnceAndMarked'
  BY <1>1 DEF RowsOK, ClickedOnceAndMarked
<1>4. QueueOK'
  <2>1. queue \in Seq(JobType) /\ queue' = queue /\ rows \in [Tasks -> Row]
    BY DEF TypeOK, OwnTaskOnly
  <2>2. \A i \in 1..Len(queue) : queue[i] \in JobType /\ queue[i].task \in Tasks
    <3>1. \A i \in 1..Len(queue) : queue[i] \in JobType
      BY <2>1
    <3>2. \A job \in JobType : job.task \in Tasks
      BY DEF JobType
    <3> QED BY <3>1, <3>2
  <2> QED BY <1>2, <2>1, <2>2, FitsStable DEF QueueOK, Moved
<1>5. FreshOK'
  <2> SUFFICES ASSUME NEW u \in Tasks, Fresh(u)'
               PROVE  Unknown(u)'
    BY DEF FreshOK
  <2>1. Fresh(u)
    BY <1>2 DEF Fresh, Moved, Advance, OwnTaskOnly
  <2> QED BY <2>1 DEF FreshOK, Unknown, OwnTaskOnly
<1>6. PendingOK'
  <2>1. \A u \in Tasks : Deferred(u)'
    BY <1>2, DeferredStable DEF OwnTaskOnly
  <2> QED BY <2>1 DEF PendingOK
<1>7. LifeOK'
  BY <1>2 DEF LifeOK, OwnTaskOnly, TypeOK, OrNone, Moved, Advance
<1> QED BY <1>3, <1>4, <1>5, <1>6, <1>7

\* A step that writes no row: on to the next native call, or to the finally section.
LEMMA PassKeeps ==
  ASSUME IInv, TypeOK', OwnTaskOnly, worker' \in WorkerRecord,
         UNCHANGED <<rows, approved>>,
         worker'.rec = worker.rec, worker'.snap = worker.snap,
         worker'.pc \in GuardedPcs => worker.pc \in GuardedPcs,
         worker'.pc \in {"guard"} \cup GuardedPcs =>
           \/ worker'.base \in Baselines
           \/ worker'.base = worker.base /\ worker.pc \in {"guard"} \cup GuardedPcs,
         worker'.pc \in {"navigate", "capture", "decide"} =>
           worker.pc \in {"navigate", "capture", "decide"},
         worker'.pc = "decide" => worker'.frame # NoShot,
         worker'.pc \in InputPcs =>
           /\ worker.pc \in InputPcs /\ worker'.frame = worker.frame /\ worker'.base = worker.base
           /\ worker'.pc \in {"input", "barrier"} <=> worker.pc \in {"input", "barrier"},
         worker'.pc \in {"armed", "posting"} => worker.pc \in {"armed", "posting"} /\ clicks' = clicks,
         \/ clicks' = clicks
         \/ /\ worker.pc = "posting" /\ clicks' = [clicks EXCEPT ![worker.job.task] = @ + 1]
  PROVE  IInv'
<1> USE DEF IInv
<1>1. PICK t \in Tasks : t = worker.job.task
  BY DEF OwnTaskOnly, WorkerType, JobType
<1>2. /\ worker.pc # "idle" /\ worker'.pc # "idle" /\ worker'.job = worker.job
      /\ life' = life /\ rows' = rows /\ worker.job \in JobType /\ worker.snap \in Row
      /\ worker.pc \in GuardedPcs => worker.rec \in Row
  BY DEF OwnTaskOnly, WorkerType
<1>3. WorkerType'
  BY <1>2 DEF WorkerType
<1>4. Moved(t) /\ RowOK(rows'[t], approved'[t])
  BY DEF Moved, RowsOK
<1>5. clicks'[t] <= 1 /\ (clicks'[t] = 1 => rows'[t].mayHaveSent)
  <2>1. CASE clicks' = clicks
    BY <1>2, <2>1 DEF ClickedOnceAndMarked
  <2>2. CASE worker.pc = "posting" /\ clicks' = [clicks EXCEPT ![t] = @ + 1]
    <3>1. /\ clicks[t] = 0 /\ rows[t] = worker.rec /\ worker.rec.mayHaveSent
      BY <1>1, <2>2 DEF InputOK, InputPcs
    <3>2. clicks'[t] = 1
      BY <2>2, <3>1 DEF TypeOK
    <3> QED BY <1>2, <3>1, <3>2
  <2> QED BY <1>1, <2>1, <2>2
<1>6. ActiveOK'
  BY <1>2 DEF ActiveOK
<1>7. RecordOK'
  BY <1>2 DEF RecordOK
<1>8. InputOK'
  <2> SUFFICES ASSUME worker'.pc \in InputPcs
               PROVE  InputOK'
    BY DEF InputOK
  <2> QED BY <1>2 DEF InputOK
<1> QED BY <1>1, <1>3, <1>4, <1>5, <1>6, <1>7, <1>8, OwnTaskKeeps

\* A step that writes the row of its task as q.
LEMMA WriteKeeps ==
  ASSUME IInv, TypeOK', OwnTaskOnly, worker' \in WorkerRecord, clicks' = clicks,
         NEW t \in Tasks, t = worker.job.task, NEW q, rows'[t] = q,
         Advance(rows[t], q), rows[t].status # "absent", q.attempt = rows[t].attempt,
         q.status # "failed", RowOK(q, approved'[t]),
         worker'.rec = q, worker'.snap = q, worker'.frame = worker.frame, worker'.base = worker.base,
         worker.pc \in {"guard"} \cup GuardedPcs,
         worker'.pc \in {"navigate", "input", "armed", "finish"},
         worker'.pc = "navigate" => ~worker.job.send /\ q.status = "navigating",
         worker'.pc \in {"input", "armed"} =>
           /\ worker.job.send /\ q.status = "running"
           /\ worker.frame = q.shot /\ q.baseline = worker.base
           /\ q.mayHaveSent <=> worker'.pc = "armed",
         worker'.pc = "armed" => q.action = "send" /\ life = "up" /\ clicks[t] = 0
  PROVE  IInv'
<1> USE DEF IInv
<1>1. /\ worker.pc # "idle" /\ worker'.pc # "idle" /\ worker'.job = worker.job
      /\ life' = life /\ worker.job \in JobType /\ q \in Row
      /\ q.action = rows[t].action /\ rows'[worker'.job.task] = q
  BY DEF OwnTaskOnly, WorkerType, Advance
<1>2. WorkerType'
  BY <1>1 DEF WorkerType
<1>3. Moved(t) /\ RowOK(rows'[t], approved'[t])
  BY DEF Moved
<1>4. clicks'[t] <= 1 /\ (clicks'[t] = 1 => rows'[t].mayHaveSent)
  BY DEF ClickedOnceAndMarked, Advance
<1>5. ActiveOK'
  <2>1. Fits(worker.job, rows[t]) /\ rows[t] \in Row /\ rows[t].attempt = worker.job.bind.attempt
    BY <1>1 DEF ActiveOK, TypeOK
  <2>2. Fits(worker.job, q)
    BY <1>1, <2>1, FitsStable
  <2>3. worker.job.send /\ rows[t].action = "send" => worker.base \in Baselines
    BY <1>1 DEF ActiveOK
  <2>4. Copy(q, q) /\ q.attempt = worker.job.bind.attempt
    <3>1. q.version \in Nat
      BY <1>1 DEF Row
    <3> QED BY <2>1, <3>1 DEF Copy
  <2>5. worker'.snap = q /\ worker'.job = worker.job /\ worker'.base = worker.base
    BY <1>1
  <2> QED BY <1>1, <2>2, <2>3, <2>4, <2>5 DEF ActiveOK
<1>6. RecordOK'
  <2>1. q.attempt = worker.job.bind.attempt
    BY <1>1 DEF ActiveOK
  <2>2. Copy(q, q)
    BY <1>1 DEF Copy, Row
  <2> QED BY <1>1, <2>1, <2>2 DEF RecordOK
<1>7. InputOK'
  BY <1>1 DEF InputOK, InputPcs
<1> QED BY <1>2, <1>3, <1>4, <1>5, <1>6, <1>7, OwnTaskKeeps

LEMMA TypeOfWorkerStep ==
  ASSUME IInv, worker' \in WorkerRecord, faults' \in 0..MaxFault, screen' \in Shots,
         rows' \in [Tasks -> Row], clicks' \in [Tasks -> Nat],
         approved' \in [Tasks -> Shots \cup {NoShot}],
         attempts' \in [Tasks -> OrNone(BindingType)],
         pending' \in [Tasks -> OrNone(PendingType)], queue' \in Seq(JobType),
         UNCHANGED envOfWorker
  PROVE  TypeOK'
<1>1. /\ worker'.job \in OrNone(JobType) /\ worker'.rec \in OrNone(Row)
      /\ worker'.snap \in OrNone(Row) /\ worker'.frame \in Shots \cup {NoShot}
  BY DEF WorkerRecord
<1> QED BY <1>1 DEF envOfWorker, IInv, TypeOK, PendingType

\* The steps that write no row, do not click and leave the approval alone.
LEMMA PassesKeep ==
  ASSUME IInv, worker.pc # "idle", worker' \in WorkerRecord, worker'.pc # "idle",
         faults' \in 0..MaxFault, screen' \in Shots,
         worker'.job = worker.job, worker'.rec = worker.rec, worker'.snap = worker.snap,
         UNCHANGED <<rows, clicks, attempts, queue, pending, approved>>, UNCHANGED envOfWorker,
         worker'.pc \in GuardedPcs => worker.pc \in GuardedPcs,
         worker'.pc \in {"guard"} \cup GuardedPcs =>
           \/ worker'.base \in Baselines
           \/ worker'.base = worker.base /\ worker.pc \in {"guard"} \cup GuardedPcs,
         worker'.pc \in {"navigate", "capture", "decide"} =>
           worker.pc \in {"navigate", "capture", "decide"},
         worker'.pc = "decide" => worker'.frame # NoShot,
         worker'.pc \in InputPcs =>
           /\ worker.pc \in InputPcs /\ worker'.frame = worker.frame /\ worker'.base = worker.base
           /\ worker'.pc \in {"input", "barrier"} <=> worker.pc \in {"input", "barrier"},
         worker'.pc \in {"armed", "posting"} => worker.pc \in {"armed", "posting"}
  PROVE  IInv'
<1>1. TypeOK'
  BY TypeOfWorkerStep DEF IInv, TypeOK, PendingType
<1>2. OwnTaskOnly
  BY DEF OwnTaskOnly, envOfWorker
<1> QED BY <1>1, <1>2, PassKeeps

LEMMA FailsKeeps ==
  ASSUME IInv, worker.pc # "idle", Fails(worker), faults' \in 0..MaxFault, screen' = screen,
         UNCHANGED <<rows, clicks, attempts, queue, pending, approved>>, UNCHANGED envOfWorker
  PROVE  IInv'
<1>1. worker' \in WorkerRecord /\ worker'.pc = "finish" /\ worker'.job = worker.job
      /\ worker'.rec = worker.rec /\ worker'.snap = worker.snap
  BY DEF IInv, WorkerType, WorkerRecord, Pcs, Fails
<1>2. screen' \in Shots
  BY DEF IInv, TypeOK
<1>3. "finish" \notin {"idle", "guard"} \cup GuardedPcs \cup InputPcs
  BY DEF GuardedPcs, InputPcs
<1> QED BY <1>1, <1>2, <1>3, PassesKeep DEF GuardedPcs, InputPcs

LEMMA CallsOutKeep ==
  ASSUME IInv, ReadBaseline \/ Navigate \/ Capture \/ Input \/ Arm \/ WaitSend
  PROVE  IInv'
<1> USE DEF IInv
<1>1. /\ worker.pc # "idle" /\ faults' \in 0..MaxFault /\ screen \in Shots
      /\ UNCHANGED <<rows, clicks, attempts, queue, pending, approved>> /\ UNCHANGED envOfWorker
  BY DEF ReadBaseline, Navigate, Capture, Input, Arm, WaitSend, TypeOK
<1>2. CASE Fails(worker) /\ screen' = screen
  BY <1>1, <1>2, FailsKeeps
<1>3. ASSUME NEW b \in Baselines, worker.pc = "baseline", screen' = screen,
             worker' = [worker EXCEPT !.base = b, !.pc = "guard"]
      PROVE  IInv'
  <2>1. /\ worker' \in WorkerRecord /\ worker'.pc = "guard" /\ worker'.job = worker.job
        /\ worker'.rec = worker.rec /\ worker'.snap = worker.snap /\ worker'.base = b
    BY <1>3 DEF WorkerType, WorkerRecord, Pcs
  <2> QED BY <1>1, <1>3, <2>1, PassesKeep DEF GuardedPcs, InputPcs
<1>4. CASE /\ worker.pc = "capture" /\ screen' = screen
           /\ worker' = [worker EXCEPT !.frame = screen, !.pc = "decide"]
  <2>1. /\ worker' \in WorkerRecord /\ worker'.pc = "decide" /\ worker'.job = worker.job
        /\ worker'.rec = worker.rec /\ worker'.snap = worker.snap
        /\ worker'.base = worker.base /\ worker'.frame = screen
    BY <1>1, <1>4 DEF WorkerType, WorkerRecord, Pcs, GuardedPcs
  <2>2. worker'.frame # NoShot
    BY <1>1, <2>1, RulesAssumption
  <2> QED BY <1>1, <1>4, <2>1, <2>2, PassesKeep DEF GuardedPcs, InputPcs
<1>5. ASSUME NEW pc, worker' = [worker EXCEPT !.pc = pc], screen' \in Shots,
             <<worker.pc, pc>> \in {<<"navigate", "capture">>, <<"input", "barrier">>,
                                    <<"armed", "posting">>, <<"wait", "settle">>}
      PROVE  IInv'
  <2>1. /\ worker' \in WorkerRecord /\ worker'.pc = pc /\ worker'.job = worker.job
        /\ worker'.rec = worker.rec /\ worker'.snap = worker.snap
        /\ worker'.base = worker.base /\ worker'.frame = worker.frame
    BY <1>5 DEF WorkerType, WorkerRecord, Pcs, GuardedPcs
  <2> QED BY <1>1, <1>5, <2>1, PassesKeep DEF GuardedPcs, InputPcs
<1>6. CASE Navigate
  BY <1>2, <1>5, <1>6 DEF Navigate
<1>7. CASE Input \/ Arm \/ WaitSend
  <2>1. screen' = screen /\ screen' \in Shots
    BY <1>1, <1>7 DEF Input, Arm, WaitSend
  <2> QED BY <1>2, <1>5, <1>7, <2>1 DEF Input, Arm, WaitSend
<1>8. CASE ReadBaseline \/ Capture
  BY <1>2, <1>3, <1>4, <1>8 DEF ReadBaseline, Capture
<1> QED BY <1>6, <1>7, <1>8

LEMMA ClickKeeps == ASSUME IInv, Click PROVE IInv'
<1> USE DEF IInv
<1>1. /\ worker.pc = "posting" /\ faults' \in 0..MaxFault /\ screen' = screen /\ screen \in Shots
      /\ UNCHANGED <<rows, attempts, queue, pending, approved>> /\ UNCHANGED envOfWorker
  BY DEF Click, TypeOK
<1>2. CASE clicks' = clicks /\ Fails(worker)
  BY <1>1, <1>2, FailsKeeps
<1>3. CASE clicks' = [clicks EXCEPT ![worker.job.task] = @ + 1]
           /\ (worker' = [worker EXCEPT !.pc = "wait"] \/ Fails(worker))
  <2>1. /\ worker' \in WorkerRecord /\ worker'.job = worker.job
        /\ worker'.rec = worker.rec /\ worker'.snap = worker.snap
        /\ worker'.base = worker.base /\ worker'.frame = worker.frame
        /\ worker'.pc \in {"wait", "finish"}
    BY <1>3 DEF WorkerType, WorkerRecord, Pcs, GuardedPcs, Fails
  <2>2. worker.job.task \in Tasks
    BY <1>1 DEF WorkerType, JobType
  <2>3. TypeOK'
    <3>1. clicks' \in [Tasks -> Nat]
      BY <1>3, <2>2 DEF TypeOK
    <3> QED BY <1>1, <2>1, <3>1, TypeOfWorkerStep DEF TypeOK, PendingType
  <2>4. OwnTaskOnly
    BY <1>1, <1>3, <2>1, <2>2 DEF OwnTaskOnly, envOfWorker, TypeOK
  <2> QED BY <1>1, <1>3, <2>1, <2>3, <2>4, PassKeeps DEF GuardedPcs, InputPcs
<1> QED BY <1>2, <1>3 DEF Click

\* A compare-and-set write of the worker: it fails, or its record was the row.
LEMMA MoveRowKeeps ==
  ASSUME IInv, NEW t \in Tasks, t = worker.job.task, worker.pc \in GuardedPcs,
         NEW new \in Row, NEW pc \in {"input", "armed", "finish"}, MoveRow(new, pc),
         UNCHANGED <<clicks, attempts, queue, pending, screen>>, UNCHANGED envOfWorker,
         approved' \in [Tasks -> Shots \cup {NoShot}],
         \A u \in Tasks \ {t} : approved'[u] = approved[u],
         rows' = rows => approved' = approved,
         new.version = worker.rec.version, new.attempt = worker.rec.attempt,
         new.action = worker.rec.action, worker.rec.mayHaveSent => new.mayHaveSent,
         new.status \notin {"absent", "queued", "failed"},
         rows[t] = worker.rec /\ rows' # rows /\ worker.rec.status # "absent" =>
           RowOK(Saved(new), approved'[t]),
         rows[t] = worker.rec /\ pc \in {"input", "armed"} =>
           /\ worker.job.send /\ new.status = "running"
           /\ worker.frame = new.shot /\ new.baseline = worker.base
           /\ new.mayHaveSent <=> pc = "armed",
         rows[t] = worker.rec /\ pc = "armed" =>
           new.action = "send" /\ life = "up" /\ clicks[t] = 0
  PROVE  IInv'
<1> USE DEF IInv
<1> DEFINE q == Saved(new)
<1>1. /\ q \in Row /\ q.version = new.version + 1 /\ q.status = new.status
      /\ q.attempt = new.attempt /\ q.action = new.action
      /\ q.mayHaveSent = new.mayHaveSent /\ q.shot = new.shot /\ q.baseline = new.baseline
  BY SavedFacts
<1>2. /\ worker.pc # "idle" /\ rows \in [Tasks -> Row] /\ worker.rec \in Row
      /\ Copy(worker.rec, rows[t]) /\ worker.rec.attempt = worker.job.bind.attempt
      /\ faults \in 0..MaxFault /\ screen \in Shots
      /\ Fits(worker.job, rows[t])
  BY DEF TypeOK, WorkerType, RecordOK, ActiveOK, GuardedPcs
<1>3. CASE Fails(worker) /\ rows' = rows /\ (faults' = faults \/ (faults < MaxFault /\ faults' = faults + 1))
  <2>1. faults' \in 0..MaxFault
    BY <1>2, <1>3, ServiceAssumption
  <2> QED BY <1>2, <1>3, <2>1, FailsKeeps
<1>4. CASE /\ rows[t].version = worker.rec.version /\ rows' = [rows EXCEPT ![t] = q]
           /\ worker' = [worker EXCEPT !.rec = q, !.snap = q, !.pc = pc] /\ faults' = faults
  <2>1. rows[t] = worker.rec
    BY <1>2, <1>4 DEF Copy
  <2> HIDE DEF q
  <2>2. rows'[t] = q /\ rows' \in [Tasks -> Row] /\ \A u \in Tasks \ {t} : rows'[u] = rows[u]
    BY <1>1, <1>2, <1>4
  <2>3. worker' \in WorkerRecord /\ worker'.pc = pc /\ worker'.job = worker.job
        /\ worker'.rec = q /\ worker'.snap = q /\ worker'.frame = worker.frame
        /\ worker'.base = worker.base
    BY <1>1, <1>4 DEF WorkerType, WorkerRecord, Pcs, GuardedPcs, OrNone
  <2>4. rows[t].status # "absent"
    BY <1>2 DEF Fits
  <2>5. Advance(rows[t], q)
    BY <1>1, <1>2, <2>1, <2>4 DEF Advance, Row
  <2>6. RowOK(q, approved'[t])
    <3>1. rows' # rows
      BY <2>2, <2>5, <1>2 DEF Advance, Row
    <3> QED BY <2>1, <2>4, <3>1 DEF q
  <2>7. TypeOK'
    BY <1>2, <1>4, <2>2, <2>3, TypeOfWorkerStep DEF TypeOK, PendingType
  <2>8. OwnTaskOnly
    BY <1>2, <2>2, <2>3 DEF OwnTaskOnly, envOfWorker
  <2>9. q.attempt = rows[t].attempt /\ q.status # "failed"
        /\ worker.pc \in {"guard"} \cup GuardedPcs
    BY <1>1, <2>1
  <2> QED BY <1>1, <2>1, <2>2, <2>3, <2>4, <2>5, <2>6, <2>7, <2>8, <2>9, WriteKeeps
<1> QED BY <1>3, <1>4 DEF MoveRow

LEMMA DecideKeeps == ASSUME IInv, Decide PROVE IInv'
<1> USE DEF IInv
<1>1. PICK t \in Tasks : t = worker.job.task
  BY DEF Decide, WorkerType, JobType
<1>2. /\ worker.pc = "decide" /\ worker.rec \in Row /\ worker.frame \in Shots \cup {NoShot}
      /\ worker.frame # NoShot /\ worker.base \in Baselines \cup {NoBaseline}
      /\ worker.rec.status = (IF worker.job.send THEN "queued_send" ELSE "navigating")
      /\ UNCHANGED <<clicks, attempts, queue, pending, screen>> /\ UNCHANGED envOfWorker
  BY DEF Decide, WorkerType, WorkerRecord, RecordOK, GuardedPcs
<1>3. RowOK(rows[t], approved[t])
  BY DEF RowsOK
<1>4. CASE Fails(worker) /\ UNCHANGED <<rows, faults, approved>>
  BY <1>2, <1>4, FailsKeeps DEF TypeOK
<1>5. CASE /\ MoveRow([worker.rec EXCEPT !.status = "awaiting_confirmation",
                                         !.shot = worker.frame], "finish")
           /\ approved' = IF rows' = rows THEN approved ELSE [approved EXCEPT ![t] = NoShot]
  <2> DEFINE new == [worker.rec EXCEPT !.status = "awaiting_confirmation", !.shot = worker.frame]
  <2>1. /\ new \in Row /\ new.version = worker.rec.version
        /\ new.status = "awaiting_confirmation" /\ new.shot # NoShot
        /\ new.attempt = worker.rec.attempt /\ new.action = worker.rec.action
        /\ new.mayHaveSent = worker.rec.mayHaveSent
    BY <1>2, StatusNames DEF Row
  <2>2. MoveRow(new, "finish")
    BY <1>5
  <2> HIDE DEF new
  <2>3. rows[t] = worker.rec => RowOK(Saved(new), approved'[t])
    <3>1. /\ Saved(new).version = worker.rec.version + 1
          /\ Saved(new).status = "awaiting_confirmation" /\ Saved(new).shot # NoShot
          /\ Saved(new).attempt = worker.rec.attempt
          /\ Saved(new).mayHaveSent = worker.rec.mayHaveSent
      BY <2>1, SavedFacts
    <3> QED BY <1>2, <1>3, <3>1 DEF RowOK, Row
  <2>4. /\ approved' \in [Tasks -> Shots \cup {NoShot}]
        /\ \A u \in Tasks \ {t} : approved'[u] = approved[u]
        /\ rows' = rows => approved' = approved
    BY <1>5 DEF TypeOK
  <2> QED BY <1>1, <1>2, <2>1, <2>2, <2>3, <2>4, MoveRowKeeps DEF GuardedPcs
<1>6. CASE /\ worker.job.send /\ worker.frame = worker.rec.shot /\ approved' = approved
           /\ MoveRow([worker.rec EXCEPT !.status = "running", !.baseline = worker.base], "input")
  <2> DEFINE new == [worker.rec EXCEPT !.status = "running", !.baseline = worker.base]
  <2>1. /\ new \in Row /\ new.version = worker.rec.version /\ new.status = "running"
        /\ new.attempt = worker.rec.attempt /\ new.action = worker.rec.action
        /\ new.mayHaveSent = worker.rec.mayHaveSent
        /\ new.shot = worker.rec.shot /\ new.baseline = worker.base
    BY <1>2, StatusNames DEF Row
  <2>2. MoveRow(new, "input")
    BY <1>6
  <2> HIDE DEF new
  <2>3. rows[t] = worker.rec => RowOK(Saved(new), approved'[t])
    <3>1. /\ Saved(new).version = worker.rec.version + 1
          /\ Saved(new).status = "running" /\ Saved(new).shot = worker.rec.shot
          /\ Saved(new).attempt = worker.rec.attempt
      BY <2>1, SavedFacts
    <3> QED BY <1>2, <1>3, <1>6, <3>1 DEF RowOK, Row
  <2>4. /\ approved' \in [Tasks -> Shots \cup {NoShot}]
        /\ \A u \in Tasks \ {t} : approved'[u] = approved[u]
    BY <1>6 DEF TypeOK
  <2>5. rows[t] = worker.rec => ~worker.rec.mayHaveSent
    BY <1>2, <1>3, <1>6 DEF RowOK
  <2> QED BY <1>1, <1>2, <1>6, <2>1, <2>2, <2>3, <2>4, <2>5, MoveRowKeeps DEF GuardedPcs
<1> QED BY <1>1, <1>4, <1>5, <1>6 DEF Decide

LEMMA BarrierKeeps == ASSUME IInv, Barrier PROVE IInv'
<1> USE DEF IInv
<1>1. PICK t \in Tasks : t = worker.job.task
  BY DEF Barrier, WorkerType, JobType
<1>2. /\ worker.pc = "barrier" /\ worker.rec \in Row
      /\ worker.job.send /\ worker.rec.status = "running" /\ ~worker.rec.mayHaveSent
      /\ worker.frame = worker.rec.shot /\ worker.rec.baseline = worker.base
      /\ UNCHANGED <<clicks, attempts, queue, pending, screen, approved>> /\ UNCHANGED envOfWorker
  BY DEF Barrier, WorkerType, InputOK, GuardedPcs, InputPcs
<1>3. RowOK(rows[t], approved[t]) /\ clicks[t] \in Nat /\ clicks[t] <= 1
      /\ (clicks[t] = 1 => rows[t].mayHaveSent) /\ approved \in [Tasks -> Shots \cup {NoShot}]
  BY DEF RowsOK, ClickedOnceAndMarked, TypeOK
<1>4. CASE Fails(worker) /\ UNCHANGED <<rows, faults>>
  BY <1>2, <1>4, FailsKeeps DEF TypeOK
<1>5. CASE MoveRow([worker.rec EXCEPT !.status = "filled", !.shot = NoShot], "finish")
  <2> DEFINE new == [worker.rec EXCEPT !.status = "filled", !.shot = NoShot]
  <2>1. /\ new \in Row /\ new.version = worker.rec.version /\ new.status = "filled"
        /\ new.attempt = worker.rec.attempt /\ new.action = worker.rec.action
        /\ new.mayHaveSent = worker.rec.mayHaveSent
    BY <1>2, StatusNames DEF Row
  <2>2. MoveRow(new, "finish")
    BY <1>5
  <2> HIDE DEF new
  <2>3. rows[t] = worker.rec => RowOK(Saved(new), approved'[t])
    <3>1. /\ Saved(new) \in Row /\ Saved(new).version = worker.rec.version + 1
          /\ Saved(new).status = "filled" /\ Saved(new).attempt = worker.rec.attempt
      BY <2>1, SavedFacts
    <3>2. Saved(new).version > worker.rec.version /\ Saved(new).attempt >= worker.rec.attempt
      BY <1>2, <3>1 DEF Row
    <3> QED BY <1>2, <1>3, <3>1, <3>2, SettledRowOK
  <2> QED BY <1>1, <1>2, <1>3, <2>1, <2>2, <2>3, MoveRowKeeps DEF GuardedPcs
<1>6. CASE /\ MoveRow([worker.rec EXCEPT !.mayHaveSent = TRUE], "armed")
           /\ worker.rec.action # "test" /\ Accepting
  <2> DEFINE new == [worker.rec EXCEPT !.mayHaveSent = TRUE]
  <2>1. /\ new \in Row /\ new.version = worker.rec.version /\ new.status = "running"
        /\ new.attempt = worker.rec.attempt /\ new.action = "send"
        /\ worker.rec.action = "send" /\ new.mayHaveSent
        /\ new.shot = worker.rec.shot /\ new.baseline = worker.rec.baseline
    BY <1>2, <1>6 DEF Row
  <2>2. MoveRow(new, "armed")
    BY <1>6
  <2> HIDE DEF new
  <2>3. rows[t] = worker.rec => RowOK(Saved(new), approved'[t]) /\ clicks[t] = 0
    <3>1. /\ Saved(new) \in Row /\ Saved(new).version = worker.rec.version + 1
          /\ Saved(new).status = "running" /\ Saved(new).attempt = worker.rec.attempt
          /\ Saved(new).shot = worker.rec.shot
      BY <2>1, SavedFacts
    <3> QED BY <1>2, <1>3, <3>1 DEF RowOK, Row
  <2>4. life = "up"
    BY <1>6 DEF Accepting
  <2> QED BY <1>1, <1>2, <1>3, <2>1, <2>2, <2>3, <2>4, MoveRowKeeps DEF GuardedPcs
<1> QED BY <1>4, <1>5, <1>6 DEF Barrier

LEMMA SettleKeeps == ASSUME IInv, Settle PROVE IInv'
<1> USE DEF IInv
<1>1. PICK t \in Tasks : t = worker.job.task
  BY DEF Settle, WorkerType, JobType
<1>2. /\ worker.pc = "settle" /\ worker.rec \in Row
      /\ UNCHANGED <<clicks, attempts, queue, pending, screen, approved>> /\ UNCHANGED envOfWorker
  BY DEF Settle, WorkerType, GuardedPcs
<1>3. RowOK(rows[t], approved[t]) /\ approved \in [Tasks -> Shots \cup {NoShot}]
  BY DEF RowsOK, TypeOK
<1> DEFINE new == [worker.rec EXCEPT !.status = "verifying", !.shot = NoShot]
<1>4. /\ new \in Row /\ new.version = worker.rec.version /\ new.status = "verifying"
      /\ new.attempt = worker.rec.attempt /\ new.action = worker.rec.action
      /\ new.mayHaveSent = worker.rec.mayHaveSent
  BY <1>2, StatusNames DEF Row
<1>5. MoveRow(new, "finish")
  BY DEF Settle
<1> HIDE DEF new
<1>6. rows[t] = worker.rec /\ worker.rec.status # "absent" => RowOK(Saved(new), approved'[t])
  <2>1. /\ Saved(new) \in Row /\ Saved(new).version = worker.rec.version + 1
        /\ Saved(new).status = "verifying" /\ Saved(new).attempt = worker.rec.attempt
    BY <1>4, SavedFacts
  <2>2. Saved(new).version > worker.rec.version /\ Saved(new).attempt >= worker.rec.attempt
    BY <1>2, <2>1 DEF Row
  <2> QED BY <1>2, <1>3, <2>1, <2>2, SettledRowOK
<1> QED BY <1>1, <1>2, <1>3, <1>4, <1>5, <1>6, MoveRowKeeps DEF GuardedPcs

LEMMA EnterGuardKeeps == ASSUME IInv, EnterGuard PROVE IInv'
<1> USE DEF IInv
<1>1. PICK t \in Tasks : t = worker.job.task
  BY DEF EnterGuard, WorkerType, JobType
<1>2. /\ worker.pc = "guard" /\ rows[t] \in Row /\ rows \in [Tasks -> Row]
      /\ faults \in 0..MaxFault /\ screen \in Shots
      /\ worker.job \in JobType /\ worker.snap \in Row
      /\ Fits(worker.job, rows[t]) /\ rows[t].attempt = worker.job.bind.attempt
      /\ RowOK(rows[t], approved[t])
      /\ UNCHANGED <<clicks, attempts, queue, pending, screen, approved>> /\ UNCHANGED envOfWorker
  BY <1>1 DEF EnterGuard, TypeOK, WorkerType, ActiveOK, RowsOK
<1>3. CASE Fails(worker) /\ rows' = rows
           /\ (faults' = faults \/ (faults < MaxFault /\ faults' = faults + 1))
  <2>1. faults' \in 0..MaxFault
    BY <1>2, <1>3, ServiceAssumption
  <2> QED BY <1>2, <1>3, <2>1, FailsKeeps
<1> DEFINE cur == [rows[t] EXCEPT !.status = "navigating"]
           q == Saved(cur)
<1>4. CASE /\ rows[t].version = worker.job.version /\ worker.job.send
           /\ worker' = [worker EXCEPT !.rec = rows[t], !.pc = "capture"]
           /\ UNCHANGED <<rows, faults>>
  <2>1. /\ worker' \in WorkerRecord /\ worker'.pc = "capture" /\ worker'.job = worker.job
        /\ worker'.rec = rows[t] /\ worker'.snap = worker.snap /\ worker'.frame = worker.frame
        /\ worker'.base = worker.base
    BY <1>2, <1>4 DEF WorkerType, WorkerRecord, Pcs, GuardedPcs, OrNone
  <2>2. TypeOK'
    BY <1>2, <1>4, <2>1, TypeOfWorkerStep DEF TypeOK, PendingType
  <2>3. OwnTaskOnly
    BY <1>2, <1>4, <2>1 DEF OwnTaskOnly, envOfWorker
  <2>4. WorkerType'
    BY <1>2, <2>1 DEF WorkerType
  <2>5. Moved(t) /\ clicks'[t] <= 1 /\ (clicks'[t] = 1 => rows'[t].mayHaveSent)
    BY <1>2, <1>4 DEF Moved, ClickedOnceAndMarked
  <2>6. ActiveOK'
    BY <1>2, <1>4, <2>1 DEF ActiveOK, envOfWorker
  <2>7. RecordOK'
    <3>1. rows[t].status = "queued_send" /\ rows[t].version \in Nat
      BY <1>2, <1>4 DEF Fits, Row
    <3> QED BY <1>1, <1>2, <1>4, <2>1, <3>1 DEF RecordOK, Copy
  <2>8. InputOK'
    BY <2>1 DEF InputOK, InputPcs
  <2> QED
    BY <1>1, <1>2, <1>4, <2>2, <2>3, <2>4, <2>5, <2>6, <2>7, <2>8, OwnTaskKeeps
<1>5. CASE /\ rows[t].version = worker.job.version /\ ~worker.job.send
           /\ rows' = [rows EXCEPT ![t] = q]
           /\ worker' = [worker EXCEPT !.rec = q, !.snap = q, !.pc = "navigate"]
           /\ UNCHANGED faults
  <2>1. /\ cur \in Row /\ cur.version = rows[t].version /\ cur.status = "navigating"
        /\ cur.attempt = rows[t].attempt /\ cur.action = rows[t].action
        /\ cur.mayHaveSent = rows[t].mayHaveSent
    BY <1>2, StatusNames DEF Row
  <2> HIDE DEF cur
  <2>2. /\ q \in Row /\ q.version = rows[t].version + 1 /\ q.status = "navigating"
        /\ q.attempt = rows[t].attempt /\ q.action = rows[t].action
        /\ q.mayHaveSent = rows[t].mayHaveSent
    BY <2>1, SavedFacts
  <2> HIDE DEF q
  <2>3. rows'[t] = q /\ rows' \in [Tasks -> Row] /\ \A u \in Tasks \ {t} : rows'[u] = rows[u]
    BY <1>2, <1>5, <2>2
  <2>4. /\ worker' \in WorkerRecord /\ worker'.pc = "navigate" /\ worker'.job = worker.job
        /\ worker'.rec = q /\ worker'.snap = q /\ worker'.frame = worker.frame
        /\ worker'.base = worker.base
    BY <1>5, <2>2 DEF WorkerType, WorkerRecord, Pcs, GuardedPcs, OrNone
  <2>5. rows[t].status = "queued"
    BY <1>2, <1>5 DEF Fits
  <2>6. Advance(rows[t], q) /\ RowOK(q, approved'[t])
    BY <1>2, <2>2, <2>5 DEF Advance, RowOK, Row
  <2>7. TypeOK'
    BY <1>2, <1>5, <2>3, <2>4, TypeOfWorkerStep DEF TypeOK, PendingType
  <2>8. OwnTaskOnly
    BY <1>1, <1>2, <2>3, <2>4 DEF OwnTaskOnly, envOfWorker
  <2> QED BY <1>1, <1>2, <1>5, <2>2, <2>3, <2>4, <2>5, <2>6, <2>7, <2>8, WriteKeeps
<1>6. \/ Fails(worker) /\ UNCHANGED <<rows, faults>>
      \/ /\ rows[t].version = worker.job.version /\ worker.job.send
         /\ worker' = [worker EXCEPT !.rec = rows[t], !.pc = "capture"]
         /\ UNCHANGED <<rows, faults>>
      \/ /\ rows[t].version = worker.job.version /\ ~worker.job.send
         /\ rows' = [rows EXCEPT ![t] = q]
         /\ worker' = [worker EXCEPT !.rec = q, !.snap = q, !.pc = "navigate"]
         /\ UNCHANGED faults
      \/ Fails(worker) /\ rows' = rows /\ faults < MaxFault /\ faults' = faults + 1
  <2>1. [worker EXCEPT !.rec = rows[t]] = [worker EXCEPT !.rec = rows[worker.job.task]]
    BY <1>1
  <2>2. \A pc : [[worker EXCEPT !.rec = rows[t]] EXCEPT !.pc = pc]
                  = [worker EXCEPT !.rec = rows[t], !.pc = pc]
    OBVIOUS
  <2> QED BY <1>1, <1>2 DEF EnterGuard, WorkerType, WorkerRecord
<1> QED BY <1>3, <1>4, <1>5, <1>6

\* A job leaves the queue; the worker does not take it up.
LEMMA DroppedKeeps ==
  ASSUME IInv, worker.pc = "idle", worker' = worker, queue # <<>>, queue' = Tail(queue),
         UNCHANGED <<clicks, screen, approved>>, UNCHANGED envOfWorker, NEW t \in Tasks,
         Orderly(t, rows, None), ~Fresh(t),
         attempts'[t] \in {None, attempts[t]}
  PROVE  IInv'
<1> USE DEF IInv
<1>1. queue \in Seq(JobType) /\ queue' \in Seq(JobType)
  BY DEF TypeOK
<1>2. TypeOK'
  BY <1>1, TypeOfWorkerStep DEF Orderly, WorkerType, TypeOK
<1>3. SameWorker /\ Requeued /\ LeavesActive
  BY DEF SameWorker, Requeued, LeavesActive
<1>4. \A u \in Tasks : Moved(u) /\ RowOK(rows'[u], approved'[u]) /\ Deferred(u)'
  BY DEF Orderly
<1>5. LifeOK'
  BY <1>4 DEF LifeOK, envOfWorker, TypeOK, OrNone, Moved, Advance
<1>6. \A u \in Tasks : Fresh(u)' => Fresh(u) /\ attempts'[u] = None /\ pending'[u] = None
  <2> SUFFICES ASSUME NEW u \in Tasks, Fresh(u)'
               PROVE  Fresh(u) /\ attempts'[u] = None /\ pending'[u] = None
    OBVIOUS
  <2>1. Fresh(u) /\ Unknown(u)
    BY <1>4 DEF Fresh, FreshOK, Moved, Advance, envOfWorker
  <2> QED BY <2>1 DEF Unknown, Orderly
<1> QED BY <1>2, <1>3, <1>4, <1>5, <1>6, OutsideKeeps

LEMMA StartKeeps == ASSUME IInv, Start PROVE IInv'
<1> USE DEF IInv
<1> DEFINE job == Head(queue)
           stale == [attempt |-> job.bind.attempt, version |-> job.version]
<1>1. PICK t \in Tasks : t = job.task
  <2>1. job \in JobType
    <3>1. queue \in Seq(JobType) /\ queue # <<>>
      BY DEF Start, TypeOK
    <3> QED BY <3>1
  <2> HIDE DEF job
  <2> QED BY <2>1 DEF JobType
<1>2. /\ worker.pc = "idle" /\ queue # <<>> /\ queue' = Tail(queue) /\ queue \in Seq(JobType)
      /\ job \in JobType /\ job = queue[1] /\ 1 \in 1..Len(queue)
      /\ UNCHANGED <<clicks, screen, approved>> /\ UNCHANGED envOfWorker
  BY DEF Start, TypeOK
<1>3. /\ rows \in [Tasks -> Row] /\ attempts \in [Tasks -> OrNone(BindingType)]
      /\ pending \in [Tasks -> OrNone(PendingType)] /\ faults \in 0..MaxFault
      /\ Fits(job, rows[t]) /\ ~Fresh(t) /\ screen \in Shots
  <2>1. Fits(job, rows[t])
    BY <1>1, <1>2 DEF QueueOK
  <2>2. ~Fresh(t)
    BY <1>1, <1>2 DEF FreshOK, Unknown
  <2> QED BY <2>1, <2>2 DEF TypeOK, PendingType
<1>4. /\ job.bind \in BindingType /\ job.bind.attempt \in Nat /\ job.version \in Nat
      /\ job.send \in BOOLEAN
  BY <1>2 DEF JobType, BindingType
<1>5. \/ worker' = worker /\ FailIfCurrent(rows, attempts, t, stale, None)
      \/ worker' = worker /\ UNCHANGED <<rows, attempts, pending>>
                          /\ (faults' = faults \/ (faults < MaxFault /\ faults' = faults + 1))
      \/ /\ rows[t].version = job.version /\ attempts[t] = job.bind
         /\ worker' = [Idle EXCEPT !.job = job, !.snap = rows[t],
                         !.pc = IF job.send /\ rows[t].action = "send" THEN "baseline" ELSE "guard"]
         /\ UNCHANGED <<rows, attempts, pending, faults>>
  BY <1>1 DEF Start
<1> HIDE DEF job
<1>6. CASE worker' = worker /\ FailIfCurrent(rows, attempts, t, stale, None)
  <2>1. \A u \in Tasks : RowOK(rows[u], approved'[u])
    BY <1>2 DEF RowsOK
  <2>2. stale.attempt = job.bind.attempt /\ stale.version = job.version
        /\ job.bind.attempt <= rows[t].attempt /\ job.version <= rows[t].version
    BY <1>3 DEF Fits
  <2> HIDE DEF stale
  <2>3. Orderly(t, rows, None)
    BY <1>2, <1>3, <1>4, <1>6, <2>1, <2>2, RefusedFacts
  <2>4. attempts'[t] \in {None, attempts[t]}
    <3>1. stale.attempt \in Nat /\ stale.version \in Nat
      BY <1>4, <2>2
    <3>2. Refused(rows, attempts, t, stale, None)
      BY <1>3, <1>6, <3>1, FailIfCurrentFacts
    <3> QED BY <3>2 DEF Refused
  <2> QED BY <1>2, <1>3, <1>6, <2>3, <2>4, DroppedKeeps
<1>7. CASE /\ worker' = worker /\ UNCHANGED <<rows, attempts, pending>>
           /\ faults' = faults \/ (faults < MaxFault /\ faults' = faults + 1)
  <2>1. faults' \in 0..MaxFault
    BY <1>3, <1>7, ServiceAssumption
  <2>2. \A u \in Tasks : Moved(u) /\ RowOK(rows'[u], approved'[u])
    BY <1>2, <1>7 DEF Moved, RowsOK
  <2>3. \A u \in Tasks : Deferred(u)'
    BY <1>2, <1>7, <2>2, DeferredStable
  <2>4. Orderly(t, rows, None)
    BY <1>3, <1>7, <2>1, <2>2, <2>3 DEF Orderly
  <2> QED BY <1>2, <1>3, <1>7, <2>4, DroppedKeeps
<1>8. CASE /\ rows[t].version = job.version /\ attempts[t] = job.bind
           /\ worker' = [Idle EXCEPT !.job = job, !.snap = rows[t],
                           !.pc = IF job.send /\ rows[t].action = "send" THEN "baseline" ELSE "guard"]
           /\ UNCHANGED <<rows, attempts, pending, faults>>
  <2>1. /\ worker' \in WorkerRecord /\ worker'.job = job /\ worker'.snap = rows[t]
        /\ worker'.pc = (IF job.send /\ rows[t].action = "send" THEN "baseline" ELSE "guard")
    BY <1>2, <1>3, <1>8 DEF Idle, WorkerRecord, Pcs, OrNone
  <2>2. worker'.pc \notin GuardedPcs /\ worker'.pc \notin InputPcs /\ worker'.pc # "idle"
    BY <2>1 DEF GuardedPcs, InputPcs
  <2>3. TypeOK'
    <3>1. queue' \in Seq(JobType)
      BY <1>2
    <3> QED BY <1>2, <1>3, <1>8, <2>1, <3>1, TypeOfWorkerStep DEF TypeOK
  <2>4. WorkerType' /\ RecordOK' /\ InputOK'
    BY <1>2, <1>3, <2>1, <2>2 DEF WorkerType, RecordOK, InputOK
  <2>5. ActiveOK'
    <3>1. rows[t].attempt = job.bind.attempt /\ rows[t].status \in {"queued", "queued_send"}
      BY <1>3, <1>4, <1>8 DEF Fits
    <3>2. Copy(rows[t], rows[t])
      BY <1>3 DEF Copy, Row
    <3> QED BY <1>1, <1>3, <1>8, <2>1, <2>2, <3>1, <3>2 DEF ActiveOK
  <2>6. RowsOK' /\ ClickedOnceAndMarked'
    BY <1>2, <1>8 DEF RowsOK, ClickedOnceAndMarked
  <2>7. Len(queue') = Len(queue) - 1 /\ Len(queue) \in Nat \ {0}
        /\ \A i \in 1..Len(queue') : queue'[i] = queue[i + 1] /\ i + 1 \in 1..Len(queue)
    BY <1>2
  <2>8. QueueOK'
    BY <1>8, <2>7 DEF QueueOK
  <2>9. FreshOK'
    <3> SUFFICES ASSUME NEW u \in Tasks, Fresh(u)'
                 PROVE  Unknown(u)'
      BY DEF FreshOK
    <3>1. Fresh(u)
      BY <1>2, <1>8 DEF Fresh, envOfWorker
    <3>2. Unknown(u) /\ u # t
      BY <1>3, <3>1 DEF FreshOK
    <3> QED BY <1>1, <1>8, <2>1, <2>7, <3>2 DEF Unknown
  <2>10. PendingOK'
    <3> SUFFICES ASSUME NEW u \in Tasks
                 PROVE  Deferred(u)'
      BY DEF PendingOK
    <3>1. Deferred(u)
      BY DEF PendingOK
    <3>2. CASE u # t
      BY <1>1, <1>2, <1>8, <2>1, <3>1, <3>2 DEF Deferred, Unused
    <3>3. CASE u = t
      <4>1. attempts[t] # None /\ attempts[t].attempt = rows[t].attempt
        BY <1>3, <1>4, <1>8, ServiceAssumption DEF Fits
      <4>2. pending[t] = None \/ ~Applies(rows[t], pending[t])
        BY <3>1, <3>3, <4>1 DEF Deferred, Unused, Applies
      <4> QED BY <1>8, <3>1, <3>3, <4>2 DEF Deferred
    <3> QED BY <3>2, <3>3
  <2>11. LifeOK'
    BY <1>2, <1>8 DEF LifeOK, envOfWorker, Start
  <2> QED BY <2>3, <2>4, <2>5, <2>6, <2>8, <2>9, <2>10, <2>11
<1> QED BY <1>5, <1>6, <1>7, <1>8

\* In the finally section the worker lets its task go.
LEMMA FinishKeeps == ASSUME IInv, Finish PROVE IInv'
<1> USE DEF IInv
<1>1. PICK t \in Tasks : t = worker.job.task
  BY DEF Finish, WorkerType, JobType
<1>2. /\ worker.pc = "finish" /\ worker' = Idle
      /\ UNCHANGED <<clicks, queue, screen, approved>> /\ UNCHANGED envOfWorker
      /\ \/ FailIfCurrent(rows, attempts, t, worker.snap, None)
         \/ /\ attempts' = attempts \/ attempts' = [attempts EXCEPT ![t] = None]
            /\ UNCHANGED <<rows, pending, faults>>
  BY <1>1 DEF Finish
<1>3. /\ rows \in [Tasks -> Row] /\ attempts \in [Tasks -> OrNone(BindingType)]
      /\ pending \in [Tasks -> OrNone(PendingType)] /\ faults \in 0..MaxFault
      /\ queue \in Seq(JobType) /\ screen \in Shots
      /\ clicks \in [Tasks -> Nat] /\ approved \in [Tasks -> Shots \cup {NoShot}]
  BY DEF TypeOK, PendingType
<1>4. Idle \in WorkerRecord /\ Idle.pc = "idle"
  BY DEF Idle, WorkerRecord, Pcs, OrNone
<1>5. Orderly(t, rows, None)
  <2>1. CASE FailIfCurrent(rows, attempts, t, worker.snap, None)
    <3>1. \A u \in Tasks : RowOK(rows[u], approved'[u])
      BY <1>2 DEF RowsOK
    <3>2. /\ worker.snap.attempt \in Nat /\ worker.snap.version \in Nat
          /\ worker.snap.attempt <= rows[t].attempt /\ worker.snap.version <= rows[t].version
      BY <1>1, <1>2, <1>3 DEF ActiveOK, WorkerType, Copy, Row
    <3> QED BY <1>2, <1>3, <1>4, <2>1, <3>1, <3>2, RefusedFacts
  <2>2. CASE /\ attempts' = attempts \/ attempts' = [attempts EXCEPT ![t] = None]
             /\ UNCHANGED <<rows, pending, faults>>
    <3>1. \A u \in Tasks : Moved(u) /\ RowOK(rows'[u], approved'[u])
      BY <1>2, <2>2 DEF Moved, RowsOK
    <3>2. /\ attempts' \in [Tasks -> OrNone(BindingType)] /\ attempts'[t] \in {None, attempts[t]}
          /\ \A u \in Tasks \ {t} : attempts'[u] = attempts[u]
      BY <1>3, <2>2 DEF OrNone
    <3>3. \A u \in Tasks : Deferred(u)'
      BY <1>2, <1>4, <2>2, <3>1, <3>2, DeferredStable
    <3> QED BY <1>3, <2>2, <3>1, <3>2, <3>3 DEF Orderly
  <2> QED BY <1>2, <2>1, <2>2
<1>6. TypeOK'
  BY <1>2, <1>3, <1>4, <1>5, TypeOfWorkerStep DEF Orderly
<1>7. WorkerType' /\ ActiveOK' /\ RecordOK' /\ InputOK'
  BY <1>2, <1>4 DEF WorkerType, ActiveOK, RecordOK, InputOK, GuardedPcs, InputPcs
<1>8. RowsOK' /\ PendingOK'
  BY <1>5 DEF Orderly, RowsOK, PendingOK
<1>9. ClickedOnceAndMarked'
  BY <1>2, <1>5 DEF Orderly, ClickedOnceAndMarked, Moved, Advance
<1>10. QueueOK'
  <2>1. \A i \in 1..Len(queue) : queue[i] \in JobType /\ queue[i].task \in Tasks
    <3>1. \A i \in 1..Len(queue) : queue[i] \in JobType
      BY <1>3
    <3> QED BY <3>1 DEF JobType
  <2> QED BY <1>2, <1>3, <1>5, <2>1, FitsStable DEF QueueOK, Orderly, Moved
<1>11. FreshOK'
  <2> SUFFICES ASSUME NEW u \in Tasks, Fresh(u)'
               PROVE  Unknown(u)'
    BY DEF FreshOK
  <2>1. Fresh(u)
    BY <1>2, <1>5 DEF Fresh, Orderly, Moved, Advance, envOfWorker
  <2>2. Unknown(u) /\ u # t
    BY <1>1, <1>2, <2>1 DEF FreshOK, Unknown
  <2> QED BY <1>2, <1>4, <1>5, <2>2 DEF Unknown, Orderly
<1>12. LifeOK'
  BY <1>2, <1>5 DEF LifeOK, envOfWorker, Orderly, Moved, Advance, TypeOK, OrNone
<1> QED BY <1>6, <1>7, <1>8, <1>9, <1>10, <1>11, <1>12

--------------------------------------------------------------------------------
(* The invariant holds, and what follows *)

LEMMA InitInvariant == Init => IInv
<1> SUFFICES ASSUME Init
             PROVE  IInv
  OBVIOUS
<1>1. NoRow \in Row /\ RowOK(NoRow, NoShot)
  BY DEF NoRow, Row, RowOK
<1>2. /\ Idle.job = None /\ Idle.rec = None /\ Idle.snap = None /\ Idle.frame = NoShot
      /\ Idle.pc = "idle" /\ Idle \in WorkerRecord /\ <<>> \in Seq(JobType)
  BY DEF Idle, WorkerRecord, Pcs, OrNone
<1>3. TypeOK
  BY <1>1, <1>2, ServiceAssumption DEF Init, TypeOK, OrNone
<1>4. WorkerType /\ ActiveOK /\ RecordOK /\ InputOK
  BY <1>2 DEF Init, WorkerType, ActiveOK, RecordOK, InputOK, GuardedPcs, InputPcs
<1>5. RowsOK /\ ClickedOnceAndMarked /\ PendingOK
  BY <1>1 DEF Init, RowsOK, ClickedOnceAndMarked, PendingOK, Deferred
<1>6. QueueOK /\ FreshOK /\ LifeOK
  BY <1>2 DEF Init, QueueOK, FreshOK, Unknown, LifeOK
<1> QED BY <1>3, <1>4, <1>5, <1>6 DEF IInv

LEMMA StepInvariant == IInv /\ [Next]_vars => IInv'
<1> SUFFICES ASSUME IInv, [Next]_vars
             PROVE  IInv'
  OBVIOUS
<1>1. CASE Calls
  BY <1>1, SubmitKeeps, LookKeeps, ConfirmKeeps, CancelKeeps, RetryKeeps, SubmitBindKeeps DEF Calls
<1>2. CASE WorkerStep
  BY <1>2, StartKeeps, EnterGuardKeeps, CallsOutKeep, DecideKeeps, BarrierKeeps, ClickKeeps,
     SettleKeeps, FinishKeeps DEF WorkerStep
<1>3. CASE Scan \/ Reconcile
  BY <1>3, ScanKeeps, ApplyKeeps DEF Reconcile
<1>4. CASE StopDrain \/ StopFinish \/ Exit \/ Boot
  BY <1>4, StopDrainKeeps, StopFinishKeeps, ExitKeeps, BootKeeps
<1>5. CASE StopFlag \/ SwitchAccount \/ WindowChanges \/ ScreenChanges
  BY <1>5, SurroundingsKeep
<1>6. CASE UNCHANGED vars
  <2>1. TypeOK'
    BY <1>6 DEF IInv, TypeOK, vars
  <2> QED BY <1>6, <2>1, QuietKeeps DEF vars
<1> QED BY <1>1, <1>2, <1>3, <1>4, <1>5, <1>6 DEF Next

\* The invariant of the service: rows, jobs, the worker's copies and deferred writes
\* agree in every interleaving of its threads.
THEOREM InvariantHolds == Spec => []IInv
BY InitInvariant, StepInvariant, PTL DEF Spec

\* Whatever is retried, restarted or late, a task is clicked at most once and never
\* ahead of its mark, and while the worker types or clicks the row is that attempt's:
\* running, or marked uncertain by stop() (outbox_service.py:386-424).
THEOREM InputAlwaysOwned == Spec => []InputIsOwned
<1>1. IInv => InputIsOwned
  <2> SUFFICES ASSUME IInv, worker.pc \in InputPcs
               PROVE  InputOwnsRow
    BY DEF IInv, InputIsOwned, InputOwnsRow, InputPcs
  <2>1. worker.pc \in GuardedPcs /\ worker.pc # "idle"
    BY DEF InputPcs, GuardedPcs
  <2> QED BY <2>1 DEF IInv, ActiveOK, InputOK, InputOwnsRow
<1> QED BY <1>1, InvariantHolds, PTL

\* A terminal write that a failing database kept back never applies to an attempt
\* that is authorized (outbox_service.py, _record_terminal_write and
\* _flush_terminal_writes).
THEOREM CompensationNeverLate == Spec => []NoLateCompensation
<1>1. IInv => NoLateCompensation
  BY DEF IInv, PendingOK, Deferred, Unused, NoLateCompensation
<1> QED BY <1>1, InvariantHolds, PTL

\* Every click is of the running attempt it was confirmed for, on the frame the user
\* approved, under the token of the confirmation, before stop() has drained.
THEOREM ClicksAsConfirmed == Spec => ClickAsConfirmed
<1> DEFINE Confirmed(t) ==
             clicks'[t] # clicks[t] =>
               /\ life \notin {"draining", "stopped", "down"}
               /\ worker.job.task = t /\ worker.job.bind.tok = token
               /\ rows[t].status = "running" /\ rows[t].attempt = worker.job.bind.attempt
               /\ rows[t].action = "send" /\ rows[t].baseline # NoBaseline
               /\ worker.frame = approved[t] /\ approved[t] # NoShot
<1>1. ASSUME IInv, [Next]_vars, NEW t \in Tasks
      PROVE  Confirmed(t)
  <2>1. CASE Click /\ clicks' # clicks
    <3>1. /\ worker.pc = "posting" /\ worker.job.bind.tok = token
          /\ clicks' = [clicks EXCEPT ![worker.job.task] = @ + 1]
      BY <2>1 DEF Click, TokenValid
    <3>2. CASE worker.job.task = t
      <4> DEFINE r == rows[t]
                 rec == worker.rec
      <4>1. /\ r = rec /\ rec.status = "running" /\ worker.frame = rec.shot
            /\ rec.baseline = worker.base /\ rec.action = "send" /\ worker.job.send
            /\ life \in {"up", "flagged"}
        BY <1>1, <3>1, <3>2 DEF IInv, InputOK, InputPcs
      <4>2. r.attempt = worker.job.bind.attempt /\ worker.base \in Baselines
        BY <1>1, <3>1, <3>2, <4>1 DEF IInv, ActiveOK, GuardedPcs
      <4>3. approved[t] = r.shot /\ r.shot # NoShot
        BY <1>1, <4>1 DEF IInv, RowsOK, RowOK
      <4> QED BY <3>1, <3>2, <4>1, <4>2, <4>3, RulesAssumption
    <3>3. CASE worker.job.task # t
      BY <1>1, <3>1, <3>3 DEF IInv, TypeOK
    <3> QED BY <3>2, <3>3
  <2>2. CASE clicks' = clicks
    BY <2>2
  <2>3. clicks' = clicks \/ Click
    <3>1. CASE Calls
      BY <3>1 DEF Calls, Submit, Look, Confirm, Cancel, Retry, SubmitBind
    <3>2. CASE WorkerStep
      BY <3>2 DEF WorkerStep, Start, ReadBaseline, EnterGuard, Navigate, Capture, Decide, Input,
                  Barrier, Arm, WaitSend, Settle, Finish
    <3>3. CASE Scan \/ Reconcile
      BY <3>3 DEF Scan, Reconcile, Apply, envOfVerifier
    <3>4. CASE StopFlag \/ StopDrain \/ StopFinish \/ Exit \/ Boot
      BY <3>4 DEF StopFlag, StopDrain, StopFinish, Exit, Boot
    <3>5. CASE SwitchAccount \/ WindowChanges \/ ScreenChanges \/ UNCHANGED vars
      BY <3>5 DEF SwitchAccount, WindowChanges, ScreenChanges, vars
    <3> QED BY <1>1, <3>1, <3>2, <3>3, <3>4, <3>5 DEF Next
  <2> QED BY <2>1, <2>2, <2>3
<1>2. IInv /\ [Next]_vars => [\A t \in Tasks : Confirmed(t)]_vars
  BY <1>1
<1> QED BY <1>2, InvariantHolds, PTL DEF Spec, ClickAsConfirmed

--------------------------------------------------------------------------------
(* Nothing is stranded *)

JobsIn(q, t) == {q[i] : i \in {j \in 1..Len(q) : q[j].task = t}}
OneEach(q) == \A i, j \in 1..Len(q) : q[i].task = q[j].task => i = j

\* The job is for the row as it is and for the authorization there is.
Current(t, job) == rows[t].version = job.version /\ attempts[t] = job.bind

\* A task that needs no more than the user, the verifier or the job it has.
Served(t) ==
  /\ rows[t].status \in {"queued", "queued_send"} => \E job \in JobsIn(queue, t) : Current(t, job)
  /\ rows[t].status \notin GUI_RISK
  /\ rows[t].status = "awaiting_confirmation" => attempts[t] # None

\* The callback has returned and what it was to do is done.
Left == worker.pc = "finish" /\ ~worker.failed
At(t) == worker.pc # "idle" /\ worker.job.task = t

Waits(t) == pending[t] # None /\ Applies(rows[t], pending[t])

\* A job of a task is current unless the user has cancelled; so are the snapshot and the
\* authorization of the worker, and nobody asks for more of its task before it has left.
Good(t) ==
  /\ rows[t].status = "cancelled" \/ \A job \in JobsIn(queue, t) : Current(t, job)
  /\ At(t) => /\ rows[t].status = "cancelled" \/ worker.snap = rows[t]
              /\ \/ Left
                 \/ /\ rows[t].status = "cancelled" \/ attempts[t] = worker.job.bind
                    /\ rows[t].status # "awaiting_confirmation"
                    /\ JobsIn(queue, t) = {}
  /\ submitting = t => rows[t].version = 1 \/ rows[t].status = "cancelled"
  /\ Served(t) \/ submitting = t \/ (At(t) /\ ~Left) \/ Waits(t)

UpOK == /\ OneEach(queue)
        /\ worker.failed => worker.pc = "finish"
        /\ \A t \in Tasks : Good(t)

NInv == IInv /\ (life = "down" => queue = <<>> /\ worker = Idle) /\ (life = "up" => UpOK)

\* Every read of a row succeeds and the queue has a place for every task.
Ample == ~ReadMayFail /\ QueueCap >= Cardinality(Tasks)

--------------------------------------------------------------------------------
(* Jobs of the queue *)

LEMMA RoomForOne ==
  ASSUME NEW q \in Seq(JobType), OneEach(q), NEW t \in Tasks, JobsIn(q, t) = {}
  PROVE  Len(q) < Cardinality(Tasks)
<1> DEFINE f == [i \in 1..Len(q) |-> q[i].task]
<1>1. f \in [1..Len(q) -> Tasks \ {t}]
  <2> SUFFICES ASSUME NEW i \in 1..Len(q)
               PROVE  q[i].task \in Tasks /\ q[i].task # t
    OBVIOUS
  <2>1. q[i] \in JobType
    OBVIOUS
  <2> QED BY <2>1 DEF JobType, JobsIn
<1>2. \A i, j \in 1..Len(q) : f[i] = f[j] => i = j
  BY DEF OneEach
<1> HIDE DEF f
<1>3. f \in Injection(1..Len(q), Tasks \ {t})
  BY <1>1, <1>2 DEF Injection, IsInjective
<1>4. /\ IsFiniteSet(Tasks \ {t}) /\ Cardinality(Tasks) \in Nat
      /\ Cardinality(Tasks \ {t}) = Cardinality(Tasks) - 1
  BY FS_RemoveElement, FS_CardinalityType, ServiceAssumption
<1>5. Cardinality(1..Len(q)) <= Cardinality(Tasks) - 1
  BY <1>3, <1>4, FS_Injection
<1>6. Len(q) \in Nat
  OBVIOUS
<1>7. Cardinality(1..Len(q)) = Len(q)
  <2>1. 1 \in Int /\ Len(q) \in Int /\ (1 > Len(q) => Len(q) = 0) /\ Len(q) - 1 + 1 = Len(q)
    BY <1>6
  <2> QED BY <2>1, FS_Interval
<1> QED BY <1>4, <1>5, <1>6, <1>7

LEMMA AppendJobs ==
  ASSUME NEW q \in Seq(JobType), OneEach(q), NEW job \in JobType, JobsIn(q, job.task) = {}
  PROVE  /\ OneEach(Append(q, job)) /\ JobsIn(Append(q, job), job.task) = {job}
         /\ \A u \in Tasks \ {job.task} : JobsIn(Append(q, job), u) = JobsIn(q, u)
<1> DEFINE a == Append(q, job)
<1>1. /\ Len(q) \in Nat /\ Len(a) = Len(q) + 1
      /\ \A i \in 1..Len(a) : a[i] = (IF i = Len(a) THEN job ELSE q[i])
      /\ \A i \in 1..Len(q) : a[i] = q[i] /\ q[i].task # job.task
  BY DEF JobsIn
<1> HIDE DEF a
<1>2. \A i \in 1..Len(a) : i \in 1..Len(q) \/ i = Len(a)
  BY <1>1
<1>3. 1..Len(q) \subseteq 1..Len(a) /\ Len(a) \in 1..Len(a)
  BY <1>1
<1>4. OneEach(a)
  BY <1>1, <1>2 DEF OneEach
<1>5. JobsIn(a, job.task) = {job}
  BY <1>1, <1>2, <1>3 DEF JobsIn
<1>6. ASSUME NEW u \in Tasks \ {job.task}
      PROVE  JobsIn(a, u) = JobsIn(q, u)
  BY <1>1, <1>2, <1>3 DEF JobsIn
<1> QED BY <1>4, <1>5, <1>6 DEF a

LEMMA TailJobs ==
  ASSUME NEW q \in Seq(JobType), OneEach(q), q # <<>>
  PROVE  /\ OneEach(Tail(q)) /\ JobsIn(Tail(q), Head(q).task) = {}
         /\ \A u \in Tasks \ {Head(q).task} : JobsIn(Tail(q), u) = JobsIn(q, u)
         /\ Head(q) \in JobType /\ Head(q) \in JobsIn(q, Head(q).task)
<1> DEFINE a == Tail(q)
<1>1. /\ Len(q) \in Nat \ {0} /\ Len(a) = Len(q) - 1 /\ Head(q) = q[1] /\ q[1] \in JobType
      /\ \A i \in 1..Len(a) : a[i] = q[i + 1] /\ i + 1 \in 1..Len(q)
  OBVIOUS
<1> HIDE DEF a
<1>2. /\ 1 \in 1..Len(q)
      /\ \A i \in 1..Len(q) : i = 1 \/ (i - 1 \in 1..Len(a) /\ a[i - 1] = q[i])
  BY <1>1
<1>3. OneEach(a)
  BY <1>1 DEF OneEach
<1>4. JobsIn(a, q[1].task) = {}
  BY <1>1, <1>2 DEF JobsIn, OneEach
<1>5. ASSUME NEW u \in Tasks \ {q[1].task}
      PROVE  JobsIn(a, u) = JobsIn(q, u)
  <2>1. ASSUME NEW i \in 1..Len(a), a[i].task = u
        PROVE  a[i] \in JobsIn(q, u)
    BY <1>1, <2>1 DEF JobsIn
  <2>2. ASSUME NEW i \in 1..Len(q), q[i].task = u
        PROVE  q[i] \in JobsIn(a, u)
    <3>1. i - 1 \in 1..Len(a) /\ a[i - 1] = q[i]
      BY <1>2, <1>5, <2>2
    <3> QED BY <2>2, <3>1 DEF JobsIn
  <2> QED BY <2>1, <2>2 DEF JobsIn
<1>6. q[1] \in JobsIn(q, q[1].task)
  BY <1>2 DEF JobsIn
<1> QED BY <1>1, <1>3, <1>4, <1>5, <1>6 DEF a

--------------------------------------------------------------------------------
(* Tasks while the service is up *)

\* What the two invariants say of one task while the service is up.
LEMMA TaskFacts ==
  ASSUME NInv, life = "up", NEW t \in Tasks
  PROVE  /\ rows[t] \in Row /\ Good(t) /\ RowOK(rows[t], approved[t])
         /\ At(t) => /\ worker.job \in JobType /\ worker.snap \in Row
                     /\ worker.job.bind.attempt = rows[t].attempt
                     /\ rows[t].status # "failed" /\ submitting # t
         /\ \A job \in JobsIn(queue, t) :
              /\ job \in JobType /\ submitting # t
              /\ Current(t, job) => /\ rows[t].status \in {"queued", "queued_send"}
                                    /\ attempts[t] # None /\ attempts[t].attempt = rows[t].attempt
         /\ submitting = t \/ rows[t].status = "absent" => Unknown(t)
         /\ submitting = t => rows[t].status # "absent"
         /\ Waits(t) => /\ rows[t].status \in COMPENSATABLE /\ submitting # t /\ ~At(t)
                        /\ JobsIn(queue, t) = {}
<1> USE DEF NInv, IInv
<1>1. rows[t] \in Row /\ Good(t) /\ RowOK(rows[t], approved[t])
  BY DEF TypeOK, UpOK, RowsOK
<1>2. submitting = t \/ rows[t].status = "absent" => Unknown(t)
  BY DEF FreshOK, Fresh
<1>3. submitting = t => rows[t].status # "absent"
  BY ServiceAssumption DEF LifeOK
<1>4. At(t) => /\ worker.job \in JobType /\ worker.snap \in Row
               /\ worker.job.bind.attempt = rows[t].attempt
               /\ rows[t].status # "failed" /\ submitting # t
  <2>1. At(t) => submitting # t
    BY <1>2 DEF At, Unknown
  <2>2. At(t) => /\ worker.job \in JobType /\ worker.snap \in Row
                 /\ worker.job.bind.attempt = rows[t].attempt /\ rows[t].status # "failed"
    BY DEF At, ActiveOK, WorkerType
  <2> QED BY <2>1, <2>2
<1>5. ASSUME NEW job \in JobsIn(queue, t)
      PROVE  /\ job \in JobType /\ submitting # t /\ Fits(job, rows[t])
             /\ Current(t, job) => /\ rows[t].status \in {"queued", "queued_send"}
                                   /\ attempts[t] # None /\ attempts[t].attempt = rows[t].attempt
  <2>1. PICK i \in 1..Len(queue) : queue[i].task = t /\ job = queue[i]
    BY DEF JobsIn
  <2>2. job \in JobType /\ Fits(job, rows[t])
    BY <2>1 DEF QueueOK, TypeOK
  <2>3. submitting # t
    BY <1>2, <2>1 DEF Unknown
  <2>4. job.send \in BOOLEAN /\ job.bind # None
    BY <2>2, ServiceAssumption DEF JobType
  <2> QED BY <2>2, <2>3, <2>4 DEF Fits, Current
<1>6. Waits(t) => /\ rows[t].status \in COMPENSATABLE /\ submitting # t /\ ~At(t)
                  /\ JobsIn(queue, t) = {}
  <2> SUFFICES ASSUME Waits(t) PROVE /\ rows[t].status \in COMPENSATABLE /\ submitting # t /\ ~At(t)
                                     /\ JobsIn(queue, t) = {}
    OBVIOUS
  <2>1. Unused(t, pending[t].attempt) /\ rows[t].attempt = pending[t].attempt
        /\ rows[t].status \in COMPENSATABLE
    BY DEF Waits, PendingOK, Deferred, Applies
  <2>2. submitting # t
    BY <1>2 DEF Waits, Unknown
  <2>3. ~At(t)
    BY <2>1 DEF Unused, At
  <2>4. rows[t].status # "cancelled"
    BY <2>1 DEF COMPENSATABLE, NON_EXECUTING, GUI_RISK
  <2>5. JobsIn(queue, t) = {}
    BY <1>1, <1>5, <2>1, <2>4 DEF Good, Unused
  <2> QED BY <2>1, <2>2, <2>3, <2>5
<1> QED BY <1>1, <1>2, <1>3, <1>4, <1>5, <1>6

\* A step that leaves task u to itself, up to a flush of its deferred write.
Apart(u) ==
  /\ JobsIn(queue', u) = JobsIn(queue, u)
  /\ attempts'[u] = attempts[u]
  /\ submitting' = u <=> submitting = u
  /\ worker' = worker \/ ~(At(u) \/ At(u)')

LEMMA ApartKeeps ==
  ASSUME NInv, life = "up", NEW u \in Tasks, Apart(u), NEW act, Flushed(u, rows[u], pending[u], act)
  PROVE  Good(u)'
<1>1. CASE rows'[u] = rows[u] /\ (Waits(u) => Waits(u)')
  BY <1>1, TaskFacts DEF Apart, Good, Served, Current, At, Left
<1>2. CASE Waits(u) /\ rows'[u] = Settled(rows[u], TRUE)
  <2>1. /\ rows[u] \in Row /\ submitting # u /\ ~At(u) /\ JobsIn(queue, u) = {}
    BY <1>2, TaskFacts
  <2>2. rows'[u].status \in {"failed", "unknown"}
    BY <1>2, <2>1, SettledFacts
  <2>3. ~At(u)'
    BY <2>1 DEF Apart, At
  <2> QED BY <2>1, <2>2, <2>3 DEF Apart, Good, Served, GUI_RISK
<1> QED BY <1>1, <1>2 DEF Flushed, Waits


\* A refusal that is newer than the deferred write there is takes its place.
LEMMA NewestFlushed ==
  ASSUME NEW R \in [Tasks -> Row], NEW A, NEW t \in Tasks, NEW rec, NEW act,
         FailIfCurrent(R, A, t, rec, act), t # act,
         pending \in [Tasks -> OrNone(PendingType)], faults \in 0..MaxFault,
         pending[t] = None \/ Newer(rec, pending[t]), rec.attempt \in Nat, rec.version \in Nat
  PROVE  Flushed(t, R[t], [attempt |-> rec.attempt, version |-> rec.version], act)
<1> DEFINE P == Recorded(pending, t, rec)
<1>1. P[t] = [attempt |-> rec.attempt, version |-> rec.version]
  BY DEF Recorded
<1>2. P \in [Tasks -> OrNone(PendingType)]
  BY RecordedFacts
<1>3. FlushAfter(faults, R, P, act) /\ faults \in Nat
  BY ServiceAssumption DEF FailIfCurrent, Flush
<1> HIDE DEF P
<1> QED BY <1>1, <1>2, <1>3, FlushFacts

\* A step about one task only.
LEMMA OneTaskKeeps ==
  ASSUME NInv, life = "up", NEW t \in Tasks, Good(t)', OneEach(queue'), NEW act,
         worker' = worker \/ (worker'.failed => worker'.pc = "finish"),
         \A u \in Tasks \ {t} : Apart(u) /\ Flushed(u, rows[u], pending[u], act)
  PROVE  UpOK'
<1>1. \A u \in Tasks : Good(u)'
  BY ApartKeeps
<1>2. worker'.failed => worker'.pc = "finish"
  BY DEF NInv, UpOK
<1> QED BY <1>1, <1>2 DEF UpOK

LEMMA NothingMovesUp ==
  ASSUME NInv, life = "up", UNCHANGED <<rows, attempts, queue, worker, pending, submitting>>
  PROVE  UpOK'
<1>1. \A u \in Tasks : Good(u)'
  BY DEF NInv, UpOK, Good, Served, Current, At, Left, Waits, Applies
<1> QED BY <1>1 DEF NInv, UpOK

LEMMA SubmitUp ==
  ASSUME NInv, life = "up", NEW t \in Tasks, NEW action \in {"send", "test"}, Submit(t, action)
  PROVE  UpOK'
<1>1. /\ rows[t].status = "absent" /\ rows' = [rows EXCEPT ![t] = NewRow(action)]
      /\ submitting' = t /\ submitting = None /\ rows \in [Tasks -> Row]
      /\ UNCHANGED <<attempts, queue, worker, pending>>
  BY DEF Submit, AccountFree, NInv, IInv, TypeOK
<1>2. Unknown(t)
  BY <1>1, TaskFacts
<1>3. rows'[t].version = 1 /\ \A u \in Tasks \ {t} : rows'[u] = rows[u]
  BY <1>1, NewRowFacts
<1>4. JobsIn(queue', t) = {} /\ ~At(t)'
  BY <1>1, <1>2 DEF Unknown, At, JobsIn
<1>5. Good(t)'
  BY <1>1, <1>3, <1>4 DEF Good
<1>6. \A u \in Tasks \ {t} : Apart(u) /\ Flushed(u, rows[u], pending[u], None)
  BY <1>1, <1>3, ServiceAssumption DEF Apart, Flushed
<1> QED BY <1>1, <1>5, <1>6, OneTaskKeeps DEF NInv, UpOK

\* A job is queued for a task that has none.
LEMMA QueuedKeeps ==
  ASSUME NInv, life = "up", NEW t \in Tasks, NEW job \in JobType, job.task = t,
         JobsIn(queue, t) = {}, queue' = Append(queue, job), rows' \in [Tasks -> Row],
         rows'[t].status = "cancelled" \/ Current(t, job)',
         rows'[t].status \in {"queued", "queued_send", "cancelled"},
         submitting \in {None, t}, submitting' = None, pending' = pending,
         worker' = worker \/ At(t),
         worker'.pc = worker.pc, worker'.job = worker.job, worker'.failed = worker.failed,
         At(t) => Left /\ worker'.snap = rows'[t],
         \A u \in Tasks \ {t} : rows'[u] = rows[u] /\ attempts'[u] = attempts[u]
  PROVE  UpOK'
<1>1. queue \in Seq(JobType) /\ OneEach(queue)
  BY DEF NInv, IInv, TypeOK, UpOK
<1>2. /\ OneEach(queue') /\ JobsIn(queue', t) = {job}
      /\ \A u \in Tasks \ {t} : JobsIn(queue', u) = JobsIn(queue, u)
  BY <1>1, AppendJobs
<1>3. Good(t)'
  <2>1. /\ At(t)' => At(t)
        /\ Left => Left'
    BY DEF At, Left
  <2>2. Served(t)'
    BY <1>2 DEF Served, GUI_RISK
  <2>3. submitting' # t
    BY ServiceAssumption
  <2> QED BY <1>2, <2>1, <2>2, <2>3 DEF Good
<1>4. ASSUME NEW u \in Tasks \ {t}
      PROVE  Apart(u) /\ Flushed(u, rows[u], pending[u], None)
  <2>1. worker' = worker \/ ~(At(u) \/ At(u)')
    BY DEF At
  <2> QED BY <1>2, <2>1, ServiceAssumption DEF Apart, Flushed
<1>5. worker'.failed => worker'.pc = "finish"
  BY DEF NInv, UpOK
<1> QED BY <1>2, <1>3, <1>4, <1>5, OneTaskKeeps

\* A call that writes a task without jobs and queues one: there is a place.
LEMMA EnqueueUp ==
  ASSUME Ample, NInv, life = "up", NEW t \in Tasks, NEW new \in Row, NEW send \in BOOLEAN,
         NEW b \in BindingType, NEW A, A \in [Tasks -> OrNone(BindingType)], A[t] = b,
         Enqueue([rows EXCEPT ![t] = new], A, t, send),
         new.status \in {"queued", "queued_send"}, JobsIn(queue, t) = {}, At(t) => Left,
         \A u \in Tasks \ {t} : A[u] = attempts[u],
         worker' = Snapped([rows EXCEPT ![t] = new], t),
         submitting = None, submitting' = None
  PROVE  UpOK'
<1> DEFINE R == [rows EXCEPT ![t] = new]
<1>1. /\ R[t] = new /\ \A u \in Tasks \ {t} : R[u] = rows[u]
      /\ R \in [Tasks -> Row]
  BY DEF NInv, IInv, TypeOK
<1>2. PICK job \in JobType : /\ job = Job(t, R, b, send) /\ job.task = t
                            /\ job.version = new.version /\ job.bind = b
  <2>1. R[t].version = new.version /\ new.version \in Nat
    BY <1>1 DEF Row
  <2> HIDE DEF R
  <2>2. /\ Job(t, R, b, send) \in JobType /\ Job(t, R, b, send).task = t
        /\ Job(t, R, b, send).version = new.version /\ Job(t, R, b, send).bind = b
    BY <2>1 DEF Job, JobType
  <2> QED BY <2>2
<1>3. Len(queue) < QueueCap
  <2>1. Len(queue) < Cardinality(Tasks) /\ Len(queue) \in Nat
    BY RoomForOne DEF NInv, IInv, TypeOK, UpOK
  <2>2. Cardinality(Tasks) \in Nat /\ QueueCap \in Nat
    BY FS_CardinalityType, ServiceAssumption
  <2> QED BY <2>1, <2>2 DEF Ample
<1>4. /\ queue' = Append(queue, job) /\ rows' = R /\ attempts' = A /\ pending' = pending
  BY <1>2, <1>3 DEF Enqueue
<1>5. /\ worker' = worker \/ (At(t) /\ worker' = [worker EXCEPT !.snap = new])
      /\ At(t) => worker' = [worker EXCEPT !.snap = new]
      /\ worker \in WorkerRecord
  BY <1>1, ServiceAssumption DEF Snapped, Active, At, NInv, IInv, WorkerType
<1> HIDE DEF R
<1>6. /\ worker'.pc = worker.pc /\ worker'.job = worker.job /\ worker'.failed = worker.failed
      /\ worker' = worker \/ At(t)
      /\ At(t) => Left /\ worker'.snap = rows'[t]
  BY <1>1, <1>4, <1>5 DEF WorkerRecord
<1>7. Current(t, job)'
  BY <1>1, <1>2, <1>4 DEF Current
<1> QED BY <1>1, <1>2, <1>4, <1>6, <1>7, QueuedKeeps

LEMMA ConfirmUp == ASSUME Ample, NInv, life = "up", NEW t \in Tasks, Confirm(t) PROVE UpOK'
<1> DEFINE cur == [rows[t] EXCEPT !.status = "queued_send"]
<1>1. /\ rows[t].status = "awaiting_confirmation" /\ submitting = None /\ submitting' = None
      /\ attempts[t] # None
  BY DEF Confirm, AccountFree
<1>2. /\ rows[t] \in Row /\ JobsIn(queue, t) = {}
      /\ At(t) => Left
      /\ attempts[t] \in BindingType
  <2>1. JobsIn(queue, t) = {}
    BY <1>1, TaskFacts DEF Good
  <2>2. At(t) => Left
    BY <1>1, TaskFacts DEF Good
  <2>3. rows[t] \in Row /\ attempts[t] \in BindingType
    BY <1>1 DEF NInv, IInv, TypeOK, OrNone
  <2> QED BY <2>1, <2>2, <2>3
<1>3. cur \in Row /\ cur.status = "queued_send"
  <2>1. rows[t] \in Row
    BY <1>2
  <2> QED BY <2>1, StatusNames DEF Row
<1>4. PICK new \in Row : new = Saved(cur) /\ new.status = "queued_send"
  <2> HIDE DEF cur
  <2> QED BY <1>3, SavedFacts
<1>5. [rows EXCEPT ![t] = Saved([@ EXCEPT !.status = "queued_send"])]
        = [rows EXCEPT ![t] = Saved(cur)]
  BY DEF NInv, IInv, TypeOK
<1>6. /\ Enqueue([rows EXCEPT ![t] = new], attempts, t, TRUE)
      /\ worker' = Snapped([rows EXCEPT ![t] = new], t)
  BY <1>4, <1>5 DEF Confirm
<1>7. attempts \in [Tasks -> OrNone(BindingType)]
  BY DEF NInv, IInv, TypeOK
<1>8. PICK b \in BindingType : b = attempts[t]
  BY <1>2
<1>9. PICK send \in BOOLEAN : send = TRUE
  OBVIOUS
<1> HIDE DEF cur
<1> QED BY <1>1, <1>2, <1>4, <1>6, <1>7, <1>8, <1>9, EnqueueUp

LEMMA RetryUp == ASSUME Ample, NInv, life = "up", NEW t \in Tasks, Retry(t) PROVE UpOK'
<1> DEFINE new == Retried(rows[t])
           R == [rows EXCEPT ![t] = Retried(@)]
           b == [tok |-> token, attempt |-> R[t].attempt]
           A == [attempts EXCEPT ![t] = b]
<1>1. /\ rows[t].status = "failed" /\ submitting = None /\ submitting' = None
      /\ worker' = worker /\ Enqueue(R, A, t, FALSE)
  BY DEF Retry, AccountFree
<1>2. /\ rows[t] \in Row /\ ~At(t) /\ JobsIn(queue, t) = {}
  <2>1. JobsIn(queue, t) = {}
    BY <1>1, TaskFacts DEF Good
  <2> QED BY <1>1, <2>1, TaskFacts
<1>3. new \in Row /\ new.status = "queued"
  BY <1>2, RetriedFacts
<1>4. R = [rows EXCEPT ![t] = new] /\ R[t] = new
  BY DEF NInv, IInv, TypeOK
<1>5. b \in BindingType /\ A \in [Tasks -> OrNone(BindingType)] /\ A[t] = b
      /\ \A u \in Tasks \ {t} : A[u] = attempts[u]
  <2>1. token \in (0..MaxEpoch) \X (0..MaxWindow) /\ R[t].attempt \in Nat
    BY <1>3, <1>4, TokenType DEF NInv, Row
  <2> QED BY <2>1 DEF BindingType, NInv, IInv, TypeOK, OrNone
<1>6. worker' = Snapped([rows EXCEPT ![t] = new], t)
  BY <1>1, <1>2, ServiceAssumption DEF Snapped, Active, At
<1> HIDE DEF R, A, b, new
<1>7. Enqueue([rows EXCEPT ![t] = new], A, t, FALSE)
  BY <1>1, <1>4
<1> QED BY <1>1, <1>2, <1>3, <1>5, <1>6, <1>7, EnqueueUp

LEMMA CancelUp == ASSUME NInv, life = "up", NEW t \in Tasks, Cancel(t) PROVE UpOK'
<1> DEFINE cur == [rows[t] EXCEPT !.status = "cancelled"]
<1>1. /\ UNCHANGED <<queue, worker, pending, submitting>>
      /\ \A u \in Tasks \ {t} : rows'[u] = rows[u] /\ attempts'[u] = attempts[u]
      /\ rows'[t] = Saved(cur) /\ rows[t] \in Row
      /\ rows[t].status \in {"queued", "awaiting_confirmation", "queued_send"}
  BY DEF Cancel, NInv, IInv, TypeOK
<1>2. cur \in Row /\ cur.status = "cancelled"
  BY <1>1, StatusNames DEF Row
<1> HIDE DEF cur
<1>3. rows'[t].status = "cancelled"
  BY <1>1, <1>2, SavedFacts
<1>4. Good(t)'
  <2>1. Good(t)
    BY TaskFacts
  <2>2. At(t)' => At(t) /\ (Left <=> Left')
    BY <1>1 DEF At, Left
  <2>3. At(t)' => Left' \/ JobsIn(queue', t) = {}
    <3>1. rows[t].status = "awaiting_confirmation" \/ Left \/ ~At(t) \/ JobsIn(queue, t) = {}
      BY <2>1 DEF Good
    <3>2. rows[t].status = "awaiting_confirmation" => JobsIn(queue, t) = {}
      BY TaskFacts DEF Good
    <3> QED BY <1>1, <2>2, <3>1, <3>2
  <2>4. Served(t)'
    BY <1>3 DEF Served, GUI_RISK
  <2> QED BY <1>3, <2>3, <2>4 DEF Good
<1>5. \A u \in Tasks \ {t} : Apart(u) /\ Flushed(u, rows[u], pending[u], None)
  BY <1>1 DEF Apart, Flushed
<1>6. OneEach(queue')
  BY <1>1 DEF NInv, UpOK
<1> QED BY <1>1, <1>4, <1>5, <1>6, OneTaskKeeps

\* The row of a submitted task is as it was created unless the user has cancelled.
LEMMA SubmitBindUp == ASSUME NInv, life = "up", SubmitBind PROVE UpOK'
<1>0. PICK t \in Tasks : t = submitting
  BY DEF SubmitBind, NInv, IInv, TypeOK, OrNone
<1> DEFINE first == [attempt |-> 1, version |-> 1]
           bind == [tok |-> token, attempt |-> 1]
           bound == [attempts EXCEPT ![t] = bind]
<1>1. /\ rows[t] \in Row /\ Unknown(t) /\ rows[t].status # "absent"
      /\ rows[t].status = "cancelled" \/ (/\ rows[t].version = 1 /\ rows[t].attempt = 1
                                          /\ rows[t].status = "queued")
      /\ JobsIn(queue, t) = {} /\ ~At(t) /\ t # Active
  <2>1. /\ rows[t] \in Row /\ Unknown(t) /\ rows[t].status # "absent"
        /\ rows[t].status = "cancelled" \/ rows[t].version = 1
        /\ RowOK(rows[t], approved[t])
    BY <1>0, TaskFacts DEF Good
  <2>2. JobsIn(queue, t) = {} /\ ~At(t)
    BY <2>1 DEF Unknown, JobsIn, At
  <2>3. t # Active
    BY <2>2, ServiceAssumption DEF Active, At
  <2> QED BY <2>1, <2>2, <2>3 DEF RowOK
<1>2. /\ submitting' = None /\ worker' = worker /\ OneEach(queue) /\ queue \in Seq(JobType)
      /\ rows \in [Tasks -> Row] /\ attempts \in [Tasks -> OrNone(BindingType)]
      /\ pending \in [Tasks -> OrNone(PendingType)] /\ faults \in 0..MaxFault
  BY DEF SubmitBind, NInv, UpOK, IInv, TypeOK, PendingType
<1>3. bind \in BindingType /\ bound[t] = bind /\ bound \in [Tasks -> OrNone(BindingType)]
      /\ \A u \in Tasks \ {t} : bound[u] = attempts[u]
  <2>1. token \in (0..MaxEpoch) \X (0..MaxWindow)
    BY TokenType DEF NInv
  <2> QED BY <1>2, <2>1 DEF BindingType, OrNone
<1>4. \/ /\ queue' = Append(queue, [task |-> t, version |-> 1, bind |-> bind, send |-> FALSE])
         /\ attempts' = bound
         /\ UNCHANGED <<rows, pending>>
      \/ /\ queue' = queue
         /\ \E A \in {bound, attempts} : FailIfCurrent(rows, A, t, first, Active)
  BY <1>0, <1>3 DEF SubmitBind
<1> HIDE DEF bound
<1>5. ASSUME queue' = Append(queue, [task |-> t, version |-> 1, bind |-> bind, send |-> FALSE]),
             attempts' = bound, UNCHANGED <<rows, pending>>
      PROVE  UpOK'
  <2>1. PICK job \in JobType : /\ job = [task |-> t, version |-> 1, bind |-> bind, send |-> FALSE]
                               /\ job.task = t /\ job.version = 1 /\ job.bind = bind
    <3> DEFINE job == [task |-> t, version |-> 1, bind |-> bind, send |-> FALSE]
    <3> HIDE DEF bind
    <3>1. job \in JobType /\ job.task = t /\ job.version = 1 /\ job.bind = bind
      BY <1>3 DEF JobType
    <3> HIDE DEF job
    <3>2. job = [task |-> t, version |-> 1, bind |-> bind, send |-> FALSE]
      BY DEF job
    <3> QED BY <3>1, <3>2
  <2>2. rows'[t].status = "cancelled" \/ Current(t, job)'
    BY <1>1, <1>3, <1>5, <2>1 DEF Current
  <2>3. \A u \in Tasks \ {t} : rows'[u] = rows[u] /\ attempts'[u] = attempts[u]
    BY <1>3, <1>5
  <2> HIDE DEF bind
  <2> QED BY <1>0, <1>1, <1>2, <1>5, <2>1, <2>2, <2>3, QueuedKeeps
<1>6. ASSUME queue' = queue, NEW A \in {bound, attempts}, FailIfCurrent(rows, A, t, first, Active)
      PROVE  UpOK'
  <2>1. /\ A \in [Tasks -> OrNone(BindingType)]
        /\ \A u \in Tasks \ {t} : A[u] = attempts[u]
    BY <1>2, <1>3
  <2>2. first.attempt = 1 /\ first.version = 1 /\ first \in PendingType
    BY DEF PendingType
  <2>3. Refused(rows, A, t, first, Active)
    <3> HIDE DEF first
    <3> QED BY <1>2, <1>6, <2>1, <2>2, FailIfCurrentFacts
  <2>4. Flushed(t, rows[t], first, Active)
    BY <1>1, <1>2, <1>6, NewestFlushed DEF Unknown
  <2>5. Good(t)'
    <3>1. JobsIn(queue', t) = {} /\ ~At(t)' /\ submitting' # t
      BY <1>1, <1>2, <1>6, ServiceAssumption DEF At
    <3>2. Served(t)' \/ Waits(t)'
      <4>1. CASE rows'[t] = Settled(rows[t], TRUE)
        <5>1. rows'[t].status \in {"failed", "unknown"}
          BY <1>1, <4>1, SettledFacts
        <5> QED BY <5>1 DEF Served, GUI_RISK
      <4>2. CASE rows'[t] = rows[t] /\ rows[t].status = "cancelled"
        BY <4>2 DEF Served, GUI_RISK
      <4>3. CASE rows'[t] = rows[t] /\ rows[t].status = "queued"
        <5>1. Applies(rows[t], first)
          BY <1>1, <4>3 DEF Applies, COMPENSATABLE, NON_EXECUTING
        <5>2. rows'[t] = Settled(rows[t], TRUE) \/ pending'[t] = first
          BY <2>4, <5>1 DEF Flushed
        <5>3. CASE pending'[t] = first
          BY <2>2, <4>3, <5>1, <5>3, ServiceAssumption DEF Waits, PendingType
        <5> QED BY <4>1, <5>2, <5>3
      <4> QED BY <1>1, <2>4, <4>1, <4>2, <4>3 DEF Flushed
    <3> QED BY <3>1, <3>2 DEF Good
  <2>6. ASSUME NEW u \in Tasks \ {t}
        PROVE  Apart(u) /\ Flushed(u, rows[u], pending[u], Active)
    BY <1>0, <1>2, <1>6, <2>1, <2>3, ServiceAssumption DEF Refused, Apart
  <2> QED BY <1>2, <1>6, <2>5, <2>6, OneTaskKeeps
<1> QED BY <1>4, <1>5, <1>6

LEMMA StartUp == ASSUME Ample, NInv, life = "up", Start PROVE UpOK'
<1>1. /\ worker.pc = "idle" /\ queue # <<>> /\ queue' = Tail(queue) /\ submitting' = submitting
      /\ queue \in Seq(JobType) /\ OneEach(queue)
      /\ ~worker.failed
  BY DEF Start, envOfWorker, NInv, UpOK, IInv, TypeOK, WorkerType, WorkerRecord
<1>2. PICK job \in JobType : /\ job = Head(queue) /\ job \in JobsIn(queue, job.task)
                             /\ OneEach(queue') /\ JobsIn(queue', job.task) = {}
                             /\ \A u \in Tasks \ {job.task} : JobsIn(queue', u) = JobsIn(queue, u)
  BY <1>1, TailJobs
<1>3. PICK t \in Tasks : t = job.task
  BY DEF JobType
<1>4. /\ UNCHANGED <<rows, attempts, pending>>
      /\ worker' = (IF rows[t].version = job.version /\ attempts[t] = job.bind
                    THEN [Idle EXCEPT !.job = job, !.snap = rows[t],
                            !.pc = IF job.send /\ rows[t].action = "send" THEN "baseline" ELSE "guard"]
                    ELSE worker)
  BY <1>2, <1>3 DEF Start, Ample, Accepting
<1>5. /\ Good(t) /\ submitting # t /\ job \in JobsIn(queue, t)
      /\ Current(t, job) => rows[t].status \in {"queued", "queued_send"}
  BY <1>2, <1>3, TaskFacts
<1>6. \A u \in Tasks : ~At(u)
  BY <1>1 DEF At
<1>7. ASSUME Current(t, job)
      PROVE  Good(t)' /\ ~worker'.failed /\ \A u \in Tasks \ {t} : ~At(u)'
  <2>1. /\ worker'.job = job /\ worker'.snap = rows[t] /\ ~worker'.failed
        /\ worker'.pc \in {"baseline", "guard"}
    BY <1>4, <1>7 DEF Idle, Current
  <2>2. At(t)' /\ ~Left' /\ \A u \in Tasks \ {t} : ~At(u)'
    BY <1>3, <2>1 DEF At, Left
  <2> QED BY <1>1, <1>2, <1>3, <1>4, <1>5, <1>7, <2>1, <2>2 DEF Good, Current
<1>8. ASSUME ~Current(t, job)
      PROVE  Good(t)' /\ worker' = worker
  <2>1. rows[t].status = "cancelled" /\ worker' = worker
    BY <1>4, <1>5, <1>8 DEF Good, Current
  <2> QED BY <1>1, <1>2, <1>3, <1>4, <1>6, <2>1 DEF Good, Served, At, GUI_RISK
<1>9. ASSUME NEW u \in Tasks \ {t}
      PROVE  Apart(u) /\ Flushed(u, rows[u], pending[u], None)
  <2>1. worker' = worker \/ ~(At(u) \/ At(u)')
    BY <1>6, <1>7, <1>8
  <2> QED BY <1>1, <1>2, <1>3, <1>4, <2>1 DEF Apart, Flushed
<1>10. Good(t)' /\ (worker' = worker \/ ~worker'.failed)
  BY <1>7, <1>8
<1> QED BY <1>2, <1>9, <1>10, OneTaskKeeps

\* The worker goes on with its task, whose row, snapshot and authorization stay.
OnlyWorker == UNCHANGED <<rows, attempts, queue, pending, submitting>>

LEMMA WorkerGoesOn ==
  ASSUME NInv, life = "up", worker.pc \notin {"idle", "finish"}, OnlyWorker,
         worker'.pc # "idle", worker'.job = worker.job, worker'.snap = worker.snap,
         worker'.pc = "finish" <=> worker'.failed
  PROVE  UpOK'
<1>1. PICK t \in Tasks : t = worker.job.task
  BY DEF NInv, IInv, WorkerType, JobType
<1>2. At(t) /\ At(t)' /\ ~Left /\ ~Left' /\ \A u \in Tasks \ {t} : ~At(u) /\ ~At(u)'
  BY <1>1 DEF At, Left
<1>3. /\ JobsIn(queue, t) = {} /\ rows[t].status # "awaiting_confirmation" /\ submitting # t
      /\ rows[t].status = "cancelled" \/ (worker.snap = rows[t] /\ attempts[t] = worker.job.bind)
  BY <1>2, TaskFacts DEF Good
<1>4. Good(t)'
  BY <1>2, <1>3 DEF Good, OnlyWorker
<1>5. \A u \in Tasks \ {t} : Apart(u) /\ Flushed(u, rows[u], pending[u], None)
  BY <1>2 DEF Apart, Flushed, OnlyWorker
<1>6. OneEach(queue')
  BY DEF NInv, UpOK, OnlyWorker
<1> QED BY <1>4, <1>5, <1>6, OneTaskKeeps

\* The worker has written its task's row as new.
LEMMA WorkerWrote ==
  ASSUME NInv, life = "up", worker.pc \notin {"idle", "finish"}, NEW t, t = worker.job.task,
         UNCHANGED <<attempts, queue, pending, submitting>>,
         rows[t].status # "cancelled", NEW new, rows' = [rows EXCEPT ![t] = new],
         worker'.pc # "idle", worker'.job = worker.job, worker'.snap = new, ~worker'.failed,
         IF worker'.pc = "finish" THEN new.status \notin GUI_RISK \cup {"queued", "queued_send"}
                                  ELSE new.status # "awaiting_confirmation"
  PROVE  UpOK'
<1>1. t \in Tasks /\ rows'[t] = new /\ \A u \in Tasks \ {t} : rows'[u] = rows[u]
  BY DEF NInv, IInv, TypeOK, WorkerType, JobType
<1>2. At(t) /\ At(t)' /\ ~Left /\ \A u \in Tasks \ {t} : ~At(u) /\ ~At(u)'
  BY <1>1 DEF At, Left
<1>3. JobsIn(queue, t) = {} /\ attempts[t] = worker.job.bind /\ submitting # t
      /\ worker.job \in JobType
  BY <1>1, <1>2, TaskFacts DEF Good
<1>4. attempts'[t] # None
  BY <1>3, ServiceAssumption DEF JobType
<1>5. Good(t)'
  <2>1. CASE worker'.pc = "finish"
    <3>1. Left' /\ Served(t)'
      BY <1>1, <1>4, <2>1 DEF Left, Served
    <3> QED BY <1>1, <1>3, <3>1 DEF Good
  <2>2. CASE worker'.pc # "finish"
    <3>1. ~Left'
      BY <2>2 DEF Left
    <3> QED BY <1>1, <1>2, <1>3, <2>2, <3>1 DEF Good
  <2> QED BY <2>1, <2>2
<1>6. \A u \in Tasks \ {t} : Apart(u) /\ Flushed(u, rows[u], pending[u], None)
  BY <1>1, <1>2 DEF Apart, Flushed
<1>7. OneEach(queue')
  BY DEF NInv, UpOK
<1> QED BY <1>1, <1>5, <1>6, <1>7, OneTaskKeeps

LEMMA FailsUp ==
  ASSUME NInv, life = "up", worker.pc \notin {"idle", "finish"}, OnlyWorker, Fails(worker)
  PROVE  UpOK'
<1>1. worker \in WorkerRecord
  BY DEF NInv, IInv, WorkerType
<1>2. /\ worker'.pc = "finish" /\ worker'.failed
      /\ worker'.job = worker.job /\ worker'.snap = worker.snap
  BY <1>1 DEF Fails, WorkerRecord
<1> QED BY <1>2, WorkerGoesOn

\* The steps that only call out.
LEMMA CallsOutUp ==
  ASSUME NInv, life = "up",
         ReadBaseline \/ Navigate \/ Capture \/ Input \/ Arm \/ Click \/ WaitSend
  PROVE  UpOK'
<1>1. /\ worker.pc \notin {"idle", "finish"} /\ OnlyWorker /\ worker \in WorkerRecord
      /\ ~worker.failed
  <2>1. worker.failed \in BOOLEAN
    BY DEF NInv, IInv, WorkerType, WorkerRecord
  <2> QED BY <2>1 DEF ReadBaseline, Navigate, Capture, Input, Arm, Click, WaitSend, OnlyWorker,
                      envOfWorker, NInv, IInv, UpOK, WorkerType
<1> DEFINE passes == /\ worker'.pc \notin {"idle", "finish"} /\ worker'.failed = worker.failed
                     /\ worker'.job = worker.job /\ worker'.snap = worker.snap
<1>2. CASE ReadBaseline
  <2>1. Fails(worker) \/ passes
    BY <1>1, <1>2 DEF ReadBaseline, WorkerRecord
  <2> QED BY <1>1, <2>1, FailsUp, WorkerGoesOn
<1>3. CASE Navigate \/ Capture
  <2>1. Fails(worker) \/ passes
    BY <1>1, <1>3 DEF Navigate, Capture, WorkerRecord
  <2> QED BY <1>1, <2>1, FailsUp, WorkerGoesOn
<1>4. CASE Input \/ Arm
  <2>1. Fails(worker) \/ passes
    BY <1>1, <1>4 DEF Input, Arm, WorkerRecord
  <2> QED BY <1>1, <2>1, FailsUp, WorkerGoesOn
<1>5. CASE Click \/ WaitSend
  <2>1. Fails(worker) \/ passes
    BY <1>1, <1>5 DEF Click, WaitSend, WorkerRecord
  <2> QED BY <1>1, <2>1, FailsUp, WorkerGoesOn
<1> QED BY <1>2, <1>3, <1>4, <1>5

LEMMA MoveRowUp ==
  ASSUME NInv, life = "up", worker.pc \in GuardedPcs, NEW new, NEW pc, MoveRow(new, pc),
         UNCHANGED <<attempts, queue, pending, submitting>>, pc # "idle",
         worker.rec.status # "cancelled", Saved(new).status = new.status,
         IF pc = "finish" THEN new.status \notin GUI_RISK \cup {"queued", "queued_send"}
                          ELSE new.status # "awaiting_confirmation"
  PROVE  UpOK'
<1>1. worker.pc \notin {"idle", "finish"} /\ worker \in WorkerRecord /\ ~worker.failed
  BY DEF GuardedPcs, NInv, IInv, UpOK, WorkerType, WorkerRecord
<1>2. CASE UNCHANGED rows /\ Fails(worker)
  BY <1>1, <1>2, FailsUp DEF OnlyWorker
<1>3. CASE /\ rows[worker.job.task].version = worker.rec.version
           /\ rows' = [rows EXCEPT ![worker.job.task] = Saved(new)]
           /\ worker' = [worker EXCEPT !.rec = Saved(new), !.snap = Saved(new), !.pc = pc]
  <2>1. rows[worker.job.task] = worker.rec
    BY <1>3 DEF NInv, IInv, RecordOK, Copy
  <2>2. /\ worker'.pc = pc /\ worker'.job = worker.job /\ worker'.snap = Saved(new)
        /\ ~worker'.failed
    BY <1>1, <1>3 DEF WorkerRecord
  <2> QED BY <1>1, <1>3, <2>1, <2>2, WorkerWrote
<1> QED BY <1>2, <1>3 DEF MoveRow

LEMMA EnterGuardUp == ASSUME NInv, life = "up", EnterGuard PROVE UpOK'
<1> DEFINE t == worker.job.task
           cur == [rows[t] EXCEPT !.status = "navigating"]
<1>1. /\ worker.pc = "guard" /\ worker \in WorkerRecord /\ ~worker.failed /\ worker.job \in JobType
      /\ UNCHANGED <<attempts, queue, pending, submitting>>
      /\ t \in Tasks /\ rows \in [Tasks -> Row]
  BY DEF EnterGuard, envOfWorker, NInv, IInv, UpOK, TypeOK, WorkerType, WorkerRecord, JobType
<1>2. CASE UNCHANGED rows /\ Fails(worker)
  BY <1>1, <1>2, FailsUp DEF OnlyWorker
<1>3. CASE UNCHANGED rows /\ worker' = [worker EXCEPT !.rec = rows[t], !.pc = "capture"]
  <2>1. /\ worker'.pc = "capture" /\ ~worker'.failed
        /\ worker'.job = worker.job /\ worker'.snap = worker.snap
    BY <1>1, <1>3 DEF WorkerRecord
  <2> QED BY <1>1, <1>3, <2>1, WorkerGoesOn DEF OnlyWorker
<1>4. CASE /\ rows[t].version = worker.job.version
           /\ rows' = [rows EXCEPT ![t] = Saved([@ EXCEPT !.status = "navigating"])]
           /\ worker' = [worker EXCEPT !.rec = rows[t], !.pc = "navigate", !.rec = rows'[t],
                                       !.snap = rows'[t]]
  <2>1. rows[t] \in Row /\ rows[t].status # "cancelled"
    BY <1>1, <1>4 DEF NInv, IInv, ActiveOK, Fits
  <2>2. cur \in Row /\ cur.status = "navigating"
    BY <2>1, StatusNames DEF Row
  <2>3. rows' = [rows EXCEPT ![t] = Saved(cur)] /\ rows'[t] = Saved(cur)
    BY <1>1, <1>4
  <2> HIDE DEF cur
  <2>4. PICK new : new = Saved(cur) /\ new.status = "navigating"
    BY <2>2, SavedFacts
  <2>5. worker'.pc = "navigate" /\ worker'.job = worker.job /\ worker'.snap = new
        /\ ~worker'.failed
    BY <1>1, <1>4, <2>3, <2>4 DEF WorkerRecord
  <2> QED BY <1>1, <2>1, <2>3, <2>4, <2>5, WorkerWrote
<1> QED BY <1>2, <1>3, <1>4 DEF EnterGuard

LEMMA DecideUp == ASSUME NInv, life = "up", Decide PROVE UpOK'
<1> DEFINE rec == worker.rec
           saved == [rec EXCEPT !.status = "awaiting_confirmation", !.shot = worker.frame]
           run == [rec EXCEPT !.status = "running", !.baseline = worker.base]
<1>1. /\ worker.pc = "decide" /\ worker.pc \in GuardedPcs /\ worker.pc \notin {"idle", "finish"}
      /\ UNCHANGED <<attempts, queue, pending, submitting>>
      /\ rec \in Row /\ worker.frame \in Shots \cup {NoShot}
      /\ worker.base \in Baselines \cup {NoBaseline}
  BY DEF Decide, envOfWorker, GuardedPcs, NInv, IInv, WorkerType, WorkerRecord
<1>2. rec.status # "cancelled"
  BY <1>1 DEF NInv, IInv, RecordOK
<1>3. /\ saved \in Row /\ saved.status = "awaiting_confirmation"
      /\ run \in Row /\ run.status = "running"
  BY <1>1, StatusNames DEF Row
<1>4. \/ Fails(worker) /\ UNCHANGED rows
      \/ MoveRow(saved, "finish")
      \/ MoveRow(run, "input")
  BY <1>1 DEF Decide
<1> HIDE DEF saved, run
<1>5. CASE Fails(worker) /\ UNCHANGED rows
  BY <1>1, <1>5, FailsUp DEF OnlyWorker
<1>6. CASE MoveRow(saved, "finish")
  <2>1. Saved(saved).status = saved.status
    BY <1>3, SavedFacts
  <2> QED BY <1>1, <1>2, <1>3, <1>6, <2>1, MoveRowUp DEF GUI_RISK
<1>7. CASE MoveRow(run, "input")
  <2>1. Saved(run).status = run.status
    BY <1>3, SavedFacts
  <2> QED BY <1>1, <1>2, <1>3, <1>7, <2>1, MoveRowUp
<1> QED BY <1>4, <1>5, <1>6, <1>7

LEMMA BarrierUp == ASSUME NInv, life = "up", Barrier PROVE UpOK'
<1> DEFINE rec == worker.rec
           filled == [rec EXCEPT !.status = "filled", !.shot = NoShot]
           marked == [rec EXCEPT !.mayHaveSent = TRUE]
<1>1. /\ worker.pc = "barrier" /\ worker.pc \in GuardedPcs /\ worker.pc \in InputPcs
      /\ worker.pc \notin {"idle", "finish"}
      /\ UNCHANGED <<attempts, queue, pending, submitting>> /\ rec \in Row
  BY DEF Barrier, envOfWorker, GuardedPcs, InputPcs, NInv, IInv, WorkerType
<1>2. rec.status = "running"
  BY <1>1 DEF NInv, IInv, InputOK
<1>3. /\ filled \in Row /\ filled.status = "filled"
      /\ marked \in Row /\ marked.status = "running"
  BY <1>1, <1>2, StatusNames DEF Row
<1>4. \/ Fails(worker) /\ UNCHANGED rows
      \/ MoveRow(filled, "finish")
      \/ MoveRow(marked, "armed")
  BY <1>1 DEF Barrier
<1> HIDE DEF filled, marked
<1>5. CASE Fails(worker) /\ UNCHANGED rows
  BY <1>1, <1>5, FailsUp DEF OnlyWorker
<1>6. CASE MoveRow(filled, "finish")
  <2>1. Saved(filled).status = filled.status
    BY <1>3, SavedFacts
  <2> QED BY <1>1, <1>2, <1>3, <1>6, <2>1, MoveRowUp DEF GUI_RISK
<1>7. CASE MoveRow(marked, "armed")
  <2>1. Saved(marked).status = marked.status
    BY <1>3, SavedFacts
  <2> QED BY <1>1, <1>2, <1>3, <1>7, <2>1, MoveRowUp
<1> QED BY <1>4, <1>5, <1>6, <1>7

LEMMA SettleUp == ASSUME NInv, life = "up", Settle PROVE UpOK'
<1> DEFINE rec == worker.rec
           judged == [rec EXCEPT !.status = "verifying", !.shot = NoShot]
<1>1. /\ worker.pc = "settle" /\ worker.pc \in GuardedPcs /\ worker.pc \in InputPcs
      /\ UNCHANGED <<attempts, queue, pending, submitting>> /\ rec \in Row
  BY DEF Settle, envOfWorker, GuardedPcs, InputPcs, NInv, IInv, WorkerType
<1>2. rec.status = "running"
  BY <1>1 DEF NInv, IInv, InputOK
<1>3. judged \in Row /\ judged.status = "verifying"
  BY <1>1, StatusNames DEF Row
<1>4. MoveRow(judged, "finish")
  BY DEF Settle
<1> HIDE DEF judged
<1>5. Saved(judged).status = judged.status
  BY <1>3, SavedFacts
<1> QED BY <1>1, <1>2, <1>3, <1>4, <1>5, MoveRowUp DEF GUI_RISK

\* A callback that has left leaves its task as it is; one that failed has its task failed.
LEMMA FinishUp == ASSUME NInv, life = "up", Finish PROVE UpOK'
<1>1. PICK t \in Tasks : t = worker.job.task
  BY DEF Finish, NInv, IInv, WorkerType, JobType
<1>2. /\ worker.pc = "finish" /\ worker' = Idle /\ queue' = queue /\ submitting' = submitting
      /\ At(t) /\ \A u \in Tasks : ~At(u)' /\ (u # t => ~At(u))
      /\ worker'.pc = "idle" /\ ~worker'.failed
  BY <1>1 DEF Finish, envOfWorker, At, Idle
<1>3. /\ rows \in [Tasks -> Row] /\ attempts \in [Tasks -> OrNone(BindingType)]
      /\ pending \in [Tasks -> OrNone(PendingType)] /\ faults \in 0..MaxFault
      /\ OneEach(queue')
  BY <1>2 DEF NInv, UpOK, IInv, TypeOK, PendingType
<1>4. /\ Good(t) /\ submitting # t /\ worker.snap \in Row /\ rows[t] \in Row
      /\ worker.job.bind.attempt = rows[t].attempt
      /\ \A job \in JobsIn(queue, t) :
           Current(t, job) => rows[t].status \in {"queued", "queued_send"}
  BY <1>2, TaskFacts
<1>5. CASE worker.failed
  <2>1. FailIfCurrent(rows, attempts, t, worker.snap, None)
    BY <1>1, <1>5 DEF Finish
  <2>2. worker.snap.attempt \in Nat /\ worker.snap.version \in Nat /\ t # None
    BY <1>4, ServiceAssumption DEF Row
  <2>3. Refused(rows, attempts, t, worker.snap, None)
    BY <1>3, <2>1, <2>2, FailIfCurrentFacts
  <2>4. JobsIn(queue, t) = {}
    BY <1>2, <1>4, <1>5 DEF Good, Left
  <2>5. Served(t)' \/ Waits(t)'
    <3>1. CASE rows'[t] = Settled(rows[t], TRUE)
      <4>1. rows'[t].status \in {"failed", "unknown"}
        BY <1>4, <3>1, SettledFacts
      <4> QED BY <4>1 DEF Served, GUI_RISK
    <3>2. CASE rows'[t] = rows[t] /\ rows[t].status \notin COMPENSATABLE
      BY <3>2 DEF Served, GUI_RISK, COMPENSATABLE, NON_EXECUTING
    <3>3. CASE rows'[t] = rows[t] /\ rows[t].status \in COMPENSATABLE
      <4> DEFINE p == [attempt |-> rows[t].attempt, version |-> rows[t].version]
      <4>1. worker.snap = rows[t]
        BY <1>2, <1>4, <3>3 DEF Good, COMPENSATABLE, NON_EXECUTING, GUI_RISK
      <4>2. Deferred(t)
        BY DEF NInv, IInv, PendingOK
      <4>3. pending[t] = None \/ Newer(rows[t], pending[t])
        <5>1. pending[t] # None => pending[t].attempt \in Nat /\ pending[t].version \in Nat
          BY <1>3 DEF OrNone, PendingType
        <5> QED BY <1>4, <4>2, <5>1 DEF Deferred, Newer, Row
      <4>4. Flushed(t, rows[t], p, None)
        BY <1>3, <2>1, <2>2, <4>1, <4>3, NewestFlushed
      <4>5. Applies(rows[t], p) /\ p \in PendingType
        BY <1>4, <3>3 DEF Applies, PendingType, Row
      <4> HIDE DEF p
      <4>6. rows'[t] = Settled(rows[t], TRUE) \/ pending'[t] = p
        BY <4>4, <4>5 DEF Flushed
      <4>7. CASE pending'[t] = p
        BY <3>3, <4>5, <4>7, ServiceAssumption DEF Waits, PendingType
      <4> QED BY <3>1, <4>6, <4>7
    <3> QED BY <2>3, <3>1, <3>2, <3>3 DEF Refused, Flushed
  <2>6. Good(t)'
    BY <1>2, <1>4, <2>4, <2>5 DEF Good
  <2>7. \A u \in Tasks \ {t} : Apart(u) /\ Flushed(u, rows[u], pending[u], None)
    BY <1>2, <2>3 DEF Refused, Apart
  <2> QED BY <1>2, <1>3, <2>6, <2>7, OneTaskKeeps
<1>6. CASE ~worker.failed
  <2>1. /\ UNCHANGED <<rows, pending>>
        /\ \A u \in Tasks \ {t} : attempts'[u] = attempts[u]
        /\ \/ attempts' = attempts
           \/ /\ worker.snap.status \notin {"queued", "awaiting_confirmation", "queued_send"}
    BY <1>1, <1>3, <1>6 DEF Finish
  <2>2. Left
    BY <1>2, <1>6 DEF Left
  <2>3. rows[t].status = "cancelled" \/ worker.snap = rows[t]
    BY <1>2, <1>4 DEF Good
  <2>4. CASE rows[t].status = "cancelled"
    <3>1. Good(t)'
      BY <1>2, <1>4, <2>1, <2>4 DEF Good, Served, GUI_RISK
    <3>2. \A u \in Tasks \ {t} : Apart(u) /\ Flushed(u, rows[u], pending[u], None)
      BY <1>2, <2>1 DEF Apart, Flushed
    <3> QED BY <1>2, <1>3, <3>1, <3>2, OneTaskKeeps
  <2>5. CASE attempts' = attempts
    <3>1. Good(t)'
      BY <1>2, <1>4, <2>1, <2>2, <2>5 DEF Good, Served, Current, Waits, Applies
    <3>2. \A u \in Tasks \ {t} : Apart(u) /\ Flushed(u, rows[u], pending[u], None)
      BY <1>2, <2>1 DEF Apart, Flushed
    <3> QED BY <1>2, <1>3, <3>1, <3>2, OneTaskKeeps
  <2>6. CASE rows[t].status \notin {"cancelled", "queued", "awaiting_confirmation", "queued_send"}
    <3>1. JobsIn(queue, t) = {}
      BY <1>4, <2>6 DEF Good
    <3>2. Served(t)' \/ Waits(t)'
      BY <1>4, <2>1, <2>2, <2>6 DEF Good, Served, Waits, Applies
    <3>3. Good(t)'
      BY <1>2, <1>4, <2>1, <3>1, <3>2 DEF Good
    <3>4. \A u \in Tasks \ {t} : Apart(u) /\ Flushed(u, rows[u], pending[u], None)
      BY <1>2, <2>1 DEF Apart, Flushed
    <3> QED BY <1>2, <1>3, <3>3, <3>4, OneTaskKeeps
  <2> QED BY <2>1, <2>3, <2>4, <2>5, <2>6
<1> QED BY <1>5, <1>6

LEMMA ScanUp == ASSUME NInv, life = "up", Scan PROVE UpOK'
<1>1. /\ FlushAfter(faults, rows, pending, Active) /\ faults \in Nat
      /\ UNCHANGED <<attempts, worker, queue, submitting>>
      /\ rows \in [Tasks -> Row] /\ pending \in [Tasks -> OrNone(PendingType)]
  BY ServiceAssumption DEF Scan, Flush, envOfVerifier, NInv, IInv, TypeOK, PendingType
<1>2. \A u \in Tasks : Flushed(u, rows[u], pending[u], Active)
  BY <1>1, FlushFacts
<1>3. \A u \in Tasks : Apart(u)
  BY <1>1 DEF Apart
<1>4. \A u \in Tasks : Good(u)'
  BY <1>2, <1>3, ApartKeeps
<1> QED BY <1>1, <1>4 DEF NInv, UpOK

\* A verdict is about tasks that have no job and wait for nothing else.
LEMMA ApplyUp ==
  ASSUME NInv, life = "up", NEW verdict, Apply(verdict)
  PROVE  UpOK'
<1> DEFINE seenRow(t) == [rows[t] EXCEPT !.status = "observed", !.evidence = TRUE,
                                         !.matched = verdict[t]]
           doubtRow(t) == [rows[t] EXCEPT !.status = "unknown", !.evidence = TRUE]
<1>1. /\ UNCHANGED <<attempts, pending, queue, submitting>> /\ rows \in [Tasks -> Row]
      /\ OneEach(queue')
  BY DEF Apply, envOfVerifier, NInv, UpOK, IInv, TypeOK
<1>2. CASE UNCHANGED <<rows, worker>>
  BY <1>1, <1>2, NothingMovesUp
<1>3. CASE /\ rows' = [t \in Tasks |->
                CASE t \in Verifiable /\ verdict[t] \in Messages -> Saved(seenRow(t))
                  [] t \in Verifiable /\ verdict[t] = "unknown" /\ rows[t].status = "verifying" ->
                       Saved(doubtRow(t))
                  [] OTHER -> rows[t]]
           /\ worker' = IF Active # None /\ rows'[Active] # rows[Active]
                        THEN [worker EXCEPT !.snap = rows'[Active]] ELSE worker
  <2>1. ASSUME NEW t \in Tasks
        PROVE  /\ verdict[t] \in Messages => seenRow(t) \in Row /\ seenRow(t).status = "observed"
               /\ doubtRow(t) \in Row /\ doubtRow(t).status = "unknown"
    <3>1. rows[t] \in Row
      BY <1>1
    <3> QED BY <3>1, StatusNames DEF Row
  <2> HIDE DEF seenRow, doubtRow
  <2>2. \A t \in Tasks : \/ rows'[t] = rows[t]
                         \/ t \in Verifiable /\ verdict[t] \in Messages /\ rows'[t] = Saved(seenRow(t))
                         \/ t \in Verifiable /\ rows'[t] = Saved(doubtRow(t))
    BY <1>3
  <2>3. ASSUME NEW t \in Tasks
        PROVE  \/ rows'[t] = rows[t]
               \/ /\ rows[t].status \in {"verifying", "unknown"}
                  /\ rows'[t].status \in {"observed", "unknown"}
    <3>1. t \in Verifiable => rows[t].status \in {"verifying", "unknown"}
      BY DEF Verifiable
    <3>2. CASE t \in Verifiable /\ verdict[t] \in Messages /\ rows'[t] = Saved(seenRow(t))
      <4>1. seenRow(t) \in Row /\ seenRow(t).status \in {"observed", "unknown"}
        BY <2>1, <3>2
      <4>2. Saved(seenRow(t)).status = seenRow(t).status
        BY <4>1, SavedFacts
      <4> QED BY <3>1, <3>2, <4>1, <4>2
    <3>3. CASE t \in Verifiable /\ rows'[t] = Saved(doubtRow(t))
      <4>1. doubtRow(t) \in Row /\ doubtRow(t).status \in {"observed", "unknown"}
        BY <2>1, <3>3
      <4>2. Saved(doubtRow(t)).status = doubtRow(t).status
        BY <4>1, SavedFacts
      <4> QED BY <3>1, <3>3, <4>1, <4>2
    <3> QED BY <2>2, <3>1, <3>2, <3>3
  <2>4. /\ worker \in WorkerRecord
        /\ worker.pc # "idle" => worker.job.task \in Tasks
    BY DEF NInv, IInv, WorkerType, JobType
  <2>5. /\ worker' = worker \/ (/\ worker.pc # "idle" /\ rows'[worker.job.task] # rows[worker.job.task]
                                /\ worker' = [worker EXCEPT !.snap = rows'[worker.job.task]])
        /\ worker.pc # "idle" /\ rows'[worker.job.task] # rows[worker.job.task] =>
             worker' = [worker EXCEPT !.snap = rows'[worker.job.task]]
    BY <1>3, <2>4, ServiceAssumption DEF Active
  <2>6. worker'.pc = worker.pc /\ worker'.job = worker.job /\ worker'.failed = worker.failed
    BY <2>5, <2>4 DEF WorkerRecord
  <2>7. ASSUME NEW u \in Tasks, rows'[u] = rows[u]
        PROVE  Good(u)'
    <3>1. Apart(u)
      BY <1>1, <2>5, <2>6, <2>7 DEF Apart, At
    <3>2. Flushed(u, rows[u], pending[u], None)
      BY <1>1, <2>7 DEF Flushed
    <3> QED BY <3>1, <3>2, ApartKeeps
  <2>8. ASSUME NEW u \in Tasks, rows'[u] # rows[u],
               rows[u].status \in {"verifying", "unknown"}, rows'[u].status \in {"observed", "unknown"}
        PROVE  Good(u)'
    <3>1. /\ JobsIn(queue', u) = {} /\ Good(u) /\ Served(u)' /\ submitting # u
      <4>1. Good(u) /\ rows[u].status \notin {"cancelled", "queued", "queued_send"}
            /\ rows[u].version # 1
        <5>1. Good(u) /\ RowOK(rows[u], approved[u])
          BY TaskFacts
        <5> QED BY <2>8, <5>1 DEF RowOK
      <4>2. JobsIn(queue, u) = {}
        BY <4>1, TaskFacts DEF Good
      <4>3. Served(u)'
        BY <2>8 DEF Served, GUI_RISK
      <4>4. submitting # u
        BY <4>1 DEF Good
      <4> QED BY <1>1, <4>1, <4>2, <4>3, <4>4
    <3>2. At(u)' => At(u) /\ worker'.snap = rows'[u] /\ (Left <=> Left')
      BY <2>5, <2>6, <2>8, <2>4 DEF At, Left, WorkerRecord
    <3> QED BY <1>1, <2>6, <2>8, <3>1, <3>2 DEF Good
  <2>9. worker'.failed => worker'.pc = "finish"
    BY <2>6 DEF NInv, UpOK
  <2> QED BY <1>1, <2>3, <2>7, <2>8, <2>9 DEF UpOK
<1> QED BY <1>2, <1>3 DEF Apply

LEMMA BootUp == ASSUME NInv, Boot PROVE UpOK'
<1>1. /\ life = "down" /\ UNCHANGED <<attempts, queue, worker, pending, submitting>>
      /\ worker.pc = "idle" /\ submitting = None /\ queue = <<>>
      /\ rows' = [t \in Tasks |-> IF rows[t].status \in PENDING THEN Recovered(rows[t]) ELSE rows[t]]
      /\ rows \in [Tasks -> Row] /\ ~worker.failed
  BY DEF Boot, NInv, IInv, LifeOK, TypeOK, Idle
<1>2. ASSUME NEW t \in Tasks
      PROVE  Good(t)'
  <2>1. JobsIn(queue', t) = {} /\ ~At(t)' /\ submitting' # t
    BY <1>1, ServiceAssumption DEF JobsIn, At
  <2>2. rows'[t].status \notin PENDING
    <3>1. CASE rows[t].status \in PENDING
      <4>1. rows'[t].status \in {"unknown", "failed"}
        BY <1>1, <3>1, RecoveredFacts
      <4> QED BY <4>1 DEF PENDING, NON_EXECUTING, EXECUTING, GUI_RISK
    <3>2. CASE rows[t].status \notin PENDING
      BY <1>1, <3>2
    <3> QED BY <3>1, <3>2
  <2>3. Served(t)'
    BY <2>2 DEF Served, PENDING, NON_EXECUTING, EXECUTING, GUI_RISK
  <2> QED BY <2>1, <2>3 DEF Good
<1>3. OneEach(queue')
  BY <1>1 DEF OneEach
<1> QED BY <1>1, <1>2, <1>3 DEF UpOK

LEMMA NInit == Init => NInv
<1> SUFFICES ASSUME Init
             PROVE  NInv
  OBVIOUS
<1>1. IInv
  BY InitInvariant
<1>2. ASSUME NEW t \in Tasks
      PROVE  Good(t)
  <2>1. /\ rows[t].status = "absent" /\ JobsIn(queue, t) = {} /\ ~At(t) /\ submitting # t
    BY ServiceAssumption DEF Init, NoRow, JobsIn, At, Idle
  <2> QED BY <2>1 DEF Good, Served, GUI_RISK
<1>3. OneEach(queue) /\ ~worker.failed /\ life = "up"
  BY DEF Init, OneEach, Idle
<1> QED BY <1>1, <1>2, <1>3 DEF NInv, UpOK

\* While the process is down nothing is queued and no worker runs.
LEMMA DownKeeps ==
  ASSUME NInv, [Next]_vars, life' = "down"
  PROVE  queue' = <<>> /\ worker' = Idle
<1>1. CASE Exit
  BY <1>1 DEF Exit
<1>2. CASE life = "down"
  <2>1. /\ queue = <<>> /\ worker = Idle /\ worker.pc = "idle" /\ submitting = None
        /\ Active = None
    BY <1>2 DEF NInv, IInv, LifeOK, Idle, Active
  <2>2. ~Calls
    BY <1>2, <2>1 DEF Calls, Submit, Look, Confirm, Cancel, Retry, SubmitBind, Accepting
  <2>3. ~WorkerStep
    BY <2>1 DEF WorkerStep, Start, ReadBaseline, EnterGuard, Navigate, Capture, Decide, Input,
                Barrier, Arm, Click, WaitSend, Settle, Finish
  <2>4. ~Scan /\ ~StopFlag /\ ~StopDrain /\ ~StopFinish
    BY <1>2 DEF Scan, StopFlag, StopDrain, StopFinish, Accepting
  <2>5. CASE Reconcile \/ Boot \/ SwitchAccount \/ WindowChanges \/ ScreenChanges \/ UNCHANGED vars
    BY <2>1, <2>5 DEF Reconcile, Apply, envOfVerifier, Boot, SwitchAccount, WindowChanges,
                      ScreenChanges, vars
  <2> QED BY <1>1, <2>2, <2>3, <2>4, <2>5 DEF Next
<1>3. CASE life # "down" /\ ~Exit
  <2>1. ~Calls /\ ~WorkerStep
    BY <1>3 DEF Calls, Submit, Look, Confirm, Cancel, Retry, SubmitBind, WorkerStep, Start,
                ReadBaseline, EnterGuard, Navigate, Capture, Decide, Input, Barrier, Arm, Click,
                WaitSend, Settle, Finish, envOfWorker
  <2>2. ~Scan /\ ~Reconcile
    BY <1>3 DEF Scan, Reconcile, Apply, envOfVerifier
  <2> QED BY <1>3, <2>1, <2>2 DEF Next, StopFlag, StopDrain, StopFinish, Boot, SwitchAccount,
                                  WindowChanges, ScreenChanges, vars
<1> QED BY <1>1, <1>2, <1>3

LEMMA UpKeeps ==
  ASSUME Ample, NInv, [Next]_vars, life' = "up"
  PROVE  UpOK'
<1>1. CASE Boot
  BY <1>1, BootUp
<1>2. CASE life = "up"
  <2>1. CASE Calls
    <3>1. CASE \E t \in Tasks : Look(t)
      <4>1. UNCHANGED <<rows, attempts, queue, worker, pending, submitting>>
        BY <3>1 DEF Look
      <4> QED BY <1>2, <4>1, NothingMovesUp
    <3> QED BY <1>2, <2>1, <3>1, SubmitUp, ConfirmUp, CancelUp, RetryUp, SubmitBindUp DEF Calls
  <2>2. CASE WorkerStep
    BY <1>2, <2>2, StartUp, CallsOutUp, EnterGuardUp, DecideUp, BarrierUp, SettleUp, FinishUp
       DEF WorkerStep
  <2>3. CASE Scan
    BY <1>2, <2>3, ScanUp
  <2>4. CASE Reconcile
    BY <1>2, <2>4, ApplyUp DEF Reconcile
  <2>5. CASE StopFlag \/ StopDrain \/ StopFinish \/ Exit
    BY <2>5 DEF StopFlag, StopDrain, StopFinish, Exit
  <2>6. CASE SwitchAccount \/ WindowChanges \/ ScreenChanges \/ UNCHANGED vars
    <3>1. UNCHANGED <<rows, attempts, queue, worker, pending, submitting>>
      BY <2>6 DEF SwitchAccount, WindowChanges, ScreenChanges, vars
    <3> QED BY <1>2, <3>1, NothingMovesUp
  <2> QED BY <1>1, <2>1, <2>2, <2>3, <2>4, <2>5, <2>6 DEF Next
<1>3. CASE life # "up" /\ ~Boot
  <2>1. ~Calls /\ ~WorkerStep
    BY <1>3 DEF Calls, Submit, Look, Confirm, Cancel, Retry, SubmitBind, WorkerStep, Start,
                ReadBaseline, EnterGuard, Navigate, Capture, Decide, Input, Barrier, Arm, Click,
                WaitSend, Settle, Finish, envOfWorker
  <2>2. ~Scan /\ ~Reconcile
    BY <1>3 DEF Scan, Reconcile, Apply, envOfVerifier
  <2> QED BY <1>3, <2>1, <2>2 DEF Next, StopFlag, StopDrain, StopFinish, Exit, SwitchAccount,
                                  WindowChanges, ScreenChanges, vars
<1> QED BY <1>1, <1>2, <1>3

\* With a place in the queue for every task and reads that succeed no task is stranded
\* while the service runs: the full queue and the failing first read, the two ways in
\* which the code does strand one, are the only ones.
THEOREM NeverStranded == ASSUME Ample PROVE Spec => []NoneStranded
<1>1. NInv /\ [Next]_vars => NInv'
  <2> SUFFICES ASSUME NInv, [Next]_vars
               PROVE  NInv'
    OBVIOUS
  <2>1. IInv'
    BY StepInvariant DEF NInv
  <2> QED BY <2>1, DownKeeps, UpKeeps DEF NInv
<1>2. NInv => NoneStranded
  <2> SUFFICES ASSUME NInv, life = "up", NEW t \in Tasks
               PROVE  ~Stranded(t)
    BY DEF NoneStranded
  <2>1. Good(t)
    BY TaskFacts
  <2>2. At(t) => t = Active
    BY DEF At, Active
  <2>3. (\E job \in JobsIn(queue, t) : Current(t, job)) => JobOf(t)
    BY DEF JobsIn, Current, JobOf
  <2> QED BY <2>1, <2>2, <2>3 DEF Good, Served, Waits, Stranded
<1> QED BY <1>1, <1>2, NInit, PTL DEF Spec

--------------------------------------------------------------------------------
(* The refinement *)

\* Only a task that may have been sent waits for a verdict, and only an observed one
\* has claimed a message.
Kept(r) ==
  /\ r.matched # NoMessage <=> r.status = "observed"
  /\ r.status = "verifying" => r.mayHaveSent
  /\ r.mayHaveSent => r.status \in {"running", "verifying", "observed", "unknown"}

ClaimsDiffer ==
  \A t, u \in Tasks : t # u /\ rows[t].matched # NoMessage => rows[t].matched # rows[u].matched

RInv == IInv /\ (\A t \in Tasks : Kept(rows[t])) /\ ClaimsDiffer

OpenStatuses == {"queued", "navigating", "awaiting_confirmation", "queued_send", "running"}

\* A write of a row that is no observation.
Follows(p, q) ==
  /\ q.matched = p.matched /\ (p.mayHaveSent => q.mayHaveSent)
  /\ \/ q = p
     \/ p.status = "absent" /\ q.status = "queued" /\ ~q.mayHaveSent
     \/ p.status = "failed" /\ q.status \in {"queued", "failed"} /\ ~q.mayHaveSent
     \/ /\ p.status \in OpenStatuses /\ ~q.mayHaveSent
        /\ q.status \in OpenStatuses \cup {"failed", "unknown", "filled", "cancelled"}
     \/ p.status = "running" /\ q.status = "running" /\ q.mayHaveSent
     \/ /\ p.mayHaveSent /\ p.status \in {"running", "verifying", "unknown"}
        /\ q.status \in {"verifying", "unknown"}

LEMMA PhaseNames ==
  ASSUME NEW r
  PROVE  /\ r.status = "absent" /\ ~r.mayHaveSent => PhaseOf(r) = "absent"
         /\ r.status \in OpenStatuses /\ ~r.mayHaveSent => PhaseOf(r) = "open"
         /\ r.status = "failed" /\ ~r.mayHaveSent => PhaseOf(r) = "retryable"
         /\ r.status = "unknown" /\ ~r.mayHaveSent => PhaseOf(r) = "uncertain"
         /\ r.status \in {"filled", "cancelled"} /\ ~r.mayHaveSent => PhaseOf(r) = "done"
         /\ r.status \in {"running", "verifying", "unknown"} /\ r.mayHaveSent
              => PhaseOf(r) = "maybeSent"
         /\ r.status = "observed" => PhaseOf(r) = "observed"
<1>1. r.status = "absent" /\ ~r.mayHaveSent => PhaseOf(r) = "absent"
  BY DEF PhaseOf
<1>2. r.status \in OpenStatuses /\ ~r.mayHaveSent => PhaseOf(r) = "open"
  BY DEF PhaseOf, OpenStatuses
<1>3. r.status = "failed" /\ ~r.mayHaveSent => PhaseOf(r) = "retryable"
  BY DEF PhaseOf
<1>4. r.status = "unknown" /\ ~r.mayHaveSent => PhaseOf(r) = "uncertain"
  BY DEF PhaseOf
<1>5. r.status \in {"filled", "cancelled"} /\ ~r.mayHaveSent => PhaseOf(r) = "done"
  BY DEF PhaseOf
<1>6. r.status \in {"running", "verifying", "unknown"} /\ r.mayHaveSent
        => PhaseOf(r) = "maybeSent"
  BY DEF PhaseOf
<1>7. r.status = "observed" => PhaseOf(r) = "observed"
  BY DEF PhaseOf
<1> QED BY <1>1, <1>2, <1>3, <1>4, <1>5, <1>6, <1>7

LEMMA FollowsKept ==
  ASSUME NEW p \in Row, NEW q \in Row, Kept(p), Follows(p, q)
  PROVE  /\ Kept(q) /\ (p.status = "observed" => q = p)
         /\ PhaseOf(q) = PhaseOf(p) \/ <<PhaseOf(p), PhaseOf(q)>> \in Promise!Moves
<1>1. Kept(q) /\ (p.status = "observed" => q = p)
  BY DEF Kept, Follows, OpenStatuses
<1>2. CASE q = p
  BY <1>1, <1>2
<1>3. CASE p.status = "absent" /\ q.status = "queued" /\ ~q.mayHaveSent
  <2>1. PhaseOf(p) = "absent" /\ PhaseOf(q) = "open"
    BY <1>3, PhaseNames DEF OpenStatuses, Kept
  <2> QED BY <1>1, <2>1 DEF Promise!Moves
<1>4. CASE p.status = "failed" /\ q.status \in {"queued", "failed"} /\ ~q.mayHaveSent
  <2>1. PhaseOf(p) = "retryable" /\ PhaseOf(q) \in {"open", "retryable"}
    BY <1>4, PhaseNames DEF OpenStatuses, Kept
  <2> QED BY <1>1, <2>1 DEF Promise!Moves
<1>5. CASE /\ p.status \in OpenStatuses /\ ~q.mayHaveSent /\ ~p.mayHaveSent
           /\ q.status \in OpenStatuses \cup {"failed", "unknown", "filled", "cancelled"}
  <2>1. PhaseOf(p) = "open"
    BY <1>5, PhaseNames
  <2>2. PhaseOf(q) \in {"open", "retryable", "uncertain", "done"}
    BY <1>5, PhaseNames
  <2> QED BY <1>1, <2>1, <2>2 DEF Promise!Moves
<1>6. CASE p.status = "running" /\ q.status = "running" /\ q.mayHaveSent
  <2>1. PhaseOf(q) = "maybeSent"
    BY <1>6, PhaseNames
  <2>2. PhaseOf(p) \in {"open", "maybeSent"}
    BY <1>6, PhaseNames DEF OpenStatuses
  <2> QED BY <1>1, <2>1, <2>2 DEF Promise!Moves
<1>7. CASE /\ p.mayHaveSent /\ p.status \in {"running", "verifying", "unknown"}
           /\ q.status \in {"verifying", "unknown"} /\ q.mayHaveSent
  <2>1. PhaseOf(p) = "maybeSent" /\ PhaseOf(q) = "maybeSent"
    BY <1>7, PhaseNames
  <2> QED BY <1>1, <2>1
<1> QED BY <1>1, <1>2, <1>3, <1>4, <1>5, <1>6, <1>7 DEF Follows

LEMMA SettledFollows ==
  ASSUME NEW r \in Row, NEW proof \in BOOLEAN, Kept(r), r.status \in COMPENSATABLE
  PROVE  Follows(r, Settled(r, proof)) /\ (r.status \in NON_EXECUTING =>
            Settled(r, proof).status = "failed" /\ ~Settled(r, proof).mayHaveSent)
<1> DEFINE q == Settled(r, proof)
<1>1. /\ q.status = (IF r.status \in GUI_RISK THEN "unknown" ELSE "failed")
      /\ q.mayHaveSent = r.mayHaveSent /\ q.matched = r.matched /\ q \in Row
  BY SettledFacts
<1> HIDE DEF q
<1>2. r.mayHaveSent \in BOOLEAN
  BY DEF Row
<1>3. CASE r.mayHaveSent
  <2>1. r.status = "running"
    BY <1>3 DEF Kept, COMPENSATABLE, NON_EXECUTING, GUI_RISK
  <2> QED BY <1>1, <1>3, <2>1 DEF Follows, q, GUI_RISK, NON_EXECUTING
<1>4. CASE ~r.mayHaveSent
  <2>1. r.status \in OpenStatuses /\ q.status \in {"failed", "unknown"}
    BY <1>1 DEF COMPENSATABLE, NON_EXECUTING, GUI_RISK, OpenStatuses
  <2>2. r.status \in NON_EXECUTING => q.status = "failed"
    BY <1>1 DEF NON_EXECUTING, GUI_RISK
  <2> QED BY <1>1, <1>4, <2>1, <2>2 DEF Follows, q
<1> QED BY <1>2, <1>3, <1>4

\* What a flush or a refusal leaves of a table R.
Settles(R, act) ==
  \A t \in Tasks : rows'[t] = R[t] \/ (/\ t # act /\ R[t].status \in COMPENSATABLE
                                       /\ rows'[t] = Settled(R[t], TRUE))

LEMMA FlushSettles ==
  ASSUME NEW failed, NEW R, NEW P, NEW act, FlushAfter(failed, R, P, act)
  PROVE  Settles(R, act)
<1> DEFINE due == {t \in Tasks : P[t] # None /\ t # act}
<1>1. PICK broken \in SUBSET due :
        rows' = [t \in Tasks |-> IF t \in due \ broken /\ Applies(R[t], P[t])
                                 THEN Settled(R[t], TRUE) ELSE R[t]]
  BY DEF FlushAfter
<1>2. \A t \in due : t # act
  OBVIOUS
<1> HIDE DEF due
<1> QED BY <1>1, <1>2 DEF Settles, Applies

LEMMA RefusalSettles ==
  ASSUME NEW R, NEW A, NEW t, NEW rec, NEW act, FailIfCurrent(R, A, t, rec, act)
  PROVE  Settles(R, act)
<1>1. CASE t = act
  BY <1>1 DEF FailIfCurrent, Settles
<1>2. CASE t # act
  BY <1>2, FlushSettles DEF FailIfCurrent, Flush
<1> QED BY <1>1, <1>2

AllFollow == \A t \in Tasks : Follows(rows[t], rows'[t])

LEMMA RowKept == ASSUME RInv, NEW t \in Tasks PROVE rows[t] \in Row /\ Kept(rows[t])
BY DEF RInv, IInv, TypeOK

LEMMA SettlesFollows == ASSUME RInv, NEW act, Settles(rows, act) PROVE AllFollow
<1> SUFFICES ASSUME NEW t \in Tasks PROVE Follows(rows[t], rows'[t])
  BY DEF AllFollow
<1>1. rows[t] \in Row /\ Kept(rows[t])
  BY RowKept
<1>2. CASE rows'[t] = rows[t]
  BY <1>2 DEF Follows
<1>3. CASE rows[t].status \in COMPENSATABLE /\ rows'[t] = Settled(rows[t], TRUE)
  BY <1>1, <1>3, SettledFollows
<1> QED BY <1>2, <1>3 DEF Settles

LEMMA SameFollows == ASSUME rows' = rows PROVE AllFollow
BY DEF AllFollow, Follows

\* One row is written and others may be settled.
LEMMA OneFollows ==
  ASSUME RInv, NEW t \in Tasks, NEW new, rows' = [rows EXCEPT ![t] = new],
         Follows(rows[t], new)
  PROVE  AllFollow
<1> SUFFICES ASSUME NEW u \in Tasks PROVE Follows(rows[u], rows'[u])
  BY DEF AllFollow
<1>1. rows'[u] = IF u = t THEN new ELSE rows[u]
  BY DEF RInv, IInv, TypeOK
<1> QED BY <1>1 DEF Follows

LEMMA SubmitFollows ==
  ASSUME RInv, NEW t \in Tasks, NEW action \in {"send", "test"}, Submit(t, action)
  PROVE  AllFollow
<1>1. rows[t] \in Row /\ Kept(rows[t]) /\ rows[t].status = "absent"
  BY RowKept DEF Submit
<1>2. Follows(rows[t], NewRow(action))
  <2>1. rows[t].matched = NoMessage /\ ~rows[t].mayHaveSent
    BY <1>1 DEF Kept
  <2> QED BY <1>1, <2>1 DEF Follows, NewRow
<1>3. rows' = [rows EXCEPT ![t] = NewRow(action)]
  BY DEF Submit
<1> QED BY <1>2, <1>3, OneFollows

LEMMA SubmitBindFollows == ASSUME RInv, SubmitBind PROVE AllFollow
<1>1. rows' = rows \/ \E A, t, first : FailIfCurrent(rows, A, t, first, Active)
  BY DEF SubmitBind
<1> QED BY <1>1, RefusalSettles, SettlesFollows, SameFollows

\* The job of a call that writes its task is queued, or refused and the task settled.
LEMMA EnqueueFollows ==
  ASSUME RInv, NEW t \in Tasks, NEW new \in Row, NEW A, NEW send,
         Enqueue([rows EXCEPT ![t] = new], A, t, send),
         new.status \in {"queued", "queued_send"}, ~new.mayHaveSent, new.matched = NoMessage,
         \/ rows[t].status = "failed" /\ new.status = "queued"
         \/ rows[t].status = "awaiting_confirmation"
  PROVE  AllFollow
<1> DEFINE R == [rows EXCEPT ![t] = new]
<1>1. /\ R[t] = new /\ \A u \in Tasks \ {t} : R[u] = rows[u]
      /\ rows[t] \in Row /\ Kept(rows[t])
  BY RowKept DEF RInv, IInv, TypeOK
<1>2. rows' = R \/ Settles(R, Active)
  BY RefusalSettles DEF Enqueue
<1> HIDE DEF R
<1>3. Kept(new) /\ rows[t].matched = NoMessage /\ ~rows[t].mayHaveSent
  BY <1>1 DEF Kept
<1>4. Follows(rows[t], new)
  BY <1>1, <1>3 DEF Follows, OpenStatuses
<1>5. ASSUME NEW q, q = Settled(new, TRUE) PROVE Follows(rows[t], q)
  <2>1. Follows(new, q) /\ q.status = "failed" /\ ~q.mayHaveSent
    BY <1>3, <1>5, SettledFollows DEF COMPENSATABLE, NON_EXECUTING
  <2> QED BY <1>1, <1>3, <2>1 DEF Follows, OpenStatuses
<1>6. ASSUME NEW u \in Tasks PROVE Follows(rows[u], rows'[u])
  <2>1. CASE u = t
    BY <1>1, <1>2, <1>4, <1>5, <2>1 DEF Settles
  <2>2. CASE u # t
    <3>1. \/ rows'[u] = rows[u]
          \/ rows[u].status \in COMPENSATABLE /\ rows'[u] = Settled(rows[u], TRUE)
      BY <1>1, <1>2, <2>2 DEF Settles
    <3>2. rows[u] \in Row /\ Kept(rows[u])
      BY RowKept
    <3>3. CASE rows'[u] = rows[u]
      BY <3>3 DEF Follows
    <3>4. CASE rows[u].status \in COMPENSATABLE /\ rows'[u] = Settled(rows[u], TRUE)
      BY <3>2, <3>4, SettledFollows
    <3> QED BY <3>1, <3>3, <3>4
  <2> QED BY <2>1, <2>2
<1> QED BY <1>6 DEF AllFollow

LEMMA ConfirmFollows == ASSUME RInv, NEW t \in Tasks, Confirm(t) PROVE AllFollow
<1> DEFINE cur == [rows[t] EXCEPT !.status = "queued_send"]
<1>1. rows[t] \in Row /\ Kept(rows[t]) /\ rows[t].status = "awaiting_confirmation"
  BY RowKept DEF Confirm
<1>2. rows[t].matched = NoMessage /\ ~rows[t].mayHaveSent
  BY <1>1 DEF Kept
<1>3. /\ cur \in Row /\ cur.status = "queued_send" /\ cur.matched = NoMessage
      /\ ~cur.mayHaveSent
  BY <1>1, <1>2, StatusNames DEF Row
<1>4. Enqueue([rows EXCEPT ![t] = Saved(cur)], attempts, t, TRUE)
  BY DEF Confirm, RInv, IInv, TypeOK
<1> HIDE DEF cur
<1>5. /\ Saved(cur) \in Row /\ Saved(cur).status = "queued_send"
      /\ ~Saved(cur).mayHaveSent /\ Saved(cur).matched = NoMessage
  BY <1>3, SavedFacts
<1> QED BY <1>1, <1>4, <1>5, EnqueueFollows

LEMMA RetryFollows == ASSUME RInv, NEW t \in Tasks, Retry(t) PROVE AllFollow
<1>1. rows[t] \in Row /\ rows[t].status = "failed" /\ ~rows[t].mayHaveSent
  BY RowKept DEF Retry
<1>2. /\ Retried(rows[t]) \in Row /\ Retried(rows[t]).status = "queued"
      /\ ~Retried(rows[t]).mayHaveSent /\ Retried(rows[t]).matched = NoMessage
  BY <1>1, RetriedFacts
<1>3. \E A : Enqueue([rows EXCEPT ![t] = Retried(rows[t])], A, t, FALSE)
  BY DEF Retry, RInv, IInv, TypeOK
<1> QED BY <1>1, <1>2, <1>3, EnqueueFollows

LEMMA CancelFollows == ASSUME RInv, NEW t \in Tasks, Cancel(t) PROVE AllFollow
<1> DEFINE cur == [rows[t] EXCEPT !.status = "cancelled"]
<1>1. /\ rows[t] \in Row /\ Kept(rows[t])
      /\ rows[t].status \in {"queued", "awaiting_confirmation", "queued_send"}
  BY RowKept DEF Cancel
<1>2. rows[t].matched = NoMessage /\ ~rows[t].mayHaveSent
  BY <1>1 DEF Kept
<1>3. /\ cur \in Row /\ cur.status = "cancelled" /\ cur.matched = NoMessage /\ ~cur.mayHaveSent
  BY <1>1, <1>2, StatusNames DEF Row
<1>4. rows' = [rows EXCEPT ![t] = Saved(cur)]
  BY DEF Cancel, RInv, IInv, TypeOK
<1> HIDE DEF cur
<1>5. Saved(cur).status = "cancelled" /\ ~Saved(cur).mayHaveSent /\ Saved(cur).matched = NoMessage
  BY <1>3, SavedFacts
<1>6. Follows(rows[t], Saved(cur))
  BY <1>1, <1>2, <1>5 DEF Follows, OpenStatuses
<1> QED BY <1>4, <1>6, OneFollows

--------------------------------------------------------------------------------
(* The refinement: the worker, stop(), the next start and the verdicts *)

LEMMA MoveFollows ==
  ASSUME RInv, worker.pc \in GuardedPcs, NEW new, NEW pc, MoveRow(new, pc),
         worker.rec = rows[worker.job.task] => Follows(worker.rec, Saved(new))
  PROVE  AllFollow
<1>1. worker.job.task \in Tasks /\ rows \in [Tasks -> Row]
  BY DEF RInv, IInv, TypeOK, WorkerType, JobType, GuardedPcs
<1>2. CASE UNCHANGED rows
  BY <1>2, SameFollows
<1>3. CASE /\ rows[worker.job.task].version = worker.rec.version
           /\ rows' = [rows EXCEPT ![worker.job.task] = Saved(new)]
  <2>1. worker.rec = rows[worker.job.task]
    BY <1>3 DEF RInv, IInv, RecordOK, Copy
  <2> QED BY <1>1, <1>3, <2>1, OneFollows
<1> QED BY <1>2, <1>3 DEF MoveRow

LEMMA DecideFollows == ASSUME RInv, Decide PROVE AllFollow
<1> DEFINE rec == worker.rec
           saved == [rec EXCEPT !.status = "awaiting_confirmation", !.shot = worker.frame]
           run == [rec EXCEPT !.status = "running", !.baseline = worker.base]
<1>1. /\ worker.pc = "decide" /\ worker.pc \in GuardedPcs /\ rec \in Row
      /\ rec.status \in {"queued_send", "navigating"}
      /\ worker.frame \in Shots \cup {NoShot} /\ worker.base \in Baselines \cup {NoBaseline}
  BY DEF Decide, RInv, IInv, WorkerType, WorkerRecord, RecordOK, GuardedPcs
<1>2. UNCHANGED rows \/ MoveRow(saved, "finish") \/ MoveRow(run, "input")
  BY DEF Decide, Fails
<1>3. /\ saved \in Row /\ saved.status = "awaiting_confirmation" /\ saved.matched = rec.matched
      /\ saved.mayHaveSent = rec.mayHaveSent
      /\ run \in Row /\ run.status = "running" /\ run.matched = rec.matched
      /\ run.mayHaveSent = rec.mayHaveSent
  BY <1>1, StatusNames DEF Row
<1>4. rec = rows[worker.job.task] => rec.matched = NoMessage /\ ~rec.mayHaveSent
  <2> SUFFICES ASSUME rec = rows[worker.job.task] PROVE rec.matched = NoMessage /\ ~rec.mayHaveSent
    OBVIOUS
  <2>1. worker.job.task \in Tasks
    BY <1>1 DEF RInv, IInv, WorkerType, JobType
  <2>2. Kept(rec)
    BY <2>1, RowKept
  <2> QED BY <1>1, <2>2 DEF Kept
<1> HIDE DEF saved, run, rec
<1>5. rec = rows[worker.job.task] => Follows(rec, Saved(saved)) /\ Follows(rec, Saved(run))
  <2>1. /\ Saved(saved).status = "awaiting_confirmation" /\ Saved(saved).matched = rec.matched
        /\ Saved(saved).mayHaveSent = rec.mayHaveSent
    BY <1>3, SavedFacts
  <2>2. /\ Saved(run).status = "running" /\ Saved(run).matched = rec.matched
        /\ Saved(run).mayHaveSent = rec.mayHaveSent
    BY <1>3, SavedFacts
  <2> QED BY <1>1, <1>4, <2>1, <2>2 DEF Follows, OpenStatuses
<1>6. CASE MoveRow(saved, "finish")
  BY <1>1, <1>5, <1>6, MoveFollows DEF rec
<1>7. CASE MoveRow(run, "input")
  BY <1>1, <1>5, <1>7, MoveFollows DEF rec
<1> QED BY <1>2, <1>6, <1>7, SameFollows

LEMMA BarrierFollows == ASSUME RInv, Barrier PROVE AllFollow
<1> DEFINE rec == worker.rec
           filled == [rec EXCEPT !.status = "filled", !.shot = NoShot]
           marked == [rec EXCEPT !.mayHaveSent = TRUE]
<1>1. /\ worker.pc \in GuardedPcs /\ rec \in Row /\ rec.status = "running" /\ ~rec.mayHaveSent
  BY DEF Barrier, RInv, IInv, WorkerType, InputOK, GuardedPcs, InputPcs
<1>2. UNCHANGED rows \/ MoveRow(filled, "finish") \/ MoveRow(marked, "armed")
  BY DEF Barrier, Fails
<1>3. /\ filled \in Row /\ filled.status = "filled" /\ filled.matched = rec.matched
      /\ ~filled.mayHaveSent
      /\ marked \in Row /\ marked.status = "running" /\ marked.matched = rec.matched
      /\ marked.mayHaveSent
  BY <1>1, StatusNames DEF Row
<1> HIDE DEF filled, marked, rec
<1>4. Follows(rec, Saved(filled))
  <2>1. /\ Saved(filled).status = "filled" /\ Saved(filled).matched = rec.matched
        /\ ~Saved(filled).mayHaveSent
    BY <1>3, SavedFacts
  <2> QED BY <1>1, <2>1 DEF Follows, OpenStatuses
<1>5. Follows(rec, Saved(marked))
  <2>1. /\ Saved(marked).status = "running" /\ Saved(marked).matched = rec.matched
        /\ Saved(marked).mayHaveSent
    BY <1>3, SavedFacts
  <2> QED BY <1>1, <2>1 DEF Follows
<1>6. CASE MoveRow(filled, "finish")
  BY <1>1, <1>4, <1>6, MoveFollows DEF rec
<1>7. CASE MoveRow(marked, "armed")
  BY <1>1, <1>5, <1>7, MoveFollows DEF rec
<1> QED BY <1>2, <1>6, <1>7, SameFollows

LEMMA SettleFollows == ASSUME RInv, Settle PROVE AllFollow
<1> DEFINE rec == worker.rec
           new == [rec EXCEPT !.status = "verifying", !.shot = NoShot]
<1>1. /\ worker.pc \in GuardedPcs /\ rec \in Row /\ rec.status = "running" /\ rec.mayHaveSent
  BY DEF Settle, RInv, IInv, WorkerType, InputOK, GuardedPcs, InputPcs
<1>2. MoveRow(new, "finish")
  BY DEF Settle
<1>3. new \in Row /\ new.status = "verifying" /\ new.matched = rec.matched /\ new.mayHaveSent
  BY <1>1, StatusNames DEF Row
<1> HIDE DEF new, rec
<1>4. /\ Saved(new).status = "verifying" /\ Saved(new).matched = rec.matched
      /\ Saved(new).mayHaveSent
  BY <1>3, SavedFacts
<1>5. Follows(rec, Saved(new))
  BY <1>1, <1>4 DEF Follows
<1> QED BY <1>1, <1>2, <1>5, MoveFollows DEF rec

LEMMA EnterGuardFollows == ASSUME RInv, EnterGuard PROVE AllFollow
<1> DEFINE t == worker.job.task
           cur == [rows[t] EXCEPT !.status = "navigating"]
<1>1. t \in Tasks /\ rows[t] \in Row /\ Kept(rows[t]) /\ Fits(worker.job, rows[t])
  <2>1. t \in Tasks /\ Fits(worker.job, rows[t])
    BY DEF EnterGuard, RInv, IInv, WorkerType, JobType, ActiveOK
  <2> QED BY <2>1, RowKept
<1>2. \/ UNCHANGED rows
      \/ /\ rows[t].version = worker.job.version /\ ~worker.job.send
         /\ rows' = [rows EXCEPT ![t] = Saved(cur)]
  BY <1>1 DEF EnterGuard, RInv, IInv, TypeOK
<1>3. CASE /\ rows[t].version = worker.job.version /\ ~worker.job.send
           /\ rows' = [rows EXCEPT ![t] = Saved(cur)]
  <2>1. rows[t].status = "queued"
    BY <1>1, <1>3 DEF Fits
  <2>2. rows[t].matched = NoMessage /\ ~rows[t].mayHaveSent
    BY <1>1, <2>1 DEF Kept
  <2>3. /\ cur \in Row /\ cur.status = "navigating" /\ cur.matched = NoMessage
        /\ ~cur.mayHaveSent
    BY <1>1, <2>2, StatusNames DEF Row
  <2> HIDE DEF cur
  <2>4. /\ Saved(cur).status = "navigating" /\ Saved(cur).matched = NoMessage
        /\ ~Saved(cur).mayHaveSent
    BY <2>3, SavedFacts
  <2>5. Follows(rows[t], Saved(cur))
    BY <2>1, <2>2, <2>4 DEF Follows, OpenStatuses
  <2> QED BY <1>1, <1>3, <2>5, OneFollows
<1> QED BY <1>2, <1>3, SameFollows

LEMMA WorkerFollows == ASSUME RInv, WorkerStep PROVE AllFollow
<1>1. CASE Start
  <2>1. rows' = rows \/ \E t, rec : FailIfCurrent(rows, attempts, t, rec, None)
    BY <1>1 DEF Start
  <2> QED BY <2>1, RefusalSettles, SettlesFollows, SameFollows
<1>2. CASE Finish
  <2>1. rows' = rows \/ \E t, rec : FailIfCurrent(rows, attempts, t, rec, None)
    BY <1>2 DEF Finish
  <2> QED BY <2>1, RefusalSettles, SettlesFollows, SameFollows
<1>3. CASE ReadBaseline \/ Navigate \/ Capture \/ Input \/ Arm \/ Click \/ WaitSend
  <2>1. rows' = rows
    BY <1>3 DEF ReadBaseline, Navigate, Capture, Input, Arm, Click, WaitSend
  <2> QED BY <2>1, SameFollows
<1> QED BY <1>1, <1>2, <1>3, EnterGuardFollows, DecideFollows, BarrierFollows, SettleFollows
        DEF WorkerStep

LEMMA StopFinishFollows == ASSUME RInv, StopFinish PROVE AllFollow
<1> DEFINE t == Active
           snap == worker.snap
           new == Settled(snap, FALSE)
           R == [rows EXCEPT ![t] = new]
<1>1. CASE \E failed : FlushAfter(failed, rows, pending, t)
  BY <1>1, FlushSettles, SettlesFollows
<1>2. CASE /\ t # None /\ snap.status \in ACTIVE_COMPENSATABLE
           /\ rows[t].version = snap.version /\ Flush(R, pending, t)
  <2>1. t \in Tasks /\ snap = rows[t] /\ rows \in [Tasks -> Row]
    BY <1>2 DEF RInv, IInv, WorkerType, JobType, ActiveOK, Active, Copy, TypeOK
  <2>2. rows[t] \in Row /\ Kept(rows[t])
    BY <2>1, RowKept
  <2>3. Follows(rows[t], new)
    BY <1>2, <2>1, <2>2, SettledFollows
       DEF ACTIVE_COMPENSATABLE, COMPENSATABLE
  <2>4. R[t] = new /\ \A u \in Tasks \ {t} : R[u] = rows[u]
    BY <2>1
  <2>5. Settles(R, t)
    BY <1>2, FlushSettles DEF Flush
  <2> HIDE DEF R, new
  <2>6. ASSUME NEW u \in Tasks PROVE Follows(rows[u], rows'[u])
    <3>1. CASE u = t
      BY <2>1, <2>3, <2>4, <2>5, <3>1 DEF Settles
    <3>2. CASE u # t
      <4>1. \/ rows'[u] = rows[u]
            \/ rows[u].status \in COMPENSATABLE /\ rows'[u] = Settled(rows[u], TRUE)
        BY <2>4, <2>5, <3>2 DEF Settles
      <4>2. rows[u] \in Row /\ Kept(rows[u])
        BY RowKept
      <4>3. CASE rows'[u] = rows[u]
        BY <4>3 DEF Follows
      <4>4. CASE rows[u].status \in COMPENSATABLE /\ rows'[u] = Settled(rows[u], TRUE)
        BY <4>2, <4>4, SettledFollows
      <4> QED BY <4>1, <4>3, <4>4
    <3> QED BY <3>1, <3>2
  <2> QED BY <2>6 DEF AllFollow
<1>3. \/ \E failed : FlushAfter(failed, rows, pending, t)
      \/ /\ t # None /\ snap.status \in ACTIVE_COMPENSATABLE
         /\ rows[t].version = snap.version /\ Flush(R, pending, t)
  BY DEF StopFinish
<1> QED BY <1>1, <1>2, <1>3

LEMMA BootFollows == ASSUME RInv, Boot PROVE AllFollow
<1> SUFFICES ASSUME NEW t \in Tasks PROVE Follows(rows[t], rows'[t])
  BY DEF AllFollow
<1>1. rows[t] \in Row /\ Kept(rows[t])
  BY RowKept
<1>2. \/ rows'[t] = rows[t]
      \/ rows[t].status \in PENDING /\ rows'[t] = Recovered(rows[t])
  BY DEF Boot
<1>3. CASE rows[t].status \in PENDING /\ rows'[t] = Recovered(rows[t])
  <2> DEFINE p == rows[t]
             q == Recovered(p)
  <2>1. /\ q.status \in {"unknown", "failed"} /\ q.mayHaveSent = p.mayHaveSent
        /\ q.matched = p.matched
        /\ q.status = "failed" => ~p.mayHaveSent \/ p.status = "awaiting_confirmation"
    BY <1>1, RecoveredFacts
  <2> HIDE DEF q
  <2>2. p.status \in OpenStatuses \cup {"verifying"}
    BY <1>3 DEF PENDING, NON_EXECUTING, EXECUTING, GUI_RISK, OpenStatuses
  <2>3. CASE p.mayHaveSent
    <3>1. p.status \in {"running", "verifying"}
      BY <1>1, <2>2, <2>3 DEF Kept, OpenStatuses
    <3> QED BY <1>3, <2>1, <2>3, <3>1 DEF Follows, q
  <2>4. CASE ~p.mayHaveSent
    <3>1. p.status \in OpenStatuses
      BY <1>1, <2>2, <2>4 DEF Kept
    <3> QED BY <1>3, <2>1, <2>4, <3>1 DEF Follows, q
  <2>5. p.mayHaveSent \in BOOLEAN
    BY <1>1 DEF Row
  <2> QED BY <2>3, <2>4, <2>5
<1> QED BY <1>2, <1>3 DEF Follows


\* A verdict that names a message: no other task has or gets it.
Claims(t) ==
  /\ rows[t].mayHaveSent /\ rows[t].status \in {"verifying", "unknown"}
  /\ rows'[t].status = "observed" /\ rows'[t].mayHaveSent
  /\ rows'[t].matched # NoMessage
  /\ \A u \in Tasks : /\ rows[u].matched # rows'[t].matched
                      /\ u # t => rows'[u].matched # rows'[t].matched

LEMMA ApplyClaims ==
  ASSUME RInv, NEW verdict \in [Verifiable -> Messages \cup {"unknown", "wait"}], Apply(verdict)
  PROVE  \A t \in Tasks : Follows(rows[t], rows'[t]) \/ Claims(t)
<1> DEFINE seenRow(t) == [rows[t] EXCEPT !.status = "observed", !.evidence = TRUE,
                                         !.matched = verdict[t]]
           doubtRow(t) == [rows[t] EXCEPT !.status = "unknown", !.evidence = TRUE]
           Named(t) == t \in Verifiable /\ verdict[t] \in Messages
<1>1. CASE ~Accepting \/ epoch # verifier
  <2>1. rows' = rows
    BY <1>1 DEF Apply
  <2> QED BY <2>1, SameFollows DEF AllFollow
<1>2. CASE Accepting /\ epoch = verifier
  <2>1. rows' = [t \in Tasks |->
                   CASE t \in Verifiable /\ verdict[t] \in Messages -> Saved(seenRow(t))
                     [] t \in Verifiable /\ verdict[t] = "unknown" /\ rows[t].status = "verifying" ->
                          Saved(doubtRow(t))
                     [] OTHER -> rows[t]]
    BY <1>2 DEF Apply
  <2>2. \A t \in Tasks : Named(t) =>
          /\ \A u \in Tasks : rows[u].matched # verdict[t]
          /\ \A u \in Verifiable \ {t} : verdict[u] # verdict[t]
    BY <1>2 DEF Apply, Free
  <2>3. \A t \in Tasks : rows[t] \in Row /\ Kept(rows[t])
    BY RowKept
  <2>4. \A t \in Verifiable : t \in Tasks /\ rows[t].mayHaveSent
                              /\ rows[t].status \in {"verifying", "unknown"}
    BY DEF Verifiable
  <2>5. \A t \in Tasks : verdict[t] \in Messages =>
          /\ seenRow(t) \in Row /\ seenRow(t).status = "observed"
          /\ seenRow(t).matched = verdict[t] /\ seenRow(t).mayHaveSent = rows[t].mayHaveSent
    <3>1. \A r \in Row, m \in Messages :
            LET q == [r EXCEPT !.status = "observed", !.evidence = TRUE, !.matched = m]
            IN  /\ q \in Row /\ q.status = "observed" /\ q.matched = m
                /\ q.mayHaveSent = r.mayHaveSent
      <4> TAKE r \in Row, m \in Messages
      <4>1. "observed" \in Statuses /\ m \in Messages \cup {NoMessage}
        BY StatusNames
      <4> DEFINE q == [r EXCEPT !.status = "observed", !.evidence = TRUE, !.matched = m]
      <4>2. q \in Row
        BY <4>1 DEF Row
      <4>3. q.status = "observed" /\ q.matched = m /\ q.mayHaveSent = r.mayHaveSent
        BY DEF Row
      <4> QED BY <4>2, <4>3
    <3> QED BY <2>3, <3>1
  <2>6. \A t \in Tasks :
          /\ doubtRow(t) \in Row /\ doubtRow(t).status = "unknown"
          /\ doubtRow(t).matched = rows[t].matched
          /\ doubtRow(t).mayHaveSent = rows[t].mayHaveSent
    <3>1. \A r \in Row :
            LET q == [r EXCEPT !.status = "unknown", !.evidence = TRUE]
            IN  /\ q \in Row /\ q.status = "unknown" /\ q.matched = r.matched
                /\ q.mayHaveSent = r.mayHaveSent
      <4> TAKE r \in Row
      <4> QED BY StatusNames DEF Row
    <3> QED BY <2>3, <3>1
  <2> HIDE DEF seenRow, doubtRow
  <2>7. \A t \in Tasks : \/ rows'[t] = rows[t]
                         \/ Named(t) /\ rows'[t] = Saved(seenRow(t))
                         \/ t \in Verifiable /\ rows'[t] = Saved(doubtRow(t))
    BY <2>1
  <2> HIDE DEF Named
  <2>8. \A t \in Tasks : Named(t) => verdict[t] \in Messages /\ t \in Verifiable
    BY DEF Named
  <2>9. \A t \in Tasks :
          \/ rows'[t].matched = rows[t].matched
          \/ Named(t) /\ rows'[t].matched = verdict[t] /\ rows'[t] = Saved(seenRow(t))
    BY <2>5, <2>6, <2>7, <2>8, SavedFacts
  <2>10. ASSUME NEW t \in Tasks, Named(t), rows'[t] = Saved(seenRow(t)) PROVE Claims(t)
    <3>1. /\ rows'[t].status = "observed" /\ rows'[t].mayHaveSent
          /\ rows'[t].matched = verdict[t]
      BY <2>4, <2>5, <2>8, <2>10, SavedFacts
    <3>2. \A u \in Tasks : u # t => rows'[u].matched # verdict[t]
      BY <2>2, <2>8, <2>9, <2>10
    <3> QED BY <2>2, <2>4, <2>8, <2>10, <3>1, <3>2, RulesAssumption DEF Claims
  <2>11. ASSUME NEW t \in Verifiable, rows'[t] = Saved(doubtRow(t))
         PROVE  Follows(rows[t], rows'[t])
    <3>1. /\ rows'[t].status = "unknown" /\ rows'[t].matched = rows[t].matched
          /\ rows'[t].mayHaveSent = rows[t].mayHaveSent
      BY <2>4, <2>6, <2>11, SavedFacts
    <3> QED BY <2>4, <3>1 DEF Follows
  <2> QED BY <2>7, <2>10, <2>11 DEF Follows
<1> QED BY <1>1, <1>2

LEMMA StepFollows ==
  ASSUME RInv, [Next]_vars PROVE \A t \in Tasks : Follows(rows[t], rows'[t]) \/ Claims(t)
<1>1. CASE Calls
  <2>1. CASE \E t \in Tasks : Look(t)
    BY <2>1, SameFollows DEF Look, AllFollow
  <2> QED BY <1>1, <2>1, SubmitFollows, ConfirmFollows, CancelFollows, RetryFollows,
             SubmitBindFollows DEF Calls, AllFollow
<1>2. CASE WorkerStep
  BY <1>2, WorkerFollows DEF AllFollow
<1>3. CASE Scan
  <2>1. Settles(rows, Active)
    BY <1>3, FlushSettles DEF Scan, Flush
  <2> QED BY <2>1, SettlesFollows DEF AllFollow
<1>4. CASE Reconcile
  BY <1>4, ApplyClaims DEF Reconcile
<1>5. CASE StopDrain
  <2>1. \E failed, P : FlushAfter(failed, rows, P, Active)
    BY <1>5 DEF StopDrain
  <2> QED BY <2>1, FlushSettles, SettlesFollows DEF AllFollow
<1>6. CASE StopFinish \/ Boot
  BY <1>6, StopFinishFollows, BootFollows DEF AllFollow
<1>7. CASE StopFlag \/ Exit \/ SwitchAccount \/ WindowChanges \/ ScreenChanges \/ UNCHANGED vars
  <2>1. rows' = rows
    BY <1>7 DEF StopFlag, Exit, SwitchAccount, WindowChanges, ScreenChanges, vars
  <2> QED BY <2>1, SameFollows DEF AllFollow
<1> QED BY <1>1, <1>2, <1>3, <1>4, <1>5, <1>6, <1>7 DEF Next

LEMMA PhaseInPhases == ASSUME NEW r \in Row, Kept(r) PROVE PhaseOf(r) \in Promise!Phases
<1>1. r.status \in {"absent", "failed", "filled", "cancelled", "verifying", "observed", "unknown"}
                    \cup OpenStatuses
  BY DEF Row, Statuses, PENDING, NON_EXECUTING, EXECUTING, GUI_RISK, OpenStatuses
<1>2. r.mayHaveSent \in BOOLEAN
  BY DEF Row
<1>3. CASE r.mayHaveSent
  <2>1. r.status \in {"running", "verifying", "observed", "unknown"}
    BY <1>3 DEF Kept
  <2> QED BY <1>3, <2>1, PhaseNames DEF Promise!Phases
<1>4. CASE ~r.mayHaveSent
  <2>1. r.status # "verifying"
    BY <1>4 DEF Kept
  <2> QED BY <1>1, <1>4, <2>1, PhaseNames DEF Promise!Phases
<1> QED BY <1>2, <1>3, <1>4

LEMMA ObservedPhase ==
  ASSUME NEW r \in Row, Kept(r) PROVE PhaseOf(r) = "observed" <=> r.status = "observed"
<1>1. r.status \in {"absent", "failed", "filled", "cancelled", "verifying", "observed", "unknown"}
                    \cup OpenStatuses
  BY DEF Row, Statuses, PENDING, NON_EXECUTING, EXECUTING, GUI_RISK, OpenStatuses
<1>2. r.mayHaveSent \in BOOLEAN
  BY DEF Row
<1>3. CASE r.mayHaveSent
  <2>1. r.status \in {"running", "verifying", "observed", "unknown"}
    BY <1>3 DEF Kept
  <2> QED BY <1>3, <2>1, PhaseNames
<1>4. CASE ~r.mayHaveSent
  <2>1. r.status # "verifying"
    BY <1>4 DEF Kept
  <2> QED BY <1>1, <1>4, <2>1, PhaseNames
<1> QED BY <1>2, <1>3, <1>4

LEMMA StepRefines == ASSUME RInv, IInv', [Next]_vars PROVE RInv' /\ Promise!PNext
<1>1. \A t \in Tasks : Follows(rows[t], rows'[t]) \/ Claims(t)
  BY StepFollows
<1>2. \A t \in Tasks : rows[t] \in Row /\ Kept(rows[t]) /\ rows'[t] \in Row
  BY RowKept DEF IInv, TypeOK
<1>3. ASSUME NEW t \in Tasks
      PROVE  /\ Kept(rows'[t]) /\ (rows[t].status = "observed" => rows'[t] = rows[t])
             /\ \/ PhaseOf(rows'[t]) = PhaseOf(rows[t])
                \/ <<PhaseOf(rows[t]), PhaseOf(rows'[t])>> \in Promise!Moves
  <2>1. CASE Follows(rows[t], rows'[t])
    BY <1>2, <2>1, FollowsKept
  <2>2. CASE Claims(t)
    <3>1. PhaseOf(rows[t]) = "maybeSent" /\ PhaseOf(rows'[t]) = "observed"
      BY <2>2, PhaseNames DEF Claims
    <3>2. Kept(rows'[t])
      BY <2>2 DEF Claims, Kept
    <3>3. rows[t].status # "observed"
      BY <2>2 DEF Claims
    <3> QED BY <3>1, <3>2, <3>3 DEF Promise!Moves
  <2> QED BY <1>1, <2>1, <2>2
<1>4. ClaimsDiffer'
  <2> SUFFICES ASSUME NEW t \in Tasks, NEW u \in Tasks, t # u, rows'[t].matched # NoMessage
               PROVE  rows'[t].matched # rows'[u].matched
    BY DEF ClaimsDiffer
  <2>1. CASE Claims(t)
    BY <2>1 DEF Claims
  <2>2. CASE Claims(u)
    BY <2>2 DEF Claims
  <2>3. CASE Follows(rows[t], rows'[t]) /\ Follows(rows[u], rows'[u])
    BY <2>3 DEF Follows, RInv, ClaimsDiffer
  <2> QED BY <1>1, <2>1, <2>2, <2>3
<1> DEFINE phase == [t \in Tasks |-> PhaseOf(rows[t])]
           claim == [t \in Tasks |-> rows[t].matched]
<1>5. phase' \in [Tasks -> Promise!Phases]
  BY <1>2, <1>3, PhaseInPhases
<1>6. claim' \in [Tasks -> Messages \cup {NoMessage}]
  BY <1>2 DEF Row
<1>7. \A t \in Tasks : phase'[t] = phase[t] \/ <<phase[t], phase'[t]>> \in Promise!Moves
  BY <1>3
<1>8. \A t \in Tasks : claim'[t] # NoMessage <=> phase'[t] = "observed"
  BY <1>2, <1>3, ObservedPhase DEF Kept
<1>9. \A t \in Tasks : phase[t] = "observed" => claim'[t] = claim[t]
  BY <1>2, <1>3, ObservedPhase
<1>10. Promise!ClaimsUnique(claim')
  BY <1>4 DEF ClaimsDiffer, Promise!ClaimsUnique
<1>11. RInv'
  BY <1>3, <1>4 DEF RInv
<1> QED BY <1>5, <1>6, <1>7, <1>8, <1>9, <1>10, <1>11 DEF Promise!PNext

\* Every behaviour of the service is a behaviour of OutboxPromise: through locks, queue,
\* crashes, faults and restarts a task that may have been sent is never worked on again,
\* and no message proves two tasks.
THEOREM ServiceKeepsPromise == Spec => KeepsPromise
<1>1. Init => RInv /\ Promise!PInit
  <2>1. Init => Promise!PInit
    BY DEF Init, NoRow, PhaseOf, Promise!PInit
  <2>2. Init => RInv
    BY InitInvariant DEF RInv, Init, NoRow, Kept, ClaimsDiffer
  <2> QED BY <2>1, <2>2
<1>2. RInv /\ IInv' /\ [Next]_vars => RInv' /\ [Promise!PNext]_(Promise!pvars)
  BY StepRefines
<1> QED BY <1>1, <1>2, InvariantHolds, PTL DEF Spec, KeepsPromise, Promise!PSpec
================================================================================
