----------------------------- MODULE OutboxService -----------------------------
(***************************************************************************)
(* OutboxService of outbox_service.py with everything it races: the HTTP   *)
(* calls of one seller, the single GUI task-queue worker, the verifier     *)
(* thread, stop(), a crash and the next start, the account and window      *)
(* generation, transient database failures and the person at the screen.   *)
(*                                                                         *)
(* Two locks matter.  account_lock (with the runner lock) is held by       *)
(* run_guarded for a whole GUI action and by the submit, confirm and retry *)
(* requests; the service's _condition is held in the sections marked       *)
(* "locked".  Each locked section is one action, except the send barrier   *)
(* (outbox_service.py:386-396), which a crash or the stop flag can split.  *)
(***************************************************************************)
EXTENDS OutboxRules, Sequences, FiniteSets

CONSTANTS Tasks,          \* the messages one seller submits
          None,           \* absence of a binding, a snapshot, a request
          QueueCap,       \* free places of the GUI task queue
          MaxAttempt,     \* bound on attempts of a task
          MaxVersion,     \* bound on the version a user still confirms
          MaxEpoch,       \* bound on account switches
          MaxWindow,      \* bound on changes of the window
          MaxCrash,       \* bound on process exits
          MaxFault,       \* bound on failing database writes
          ReadMayFail,    \* whether the first read of a job may fail too
          MayStop         \* whether stop() is called

\* A live authorization: the account and window generation, and the attempt it is for.
BindingType == [tok : (0..MaxEpoch) \X (0..MaxWindow), attempt : Nat]

ASSUME ServiceAssumption ==
  /\ IsFiniteSet(Tasks) /\ None \notin Tasks /\ None \notin BindingType
  /\ None \notin [attempt : Nat, version : Nat]
  /\ QueueCap \in Nat /\ MaxAttempt \in Nat \ {0} /\ MaxVersion \in Nat
  /\ MaxEpoch \in Nat /\ MaxWindow \in Nat
  /\ MaxCrash \in Nat /\ MaxFault \in Nat /\ ReadMayFail \in BOOLEAN /\ MayStop \in BOOLEAN

VARIABLES
  rows,        \* the durable app_outbox rows of Tasks
  clicks,      \* native send clicks posted for each task, ever
  life,        \* "up", "flagged" (_stopping set), "draining", "stopped", "down"
  attempts,    \* _attempts: the live GUI authorization of each task
  queue,       \* accepted jobs of the GUI task queue
  worker,      \* the queue's worker thread inside _execute_attempt
  pending,     \* _pending_terminal_writes
  verifier,    \* None, or the account epoch of the source snapshot being read
  submitting,  \* None, or the task of a submit() between its locked sections
  epoch, win,  \* account and window generation; even epochs select the seller of Tasks
  screen,      \* what the client window shows
  seen,        \* the version and screenshot the user last looked at
  approved,    \* the screenshot the user confirmed for the waiting or running send
  faults,      \* database failures so far
  crashes

vars == <<rows, clicks, life, attempts, queue, worker, pending, verifier, submitting,
          epoch, win, screen, seen, approved, faults, crashes>>

--------------------------------------------------------------------------------
(* Locks, tokens and the worker's record *)

token == <<epoch, win>>
Selected == epoch % 2 = 0

Idle == [pc |-> "idle", job |-> None, rec |-> None, snap |-> None,
         frame |-> NoShot, base |-> NoBaseline, failed |-> FALSE]

Active == IF worker.pc = "idle" THEN None ELSE worker.job.task    \* the key of _active

Guarded == worker.pc \in {"navigate", "capture", "decide", "input", "barrier",
                          "armed", "posting", "wait", "settle"}
LockFree == worker.pc \notin {"armed", "posting"}
AccountFree == ~Guarded /\ submitting = None
Accepting == life = "up"

\* _validate_token: run_guarded and every native call inside it probe the window.
TokenValid == worker.job.bind.tok = token

Binding(t) == [tok |-> token, attempt |-> rows[t].attempt]
Job(t, R, b, send) == [task |-> t, version |-> R[t].version, bind |-> b, send |-> send]

\* _active[id] after a _move of an active task.
Snapped(R, t) == IF t = Active THEN [worker EXCEPT !.snap = R[t]] ELSE worker

--------------------------------------------------------------------------------
(* Terminal writes *)

Settled(row, proof) ==
  Saved([row EXCEPT !.status = IF row.status \in GUI_RISK THEN "unknown" ELSE "failed",
                    !.evidence = IF proof THEN TRUE ELSE @, !.shot = NoShot])

\* A pending write still applies to the row it was recorded for.
Applies(row, p) == /\ row.attempt = p.attempt
                   /\ row.version = p.version
                   /\ row.status \in COMPENSATABLE

\* _flush_terminal_writes: settle or drop every pending write but those of the
\* active task; a failing database keeps the write for the next flush.
FlushAfter(failed, R, P, act) ==
  LET due == {t \in Tasks : P[t] # None /\ t # act} IN
  \E broken \in SUBSET due :
    /\ failed + Cardinality(broken) <= MaxFault
    /\ faults' = failed + Cardinality(broken)
    /\ rows' = [t \in Tasks |-> IF t \in due \ broken /\ Applies(R[t], P[t])
                                THEN Settled(R[t], TRUE) ELSE R[t]]
    /\ pending' = [t \in Tasks |-> IF t \in due \ broken THEN None ELSE P[t]]

Flush(R, P, act) == FlushAfter(faults, R, P, act)

\* The compensation map keeps the newest of two writes for a task.
Newer(p, q) ==
  p.attempt > q.attempt \/ (p.attempt = q.attempt /\ p.version >= q.version)
Recorded(P, t, rec) ==
  IF P[t] = None \/ Newer(rec, P[t])
  THEN [P EXCEPT ![t] = [attempt |-> rec.attempt, version |-> rec.version]] ELSE P

\* Mutant of Unbound: a failed attempt keeps its authorization.
UnboundNever(A, t, attempt) == A

Unbound(A, t, attempt) ==
  IF A[t] # None /\ A[t].attempt = attempt THEN [A EXCEPT ![t] = None] ELSE A

\* _fail_if_current, with R, A the table and bindings at that point of the section.
FailIfCurrent(R, A, t, rec, act) ==
  IF t = act
  THEN /\ rows' = R /\ attempts' = A
       /\ UNCHANGED <<pending, faults>>
  ELSE /\ attempts' = Unbound(A, t, rec.attempt)
       /\ Flush(R, Recorded(pending, t, rec), act)

\* _enqueue: the job is queued, or the queue refuses it and the task fails.
Enqueue(R, A, t, send) ==
  IF Len(queue) < QueueCap
  THEN /\ queue' = Append(queue, Job(t, R, A[t], send))
       /\ rows' = R /\ attempts' = A
       /\ UNCHANGED <<pending, faults>>
  ELSE FailIfCurrent(R, A, t, R[t], Active) /\ UNCHANGED queue

--------------------------------------------------------------------------------
(* HTTP calls of the selected account *)

\* submit(), first locked section: the row is created before any authorization.
Submit(t, action) ==
  /\ Accepting /\ LockFree /\ AccountFree /\ Selected
  /\ rows[t].status = "absent"
  /\ rows' = [rows EXCEPT ![t] = NewRow(action)]
  /\ submitting' = t
  /\ UNCHANGED <<clicks, life, attempts, queue, worker, pending, verifier, epoch, win,
                 screen, seen, approved, faults, crashes>>

\* submit(), the rest: capture a token, bind it, enqueue the navigation.
SubmitBind ==
  /\ submitting # None /\ LockFree
  /\ LET t == submitting
         first == [attempt |-> 1, version |-> 1]
         bound == [attempts EXCEPT ![t] = [tok |-> token, attempt |-> 1]] IN
       \/ /\ Accepting
          /\ IF Len(queue) < QueueCap
             THEN /\ queue' = Append(queue, [task |-> t, version |-> 1, bind |-> bound[t],
                                             send |-> FALSE])
                  /\ attempts' = bound
                  /\ UNCHANGED <<rows, pending, faults>>
             ELSE FailIfCurrent(rows, bound, t, first, Active) /\ UNCHANGED queue
       \/ \* the client is not connected, or the service is stopping
          /\ FailIfCurrent(rows, attempts, t, first, Active)
          /\ UNCHANGED queue
  /\ submitting' = None
  /\ UNCHANGED <<clicks, life, worker, verifier, epoch, win, screen, seen, approved, crashes>>

\* The user opens the screenshot of a waiting task.
Look(t) ==
  /\ life # "down" /\ Selected
  /\ rows[t].status = "awaiting_confirmation"
  /\ seen' = [seen EXCEPT ![t] = [version |-> rows[t].version, shot |-> rows[t].shot]]
  /\ UNCHANGED <<rows, clicks, life, attempts, queue, worker, pending, verifier, submitting,
                 epoch, win, screen, approved, faults, crashes>>

\* confirm()
Confirm(t) ==
  /\ Accepting /\ LockFree /\ AccountFree /\ Selected
  /\ attempts[t] # None /\ attempts[t] = Binding(t)
  /\ seen[t] # None
  /\ rows[t].status = "awaiting_confirmation"
  /\ rows[t].version = seen[t].version /\ rows[t].shot = seen[t].shot
  /\ rows[t].version < MaxVersion
  /\ LET R == [rows EXCEPT ![t] = Saved([@ EXCEPT !.status = "queued_send"])] IN
       /\ Enqueue(R, attempts, t, TRUE)
       /\ worker' = Snapped(R, t)
  /\ approved' = [approved EXCEPT ![t] = seen[t].shot]
  /\ UNCHANGED <<clicks, life, verifier, submitting, epoch, win, screen, seen, crashes>>

\* Mutant of Cancel: a running task can be cancelled too.
CancelRunning(t) ==
  /\ Accepting /\ LockFree /\ Selected
  /\ rows[t].status \in NON_EXECUTING \cup {"running"}
  /\ rows' = [rows EXCEPT ![t] = Saved([@ EXCEPT !.status = "cancelled"])]
  /\ attempts' = [attempts EXCEPT ![t] = None]
  /\ UNCHANGED <<clicks, life, queue, worker, pending, verifier, submitting, epoch, win,
                 screen, seen, approved, faults, crashes>>

\* cancel(): waits for neither the GUI nor a connected client.
Cancel(t) ==
  /\ Accepting /\ LockFree /\ Selected
  /\ rows[t].status \in {"queued", "awaiting_confirmation", "queued_send"}
  /\ rows' = [rows EXCEPT ![t] = Saved([@ EXCEPT !.status = "cancelled"])]
  /\ attempts' = [attempts EXCEPT ![t] = None]
  /\ UNCHANGED <<clicks, life, queue, worker, pending, verifier, submitting, epoch, win,
                 screen, seen, approved, faults, crashes>>

\* retry()
Retry(t) ==
  /\ Accepting /\ LockFree /\ AccountFree /\ Selected
  /\ rows[t].status = "failed" /\ ~rows[t].mayHaveSent
  /\ rows[t].attempt < MaxAttempt
  /\ LET R == [rows EXCEPT ![t] = Retried(@)] IN
       Enqueue(R, [attempts EXCEPT ![t] = [tok |-> token, attempt |-> R[t].attempt]], t, FALSE)
  /\ approved' = [approved EXCEPT ![t] = NoShot]
  /\ UNCHANGED <<clicks, life, worker, verifier, submitting, epoch, win, screen, seen, crashes>>

--------------------------------------------------------------------------------
(* The GUI worker: _execute_attempt *)

envOfWorker == <<life, verifier, submitting, epoch, win, seen, crashes>>

\* The first locked section: take the next job, drop it if it was superseded.
Start ==
  /\ worker.pc = "idle" /\ queue # <<>> /\ life # "down"
  /\ queue' = Tail(queue)
  /\ LET job == Head(queue)
         t == job.task
         row == rows[t] IN
       \/ /\ ~Accepting
          /\ FailIfCurrent(rows, attempts, t,
                           [attempt |-> job.bind.attempt, version |-> job.version], None)
          /\ UNCHANGED worker
       \/ /\ Accepting
          /\ worker' = IF row.version = job.version /\ attempts[t] = job.bind
                       THEN [Idle EXCEPT !.job = job, !.snap = row,
                               !.pc = IF job.send /\ row.action = "send"
                                      THEN "baseline" ELSE "guard"]
                       ELSE worker
          /\ UNCHANGED <<rows, attempts, pending, faults>>
       \/ \* the read of the row raises: the queue logs the failed job
          /\ Accepting /\ ReadMayFail /\ faults < MaxFault
          /\ faults' = faults + 1
          /\ UNCHANGED <<rows, attempts, pending, worker>>
  /\ UNCHANGED <<clicks, screen, approved>> /\ UNCHANGED envOfWorker

\* The callback raises or returns False; the finally section is still to come.
Fails(w) == worker' = [w EXCEPT !.pc = "finish", !.failed = TRUE]

\* A compare-and-set write of the task on its local record, then go on to pc.
MoveRow(new, pc) ==
  LET t == worker.job.task IN
  \/ /\ rows[t].version = worker.rec.version
     /\ rows' = [rows EXCEPT ![t] = Saved(new)]
     /\ worker' = [worker EXCEPT !.rec = Saved(new), !.snap = Saved(new), !.pc = pc]
     /\ UNCHANGED faults
  \/ /\ rows[t].version # worker.rec.version         \* OutboxConflict
     /\ Fails(worker) /\ UNCHANGED <<rows, faults>>
  \/ /\ faults < MaxFault /\ faults' = faults + 1    \* the database fails
     /\ Fails(worker) /\ UNCHANGED rows

\* read_source_messages before the guard; an invalid snapshot ends the attempt.
ReadBaseline ==
  /\ worker.pc = "baseline"
  /\ \/ \E b \in Baselines : worker' = [worker EXCEPT !.base = b, !.pc = "guard"]
     \/ Fails(worker)
  /\ UNCHANGED <<rows, clicks, attempts, queue, pending, screen, approved, faults>>
  /\ UNCHANGED envOfWorker

\* run_guarded validates the token, then act() enters its first locked section.
EnterGuard ==
  /\ worker.pc = "guard" /\ submitting = None
  /\ LET t == worker.job.task
         entered == [worker EXCEPT !.rec = rows[t]] IN
       IF ~TokenValid \/ ~Accepting \/ rows[t].version # worker.job.version
       THEN Fails(worker) /\ UNCHANGED <<rows, faults>>
       ELSE IF worker.job.send
            THEN worker' = [entered EXCEPT !.pc = "capture"] /\ UNCHANGED <<rows, faults>>
            ELSE \/ /\ rows' = [rows EXCEPT ![t] = Saved([@ EXCEPT !.status = "navigating"])]
                    /\ worker' = [entered EXCEPT !.pc = "navigate", !.rec = rows'[t],
                                                 !.snap = rows'[t]]
                    /\ UNCHANGED faults
                 \/ /\ faults < MaxFault /\ faults' = faults + 1
                    /\ Fails(worker) /\ UNCHANGED rows
  /\ UNCHANGED <<clicks, attempts, queue, pending, screen, approved>> /\ UNCHANGED envOfWorker

\* goto_contact: a blind search, so any contact may come up.
Navigate ==
  /\ worker.pc = "navigate"
  /\ \/ TokenValid /\ screen' \in Shots /\ worker' = [worker EXCEPT !.pc = "capture"]
     \/ Fails(worker) /\ UNCHANGED screen
  /\ UNCHANGED <<rows, clicks, attempts, queue, pending, approved, faults>>
  /\ UNCHANGED envOfWorker

\* capture_client_frame
Capture ==
  /\ worker.pc = "capture"
  /\ \/ TokenValid /\ worker' = [worker EXCEPT !.frame = screen, !.pc = "decide"]
     \/ Fails(worker)
  /\ UNCHANGED <<rows, clicks, attempts, queue, pending, screen, approved, faults>>
  /\ UNCHANGED envOfWorker

\* Mutant of Decide: the confirmed frame is not compared with the present one.
DecideUncompared ==
  /\ worker.pc = "decide"
  /\ IF ~Accepting
     THEN Fails(worker) /\ UNCHANGED <<rows, faults>>
     ELSE IF worker.job.send
     THEN MoveRow([worker.rec EXCEPT !.status = "running", !.baseline = worker.base], "input")
     ELSE MoveRow([worker.rec EXCEPT !.status = "awaiting_confirmation",
                                     !.shot = worker.frame], "finish")
  /\ UNCHANGED <<clicks, attempts, queue, pending, screen, approved>> /\ UNCHANGED envOfWorker

\* The second locked section: save the frame for confirmation, or begin the input
\* when it equals the confirmed, unexpired one.
Decide ==
  /\ worker.pc = "decide"
  /\ LET t == worker.job.task
         rec == worker.rec
         same == worker.job.send /\ worker.frame = rec.shot IN
       \/ /\ ~Accepting
          /\ Fails(worker) /\ UNCHANGED <<rows, faults, approved>>
       \/ \* _save_frame: after a navigation, or on a changed or expired frame
          /\ Accepting
          /\ MoveRow([rec EXCEPT !.status = "awaiting_confirmation", !.shot = worker.frame], "finish")
          /\ approved' = IF rows' = rows THEN approved ELSE [approved EXCEPT ![t] = NoShot]
       \/ /\ Accepting /\ same
          /\ MoveRow([rec EXCEPT !.status = "running", !.baseline = worker.base], "input")
          /\ UNCHANGED approved
  /\ UNCHANGED <<clicks, attempts, queue, pending, screen>> /\ UNCHANGED envOfWorker

\* chat_input
Input ==
  /\ worker.pc = "input"
  /\ \/ TokenValid /\ worker' = [worker EXCEPT !.pc = "barrier"]
     \/ Fails(worker)
  /\ UNCHANGED <<rows, clicks, attempts, queue, pending, screen, approved, faults>>
  /\ UNCHANGED envOfWorker

\* Mutant of Barrier: the mark is left to the write after the click.
BarrierUnmarked ==
  /\ worker.pc = "barrier"
  /\ IF ~Accepting
     THEN Fails(worker) /\ UNCHANGED <<rows, faults>>
     ELSE IF worker.rec.action = "test"
          THEN MoveRow([worker.rec EXCEPT !.status = "filled", !.shot = NoShot], "finish")
          ELSE worker' = [worker EXCEPT !.pc = "armed"] /\ UNCHANGED <<rows, faults>>
  /\ UNCHANGED <<clicks, attempts, queue, pending, screen, approved>> /\ UNCHANGED envOfWorker

\* The third locked section begins: a test is filled, a send made uncertain first.
Barrier ==
  /\ worker.pc = "barrier"
  /\ IF ~Accepting
     THEN Fails(worker) /\ UNCHANGED <<rows, faults>>
     ELSE IF worker.rec.action = "test"
          THEN MoveRow([worker.rec EXCEPT !.status = "filled", !.shot = NoShot], "finish")
          ELSE MoveRow([worker.rec EXCEPT !.mayHaveSent = TRUE], "armed")
  /\ UNCHANGED <<clicks, attempts, queue, pending, screen, approved>> /\ UNCHANGED envOfWorker

\* The second look at the stop flag, the lock still held.
Arm ==
  /\ worker.pc = "armed"
  /\ IF Accepting THEN worker' = [worker EXCEPT !.pc = "posting"] ELSE Fails(worker)
  /\ UNCHANGED <<rows, clicks, attempts, queue, pending, screen, approved, faults>>
  /\ UNCHANGED envOfWorker

\* submit_send: posted, posted although the call raised, or refused.
Click ==
  /\ worker.pc = "posting"
  /\ \/ /\ TokenValid
        /\ clicks' = [clicks EXCEPT ![worker.job.task] = @ + 1]
        /\ worker' = [worker EXCEPT !.pc = "wait"] \/ Fails(worker)
     \/ Fails(worker) /\ UNCHANGED clicks
  /\ UNCHANGED <<rows, attempts, queue, pending, screen, approved, faults>>
  /\ UNCHANGED envOfWorker

\* wait_send, outside the lock
WaitSend ==
  /\ worker.pc = "wait"
  /\ \/ worker' = [worker EXCEPT !.pc = "settle"]
     \/ Fails(worker)
  /\ UNCHANGED <<rows, clicks, attempts, queue, pending, screen, approved, faults>>
  /\ UNCHANGED envOfWorker

\* The last locked section: a finished click awaits local evidence.
Settle ==
  /\ worker.pc = "settle"
  /\ MoveRow([worker.rec EXCEPT !.status = "verifying", !.shot = NoShot], "finish")
  /\ UNCHANGED <<clicks, attempts, queue, pending, screen, approved>> /\ UNCHANGED envOfWorker

\* Mutant of Finish: the authorization ends with every callback.
FinishUnbinds ==
  /\ worker.pc = "finish"
  /\ LET t == worker.job.task IN
       IF worker.failed
       THEN FailIfCurrent(rows, attempts, t, worker.snap, None)
       ELSE /\ attempts' = [attempts EXCEPT ![t] = None]
            /\ UNCHANGED <<rows, pending, faults>>
  /\ worker' = Idle
  /\ UNCHANGED <<clicks, queue, screen, approved>> /\ UNCHANGED envOfWorker

\* finally: leave _active, compensate a failure with the newest known snapshot.
Finish ==
  /\ worker.pc = "finish"
  /\ LET t == worker.job.task IN
       IF worker.failed
       THEN FailIfCurrent(rows, attempts, t, worker.snap, None)
       ELSE /\ attempts' = IF worker.snap.status \in {"queued", "awaiting_confirmation", "queued_send"}
                           THEN attempts ELSE [attempts EXCEPT ![t] = None]
            /\ UNCHANGED <<rows, pending, faults>>
  /\ worker' = Idle
  /\ UNCHANGED <<clicks, queue, screen, approved>> /\ UNCHANGED envOfWorker

WorkerStep == \/ Start \/ ReadBaseline \/ EnterGuard \/ Navigate \/ Capture \/ Decide
              \/ Input \/ Barrier \/ Arm \/ Click \/ WaitSend \/ Settle \/ Finish

--------------------------------------------------------------------------------
(* The verifier thread: reconcile_once *)

Verifiable == {t \in Tasks : /\ rows[t].status \in {"verifying", "unknown"}
                             /\ rows[t].action = "send" /\ rows[t].mayHaveSent}

envOfVerifier == <<clicks, life, queue, submitting, epoch, win, screen, seen, approved, crashes>>

\* Mutant of Scan: the deferred writes are not retried.
ScanUnflushed ==
  /\ Accepting /\ LockFree /\ verifier = None
  /\ verifier' = IF Selected /\ Verifiable # {} THEN epoch ELSE None
  /\ UNCHANGED <<rows, pending, faults, attempts, worker>> /\ UNCHANGED envOfVerifier

\* Flush the pending writes, then start reading the selected account's source.
Scan ==
  /\ Accepting /\ LockFree /\ verifier = None
  /\ Flush(rows, pending, Active)
  /\ verifier' = IF Selected /\ Verifiable # {} THEN epoch ELSE None
  /\ UNCHANGED <<attempts, worker>> /\ UNCHANGED envOfVerifier

\* Mutant of Free: what other rows have claimed is not looked at.
FreeAlways(m) == TRUE

\* The messages that no row has claimed yet.
Free(m) == \A t \in Tasks : rows[t].matched # m

\* Mutant of Apply: only an observation is written, never the end of the wait.
ApplyObserved(verdict) ==
  /\ verifier # None /\ LockFree
  /\ verifier' = None
  /\ rows' = [t \in Tasks |->
       IF t \in Verifiable /\ verdict[t] \in Messages /\ rows[t].baseline # NoBaseline
       THEN Saved([rows[t] EXCEPT !.status = "observed", !.evidence = TRUE,
                                  !.matched = verdict[t]])
       ELSE rows[t]]
  /\ UNCHANGED <<attempts, worker, pending, faults>> /\ UNCHANGED envOfVerifier

\* The locked section after the read: each verdict of match_outbox is applied; a
\* message is claimed once.  SendVerification.tla models the verdict itself.
Apply(verdict) ==
  /\ verifier # None /\ LockFree
  /\ verifier' = None
  /\ IF ~Accepting \/ epoch # verifier
     THEN UNCHANGED <<rows, worker>>
     ELSE /\ \A t \in Verifiable :
               verdict[t] \in Messages => /\ rows[t].baseline # NoBaseline /\ Free(verdict[t])
                                          /\ \A u \in Verifiable \ {t} : verdict[u] # verdict[t]
          /\ rows' = [t \in Tasks |->
               CASE t \in Verifiable /\ verdict[t] \in Messages ->
                      Saved([rows[t] EXCEPT !.status = "observed", !.evidence = TRUE,
                                            !.matched = verdict[t]])
                 [] t \in Verifiable /\ verdict[t] = "unknown" /\ rows[t].status = "verifying" ->
                      Saved([rows[t] EXCEPT !.status = "unknown", !.evidence = TRUE])
                 [] OTHER -> rows[t]]
          /\ worker' = IF Active # None /\ rows'[Active] # rows[Active]
                       THEN [worker EXCEPT !.snap = rows'[Active]] ELSE worker
  /\ UNCHANGED <<attempts, pending, faults>> /\ UNCHANGED envOfVerifier

Reconcile == \E verdict \in [Verifiable -> Messages \cup {"unknown", "wait"}] : Apply(verdict)

--------------------------------------------------------------------------------
(* stop(), process exit, restart *)

\* _stopping.set() waits for no lock.
StopFlag ==
  /\ MayStop /\ life = "up"
  /\ life' = "flagged"
  /\ UNCHANGED <<rows, clicks, attempts, queue, worker, pending, verifier, submitting,
                 epoch, win, screen, seen, approved, faults, crashes>>

\* Mutant of StopDrain: stop() does not wait for the lock of the send barrier.
StopDrainUnlocked ==
  /\ life = "flagged"
  /\ life' = "draining"
  /\ UNCHANGED <<rows, attempts, pending, faults, clicks, queue, worker, verifier, submitting,
                 epoch, win, screen, seen, approved, crashes>>

\* stop(), first locked section: fail the attempts that have not begun; those whose
\* row cannot be read are left to the recovery of the next start.
StopDrain ==
  /\ life = "flagged" /\ LockFree
  /\ \E unread \in SUBSET {t \in Tasks : attempts[t] # None /\ t # Active} :
       LET waiting == {t \in Tasks \ unread : /\ attempts[t] # None /\ t # Active
                                              /\ rows[t].status \in NON_EXECUTING} IN
         /\ attempts' = [t \in Tasks |-> IF t \in waiting
                                         THEN Unbound(attempts, t, rows[t].attempt)[t]
                                         ELSE attempts[t]]
         /\ FlushAfter(faults + Cardinality(unread), rows,
                       [t \in Tasks |-> IF t \in waiting THEN Recorded(pending, t, rows[t])[t]
                                        ELSE pending[t]], Active)
  /\ life' = "draining"
  /\ UNCHANGED <<clicks, queue, worker, verifier, submitting, epoch, win, screen, seen,
                 approved, crashes>>

\* stop(), after the wait for the active attempt ends or times out.
StopFinish ==
  /\ life = "draining" /\ LockFree
  /\ LET t == Active
         snap == worker.snap
         late == t # None /\ snap.status \in ACTIVE_COMPENSATABLE
                          /\ rows[t].version = snap.version IN
       \/ /\ late
          /\ LET R == [rows EXCEPT ![t] = Settled(snap, FALSE)] IN
               /\ worker' = [worker EXCEPT !.snap = R[t]]
               /\ Flush(R, pending, t)
       \/ /\ UNCHANGED worker              \* the write is refused or fails
          /\ FlushAfter(IF late THEN faults + 1 ELSE faults, rows, pending, t)
  /\ attempts' = [t \in Tasks |-> None]
  /\ life' = "stopped"
  /\ UNCHANGED <<clicks, queue, verifier, submitting, epoch, win, screen, seen, approved, crashes>>

\* The process exits after stop() or dies at any point: only the table is left.
Exit ==
  /\ life # "down" /\ crashes < MaxCrash
  /\ crashes' = crashes + 1
  /\ life' = "down"
  /\ attempts' = [t \in Tasks |-> None] /\ pending' = [t \in Tasks |-> None]
  /\ queue' = <<>> /\ worker' = Idle /\ verifier' = None /\ submitting' = None
  /\ UNCHANGED <<rows, clicks, epoch, win, screen, seen, approved, faults>>

\* start() of the next process: recover() runs before any worker.
Boot ==
  /\ life = "down"
  /\ rows' = [t \in Tasks |-> IF rows[t].status \in PENDING THEN Recovered(rows[t]) ELSE rows[t]]
  /\ life' = "up"
  /\ UNCHANGED <<clicks, attempts, queue, worker, pending, verifier, submitting, epoch, win,
                 screen, seen, approved, faults, crashes>>

--------------------------------------------------------------------------------
(* The surroundings *)

\* Another seller is selected: refused while account_lock is held.
SwitchAccount ==
  /\ AccountFree /\ life # "down" /\ epoch < MaxEpoch
  /\ epoch' = epoch + 1
  /\ UNCHANGED <<rows, clicks, life, attempts, queue, worker, pending, verifier, submitting,
                 win, screen, seen, approved, faults, crashes>>

\* The window is lost, at any time, or connected again: a new window generation.
WindowChanges ==
  /\ win < MaxWindow
  /\ win' = win + 1
  /\ UNCHANGED <<rows, clicks, life, attempts, queue, worker, pending, verifier, submitting,
                 epoch, screen, seen, approved, faults, crashes>>

\* The person at the client, a new message or an animation changes the frame.
ScreenChanges ==
  /\ screen' \in Shots \ {screen}
  /\ UNCHANGED <<rows, clicks, life, attempts, queue, worker, pending, verifier, submitting,
                 epoch, win, seen, approved, faults, crashes>>

--------------------------------------------------------------------------------
Init ==
  /\ rows = [t \in Tasks |-> NoRow]
  /\ clicks = [t \in Tasks |-> 0]
  /\ life = "up"
  /\ attempts = [t \in Tasks |-> None] /\ pending = [t \in Tasks |-> None]
  /\ seen = [t \in Tasks |-> None] /\ approved = [t \in Tasks |-> NoShot]
  /\ queue = <<>> /\ worker = Idle /\ verifier = None /\ submitting = None
  /\ epoch = 0 /\ win = 0 /\ faults = 0 /\ crashes = 0
  /\ screen \in Shots

Calls == \/ \E t \in Tasks : \/ \E action \in {"send", "test"} : Submit(t, action)
                             \/ Look(t) \/ Confirm(t) \/ Cancel(t) \/ Retry(t)
         \/ SubmitBind

Next == \/ Calls \/ WorkerStep \/ Scan \/ Reconcile
        \/ StopFlag \/ StopDrain \/ StopFinish \/ Exit \/ Boot
        \/ SwitchAccount \/ WindowChanges \/ ScreenChanges

Spec == Init /\ [][Next]_vars

\* What the threads guarantee: the worker, the verifier and a request that has
\* begun keep running, stop() completes, a process that is down is started again.
\* 120 s after the send match_outbox stops waiting (send_verification.py:95), so a
\* verifier that keeps reading does not answer "wait" for ever: Decided is strong.
Decided == \E verdict \in [Verifiable -> Messages \cup {"unknown"}] : Apply(verdict)

Fairness == /\ WF_vars(WorkerStep) /\ WF_vars(SubmitBind)
            /\ WF_vars(Scan) /\ SF_vars(Decided)
            /\ WF_vars(StopDrain) /\ WF_vars(StopFinish) /\ WF_vars(Boot)

FairSpec == Spec /\ Fairness

--------------------------------------------------------------------------------
(* Invariants *)

OrNone(S) == S \cup {None}
JobType == [task : Tasks, version : Nat, bind : BindingType, send : BOOLEAN]

TypeOK ==
  /\ rows \in [Tasks -> Row]
  /\ clicks \in [Tasks -> Nat]
  /\ life \in {"up", "flagged", "draining", "stopped", "down"}
  /\ attempts \in [Tasks -> OrNone(BindingType)]
  /\ queue \in Seq(JobType)
  /\ worker.job \in OrNone(JobType) /\ worker.rec \in OrNone(Row)
  /\ worker.snap \in OrNone(Row) /\ worker.frame \in Shots \cup {NoShot}
  /\ pending \in [Tasks -> OrNone([attempt : Nat, version : Nat])]
  /\ verifier \in OrNone(0..MaxEpoch)
  /\ submitting \in OrNone(Tasks)
  /\ epoch \in 0..MaxEpoch /\ win \in 0..MaxWindow
  /\ screen \in Shots
  /\ seen \in [Tasks -> OrNone([version : Nat, shot : Shots])]
  /\ approved \in [Tasks -> Shots \cup {NoShot}]
  /\ faults \in 0..MaxFault /\ crashes \in 0..MaxCrash

\* "must persist may_have_sent=True BEFORE invoking a send action"
\* (outbox_store.py:4): over every retry, restart and late thread a task is clicked
\* at most once, and a click is never ahead of its durable mark.
ClickedOnceAndMarked ==
  \A t \in Tasks : clicks[t] <= 1 /\ (clicks[t] = 1 => rows[t].mayHaveSent)

\* Once text entry has begun, cancellation, another attempt, the verifier and a
\* finished stop() leave the row to the worker or mark it uncertain: the client is
\* never typed into for a task the user was told is cancelled, failed or waiting.
InputOwnsRow ==
  worker.pc \in {"input", "barrier", "armed", "posting", "wait", "settle"} =>
    LET row == rows[worker.job.task] IN
      /\ row.attempt = worker.job.bind.attempt
      /\ row.status = "running" \/ (row.status = "unknown" /\ life # "up")

\* The two say together, with the types, that the client is only operated for a task
\* that owns its row (outbox_service.py:386).
InputIsOwned == TypeOK /\ ClickedOnceAndMarked /\ InputOwnsRow

\* A compensation kept back by a database failure never lies in wait for an attempt
\* that is still authorized: confirming, retrying or submitting again cannot be
\* undone by an older failure.
NoLateCompensation ==
  \A t \in Tasks :
    pending[t] # None /\ Applies(rows[t], pending[t]) /\ t # Active
      => attempts[t] = None \/ attempts[t].attempt # pending[t].attempt

\* While the service runs no task is stranded: what the API shows as on its way has
\* a job, the worker, an unfinished submit or a deferred write that will move it,
\* and what waits for the user still has the authorization a confirm needs.
JobOf(t) == \E i \in 1..Len(queue) : /\ queue[i].task = t
                                      /\ queue[i].version = rows[t].version
                                      /\ queue[i].bind = attempts[t]
Stranded(t) ==
  /\ t # Active /\ submitting # t
  /\ ~(pending[t] # None /\ Applies(rows[t], pending[t]))
  /\ \/ rows[t].status \in {"queued", "queued_send"} /\ ~JobOf(t)
     \/ rows[t].status \in GUI_RISK
     \/ rows[t].status = "awaiting_confirmation" /\ attempts[t] = None

NoneStranded == life = "up" => \A t \in Tasks : ~Stranded(t)

(* Action properties *)

\* A task that gets to queued_send with the user's confirmation has the job that
\* will act on it, or a deferred write that will fail it: a full queue ends in
\* "failed" (test_outbox_service.py:367), never in a task nothing will touch.
ConfirmedIsQueued ==
  [][\A t \in Tasks :
       rows[t].status = "awaiting_confirmation" /\ rows'[t].status = "queued_send"
         => JobOf(t)' \/ pending'[t] # None]_vars

\* A click happens only for the frame the user confirmed in this attempt, unchanged
\* since, under the account and window generation of the confirmation.  "stop() must
\* acquire this same lock before it can return": once stop() has been through its
\* critical section no new click is posted, even by a worker that was past its first
\* look at the flag.
ClickAsConfirmed ==
  [][\A t \in Tasks :
       clicks'[t] # clicks[t] =>
         /\ life \notin {"draining", "stopped", "down"}
         /\ worker.job.task = t /\ worker.job.bind.tok = token
         /\ rows[t].status = "running" /\ rows[t].attempt = worker.job.bind.attempt
         /\ rows[t].action = "send" /\ rows[t].baseline # NoBaseline
         /\ worker.frame = approved[t] /\ approved[t] # NoShot]_vars

(* Liveness *)

\* A task on its way through the GUI reaches the user, a final status or the end of
\* the process; database failures delay it, they do not lose it.
Leaves(t, S) == (life = "up" /\ rows[t].status \in S) ~> (life # "up" \/ rows[t].status \notin S)

AttemptsEnd ==
  \A t \in Tasks : Leaves(t, {"queued", "navigating"}) /\ Leaves(t, {"queued_send", "running"})

\* A finished click is judged while its account stays selected.
VerificationEnds ==
  \A t \in Tasks :
    (life = "up" /\ rows[t].status = "verifying") ~>
      (life # "up" \/ ~Selected \/ rows[t].status # "verifying")

\* Both: no task stays on its way for ever (outbox_service.py:280, :424).
TasksEnd == AttemptsEnd /\ VerificationEnds

(* Refinement *)

Promise == INSTANCE OutboxPromise
             WITH Keys <- Tasks, Scopes <- {"seller"}, ScopeOf <- [t \in Tasks |-> "seller"],
                  phase <- [t \in Tasks |-> PhaseOf(rows[t])],
                  claim <- [t \in Tasks |-> rows[t].matched]

\* Locks, queue, crashes and all, the service keeps the promise of the outbox.
KeepsPromise == Promise!PSpec
================================================================================
