---------------------------- MODULE SyncCoordinator ----------------------------
(***************************************************************************)
(* SyncCoordinator of sync_coordinator.py with its surroundings: the       *)
(* middleware that selects accounts and asks for a sync of every new       *)
(* source snapshot, the one-worker CRM executor, the callbacks of its      *)
(* futures, and the threads that wait for an answer and tick meanwhile.    *)
(*                                                                         *)
(* Every action is one section of the coordinator's lock or one step of    *)
(* the executor's worker.  A target is named by its own waiter, the last   *)
(* of its list; the waiters it took over from a replaced target come       *)
(* before it.                                                              *)
(***************************************************************************)
EXTENDS Naturals, Sequences, SequencesExt

CONSTANTS Archives,      \* (seller, canonical data_dir) pairs, each with its own CRM state
          MaxEpoch,      \* bound on account contexts
          ArchiveOf,     \* the archive of each context
          MaxRevision,   \* bound on source snapshots
          MaxTarget,     \* bound on targets the middleware asks for
          MaxFailure,    \* bound on failing syncs
          None

Epochs == 1..MaxEpoch

ASSUME SyncAssumption ==
  /\ MaxEpoch \in Nat \ {0} /\ ArchiveOf \in [Epochs -> Archives]
  /\ MaxRevision \in Nat /\ MaxTarget \in Nat /\ MaxFailure \in Nat
  /\ None \notin Archives /\ None \notin Nat

VARIABLES
  c,          \* the coordinator: the fields its lock protects
  answer,     \* the waiter of each target: None, or an outcome
  crm,        \* targets submitted to the executor, in order
  result,     \* the executor's Future of each target: None, or an outcome
  calls,      \* finished targets whose done callback has not run
  done,       \* _completed
  archive,    \* app_crm_sync_state: revision and source revision of each archive
  asked,      \* history: context and source revision of each target when it was asked for
  source,     \* _source_revision of the middleware
  selecting,  \* None, or the context being selected with the archive state read for it
  unrestored, \* history: the archive state of the selected context could not be read
  life,       \* "up", "stopping", "stopped"
  failures    \* failing syncs so far

vars == <<c, answer, crm, result, calls, done, archive, asked, source, selecting,
          unrestored, life, failures>>

OrNone(S) == S \cup {None}
Targets == 1..(MaxTarget + MaxFailure)
TargetType == [id : Targets, epoch : Epochs, rev : Nat \ {0}, waiters : SUBSET Targets]
Shown == [view : Nat, source : Nat]
Asking == [epoch : Epochs, rev : Nat]
Selection == [ctx : Epochs, state : OrNone(Shown)]
Outcome == [is : {"waiting", "cancelled", "failed", "committed"}, view : Nat, source : Nat]

\* None is no object of the program.
ASSUME NoneAssumption ==
  /\ None \notin Outcome /\ None \notin TargetType /\ None \notin Shown
  /\ None \notin Asking /\ None \notin Selection

Waiting == [is |-> "waiting", view |-> 0, source |-> 0]
Cancellation == [Waiting EXCEPT !.is = "cancelled"]

Failure == [Waiting EXCEPT !.is = "failed"]
NoArchive == [view |-> 0, source |-> 0]

--------------------------------------------------------------------------------
(* Parts of the locked sections *)

\* Mutant of Cancelled: the pending target is dropped without a word to its waiters.
CancelledSilently(A, s) == A

\* _cancel_pending
Cancelled(A, s) ==
  IF s.pending = None THEN A
  ELSE [w \in Targets |-> IF w \in s.pending.waiters /\ A[w] = Waiting
                          THEN Cancellation ELSE A[w]]

\* Mutant of Selected: the restored state overwrites what was published meanwhile.
SelectedAsRead(s, e, restored) ==
  [s EXCEPT !.ctx = e, !.pending = None, !.last = None, !.error = FALSE, !.backoff = FALSE,
            !.shown = restored, !.phase = "idle", !.syncing = FALSE]

\* select(), for a context and the archive state restored for it.
Selected(s, e, restored) ==
  LET view == IF s.ctx = e /\ s.shown.view > restored.view THEN s.shown.view ELSE restored.view
  IN [s EXCEPT !.ctx = e, !.pending = None, !.last = None, !.error = FALSE, !.backoff = FALSE,
               !.shown = [view |-> view, source |-> restored.source],
               !.phase = "idle", !.syncing = FALSE]

Target(id, e, rev, waiters) == [id |-> id, epoch |-> e, rev |-> rev, waiters |-> waiters]

\* The waiters a new target takes over from the pending one it replaces.
Inherited(s) == IF s.pending = None THEN {} ELSE s.pending.waiters

\* A target id that has not been used.
Unused(A) == {w \in Targets : A[w] = None}
FirstUnused(A) == CHOOSE w \in Unused(A) : \A v \in Unused(A) : w <= v

\* _dispatch at the end of a section: hand the pending target to the executor, which
\* may refuse it; the refusal completes the target at once.
Dispatch(s, rest) ==
  LET t == s.pending IN
  IF t = None \/ s.active[t.epoch] # None \/ s.backoff
  THEN c' = s /\ done' = rest /\ UNCHANGED <<crm, result, failures>>
  ELSE /\ c' = [s EXCEPT !.pending = None, !.active[t.epoch] = t,
                         !.syncing = TRUE, !.phase = "syncing"]
       /\ \/ /\ crm' = Append(crm, t)
             /\ done' = rest /\ UNCHANGED <<result, failures>>
          \/ /\ failures < MaxFailure
             /\ failures' = failures + 1
             /\ result' = [result EXCEPT ![t.id] = Failure]
             /\ done' = Append(rest, t) /\ UNCHANGED crm

\* A completed target has failed when its future raised or applied an older snapshot.
Failed(t) == result[t.id].is = "failed" \/ result[t.id].source < t.rev

\* Mutant of Publish: a commit of an older context of the archive is not shown.
PublishOwn(s, t) ==
  IF s.ctx = t.epoch /\ result[t.id].view > s.shown.view
  THEN [s EXCEPT !.shown.view = result[t.id].view] ELSE s

\* _publish_archive_result
Publish(s, t) ==
  IF s.ctx # None /\ ArchiveOf[s.ctx] = ArchiveOf[t.epoch] /\ result[t.id].view > s.shown.view
  THEN [s EXCEPT !.shown.view = result[t.id].view] ELSE s

\* Mutant of Answered: a commit answers every waiter.
AnsweredAll(A, t) ==
  [w \in Targets |-> IF A[w] = Waiting
                     THEN IF Failed(t) THEN Failure ELSE result[t.id] ELSE A[w]]

\* The waiters of t that nothing has answered yet get its outcome.
Answered(A, t) ==
  [w \in Targets |-> IF w \in t.waiters /\ A[w] = Waiting
                     THEN IF Failed(t) THEN Failure ELSE result[t.id] ELSE A[w]]

\* Mutant of Retarget: a failed sync waits for the next request.
RetargetNot(s, A, t) == <<s, A>>

\* A failure of the selected context is retried, by the pending target or a new one.
Retarget(s, A, t) ==
  LET again == Target(FirstUnused(A), t.epoch, t.rev, {FirstUnused(A)}) IN
  IF s.pending # None THEN <<s, A>>
  ELSE <<[s EXCEPT !.pending = again, !.last = again], [A EXCEPT ![again.id] = Waiting]>>

\* The body of tick()'s loop for one completed target, on <<coordinator, answers>>.
Complete(st, t) ==
  LET s == [st[1] EXCEPT !.active[t.epoch] = None]
      A == Answered(st[2], t) IN
  CASE st[1].active[t.epoch] # t -> st
    [] st[1].active[t.epoch] = t /\ t.epoch # s.ctx ->
         <<IF Failed(t) THEN s ELSE Publish(s, t), A>>
    [] st[1].active[t.epoch] = t /\ t.epoch = s.ctx /\ ~Failed(t) ->
         <<[Publish(s, t) EXCEPT !.syncing = FALSE, !.phase = "ready", !.error = FALSE,
                                 !.backoff = FALSE, !.shown.source = result[t.id].source], A>>
    [] st[1].active[t.epoch] = t /\ t.epoch = s.ctx /\ Failed(t) ->
         Retarget([s EXCEPT !.syncing = FALSE, !.phase = "error", !.error = TRUE,
                            !.backoff = TRUE], A, t)

\* tick()'s loop over the completed targets, from the first to the last.
Ticked(completed) ==
  LET after[n \in 0..Len(completed)] ==
        IF n = 0 THEN <<c, answer>> ELSE Complete(after[n - 1], completed[n])
  IN  after[Len(completed)]

\* Within the bound of the model: each failure may take one more target.
Room == Cardinality({w \in Targets : answer[w] # None}) < MaxTarget

--------------------------------------------------------------------------------
(* The middleware *)

\* _select_sync_context, first section: another account, no archive state yet.
SelectBegin(e) ==
  /\ life = "up" /\ selecting = None
  /\ e = (IF c.ctx = None THEN 1 ELSE c.ctx + 1)
  /\ c' = Selected(c, e, NoArchive)
  /\ answer' = Cancelled(answer, c)
  /\ selecting' = [ctx |-> e, state |-> None]
  /\ unrestored' = FALSE
  /\ UNCHANGED <<crm, result, calls, done, archive, asked, source, life, failures>>

\* read_sync_state, without the coordinator's lock.  A failing read (a database or file
\* error) is caught and leaves what an archive without a state does.
SelectRead ==
  /\ selecting # None /\ selecting.state = None
  /\ \/ /\ selecting' = [selecting EXCEPT !.state = archive[ArchiveOf[selecting.ctx]]]
        /\ UNCHANGED unrestored
     \/ /\ selecting' = [selecting EXCEPT !.state = NoArchive]
        /\ unrestored' = TRUE
  /\ UNCHANGED <<c, answer, crm, result, calls, done, archive, asked, source, life, failures>>

\* _select_sync_context, second section: an archive without a state, or one whose
\* state was not read, keeps the first.  No second read follows.
SelectEnd ==
  /\ selecting # None /\ selecting.state # None
  /\ LET restored == selecting.state IN
       IF restored = NoArchive
       THEN UNCHANGED <<c, answer, source>>
       ELSE /\ source' = IF restored.source > source THEN restored.source ELSE source
            /\ c' = Selected(c, selecting.ctx, restored)
            /\ answer' = Cancelled(answer, c)
  /\ selecting' = None
  /\ UNCHANGED <<crm, result, calls, done, archive, asked, unrestored, life, failures>>

\* request(), called with the middleware's lock held; its tick() is the next Tick.
Request(rev) ==
  /\ life = "up" /\ selecting = None /\ c.ctx # None
  /\ LET t == c.last
         known == t # None /\ t.rev = rev /\ (answer[t.id] = Waiting \/ ~c.error) IN
       IF known
       THEN UNCHANGED <<c, answer, crm, result, done, asked, failures>>
       ELSE /\ Room
            /\ LET id == FirstUnused(answer)
                   own == Target(id, c.ctx, rev, {id} \cup Inherited(c)) IN
                 /\ answer' = [answer EXCEPT ![id] = Waiting]
                 /\ asked' = [asked EXCEPT ![id] = [epoch |-> c.ctx, rev |-> rev]]
                 /\ Dispatch([c EXCEPT !.pending = own, !.last = own], done)

\* _refresh found a new source snapshot: the next revision, then request().
Refresh ==
  /\ source < MaxRevision
  /\ source' = source + 1
  /\ Request(source + 1)
  /\ UNCHANGED <<calls, archive, selecting, unrestored, life>>

\* sync_to_crm of an unchanged source
Resync ==
  /\ source > 0
  /\ Request(source)
  /\ UNCHANGED <<calls, archive, source, selecting, unrestored, life>>

\* clear_retry
ClearRetry ==
  /\ life = "up" /\ c.ctx # None
  /\ c' = [c EXCEPT !.error = FALSE, !.backoff = FALSE]
  /\ UNCHANGED <<answer, crm, result, calls, done, archive, asked, source, selecting,
                 unrestored, life, failures>>

\* retry_at passes
BackoffEnds ==
  /\ c.backoff
  /\ c' = [c EXCEPT !.backoff = FALSE]
  /\ UNCHANGED <<answer, crm, result, calls, done, archive, asked, source, selecting,
                 unrestored, life, failures>>

\* tick(), of the service thread or of a waiting one
Tick ==
  /\ done # <<>> \/ (c.pending # None /\ c.active[c.pending.epoch] = None /\ ~c.backoff)
  /\ answer' = Ticked(done)[2]
  /\ asked' = [w \in Targets |->
                IF asked[w] = None /\ answer'[w] # None
                THEN [epoch |-> c.ctx, rev |-> Ticked(done)[1].last.rev] ELSE asked[w]]
  /\ Dispatch(Ticked(done)[1], <<>>)
  /\ UNCHANGED <<calls, archive, source, selecting, unrestored, life>>

--------------------------------------------------------------------------------
(* The CRM executor *)

\* One job: a transaction that commits the next revision of its archive, or an error.
\* The only worker has run the callback of the job before.
Run ==
  /\ crm # <<>> /\ calls = {}
  /\ LET t == Head(crm)
         a == ArchiveOf[t.epoch]
         committed == [is |-> "committed", view |-> archive[a].view + 1, source |-> t.rev] IN
       /\ \/ /\ archive' = [archive EXCEPT ![a] = [view |-> committed.view, source |-> t.rev]]
             /\ result' = [result EXCEPT ![t.id] = committed]
             /\ UNCHANGED failures
          \/ /\ failures < MaxFailure
             /\ failures' = failures + 1
             /\ result' = [result EXCEPT ![t.id] = Failure]
             /\ UNCHANGED archive
       /\ calls' = calls \cup {t}
  /\ crm' = Tail(crm)
  /\ UNCHANGED <<c, answer, done, asked, source, selecting, unrestored, life>>

\* The done callback only queues the target.
Callback(t) ==
  /\ t \in calls
  /\ calls' = calls \ {t}
  /\ done' = Append(done, t)
  /\ UNCHANGED <<c, answer, crm, result, archive, asked, source, selecting,
                 unrestored, life, failures>>

--------------------------------------------------------------------------------
(* shutdown() *)

ShutdownBegin ==
  /\ life = "up" /\ selecting = None
  /\ life' = "stopping"
  /\ answer' = Cancelled(answer, c)
  /\ c' = [c EXCEPT !.pending = None, !.ctx = None]
  /\ UNCHANGED <<crm, result, calls, done, archive, asked, source, selecting, unrestored, failures>>

\* Every active future has a result; each target is queued again, before or after
\* its callback, and a last tick drains the queue.
ShutdownEnd ==
  LET running == {c.active[e] : e \in Epochs} \ {None} IN
  /\ life = "stopping"
  /\ \A t \in running : result[t.id] # None
  /\ LET all == done \o SetToSeq(running) IN
       /\ answer' = Ticked(all)[2]
       /\ Dispatch(Ticked(all)[1], <<>>)
  /\ life' = "stopped"
  /\ UNCHANGED <<calls, archive, asked, source, selecting, unrestored>>

--------------------------------------------------------------------------------
Init ==
  /\ c = [ctx |-> None, pending |-> None, active |-> [e \in Epochs |-> None], last |-> None,
          shown |-> NoArchive, phase |-> "idle", error |-> FALSE, backoff |-> FALSE,
          syncing |-> FALSE]
  /\ answer = [w \in Targets |-> None] /\ result = [w \in Targets |-> None]
  /\ asked = [w \in Targets |-> None]
  /\ crm = <<>> /\ calls = {} /\ done = <<>>
  /\ archive = [a \in Archives |-> NoArchive]
  /\ source = 0 /\ selecting = None /\ unrestored = FALSE /\ life = "up" /\ failures = 0

Next == \/ \E e \in Epochs : SelectBegin(e)
        \/ SelectRead \/ SelectEnd \/ Refresh \/ Resync \/ ClearRetry \/ BackoffEnds \/ Tick
        \/ Run \/ \E t \in calls : Callback(t)
        \/ ShutdownBegin \/ ShutdownEnd

Spec == Init /\ [][Next]_vars

\* The service thread ticks, the clock passes, the executor's worker runs its jobs and
\* their callbacks, and what the middleware and shutdown() have begun they finish.
Fairness == /\ WF_vars(Tick) /\ WF_vars(BackoffEnds) /\ WF_vars(Run)
            /\ WF_vars(\E t \in calls : Callback(t))
            /\ WF_vars(SelectRead) /\ WF_vars(SelectEnd) /\ WF_vars(ShutdownEnd)

FairSpec == Spec /\ Fairness

--------------------------------------------------------------------------------
(* Invariants *)

TypeOK ==
  /\ c.ctx \in OrNone(Epochs) /\ c.pending \in OrNone(TargetType) /\ c.last \in OrNone(TargetType)
  /\ c.active \in [Epochs -> OrNone(TargetType)]
  /\ c.shown \in Shown /\ c.phase \in {"idle", "syncing", "ready", "error"}
  /\ answer \in [Targets -> OrNone(Outcome)]
  /\ result \in [Targets -> OrNone(Outcome)]
  /\ crm \in Seq(TargetType) /\ calls \subseteq TargetType /\ done \in Seq(TargetType)
  /\ archive \in [Archives -> Shown]
  /\ asked \in [Targets -> OrNone(Asking)]
  /\ source \in 0..MaxRevision /\ unrestored \in BOOLEAN /\ life \in {"up", "stopping", "stopped"}
  /\ failures \in 0..MaxFailure

\* An answer covers what was asked: a waiter that was handed from a replaced target
\* to a newer one gets a result whose transaction is committed in the archive of its
\* own account and applies its source snapshot or a newer one.
AnswersCover ==
  \A w \in Targets :
    answer[w] # None /\ answer[w].is = "committed" =>
      LET kept == archive[ArchiveOf[asked[w].epoch]] IN
        /\ asked[w].rev <= answer[w].source
        /\ answer[w].source <= kept.source /\ answer[w].view <= kept.view

\* When the coordinator shows the current source revision with no error and no sync
\* on its way, the archive of the selected account does hold that snapshot; and once
\* no job, callback or selection is outstanding the revision shown is the committed one.
\* One exception: the restore of the selected context failed and nothing of its archive
\* has been published since.  Then the blank state of the first section is shown, and its
\* source revision is behind the current one, so that the page calls it stale.
FreshIsTrue ==
  LET settled == c.ctx # None /\ selecting = None IN
  /\ settled /\ c.shown.source = source /\ ~c.error /\ ~c.syncing /\ c.pending = None
       => archive[ArchiveOf[c.ctx]].source = source
  /\ settled /\ crm = <<>> /\ calls = {} /\ done = <<>>
       => \/ c.shown.view = archive[ArchiveOf[c.ctx]].view
          \/ unrestored /\ c.shown = NoArchive /\ c.shown.source < source

\* Both: what a caller and the page are told is true of the archive
\* (sync_coordinator.py:88, :133).
AnswersTrue == AnswersCover /\ FreshIsTrue

(* Action properties *)

\* What a workbench sees of one account context only moves forward, even when a
\* commit is published between the two halves of a selection; and a late job of a
\* deselected context never takes an archive back to an older snapshot.
NeverRegresses ==
  [][/\ c'.ctx = c.ctx /\ c.ctx # None => c'.shown.view >= c.shown.view
     /\ \A a \in Archives : archive'[a].source >= archive[a].source]_vars

(* Liveness *)

\* Every call of wait() returns, with a result, an error or a cancellation (the calls are
\* bounded by Targets, so each returns if a time comes at which nobody waits).
Blocked == \E w \in Targets : answer[w] = Waiting
WaitersAnswered == Blocked ~> ~Blocked

\* The newest snapshot asked for, for the selected account, is not committed yet.
Behind == c.ctx # None /\ c.last # None /\ archive[ArchiveOf[c.ctx]].source < c.last.rev

\* Failures are retried without another request: while its account stays selected the
\* newest snapshot asked for is committed in the end.
NewestCommitted == Behind ~> ~Behind

\* Both, over account switches, failures and shutdown (sync_coordinator.py:67, :173, :207).
RequestsEnd == WaitersAnswered /\ NewestCommitted
================================================================================
