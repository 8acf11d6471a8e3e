------------------------- MODULE SyncCoordinatorProofs -------------------------
(***************************************************************************)
(* Theorems about SyncCoordinator, for any archives, contexts and bounds:  *)
(* a waiter's answer and what the page is shown are true of the archive,   *)
(* and nothing goes back to an older revision or snapshot.                 *)
(*                                                                         *)
(* tick() works through a queue, so the invariant must hold between two    *)
(* turns of its loop, when the coordinator and the answers have changed    *)
(* and nothing else has.  Its parts are therefore stated of a coordinator  *)
(* s, answers A, questions K, source revision S and the set R of finished  *)
(* targets that are still to be looked at.                                 *)
(***************************************************************************)
EXTENDS SyncCoordinator, FiniteSetTheorems, WellFoundedInduction, TLAPS

Result == [is : {"failed", "committed"}, view : Nat, source : Nat]
Coordinator == [ctx : OrNone(Epochs), pending : OrNone(TargetType),
                active : [Epochs -> OrNone(TargetType)], last : OrNone(TargetType),
                shown : Shown, phase : {"idle", "syncing", "ready", "error"},
                error : BOOLEAN, backoff : BOOLEAN, syncing : BOOLEAN]
Answers == [Targets -> OrNone(Outcome)]
Questions == [Targets -> OrNone(Asking)]
Finished == {done[i] : i \in 1..Len(done)}

(* What a turn of tick()'s loop leaves alone *)
AroundOK ==
  /\ result \in [Targets -> OrNone(Result)]
  /\ crm \in Seq(TargetType) /\ calls \subseteq TargetType
  /\ archive \in [Archives -> Shown] /\ selecting \in OrNone(Selection)
  /\ unrestored \in BOOLEAN /\ failures \in 0..MaxFailure

LoopTypes(s, A, K, S, R) ==
  /\ s \in Coordinator /\ A \in Answers /\ K \in Questions /\ S \in 0..MaxRevision
  /\ R \subseteq TargetType

Committed(t) == result[t.id] # None /\ result[t.id].is = "committed"
FailedOf(s) == {e \in Epochs : s.active[e] # None /\ result[s.active[e].id] # None
                               /\ result[s.active[e].id].is = "failed"}
Used(A) == {w \in Targets : A[w] # None}

\* A target at work is of a context no later than the selected one, everybody who waits
\* for it asked for no more than it applies, and what it committed is in the archive.
ActiveOK(s, A, K) ==
  \A e \in Epochs : s.active[e] # None =>
    LET t == s.active[e] IN
    /\ t.epoch = e /\ A[t.id] # None /\ (s.ctx # None => e <= s.ctx)
    /\ \A w \in t.waiters : K[w] # None /\ K[w].epoch = e /\ K[w].rev <= t.rev
    /\ Committed(t) => /\ result[t.id].source = t.rev
                       /\ result[t.id].source <= archive[ArchiveOf[e]].source
                       /\ result[t.id].view <= archive[ArchiveOf[e]].view

OneEach(s) ==
  \A e, f \in Epochs : s.active[e] # None /\ s.active[f] # None
                       /\ s.active[e].id = s.active[f].id => e = f

PendingOK(s, A, K) ==
  s.pending # None =>
    /\ s.ctx # None /\ s.pending.epoch = s.ctx /\ s.last = s.pending
    /\ A[s.pending.id] # None /\ result[s.pending.id] = None
    /\ \A e \in Epochs : s.active[e] # None => s.active[e].id # s.pending.id
    /\ \A w \in s.pending.waiters :
         A[w] # None /\ (K[w] # None => K[w].epoch = s.ctx /\ K[w].rev <= s.pending.rev)

\* The last target is of the newest snapshot; it is the pending one or the one at work.
LastOK(s, S) ==
  s.ctx # None =>
    /\ s.last # None => s.last.rev = S
    /\ s.active[s.ctx] # None => s.last # None /\ (s.pending = None => s.last = s.active[s.ctx])

\* Between the two halves of a selection nothing is asked for the new context.
SelectOK(s) ==
  selecting # None =>
    /\ s.ctx = selecting.ctx /\ s.last = None /\ s.pending = None /\ s.active[s.ctx] = None
    /\ selecting.state = None => ~ unrestored
    /\ selecting.state # None =>
         /\ selecting.state.source <= archive[ArchiveOf[s.ctx]].source
         /\ selecting.state.view <= archive[ArchiveOf[s.ctx]].view
         /\ unrestored => selecting.state = NoArchive

ShownOK(s) ==
  s.ctx # None => /\ s.shown.source <= archive[ArchiveOf[s.ctx]].source
                  /\ s.shown.view <= archive[ArchiveOf[s.ctx]].view

\* The outcome of a target that is still to be completed, and one that is the newest
\* commit of its archive.
Arrived(s, R, e) ==
  s.active[e] # None /\ s.active[e] \in calls \cup R /\ Committed(s.active[e])
Newest(s, R, f, a) ==
  Arrived(s, R, f) /\ ArchiveOf[f] = a /\ result[s.active[f].id].view = archive[a].view
Coming(s, R, e) == Newest(s, R, e, ArchiveOf[s.ctx])

\* If an outcome of an archive is still to be completed, its newest commit is, too.
NewestOK(s, R) ==
  s.ctx # None => \A e \in Epochs : Arrived(s, R, e) =>
                    \E f \in Epochs : Newest(s, R, f, ArchiveOf[e])

\* A commit that is not shown is on its way: read by the selection, or the outcome of a
\* target that is still to be completed.  Or nothing has been restored, and then nothing
\* is shown at all.
NothingRestored == unrestored \/ (selecting # None /\ selecting.state = None)

ViewOK(s, R) ==
  s.ctx # None =>
    \/ s.shown.view = archive[ArchiveOf[s.ctx]].view
    \/ /\ selecting # None /\ selecting.state # None
       /\ selecting.state.view = archive[ArchiveOf[s.ctx]].view
    \/ \E e \in Epochs : Coming(s, R, e)
    \/ NothingRestored /\ s.shown = NoArchive

\* The executor's jobs are at work, one of a context, in the order of their snapshots,
\* none older than what is committed anywhere.
QueueOK(s, S) ==
  \A i \in 1..Len(crm) :
    /\ s.active[crm[i].epoch] = crm[i] /\ result[crm[i].id] = None /\ crm[i].rev <= S
    /\ \A a \in Archives : archive[a].source <= crm[i].rev
    /\ \A j \in 1..Len(crm) : i < j => crm[i].rev <= crm[j].rev /\ crm[i].epoch # crm[j].epoch

ArchiveOK(S) ==
  \A a \in Archives : archive[a].source <= S /\ (archive[a].view # 0 => S # 0)

DoneOK(R) == \A t \in calls \cup R : result[t.id] # None

UsedOK(s, A, K) ==
  \A w \in Targets : /\ result[w] # None \/ K[w] # None => A[w] # None
                     /\ A[w] # None /\ K[w] = None => s.pending # None

CoverOK(A, K) ==
  \A w \in Targets : A[w] # None /\ A[w].is = "committed" =>
    /\ K[w] # None /\ K[w].rev <= A[w].source
    /\ A[w].source <= archive[ArchiveOf[K[w].epoch]].source
    /\ A[w].view <= archive[ArchiveOf[K[w].epoch]].view

\* Each failure may take one more target, so there is one left for every retry.
BudgetOK(s, A) ==
  /\ Cardinality(FailedOf(s)) <= failures
  /\ Cardinality(Used(A)) + Cardinality(FailedOf(s)) <= MaxTarget + failures

LoopOK(s, A, K, S, R) ==
  /\ LoopTypes(s, A, K, S, R)
  /\ ActiveOK(s, A, K) /\ OneEach(s) /\ PendingOK(s, A, K) /\ LastOK(s, S)
  /\ SelectOK(s) /\ ShownOK(s) /\ ViewOK(s, R) /\ QueueOK(s, S) /\ ArchiveOK(S)
  /\ DoneOK(R) /\ UsedOK(s, A, K) /\ CoverOK(A, K) /\ BudgetOK(s, A) /\ NewestOK(s, R)

\* Outcomes are completed in the order of their commits: those in the queue, and the one
\* whose callback has not run is the latest.
Before(t, u) ==
  Committed(t) /\ Committed(u) /\ ArchiveOf[t.epoch] = ArchiveOf[u.epoch]
    => result[t.id].view <= result[u.id].view

Settled(t) == Committed(t) => result[t.id].view <= archive[ArchiveOf[t.epoch]].view

OrderOK(q) ==
  /\ \A i, j \in 1..Len(q) : i < j => Before(q[i], q[j])
  /\ \A t \in calls : Settled(t) /\ \A u \in calls : Before(u, t)
  /\ \A i \in 1..Len(q) : Settled(q[i]) /\ \A t \in calls : Before(q[i], t)

\* A coordinator that is shut down has no context, one without a context no work.
LifeOK ==
  /\ life \in {"up", "stopping", "stopped"}
  /\ life # "up" => c.ctx = None /\ selecting = None
  /\ life = "up" /\ c.ctx = None => \A e \in Epochs : c.active[e] = None

IInv ==
  /\ AroundOK /\ LoopOK(c, answer, asked, source, Finished) /\ LifeOK /\ OrderOK(done)
  /\ done \in Seq(TargetType)
  /\ \A w \in Targets : answer[w] # None => asked[w] # None

--------------------------------------------------------------------------------
(* What the invariant says *)

\* The type invariant that the runs check follows from the types of the proof.
LEMMA TypesSuffice == IInv => TypeOK
<1> SUFFICES ASSUME IInv PROVE TypeOK
  OBVIOUS
<1>1. /\ c \in Coordinator /\ answer \in Answers /\ asked \in Questions
      /\ source \in 0..MaxRevision /\ AroundOK /\ done \in Seq(TargetType)
      /\ life \in {"up", "stopping", "stopped"}
  BY DEF IInv, LoopOK, LoopTypes, LifeOK
<1>2. result \in [Targets -> OrNone(Outcome)]
  <2>1. ASSUME NEW x \in OrNone(Result) PROVE x \in OrNone(Outcome)
    BY <2>1 DEF OrNone, Result, Outcome
  <2> QED BY <1>1, <2>1 DEF AroundOK
<1>3. /\ c.ctx \in OrNone(Epochs) /\ c.pending \in OrNone(TargetType)
      /\ c.last \in OrNone(TargetType) /\ c.active \in [Epochs -> OrNone(TargetType)]
      /\ c.shown \in Shown /\ c.phase \in {"idle", "syncing", "ready", "error"}
  BY <1>1 DEF Coordinator
<1> QED BY <1>1, <1>2, <1>3 DEF TypeOK, AroundOK, Answers, Questions

LEMMA InvariantSuffices == IInv => AnswersTrue
<1> SUFFICES ASSUME IInv PROVE AnswersTrue
  OBVIOUS
<1>1. AnswersCover
  BY DEF IInv, LoopOK, CoverOK, AnswersCover
<1>2. FreshIsTrue
  <2> SUFFICES ASSUME c.ctx # None, selecting = None PROVE
        /\ c.shown.source = source => archive[ArchiveOf[c.ctx]].source = source
        /\ crm = <<>> /\ calls = {} /\ done = <<>>
             => \/ c.shown.view = archive[ArchiveOf[c.ctx]].view
                \/ unrestored /\ c.shown = NoArchive /\ c.shown.source < source
    BY DEF FreshIsTrue
  <2>1. c.ctx \in Epochs /\ c.shown.source \in Nat /\ source \in Nat
    BY SyncAssumption DEF IInv, LoopOK, LoopTypes, Coordinator, OrNone, Shown
  <2>2. ArchiveOf[c.ctx] \in Archives
    BY <2>1, SyncAssumption
  <2>3. archive[ArchiveOf[c.ctx]].source \in Nat
    BY <2>2 DEF IInv, AroundOK, Shown
  <2>4. c.shown.source <= archive[ArchiveOf[c.ctx]].source
    BY DEF IInv, LoopOK, ShownOK
  <2>5. archive[ArchiveOf[c.ctx]].source <= source
    BY <2>2 DEF IInv, LoopOK, ArchiveOK
  <2>6. c.shown.source = source => archive[ArchiveOf[c.ctx]].source = source
    BY <2>1, <2>3, <2>4, <2>5
  <2>7. ASSUME calls = {}, done = <<>>, c.shown.view # archive[ArchiveOf[c.ctx]].view
        PROVE  unrestored /\ c.shown = NoArchive /\ c.shown.source < source
    <3>1. calls \cup Finished = {}
      BY <2>7 DEF Finished
    <3>2. \A e \in Epochs : ~ Coming(c, Finished, e)
      BY <3>1 DEF Coming, Newest, Arrived
    <3>3. unrestored /\ c.shown = NoArchive
      BY <2>7, <3>2 DEF IInv, LoopOK, ViewOK, NothingRestored
    <3>4. c.shown.source = 0 /\ c.shown.view = 0
      BY <3>3 DEF NoArchive
    <3>5. source # 0
      BY <2>2, <2>7, <3>4 DEF IInv, LoopOK, ArchiveOK
    <3> QED BY <2>1, <3>3, <3>4, <3>5
  <2> QED BY <2>6, <2>7
<1> QED BY <1>1, <1>2 DEF AnswersTrue

--------------------------------------------------------------------------------
(* Numbers: the least of a set, and induction from it *)

LEMMA LeastNat == ASSUME NEW T, T \subseteq Nat, T # {} PROVE \E x \in T : \A y \in T : x <= y
<1> DEFINE R == OpToRel(<, Nat)
<1>1. IsWellFoundedOn(R, Nat)
  BY NatLessThanWellFounded
<1>2. \A x, y \in Nat : <<y, x>> \in R <=> y < x
  BY DEF OpToRel
<1> HIDE DEF R
<1>3. PICK x \in T : \A y \in T : ~ (<<y, x>> \in R)
  BY <1>1, WFMin, Zenon
<1>4. \A y \in T : x <= y
  <2>1. \A y \in T : y \in Nat /\ x \in Nat /\ ~(y < x)
    BY <1>2, <1>3, Zenon
  <2> QED BY <2>1
<1> QED BY <1>4

\* A set of indices that holds 0 and with each index the next one is all of them.
LEMMA Upward == ASSUME NEW N \in Nat, NEW T, 0 \in T, \A n \in 0..(N - 1) : n \in T => n + 1 \in T
                PROVE  \A n \in 0..N : n \in T
<1> DEFINE U == {n \in 0..N : n \notin T}
<1> SUFFICES ASSUME U # {} PROVE FALSE
  OBVIOUS
<1>1. U \subseteq Nat
  OBVIOUS
<1>2. PICK x \in U : \A y \in U : x <= y
  BY <1>1, LeastNat
<1>3. x \in 0..N /\ x \notin T /\ x # 0
  OBVIOUS
<1>4. x - 1 \in 0..(N - 1) /\ x - 1 \in 0..N
  BY <1>3
<1>5. x - 1 \notin U
  BY <1>2, <1>3, <1>4
<1>6. x - 1 \in T
  BY <1>4, <1>5
<1>7. (x - 1) + 1 \in T
  BY <1>4, <1>6
<1> QED BY <1>3, <1>7

LEMMA EpochTypes ==
  /\ Epochs \subseteq Nat \ {0} /\ None \notin Epochs
  /\ \A e \in Epochs : ArchiveOf[e] \in Archives
BY SyncAssumption DEF Epochs

LEMMA TargetsFinite == IsFiniteSet(Targets) /\ Cardinality(Targets) = MaxTarget + MaxFailure
                       /\ Targets \subseteq Nat
<1>1. MaxTarget + MaxFailure \in Nat
  BY SyncAssumption
<1>2. IsFiniteSet(1..(MaxTarget + MaxFailure))
      /\ Cardinality(1..(MaxTarget + MaxFailure)) = MaxTarget + MaxFailure
  BY <1>1, FS_Interval
<1> QED BY <1>1, <1>2 DEF Targets

LEMMA FirstUnusedFacts ==
  ASSUME NEW A, Unused(A) # {}
  PROVE  FirstUnused(A) \in Targets /\ A[FirstUnused(A)] = None
<1>1. Unused(A) \subseteq Nat
  BY TargetsFinite DEF Unused
<1>2. \E w \in Unused(A) : \A v \in Unused(A) : w <= v
  BY <1>1, LeastNat
<1>3. FirstUnused(A) \in Unused(A)
  BY <1>2 DEF FirstUnused
<1> QED BY <1>3 DEF Unused

\* As long as not all ids are taken there is one to take.
LEMMA RoomLeft ==
  ASSUME NEW A, Cardinality(Used(A)) < MaxTarget + MaxFailure
  PROVE  Unused(A) # {}
<1> SUFFICES ASSUME Unused(A) = {} PROVE FALSE
  OBVIOUS
<1>1. Used(A) = Targets
  BY DEF Used, Unused
<1> QED BY <1>1, TargetsFinite, SyncAssumption

LEMMA UsedFinite == ASSUME NEW A PROVE IsFiniteSet(Used(A)) /\ Cardinality(Used(A)) \in Nat
<1>1. Used(A) \subseteq Targets
  BY DEF Used
<1>2. IsFiniteSet(Used(A))
  BY <1>1, TargetsFinite, FS_Subset
<1> QED BY <1>2, FS_CardinalityType

LEMMA FailedFinite ==
  ASSUME NEW s PROVE IsFiniteSet(FailedOf(s)) /\ Cardinality(FailedOf(s)) \in Nat
<1>1. IsFiniteSet(Epochs)
  BY SyncAssumption, FS_Interval DEF Epochs
<1>2. FailedOf(s) \subseteq Epochs
  BY DEF FailedOf
<1>3. IsFiniteSet(FailedOf(s))
  BY <1>1, <1>2, FS_Subset
<1> QED BY <1>3, FS_CardinalityType

--------------------------------------------------------------------------------
(* The loop of tick() as a function *)

\* The recursive function in Ticked, for a queue whose first n targets are looked at.
Trace(completed) ==
  CHOOSE after : after = [n \in 0..Len(completed) |->
    IF n = 0 THEN <<c, answer>> ELSE Complete(after[n - 1], completed[n])]

LEMMA TickedTrace == ASSUME NEW completed PROVE Ticked(completed) = Trace(completed)[Len(completed)]
BY DEF Ticked, Trace

\* Such a function exists: it is extended by one turn at a time.
LEMMA TraceExists ==
  ASSUME NEW completed, Len(completed) \in Nat
  PROVE  /\ Trace(completed)[0] = <<c, answer>>
         /\ \A n \in 0..(Len(completed) - 1) :
              Trace(completed)[n + 1] = Complete(Trace(completed)[n], completed[n + 1])
<1> DEFINE N == Len(completed)
           Begun(m, f) == f = [n \in 0..m |->
              IF n = 0 THEN <<c, answer>> ELSE Complete(f[n - 1], completed[n])]
           T == {m \in Nat : \E f : Begun(m, f)}
<1>1. 0 \in T
  <2> DEFINE f == [n \in 0..0 |-> <<c, answer>>]
  <2>1. Begun(0, f)
    OBVIOUS
  <2> QED BY <2>1
<1>2. ASSUME NEW m \in 0..(N - 1), m \in T PROVE m + 1 \in T
  <2>1. PICK f : Begun(m, f)
    BY <1>2
  <2> DEFINE g == [n \in 0..(m + 1) |-> IF n = m + 1 THEN Complete(f[m], completed[m + 1])
                                        ELSE f[n]]
  <2>2. m \in Nat
    OBVIOUS
  <2>3. \A n \in 0..m : g[n] = f[n]
    BY <2>2
  <2>4. ASSUME NEW n \in 0..(m + 1)
        PROVE  g[n] = IF n = 0 THEN <<c, answer>> ELSE Complete(g[n - 1], completed[n])
    <3>1. CASE n = m + 1
      <4>1. g[n] = Complete(f[m], completed[m + 1]) /\ n # 0 /\ n - 1 = m
        BY <3>1, <2>2
      <4>2. g[m] = f[m]
        BY <2>2, <2>3
      <4> HIDE DEF g
      <4> QED BY <3>1, <4>1, <4>2
    <3>2. CASE n # m + 1
      <4>1. n \in 0..m /\ (n # 0 => n - 1 \in 0..m)
        BY <3>2, <2>2
      <4>2. f[n] = IF n = 0 THEN <<c, answer>> ELSE Complete(f[n - 1], completed[n])
        BY <2>1, <4>1
      <4>3. g[n] = f[n] /\ (n # 0 => g[n - 1] = f[n - 1])
        BY <2>3, <4>1
      <4> HIDE DEF g
      <4> QED BY <4>2, <4>3
    <3> QED BY <3>1, <3>2
  <2>5. Begun(m + 1, g)
    <3> DEFINE h == [n \in 0..(m + 1) |->
              IF n = 0 THEN <<c, answer>> ELSE Complete(g[n - 1], completed[n])]
    <3>1. g = [n \in 0..(m + 1) |-> g[n]]
      OBVIOUS
    <3> HIDE DEF g
    <3>2. g = h
      BY <2>4, <3>1
    <3> QED BY <3>2
  <2> HIDE DEF g, Begun
  <2>6. \E h : Begun(m + 1, h)
    BY <2>5
  <2> QED BY <2>2, <2>6
<1> HIDE DEF T
<1>3. N \in T
  <2>1. N \in Nat
    OBVIOUS
  <2>2. \A n \in 0..N : n \in T
    BY <1>1, <1>2, <2>1, Upward
  <2> QED BY <2>1, <2>2
<1>4. \E f : Begun(N, f)
  BY <1>3 DEF T
<1>5. Begun(N, Trace(completed))
  BY <1>4 DEF Trace
<1> HIDE DEF N
<1>6. \A n \in 0..N : Trace(completed)[n] =
        IF n = 0 THEN <<c, answer>> ELSE Complete(Trace(completed)[n - 1], completed[n])
  BY <1>5
<1>7. N \in Nat
  BY DEF N
<1>8. Trace(completed)[0] = <<c, answer>>
  BY <1>6, <1>7
<1>9. ASSUME NEW n \in 0..(N - 1)
      PROVE  Trace(completed)[n + 1] = Complete(Trace(completed)[n], completed[n + 1])
  <2>1. n + 1 \in 0..N /\ n + 1 # 0 /\ (n + 1) - 1 = n
    BY <1>7
  <2> QED BY <1>6, <2>1
<1> QED BY <1>8, <1>9 DEF N

--------------------------------------------------------------------------------
(* What one turn of the loop does *)

LEMMA PublishFacts ==
  ASSUME NEW s \in Coordinator, NEW t, result[t.id] \in Result
  PROVE  /\ Publish(s, t) \in Coordinator
         /\ Publish(s, t).ctx = s.ctx /\ Publish(s, t).pending = s.pending
         /\ Publish(s, t).active = s.active /\ Publish(s, t).last = s.last
         /\ Publish(s, t).shown.source = s.shown.source
         /\ Publish(s, t).shown.view =
              IF s.ctx # None /\ ArchiveOf[s.ctx] = ArchiveOf[t.epoch]
                 /\ result[t.id].view > s.shown.view
              THEN result[t.id].view ELSE s.shown.view
<1> DEFINE v == [s.shown EXCEPT !.view = result[t.id].view]
           p == [s EXCEPT !.shown = v]
<1>1. s.shown \in Shown /\ result[t.id].view \in Nat
  BY DEF Coordinator, Result
<1>2. v \in Shown /\ v.source = s.shown.source /\ v.view = result[t.id].view
  BY <1>1 DEF Shown
<1>3. [s EXCEPT !.shown.view = result[t.id].view] = p
  OBVIOUS
<1> HIDE DEF v
<1>4. p \in Coordinator /\ p.ctx = s.ctx /\ p.pending = s.pending /\ p.active = s.active
      /\ p.last = s.last /\ p.shown = v
  BY <1>2 DEF Coordinator
<1> HIDE DEF p
<1> QED BY <1>2, <1>3, <1>4 DEF Publish

LEMMA AnsweredFacts ==
  ASSUME NEW A \in Answers, NEW t, result[t.id] \in Result
  PROVE  /\ Answered(A, t) \in Answers /\ Used(Answered(A, t)) = Used(A)
         /\ \A w \in Targets : Answered(A, t)[w] = None <=> A[w] = None
         /\ \A w \in Targets : \/ Answered(A, t)[w] = A[w]
                               \/ /\ w \in t.waiters /\ A[w] # None
                                  /\ Answered(A, t)[w] = IF Failed(t) THEN Failure ELSE result[t.id]
<1> DEFINE B == Answered(A, t)
<1>1. result[t.id] \in Outcome /\ Failure \in Outcome
  BY DEF Result, Outcome, Failure, Waiting
<1>2. Waiting # None /\ Failure # None /\ result[t.id] # None
  BY <1>1, NoneAssumption DEF Outcome, Waiting
<1>3. B = [w \in Targets |-> IF w \in t.waiters /\ A[w] = Waiting
                             THEN IF Failed(t) THEN Failure ELSE result[t.id] ELSE A[w]]
  BY DEF Answered
<1>4. B \in Answers
  BY <1>1, <1>3 DEF Answers, OrNone
<1>5. \A w \in Targets : \/ B[w] = A[w]
                         \/ /\ w \in t.waiters /\ A[w] # None
                            /\ B[w] = IF Failed(t) THEN Failure ELSE result[t.id]
  BY <1>2, <1>3
<1>6. \A w \in Targets : B[w] = None <=> A[w] = None
  BY <1>2, <1>5
<1>7. Used(B) = Used(A)
  BY <1>6 DEF Used
<1> QED BY <1>4, <1>5, <1>6, <1>7

\* The id of a retry and the retry itself.
RetryId(A, t) == FirstUnused(Answered(A, t))
Retry(A, t) == Target(RetryId(A, t), t.epoch, t.rev, {RetryId(A, t)})
Retried(s, t) == Failed(t) /\ t.epoch = s.ctx /\ s.pending = None

LEMMA CompleteFacts ==
  ASSUME NEW s \in Coordinator, NEW A \in Answers, NEW t \in TargetType,
         result[t.id] \in Result, s.active[t.epoch] = t, t.epoch \in Epochs,
         Retried(s, t) => RetryId(A, t) \in Targets
  PROVE  LET p == Complete(<<s, A>>, t)[1]
             B == Complete(<<s, A>>, t)[2] IN
         /\ Complete(<<s, A>>, t) = <<p, B>>
         /\ p \in Coordinator /\ B \in Answers
         /\ p.ctx = s.ctx /\ p.active = [s.active EXCEPT ![t.epoch] = None]
         /\ ~ Retried(s, t) => /\ p.pending = s.pending /\ p.last = s.last
                               /\ B = Answered(A, t)
         /\ Retried(s, t) => /\ p.pending = Retry(A, t) /\ p.last = Retry(A, t)
                             /\ B = [Answered(A, t) EXCEPT ![RetryId(A, t)] = Waiting]
         /\ p.shown.source = IF t.epoch = s.ctx /\ ~ Failed(t)
                             THEN result[t.id].source ELSE s.shown.source
         /\ p.shown.view = IF /\ ~ Failed(t) /\ s.ctx # None
                              /\ ArchiveOf[s.ctx] = ArchiveOf[t.epoch]
                              /\ result[t.id].view > s.shown.view
                           THEN result[t.id].view ELSE s.shown.view
<1> DEFINE free == [s.active EXCEPT ![t.epoch] = None]
           r == [s EXCEPT !.active = free]
           B0 == Answered(A, t)
<1>1. /\ free \in [Epochs -> OrNone(TargetType)]
      /\ s.shown \in Shown
  BY DEF Coordinator, OrNone
<1>2. [s EXCEPT !.active[t.epoch] = None] = r
  OBVIOUS
<1> HIDE DEF free
<1>3. r \in Coordinator /\ r.ctx = s.ctx /\ r.pending = s.pending /\ r.active = free
      /\ r.last = s.last /\ r.shown = s.shown
  BY <1>1 DEF Coordinator
<1> HIDE DEF r
<1>4. B0 \in Answers
  BY AnsweredFacts
<1> HIDE DEF B0
<1>5. CASE t.epoch # s.ctx /\ Failed(t)
  <2>1. Complete(<<s, A>>, t) = <<r, B0>>
    BY <1>2, <1>3, <1>5 DEF Complete, B0
  <2> QED BY <1>3, <1>4, <1>5, <2>1 DEF free, B0, Retried
<1>6. CASE t.epoch # s.ctx /\ ~ Failed(t)
  <2>1. Complete(<<s, A>>, t) = <<Publish(r, t), B0>>
    BY <1>2, <1>3, <1>6 DEF Complete, B0
  <2> QED BY <1>3, <1>4, <1>6, <2>1, PublishFacts DEF free, B0, Retried
<1>7. CASE t.epoch = s.ctx /\ ~ Failed(t)
  <2> DEFINE q == Publish(r, t)
             v == [q.shown EXCEPT !.source = result[t.id].source]
             p == [q EXCEPT !.syncing = FALSE, !.phase = "ready", !.error = FALSE,
                            !.backoff = FALSE, !.shown = v]
  <2>1. /\ q \in Coordinator /\ q.ctx = s.ctx /\ q.pending = s.pending /\ q.active = free
        /\ q.last = s.last /\ q.shown.source = s.shown.source
        /\ q.shown.view = IF s.ctx # None /\ ArchiveOf[s.ctx] = ArchiveOf[t.epoch]
                             /\ result[t.id].view > s.shown.view
                          THEN result[t.id].view ELSE s.shown.view
    BY <1>3, PublishFacts
  <2>2. Complete(<<s, A>>, t) = <<p, B0>>
    BY <1>2, <1>3, <1>7 DEF Complete, B0
  <2> HIDE DEF q
  <2>3. v \in Shown /\ v.view = q.shown.view /\ v.source = result[t.id].source
    <3>1. q.shown \in Shown /\ result[t.id].source \in Nat
      BY <2>1 DEF Coordinator, Result
    <3> QED BY <3>1 DEF Shown
  <2> HIDE DEF v
  <2>4. p \in Coordinator /\ p.ctx = q.ctx /\ p.pending = q.pending /\ p.active = q.active
        /\ p.last = q.last /\ p.shown = v
    BY <2>1, <2>3 DEF Coordinator
  <2> HIDE DEF p
  <2> QED BY <1>4, <1>7, <2>1, <2>2, <2>3, <2>4 DEF free, B0, Retried
<1>8. CASE t.epoch = s.ctx /\ Failed(t)
  <2> DEFINE q == [r EXCEPT !.syncing = FALSE, !.phase = "error", !.error = TRUE,
                            !.backoff = TRUE]
  <2>1. q \in Coordinator /\ q.ctx = s.ctx /\ q.pending = s.pending /\ q.active = free
        /\ q.last = s.last /\ q.shown = s.shown
    BY <1>3 DEF Coordinator
  <2>2. Complete(<<s, A>>, t) = Retarget(q, B0, t)
    BY <1>2, <1>3, <1>8 DEF Complete, B0
  <2> HIDE DEF q
  <2>3. CASE s.pending # None
    <3>1. Complete(<<s, A>>, t) = <<q, B0>>
      BY <2>1, <2>2, <2>3 DEF Retarget
    <3> QED BY <1>4, <1>8, <2>1, <2>3, <3>1 DEF free, B0, Retried
  <2>4. CASE s.pending = None
    <3> DEFINE again == Retry(A, t)
               p == [q EXCEPT !.pending = again, !.last = again]
               B == [B0 EXCEPT ![RetryId(A, t)] = Waiting]
    <3>1. RetryId(A, t) \in Targets
      BY <1>8, <2>4 DEF Retried
    <3>2. again \in TargetType /\ again.id = RetryId(A, t)
      BY <3>1 DEF Retry, Target, TargetType
    <3>3. Complete(<<s, A>>, t) = <<p, B>>
      BY <2>1, <2>2, <2>4 DEF Retarget, Retry, RetryId, B0, Target
    <3> HIDE DEF again
    <3>4. p \in Coordinator /\ p.ctx = q.ctx /\ p.pending = again /\ p.active = q.active
          /\ p.last = again /\ p.shown = q.shown
      BY <2>1, <3>2 DEF Coordinator, OrNone
    <3>5. B \in Answers
      BY <1>4 DEF Answers, OrNone, Waiting, Outcome
    <3> HIDE DEF p, B
    <3>6. Retried(s, t)
      BY <1>8, <2>4 DEF Retried
    <3> QED BY <1>8, <2>1, <3>3, <3>4, <3>5, <3>6 DEF free, B, B0, again
  <2> QED BY <2>3, <2>4
<1> QED BY <1>5, <1>6, <1>7, <1>8

LEMMA FailedFacts ==
  ASSUME AroundOK, NEW s, NEW A, NEW K, NEW e \in Epochs, ActiveOK(s, A, K),
         s.active[e] # None, s.active[e] \in TargetType,
         result[s.active[e].id] # None, result[s.active[e].id] \in Result
  PROVE  /\ Failed(s.active[e]) <=> result[s.active[e].id].is = "failed"
         /\ Failed(s.active[e]) <=> ~ Committed(s.active[e])
<1> DEFINE t == s.active[e]
<1>1. result[t.id].is \in {"failed", "committed"} /\ t.rev \in Nat
  BY DEF Result, TargetType
<1>2. result[t.id].is = "committed" => result[t.id].source = t.rev
  BY DEF ActiveOK, Committed
<1> QED BY <1>1, <1>2 DEF Failed, Committed

\* The set of failing targets at work loses the one that is completed.
LEMMA FailedLess ==
  ASSUME NEW s, NEW p, NEW e \in Epochs, s.active \in [Epochs -> OrNone(TargetType)],
         p.active = [s.active EXCEPT ![e] = None]
  PROVE  /\ FailedOf(p) = FailedOf(s) \ {e}
         /\ Cardinality(FailedOf(p)) <= Cardinality(FailedOf(s))
         /\ e \in FailedOf(s) => Cardinality(FailedOf(p)) = Cardinality(FailedOf(s)) - 1
<1>1. FailedOf(p) = FailedOf(s) \ {e}
  BY DEF FailedOf
<1>2. IsFiniteSet(FailedOf(s)) /\ Cardinality(FailedOf(s)) \in Nat
  BY FailedFinite
<1>3. e \in FailedOf(s) => Cardinality(FailedOf(p)) = Cardinality(FailedOf(s)) - 1
  BY <1>1, <1>2, FS_RemoveElement
<1>4. e \notin FailedOf(s) => FailedOf(p) = FailedOf(s)
  BY <1>1
<1> QED BY <1>1, <1>2, <1>3, <1>4

\* A retry finds an id that nobody has used.
LEMMA RetryFacts ==
  ASSUME AroundOK, NEW s \in Coordinator, NEW A \in Answers, NEW K, NEW t \in TargetType,
         result[t.id] \in Result, t.epoch \in Epochs, s.active[t.epoch] = t, t # None,
         ActiveOK(s, A, K), BudgetOK(s, A), Retried(s, t)
  PROVE  RetryId(A, t) \in Targets /\ A[RetryId(A, t)] = None
<1>1. result[t.id] # None
  BY NoneAssumption DEF Result, Outcome
<1>2. t.epoch \in FailedOf(s)
  BY <1>1, FailedFacts DEF FailedOf, Retried
<1>3. Cardinality(FailedOf(s)) \in Nat /\ Cardinality(FailedOf(s)) # 0
  BY <1>2, FailedFinite, FS_EmptySet
<1>4. Cardinality(Used(A)) \in Nat
  BY UsedFinite
<1>5. failures \in Nat /\ failures <= MaxFailure /\ MaxFailure \in Nat /\ MaxTarget \in Nat
  BY SyncAssumption DEF AroundOK
<1>6. Cardinality(Used(A)) < MaxTarget + MaxFailure
  BY <1>3, <1>4, <1>5 DEF BudgetOK
<1>7. Used(Answered(A, t)) = Used(A)
  BY AnsweredFacts
<1>8. Unused(Answered(A, t)) # {}
  BY <1>6, <1>7, RoomLeft
<1>9. RetryId(A, t) \in Targets /\ Answered(A, t)[RetryId(A, t)] = None
  BY <1>8, FirstUnusedFacts DEF RetryId
<1> QED BY <1>9, AnsweredFacts

\* A context whose work is done stays without.
FreeStays(s, p) == \A e \in Epochs : s.active[e] = None => p.active[e] = None

\* One turn of the loop keeps the invariant, the context and what is shown of it.
LEMMA TurnKeeps ==
  ASSUME AroundOK, NEW s, NEW A, NEW t \in TargetType, NEW R,
         LoopOK(s, A, asked, source, R \cup {t}),
         s.ctx # None => \A u \in calls \cup R : Before(t, u)
  PROVE  LET p == Complete(<<s, A>>, t)[1]
             B == Complete(<<s, A>>, t)[2] IN
         /\ Complete(<<s, A>>, t) = <<p, B>>
         /\ LoopOK(p, B, asked, source, R)
         /\ p.ctx = s.ctx /\ p.shown.view >= s.shown.view
         /\ FreeStays(s, p)
<1> DEFINE K == asked
           S == source
           Q == R \cup {t}
<1>1. /\ s \in Coordinator /\ A \in Answers /\ K \in Questions /\ S \in 0..MaxRevision
      /\ R \subseteq TargetType /\ t \in TargetType /\ S \in Nat
  BY SyncAssumption DEF LoopOK, LoopTypes
<1>2. /\ ActiveOK(s, A, K) /\ OneEach(s) /\ PendingOK(s, A, K) /\ LastOK(s, S)
      /\ SelectOK(s) /\ ShownOK(s) /\ ViewOK(s, Q) /\ QueueOK(s, S) /\ ArchiveOK(S)
      /\ DoneOK(Q) /\ UsedOK(s, A, K) /\ CoverOK(A, K) /\ BudgetOK(s, A) /\ NewestOK(s, Q)
  BY DEF LoopOK
<1>3. t # None /\ t.epoch \in Epochs /\ t.id \in Targets /\ t.rev \in Nat
      /\ result[t.id] # None /\ result[t.id] \in Result
  <2>1. t # None /\ t.epoch \in Epochs /\ t.id \in Targets /\ t.rev \in Nat
    BY NoneAssumption DEF TargetType
  <2>2. result[t.id] # None
    BY <1>2 DEF DoneOK
  <2> QED BY <2>1, <2>2 DEF AroundOK, OrNone
<1>4. /\ s.ctx \in OrNone(Epochs) /\ s.active \in [Epochs -> OrNone(TargetType)]
      /\ s.shown.view \in Nat /\ s.shown.source \in Nat
  BY <1>1 DEF Coordinator, Shown
<1>5. DoneOK(R)
  BY <1>2 DEF DoneOK
<1>6. CASE s.active[t.epoch] # t
  <2>1. Complete(<<s, A>>, t) = <<s, A>>
    BY <1>6 DEF Complete
  <2>2. ASSUME NEW e \in Epochs PROVE Arrived(s, R, e) <=> Arrived(s, Q, e)
    <3>1. s.active[e] # None => s.active[e] # t
      BY <1>2, <1>6 DEF ActiveOK
    <3> QED BY <3>1 DEF Arrived
  <2>3. ViewOK(s, R) /\ NewestOK(s, R)
    BY <1>2, <2>2 DEF ViewOK, Coming, Newest, NewestOK
  <2> QED BY <1>1, <1>2, <1>4, <1>5, <2>1, <2>3 DEF LoopOK, LoopTypes, FreeStays
<1>7. CASE s.active[t.epoch] = t
  <2> DEFINE p == Complete(<<s, A>>, t)[1]
             B == Complete(<<s, A>>, t)[2]
             n == RetryId(A, t)
  <2>1. Retried(s, t) => n \in Targets /\ A[n] = None
    BY <1>1, <1>2, <1>3, <1>7, RetryFacts
  <2>2. /\ Complete(<<s, A>>, t) = <<p, B>>
        /\ p \in Coordinator /\ B \in Answers
        /\ p.ctx = s.ctx /\ p.active = [s.active EXCEPT ![t.epoch] = None]
        /\ ~ Retried(s, t) => p.pending = s.pending /\ p.last = s.last /\ B = Answered(A, t)
        /\ Retried(s, t) => /\ p.pending = Retry(A, t) /\ p.last = Retry(A, t)
                            /\ B = [Answered(A, t) EXCEPT ![n] = Waiting]
        /\ p.shown.source = IF t.epoch = s.ctx /\ ~ Failed(t)
                            THEN result[t.id].source ELSE s.shown.source
        /\ p.shown.view = IF /\ ~ Failed(t) /\ s.ctx # None
                             /\ ArchiveOf[s.ctx] = ArchiveOf[t.epoch]
                             /\ result[t.id].view > s.shown.view
                          THEN result[t.id].view ELSE s.shown.view
    BY <1>1, <1>3, <1>7, <2>1, CompleteFacts
  <2>3. /\ Answered(A, t) \in Answers
        /\ \A w \in Targets : Answered(A, t)[w] = None <=> A[w] = None
        /\ \A w \in Targets : \/ Answered(A, t)[w] = A[w]
                              \/ /\ w \in t.waiters /\ A[w] # None
                                 /\ Answered(A, t)[w] = IF Failed(t) THEN Failure ELSE result[t.id]
    BY <1>1, <1>3, AnsweredFacts
  <2>4. Failed(t) <=> ~ Committed(t)
    BY <1>2, <1>3, <1>7, FailedFacts
  <2>5. Failed(t) <=> result[t.id].is = "failed"
    BY <1>2, <1>3, <1>7, FailedFacts
  <2>6. Waiting # None /\ Waiting.is # "committed" /\ Failure.is # "committed"
    BY NoneAssumption DEF Waiting, Failure, Outcome
  <2>7. ~ Failed(t) => /\ result[t.id].source = t.rev
                       /\ result[t.id].source <= archive[ArchiveOf[t.epoch]].source
                       /\ result[t.id].view <= archive[ArchiveOf[t.epoch]].view
                       /\ \A w \in t.waiters : K[w] # None /\ K[w].epoch = t.epoch
                                               /\ K[w].rev <= t.rev
    BY <1>2, <1>3, <1>7, <2>4 DEF ActiveOK
  <2>8. \A w \in Targets : A[w] # None => B[w] # None
    BY <2>1, <2>2, <2>3, <2>6 DEF Answers
  <2>9. \A w \in Targets : B[w] # None /\ A[w] = None => Retried(s, t) /\ w = n
    BY <2>1, <2>2, <2>3, <2>6 DEF Answers
  <2>10. \A w \in Targets : B[w] # None /\ B[w].is = "committed" =>
           \/ B[w] = A[w]
           \/ w \in t.waiters /\ ~ Failed(t) /\ B[w] = result[t.id]
    <3>1. \A w \in Targets : B[w] = Answered(A, t)[w] \/ B[w] = Waiting
      BY <2>1, <2>2, <2>3 DEF Answers
    <3> QED BY <2>3, <2>6, <3>1
  <2>11. Retried(s, t) => B[n] = Waiting
    BY <2>1, <2>2, <2>3 DEF Answers
  <2> HIDE DEF p, B, n
  <2>12. \A e \in Epochs : p.active[e] # None => e # t.epoch /\ p.active[e] = s.active[e]
    BY <1>3, <1>4, <2>2
  <2>13. \A e \in Epochs : e # t.epoch => p.active[e] = s.active[e]
    BY <1>3, <1>4, <2>2
  <2>14. \A e \in Epochs : s.active[e] # None => s.active[e] \in TargetType /\ s.active[e].id \in Targets
    BY <1>4 DEF OrNone, TargetType
  <2>15. ASSUME NEW f \in Epochs, NEW a, Newest(s, Q, f, a), f # t.epoch
         PROVE  Newest(p, R, f, a)
    <3>1. p.active[f] = s.active[f]
      BY <2>13, <2>15
    <3>2. s.active[f] # t
      BY <1>2, <2>15 DEF ActiveOK, Newest, Arrived
    <3> QED BY <2>15, <3>1, <3>2 DEF Newest, Arrived
  <2>20. ActiveOK(p, B, K)
    <3> SUFFICES ASSUME NEW e \in Epochs, p.active[e] # None
                 PROVE  LET u == p.active[e] IN
                   /\ u.epoch = e /\ B[u.id] # None /\ (p.ctx # None => e <= p.ctx)
                   /\ \A w \in u.waiters : K[w] # None /\ K[w].epoch = e /\ K[w].rev <= u.rev
                   /\ Committed(u) => /\ result[u.id].source = u.rev
                                      /\ result[u.id].source <= archive[ArchiveOf[e]].source
                                      /\ result[u.id].view <= archive[ArchiveOf[e]].view
      BY DEF ActiveOK
    <3> DEFINE u == s.active[e]
    <3>1. p.active[e] = u /\ u # None /\ p.ctx = s.ctx
      BY <2>2, <2>12
    <3>2. /\ u.epoch = e /\ A[u.id] # None /\ (s.ctx # None => e <= s.ctx)
          /\ \A w \in u.waiters : K[w] # None /\ K[w].epoch = e /\ K[w].rev <= u.rev
          /\ Committed(u) => /\ result[u.id].source = u.rev
                             /\ result[u.id].source <= archive[ArchiveOf[e]].source
                             /\ result[u.id].view <= archive[ArchiveOf[e]].view
      BY <1>2, <3>1 DEF ActiveOK
    <3>3. u.id \in Targets
      BY <2>14, <3>1
    <3> HIDE DEF u
    <3>4. B[u.id] # None
      BY <2>8, <3>2, <3>3
    <3> QED BY <3>1, <3>2, <3>4
  <2>21. OneEach(p)
    BY <1>2, <2>12 DEF OneEach
  <2>22. PendingOK(p, B, K)
    <3>1. CASE ~ Retried(s, t)
      <4> SUFFICES ASSUME p.pending # None PROVE PendingOK(p, B, K)
        BY DEF PendingOK
      <4>1. s.pending \in TargetType /\ s.pending.id \in Targets /\ s.pending.waiters \subseteq Targets
        BY <1>1, <2>2, <3>1 DEF Coordinator, OrNone, TargetType
      <4> QED BY <1>2, <2>2, <2>8, <2>12, <3>1, <4>1 DEF PendingOK
    <3>2. CASE Retried(s, t)
      <4>1. p.pending.id = n /\ p.pending.epoch = s.ctx /\ p.pending.waiters = {n}
        BY <2>2, <3>2 DEF Retry, Target, Retried, n
      <4>2. result[n] = None /\ K[n] = None
        BY <1>2, <2>1, <3>2 DEF UsedOK, n
      <4>3. \A e \in Epochs : p.active[e] # None => p.active[e].id # n
        BY <1>2, <2>1, <2>12, <3>2 DEF ActiveOK, n
      <4>4. s.ctx # None
        BY <1>3, <3>2, EpochTypes DEF Retried
      <4> QED BY <2>2, <2>6, <2>11, <3>2, <4>1, <4>2, <4>3, <4>4 DEF PendingOK
    <3> QED BY <3>1, <3>2
  <2>23. LastOK(p, S)
    <3>1. CASE ~ Retried(s, t)
      BY <1>2, <1>4, <2>2, <2>12, <3>1 DEF LastOK, OrNone
    <3>2. CASE Retried(s, t)
      <4>1. s.active[s.ctx] = t /\ s.pending = None /\ s.ctx # None
        BY <1>3, <1>7, <3>2, EpochTypes DEF Retried
      <4>2. s.last = t /\ t.rev = S
        BY <1>2, <1>3, <4>1 DEF LastOK
      <4>3. p.last.rev = S
        BY <2>2, <3>2, <4>2 DEF Retry, Target
      <4>4. p.active[p.ctx] = None
        BY <1>3, <1>4, <2>2, <3>2 DEF Retried
      <4> QED BY <4>3, <4>4 DEF LastOK
    <3> QED BY <3>1, <3>2
  <2>24. SelectOK(p)
    <3> SUFFICES ASSUME selecting # None PROVE SelectOK(p)
      BY DEF SelectOK
    <3>1. s.active[s.ctx] = None
      BY <1>2 DEF SelectOK
    <3>2. s.ctx # t.epoch
      BY <1>3, <1>7, <3>1
    <3>3. p.last = s.last /\ p.pending = s.pending /\ p.ctx = s.ctx
      BY <2>2, <3>2 DEF Retried
    <3>4. selecting \in Selection
      BY DEF AroundOK, OrNone
    <3>5. s.ctx \in Epochs
      BY <1>2, <3>4 DEF SelectOK, Selection
    <3>6. p.active[s.ctx] = None
      BY <2>13, <3>1, <3>2, <3>5
    <3> QED BY <1>2, <3>3, <3>6 DEF SelectOK
  <2>25. p.shown.view >= s.shown.view
    BY <1>3, <1>4, <2>2 DEF Result
  <2>26. ShownOK(p)
    BY <1>2, <2>2, <2>7 DEF ShownOK
  <2>27. ViewOK(p, R)
    <3> SUFFICES ASSUME p.ctx # None PROVE ViewOK(p, R)
      BY DEF ViewOK
    <3> DEFINE top == archive[ArchiveOf[s.ctx]].view
    <3>0. s.ctx # None /\ s.ctx \in Epochs /\ top \in Nat
      <4>1. s.ctx # None /\ s.ctx \in Epochs
        BY <1>4, <2>2 DEF OrNone
      <4> QED BY <4>1, EpochTypes DEF AroundOK, Shown
    <3>1. s.shown.view <= top /\ p.shown.view <= top /\ p.shown.view \in Nat
      BY <1>2, <2>2, <2>26, <3>0 DEF ShownOK, Coordinator, Shown
    <3>2. CASE s.shown.view = top
      <4>1. p.shown.view = top
        BY <1>4, <2>25, <3>0, <3>1, <3>2
      <4> QED BY <2>2, <4>1 DEF ViewOK
    <3>3. CASE selecting # None /\ selecting.state # None /\ selecting.state.view = top
      BY <2>2, <3>3 DEF ViewOK
    <3>4. ASSUME NEW e \in Epochs, Newest(s, Q, e, ArchiveOf[s.ctx]) PROVE ViewOK(p, R)
      <4>1. CASE e = t.epoch
        <5>1. ~ Failed(t) /\ result[t.id].view = top /\ ArchiveOf[s.ctx] = ArchiveOf[t.epoch]
          BY <1>7, <2>4, <3>4, <4>1 DEF Newest, Arrived
        <5>2. p.shown.view = top
          BY <1>4, <2>2, <3>0, <3>1, <5>1
        <5> QED BY <2>2, <5>2 DEF ViewOK
      <4>2. CASE e # t.epoch
        <5>1. Newest(p, R, e, ArchiveOf[s.ctx])
          BY <2>15, <3>4, <4>2
        <5>2. Coming(p, R, e)
          BY <2>2, <5>1 DEF Coming
        <5> QED BY <5>2 DEF ViewOK
      <4> QED BY <4>1, <4>2
    <3>5. CASE NothingRestored /\ s.shown = NoArchive
      <4>1. CASE ~ Failed(t) /\ ArchiveOf[s.ctx] = ArchiveOf[t.epoch]
        <5>1. Arrived(s, Q, t.epoch)
          BY <1>3, <1>7, <2>4, <4>1 DEF Arrived
        <5>2. PICK f \in Epochs : Newest(s, Q, f, ArchiveOf[t.epoch])
          BY <1>2, <1>3, <3>0, <5>1 DEF NewestOK
        <5> QED BY <3>4, <4>1, <5>2
      <4>2. CASE Failed(t) \/ ArchiveOf[s.ctx] # ArchiveOf[t.epoch]
        <5>1. p.shown.view = s.shown.view /\ p.shown.source = s.shown.source
          BY <2>2, <4>2
        <5>2. p.shown \in Shown /\ s.shown \in Shown
          BY <1>1, <2>2 DEF Coordinator
        <5>3. p.shown = s.shown
          BY <5>1, <5>2 DEF Shown
        <5> QED BY <2>2, <3>5, <5>3 DEF ViewOK
      <4> QED BY <4>1, <4>2
    <3> QED BY <1>2, <2>2, <3>0, <3>2, <3>3, <3>4, <3>5 DEF ViewOK, Coming
  <2>34. NewestOK(p, R)
    <3> SUFFICES ASSUME p.ctx # None, NEW e \in Epochs, Arrived(p, R, e)
                 PROVE  \E f \in Epochs : Newest(p, R, f, ArchiveOf[e])
      BY DEF NewestOK
    <3>1. Arrived(s, Q, e) /\ e # t.epoch /\ p.active[e] = s.active[e] /\ s.ctx # None
      BY <2>2, <2>12 DEF Arrived
    <3>2. PICK f \in Epochs : Newest(s, Q, f, ArchiveOf[e])
      BY <1>2, <3>1 DEF NewestOK
    <3>3. CASE f # t.epoch
      BY <2>15, <3>2, <3>3
    <3>4. CASE f = t.epoch
      <4> DEFINE u == s.active[e]
      <4>1. /\ u \in calls \cup R /\ Committed(u) /\ u.id \in Targets /\ u.epoch = e
            /\ result[u.id].view <= archive[ArchiveOf[e]].view
        BY <1>2, <2>14, <3>1 DEF Arrived, ActiveOK
      <4>2. /\ Committed(t) /\ ArchiveOf[t.epoch] = ArchiveOf[e]
            /\ result[t.id].view = archive[ArchiveOf[e]].view
        BY <1>7, <3>2, <3>4 DEF Newest, Arrived
      <4>3. result[t.id].view <= result[u.id].view
        BY <3>1, <4>1, <4>2 DEF Before
      <4>4. result[u.id].view \in Nat /\ archive[ArchiveOf[e]].view \in Nat
        <5>1. result[u.id] \in Result
          BY <4>1 DEF AroundOK, OrNone, Committed
        <5>2. ArchiveOf[e] \in Archives
          BY EpochTypes
        <5> QED BY <5>1, <5>2 DEF AroundOK, Result, Shown
      <4>5. result[u.id].view = archive[ArchiveOf[e]].view
        BY <4>1, <4>2, <4>3, <4>4
      <4>6. Newest(p, R, e, ArchiveOf[e])
        BY <3>1, <4>5 DEF Newest
      <4> QED BY <4>6
    <3> QED BY <3>3, <3>4
  <2>28. QueueOK(p, S)
    <3> SUFFICES ASSUME NEW i \in 1..Len(crm) PROVE p.active[crm[i].epoch] = crm[i]
      BY <1>2 DEF QueueOK
    <3>1. s.active[crm[i].epoch] = crm[i] /\ result[crm[i].id] = None
      BY <1>2 DEF QueueOK
    <3>2. crm[i] \in TargetType
      BY DEF AroundOK
    <3>3. crm[i] # t /\ crm[i].epoch \in Epochs
      BY <1>3, <3>1, <3>2 DEF TargetType
    <3>4. crm[i].epoch # t.epoch
      BY <1>7, <3>1, <3>3
    <3> QED BY <2>13, <3>1, <3>3, <3>4
  <2>29. UsedOK(p, B, K)
    <3> SUFFICES ASSUME NEW w \in Targets
                 PROVE  /\ result[w] # None \/ K[w] # None => B[w] # None
                        /\ B[w] # None /\ K[w] = None => p.pending # None
      BY DEF UsedOK
    <3>1. result[w] # None \/ K[w] # None => B[w] # None
      BY <1>2, <2>8 DEF UsedOK
    <3>2. ASSUME B[w] # None, K[w] = None PROVE p.pending # None
      <4>1. CASE Retried(s, t)
        <5>1. p.pending \in TargetType
          BY <1>3, <2>1, <2>2, <4>1 DEF Retry, Target, TargetType, n
        <5> QED BY <5>1, NoneAssumption
      <4>2. CASE ~ Retried(s, t)
        BY <1>2, <2>2, <2>9, <3>2, <4>2 DEF UsedOK
      <4> QED BY <4>1, <4>2
    <3> QED BY <3>1, <3>2
  <2>30. CoverOK(B, K)
    <3> SUFFICES ASSUME NEW w \in Targets, B[w] # None, B[w].is = "committed"
                 PROVE  /\ K[w] # None /\ K[w].rev <= B[w].source
                        /\ B[w].source <= archive[ArchiveOf[K[w].epoch]].source
                        /\ B[w].view <= archive[ArchiveOf[K[w].epoch]].view
      BY DEF CoverOK
    <3>1. CASE B[w] = A[w]
      BY <1>2, <3>1 DEF CoverOK
    <3>2. CASE w \in t.waiters /\ ~ Failed(t) /\ B[w] = result[t.id]
      BY <2>7, <3>2
    <3> QED BY <2>10, <3>1, <3>2
  <2>31. BudgetOK(p, B)
    <3>1. /\ Cardinality(FailedOf(p)) <= Cardinality(FailedOf(s))
          /\ t.epoch \in FailedOf(s) => Cardinality(FailedOf(p)) = Cardinality(FailedOf(s)) - 1
      BY <1>3, <1>4, <2>2, FailedLess
    <3>2. /\ Cardinality(FailedOf(p)) \in Nat /\ Cardinality(FailedOf(s)) \in Nat
          /\ IsFiniteSet(Used(A)) /\ Cardinality(Used(A)) \in Nat
          /\ Cardinality(Used(B)) \in Nat /\ failures \in Nat /\ MaxTarget \in Nat
      BY UsedFinite, FailedFinite, SyncAssumption DEF AroundOK
    <3>3. CASE Retried(s, t)
      <4>1. t.epoch \in FailedOf(s)
        BY <1>3, <1>7, <2>5, <3>3 DEF FailedOf, Retried
      <4>2. Used(B) = Used(A) \cup {n}
        BY <2>1, <2>6, <2>8, <2>9, <2>11, <3>3 DEF Used, n
      <4>3. Cardinality(Used(B)) <= Cardinality(Used(A)) + 1
        <5>1. Cardinality(Used(A) \cup {n}) =
                IF n \in Used(A) THEN Cardinality(Used(A)) ELSE Cardinality(Used(A)) + 1
          <6> HIDE DEF n
          <6> QED BY <3>2, FS_AddElement
        <5> QED BY <3>2, <4>2, <5>1
      <4>4. Cardinality(FailedOf(s)) <= failures
            /\ Cardinality(Used(A)) + Cardinality(FailedOf(s)) <= MaxTarget + failures
        BY <1>2 DEF BudgetOK
      <4>5. Cardinality(FailedOf(p)) <= failures
            /\ Cardinality(Used(B)) + Cardinality(FailedOf(p)) <= MaxTarget + failures
        BY <3>1, <3>2, <4>1, <4>3, <4>4
      <4> QED BY <4>5 DEF BudgetOK
    <3>4. CASE ~ Retried(s, t)
      <4>1. Used(B) = Used(A)
        BY <2>8, <2>9, <3>4 DEF Used
      <4> QED BY <1>2, <3>1, <3>2, <4>1 DEF BudgetOK
    <3> QED BY <3>3, <3>4
  <2>32. LoopOK(p, B, asked, source, R)
    BY <1>1, <1>2, <1>5, <2>2, <2>20, <2>21, <2>22, <2>23, <2>24, <2>26, <2>27, <2>28, <2>29,
       <2>30, <2>31, <2>34 DEF LoopOK, LoopTypes
  <2>33. FreeStays(s, p)
    BY <2>12 DEF FreeStays
  <2> QED BY <2>2, <2>25, <2>32, <2>33 DEF p, B
<1> QED BY <1>6, <1>7

\* The whole loop does.
LEMMA LoopKeeps ==
  ASSUME AroundOK, NEW completed \in Seq(TargetType),
         LoopOK(c, answer, asked, source, {completed[i] : i \in 1..Len(completed)}),
         c.ctx # None =>
           /\ \A i, j \in 1..Len(completed) : i < j => Before(completed[i], completed[j])
           /\ \A i \in 1..Len(completed) : \A u \in calls : Before(completed[i], u)
  PROVE  LET p == Ticked(completed)[1]
             B == Ticked(completed)[2] IN
         /\ LoopOK(p, B, asked, source, {}) /\ p.ctx = c.ctx /\ p.shown.view >= c.shown.view
         /\ FreeStays(c, p)
<1> DEFINE N == Len(completed)
           f == Trace(completed)
           Left(n) == {completed[i] : i \in (n + 1)..N}
           Turned(n) == /\ f[n] = <<f[n][1], f[n][2]>>
                        /\ LoopOK(f[n][1], f[n][2], asked, source, Left(n))
                        /\ f[n][1].ctx = c.ctx /\ f[n][1].shown.view >= c.shown.view
                        /\ FreeStays(c, f[n][1])
           T == {n \in 0..N : Turned(n)}
<1>1. N \in Nat /\ \A i \in 1..N : completed[i] \in TargetType
  OBVIOUS
<1>2. f[0] = <<c, answer>>
      /\ \A n \in 0..(N - 1) : f[n + 1] = Complete(f[n], completed[n + 1])
  BY <1>1, TraceExists
<1>3. c.shown.view \in Nat
  BY DEF LoopOK, LoopTypes, Coordinator, Shown
<1> HIDE DEF N, f
<1>4. 0 \in T
  <2>1. Left(0) = {completed[i] : i \in 1..N}
    OBVIOUS
  <2>2. f[0][1] = c /\ f[0][2] = answer
    BY <1>2
  <2>3. LoopOK(f[0][1], f[0][2], asked, source, Left(0))
    BY <2>1, <2>2 DEF N
  <2>4. Turned(0)
    BY <1>2, <1>3, <2>2, <2>3 DEF FreeStays
  <2> QED BY <1>1, <2>4
<1>5. ASSUME NEW n \in 0..(N - 1), n \in T PROVE n + 1 \in T
  <2> DEFINE s == f[n][1]
             A == f[n][2]
             t == completed[n + 1]
             p == Complete(<<s, A>>, t)[1]
             B == Complete(<<s, A>>, t)[2]
  <2>1. n \in Nat /\ n + 1 \in 1..N /\ n + 1 \in 0..N /\ t \in TargetType
    BY <1>1
  <2>2. Turned(n)
    BY <1>5
  <2>3. Left(n) = Left(n + 1) \cup {t}
    <3>1. (n + 1)..N = ((n + 1) + 1)..N \cup {n + 1}
      BY <1>1, <2>1
    <3> QED BY <3>1
  <2>4. LoopOK(s, A, asked, source, Left(n + 1) \cup {t})
    BY <2>2, <2>3
  <2>5. f[n + 1] = Complete(<<s, A>>, t)
    BY <1>2, <2>2
  <2>12. s.ctx # None => \A u \in calls \cup Left(n + 1) : Before(t, u)
    <3> SUFFICES ASSUME c.ctx # None, NEW u \in calls \cup Left(n + 1) PROVE Before(t, u)
      BY <2>2
    <3>1. CASE u \in calls
      BY <2>1, <3>1 DEF N
    <3>2. CASE u \in Left(n + 1)
      <4>1. PICK i \in (n + 2)..N : u = completed[i]
        BY <2>1, <3>2
      <4>2. i \in 1..N /\ n + 1 < i
        BY <1>1, <2>1, <4>1
      <4> QED BY <2>1, <4>1, <4>2 DEF N
    <3> QED BY <3>1, <3>2
  <2> HIDE DEF s, A, t, Left
  <2>6. /\ Complete(<<s, A>>, t) = <<p, B>>
        /\ LoopOK(p, B, asked, source, Left(n + 1))
        /\ p.ctx = s.ctx /\ p.shown.view >= s.shown.view
        /\ FreeStays(s, p)
    BY <2>1, <2>4, <2>12, TurnKeeps
  <2>7. s.shown.view \in Nat /\ p.shown.view \in Nat
    BY <2>4, <2>6 DEF LoopOK, LoopTypes, Coordinator, Shown
  <2> HIDE DEF p, B
  <2>8. /\ s.ctx = c.ctx /\ s.shown.view >= c.shown.view
        /\ FreeStays(c, s)
    BY <2>2 DEF s
  <2>9. f[n + 1] = <<p, B>> /\ f[n + 1][1] = p /\ f[n + 1][2] = B
    BY <2>5, <2>6
  <2>10. FreeStays(c, p)
    BY <2>6, <2>8 DEF FreeStays
  <2>11. Turned(n + 1)
    BY <1>3, <2>6, <2>7, <2>8, <2>9, <2>10
  <2> QED BY <2>1, <2>11
<1> HIDE DEF T
<1>6. \A n \in 0..N : n \in T
  BY <1>1, <1>4, <1>5, Upward
<1>7. Turned(N)
  <2>1. N \in T
    BY <1>1, <1>6
  <2> HIDE DEF Turned
  <2> QED BY <2>1 DEF T
<1>8. Left(N) = {}
  BY <1>1
<1>9. Ticked(completed) = f[N]
  BY TickedTrace DEF f, N
<1> QED BY <1>7, <1>8, <1>9

--------------------------------------------------------------------------------
(* Frames *)

\* The invariant looks at five fields of the coordinator.
LEMMA SameFields ==
  ASSUME NEW s, NEW p \in Coordinator, NEW A, NEW K, NEW S, NEW R, LoopOK(s, A, K, S, R),
         p.ctx = s.ctx, p.pending = s.pending, p.active = s.active, p.last = s.last,
         p.shown = s.shown
  PROVE  LoopOK(p, A, K, S, R)
<1>1. FailedOf(p) = FailedOf(s)
  BY DEF FailedOf
<1>2. \A e \in Epochs : /\ Coming(p, R, e) <=> Coming(s, R, e)
                        /\ Arrived(p, R, e) <=> Arrived(s, R, e)
                        /\ \A a : Newest(p, R, e, a) <=> Newest(s, R, e, a)
  BY DEF Coming, Newest, Arrived
<1>3. ActiveOK(p, A, K) /\ OneEach(p) /\ PendingOK(p, A, K) /\ LastOK(p, S)
  <2>1. ActiveOK(p, A, K) /\ OneEach(p)
    BY DEF LoopOK, ActiveOK, OneEach
  <2>2. PendingOK(p, A, K) /\ LastOK(p, S)
    BY DEF LoopOK, PendingOK, LastOK
  <2> QED BY <2>1, <2>2
<1>4. SelectOK(p) /\ ShownOK(p) /\ QueueOK(p, S) /\ UsedOK(p, A, K) /\ BudgetOK(p, A)
  BY <1>1 DEF LoopOK, SelectOK, ShownOK, QueueOK, UsedOK, BudgetOK
<1>5. ViewOK(p, R) /\ NewestOK(p, R)
  BY <1>2 DEF LoopOK, ViewOK, NewestOK
<1> QED BY <1>3, <1>4, <1>5 DEF LoopOK, LoopTypes

\* A step that ends with what a loop has computed and leaves the rest alone.
LEMMA SameAround ==
  ASSUME NEW s, NEW A, NEW K, NEW S, NEW R, AroundOK, LoopOK(s, A, K, S, R),
         UNCHANGED <<result, crm, calls, archive, selecting, unrestored, failures>>,
         c' = s, answer' = A, asked' = K, source' = S, Finished' = R
  PROVE  AroundOK' /\ LoopOK(c, answer, asked, source, Finished)'
<1>1. AroundOK'
  BY DEF AroundOK
<1>2. LoopTypes(c, answer, asked, source, Finished)'
  BY DEF LoopOK, LoopTypes
<1>3. ActiveOK(c, answer, asked)' /\ OneEach(c)' /\ PendingOK(c, answer, asked)'
  <2>1. ActiveOK(s, A, K) /\ OneEach(s) /\ PendingOK(s, A, K)
    BY DEF LoopOK
  <2>2. ActiveOK(c, answer, asked)'
    BY <2>1 DEF ActiveOK, Committed
  <2>3. OneEach(c)' /\ PendingOK(c, answer, asked)'
    BY <2>1 DEF OneEach, PendingOK
  <2> QED BY <2>2, <2>3
<1>4. LastOK(c, source)' /\ SelectOK(c)' /\ ShownOK(c)' /\ QueueOK(c, source)'
  BY DEF LoopOK, LastOK, SelectOK, ShownOK, QueueOK
<1>5. ViewOK(c, Finished)' /\ ArchiveOK(source)' /\ DoneOK(Finished)'
  BY DEF LoopOK, ViewOK, NothingRestored, Coming, Newest, Arrived, Committed, ArchiveOK, DoneOK
<1>6. UsedOK(c, answer, asked)' /\ CoverOK(answer, asked)'
  BY DEF LoopOK, UsedOK, CoverOK
<1>7. BudgetOK(c, answer)'
  BY DEF LoopOK, BudgetOK, FailedOf, Used
<1>8. NewestOK(c, Finished)'
  BY DEF LoopOK, NewestOK, Newest, Arrived, Committed
<1> QED BY <1>1, <1>2, <1>3, <1>4, <1>5, <1>6, <1>7, <1>8 DEF LoopOK

LEMMA AppendRange ==
  ASSUME NEW D, NEW rest \in Seq(D), NEW t \in D
  PROVE  /\ Append(rest, t) \in Seq(D)
         /\ {Append(rest, t)[i] : i \in 1..Len(Append(rest, t))}
              = {rest[i] : i \in 1..Len(rest)} \cup {t}
<1> DEFINE r == Append(rest, t)
<1>1. /\ r \in Seq(D) /\ Len(rest) \in Nat /\ Len(r) = Len(rest) + 1
      /\ r[Len(rest) + 1] = t /\ \A i \in 1..Len(rest) : r[i] = rest[i]
  OBVIOUS
<1> HIDE DEF r
<1>2. 1..Len(r) = 1..Len(rest) \cup {Len(rest) + 1}
  BY <1>1
<1>3. {r[i] : i \in 1..Len(r)} = {rest[i] : i \in 1..Len(rest)} \cup {t}
  BY <1>1, <1>2
<1> QED BY <1>1, <1>3 DEF r

--------------------------------------------------------------------------------
(* Dispatch at the end of a section *)

\* Everybody whose answer exists was asked about.
AskedOK(A, K) == \A w \in Targets : A[w] # None => K[w] # None

\* What the executor gets, or refuses, is the pending target.
LEMMA HandOver ==
  ASSUME NEW s \in Coordinator, NEW rest \in Seq(TargetType), Dispatch(s, rest), AroundOK
  PROVE  \/ /\ c' = s /\ done' = rest /\ UNCHANGED <<crm, result, failures>>
         \/ /\ s.pending \in TargetType /\ s.active[s.pending.epoch] = None
            /\ c' \in Coordinator /\ c'.ctx = s.ctx /\ c'.pending = None
            /\ c'.active = [s.active EXCEPT ![s.pending.epoch] = s.pending]
            /\ c'.last = s.last /\ c'.shown = s.shown
            /\ \/ /\ crm' = Append(crm, s.pending)
                  /\ done' = rest /\ UNCHANGED <<result, failures>>
               \/ /\ failures < MaxFailure /\ failures' = failures + 1
                  /\ result' = [result EXCEPT ![s.pending.id] = Failure]
                  /\ done' = Append(rest, s.pending) /\ UNCHANGED crm
<1> DEFINE t == s.pending
           free == [s.active EXCEPT ![t.epoch] = t]
           q == [s EXCEPT !.pending = None, !.active = free, !.syncing = TRUE,
                          !.phase = "syncing"]
<1>1. CASE t = None \/ s.active[t.epoch] # None \/ s.backoff
  BY <1>1 DEF Dispatch
<1>2. CASE t # None /\ s.active[t.epoch] = None /\ ~ s.backoff
  <2>1. t \in TargetType /\ free \in [Epochs -> OrNone(TargetType)]
    BY <1>2 DEF Coordinator, OrNone
  <2>2. [s EXCEPT !.pending = None, !.active[t.epoch] = t, !.syncing = TRUE,
                  !.phase = "syncing"] = q
    OBVIOUS
  <2> HIDE DEF free
  <2>3. q \in Coordinator /\ q.ctx = s.ctx /\ q.pending = None /\ q.active = free
        /\ q.last = s.last /\ q.shown = s.shown
    BY <2>1 DEF Coordinator, OrNone
  <2> HIDE DEF q
  <2>4. /\ c' = q
        /\ \/ /\ crm' = Append(crm, t)
              /\ done' = rest /\ UNCHANGED <<result, failures>>
           \/ /\ failures < MaxFailure /\ failures' = failures + 1
              /\ result' = [result EXCEPT ![t.id] = Failure]
              /\ done' = Append(rest, t) /\ UNCHANGED crm
    BY <1>2, <2>2 DEF Dispatch
  <2> QED BY <1>2, <2>1, <2>3, <2>4 DEF free
<1> QED BY <1>1, <1>2

\* A target that has just been handed over has not committed anything.
LEMMA DispatchKeeps ==
  ASSUME AroundOK, NEW s, NEW A, NEW K, NEW S, NEW rest \in Seq(TargetType),
         LoopOK(s, A, K, S, {rest[i] : i \in 1..Len(rest)}), AskedOK(A, K),
         OrderOK(rest), answer' = A, asked' = K, source' = S,
         UNCHANGED <<calls, archive, selecting, unrestored>>, Dispatch(s, rest)
  PROVE  /\ AroundOK' /\ LoopOK(c, answer, asked, source, Finished)'
         /\ done' \in Seq(TargetType) /\ AskedOK(answer, asked)' /\ OrderOK(done)'
         /\ c'.ctx = s.ctx /\ c'.shown = s.shown /\ (s.ctx = None => c' = s)
<1> DEFINE R == {rest[i] : i \in 1..Len(rest)}
           t == s.pending
           e0 == s.pending.epoch
<1>1. /\ s \in Coordinator /\ A \in Answers /\ K \in Questions /\ S \in 0..MaxRevision
      /\ R \subseteq TargetType /\ S \in Nat
  BY SyncAssumption DEF LoopOK, LoopTypes
<1>2. /\ ActiveOK(s, A, K) /\ OneEach(s) /\ PendingOK(s, A, K) /\ LastOK(s, S)
      /\ SelectOK(s) /\ ShownOK(s) /\ ViewOK(s, R) /\ QueueOK(s, S) /\ ArchiveOK(S)
      /\ DoneOK(R) /\ UsedOK(s, A, K) /\ CoverOK(A, K) /\ BudgetOK(s, A) /\ NewestOK(s, R)
  BY DEF LoopOK
<1>3. AskedOK(answer, asked)'
  BY DEF AskedOK
<1> HIDE DEF R
<1>4. CASE c' = s /\ done' = rest /\ UNCHANGED <<crm, result, failures>>
  <2>1. Finished' = R
    BY <1>4 DEF Finished, R
  <2>2. LoopOK(s, A, K, S, R)
    BY DEF R
  <2>3. AroundOK' /\ LoopOK(c, answer, asked, source, Finished)'
    BY <1>4, <2>1, <2>2, SameAround
  <2>4. OrderOK(done)'
    BY <1>4 DEF OrderOK, Before, Settled, Committed
  <2> QED BY <1>3, <1>4, <2>3, <2>4
<1>5. CASE /\ s.pending \in TargetType /\ s.active[s.pending.epoch] = None
           /\ c' \in Coordinator /\ c'.ctx = s.ctx /\ c'.pending = None
           /\ c'.active = [s.active EXCEPT ![s.pending.epoch] = s.pending]
           /\ c'.last = s.last /\ c'.shown = s.shown
           /\ \/ /\ crm' = Append(crm, s.pending)
                 /\ done' = rest /\ UNCHANGED <<result, failures>>
              \/ /\ failures < MaxFailure /\ failures' = failures + 1
                 /\ result' = [result EXCEPT ![s.pending.id] = Failure]
                 /\ done' = Append(rest, s.pending) /\ UNCHANGED crm
  <2> DEFINE taken == /\ crm' = Append(crm, t)
                      /\ done' = rest /\ UNCHANGED <<result, failures>>
             refused == /\ failures < MaxFailure /\ failures' = failures + 1
                        /\ result' = [result EXCEPT ![t.id] = Failure]
                        /\ done' = Append(rest, t) /\ UNCHANGED crm
  <2>1. /\ t \in TargetType /\ t # None /\ t.id \in Targets /\ e0 \in Epochs /\ t.rev \in Nat
        /\ t.waiters \subseteq Targets
        /\ s.active \in [Epochs -> OrNone(TargetType)] /\ s.active[e0] = None
    BY <1>1, <1>5, NoneAssumption DEF TargetType, Coordinator
  <2>2. /\ s.ctx # None /\ e0 = s.ctx /\ s.last = t /\ A[t.id] # None /\ result[t.id] = None
        /\ \A e \in Epochs : s.active[e] # None => s.active[e].id # t.id
        /\ \A w \in t.waiters : A[w] # None /\ (K[w] # None => K[w].epoch = e0 /\ K[w].rev <= t.rev)
    BY <1>2, <2>1 DEF PendingOK
  <2>3. /\ c' \in Coordinator /\ c'.ctx = s.ctx /\ c'.pending = None
        /\ c'.active[e0] = t /\ c'.last = s.last /\ c'.shown = s.shown
        /\ \A e \in Epochs : e # e0 => c'.active[e] = s.active[e]
    BY <1>5, <2>1
  <2>4. taken \/ refused
    BY <1>5
  <2>5. Failure # None /\ Failure.is = "failed" /\ Failure \in Result
    BY NoneAssumption DEF Failure, Waiting, Outcome, Result
  <2>6. \A id \in Targets : id # t.id => result'[id] = result[id]
    BY <2>1, <2>4 DEF AroundOK
  <2>7. result'[t.id] # None => refused /\ result'[t.id] = Failure
    BY <2>1, <2>2, <2>4 DEF AroundOK
  <2>8. \A e \in Epochs : s.active[e] # None =>
          s.active[e].id \in Targets /\ result'[s.active[e].id] = result[s.active[e].id]
    BY <2>1, <2>2, <2>6 DEF OrNone, TargetType
  <2>9. R \subseteq Finished' /\ Finished' \subseteq R \cup {t} /\ done' \in Seq(TargetType)
        /\ (taken => Finished' = R)
    <3>1. CASE taken
      <4>1. done' = rest
        BY <3>1
      <4>2. Finished' = R
        BY <4>1 DEF Finished, R
      <4> QED BY <4>1, <4>2
    <3>2. CASE refused /\ ~ taken
      <4>1. done' = Append(rest, t)
        BY <3>2
      <4>2. /\ Append(rest, t) \in Seq(TargetType)
            /\ {Append(rest, t)[i] : i \in 1..Len(Append(rest, t))}
                 = {rest[i] : i \in 1..Len(rest)} \cup {t}
        BY <2>1, AppendRange
      <4>3. Finished' = R \cup {t}
        BY <4>1, <4>2 DEF Finished, R
      <4> QED BY <3>2, <4>1, <4>2, <4>3
    <3> QED BY <2>4, <3>1, <3>2
  <2>10. t.rev = S
    BY <1>2, <2>1, <2>2 DEF LastOK
  <2>11. ASSUME NEW e \in Epochs, Arrived(s, R, e)
         PROVE  /\ Arrived(c, Finished, e)' /\ c'.active[e] = s.active[e]
                /\ result'[c'.active[e].id] = result[s.active[e].id]
    <3>1. s.active[e] # None /\ e # e0 /\ c'.active[e] = s.active[e]
      BY <2>1, <2>3, <2>11 DEF Arrived
    <3>2. result'[s.active[e].id] = result[s.active[e].id]
      BY <2>8, <3>1
    <3> QED BY <2>3, <2>9, <2>11, <3>1, <3>2 DEF Arrived, Committed
  <2>12. ASSUME NEW e \in Epochs, Arrived(c, Finished, e)' PROVE Arrived(s, R, e)
    <3>1. e # e0
      BY <2>3, <2>5, <2>7, <2>12 DEF Arrived, Committed
    <3>2. c'.active[e] = s.active[e] /\ s.active[e] # None
      BY <2>3, <2>12, <3>1 DEF Arrived
    <3>3. result'[s.active[e].id] = result[s.active[e].id] /\ s.active[e] # t
      BY <2>2, <2>8, <3>2
    <3> QED BY <2>9, <2>12, <3>2, <3>3 DEF Arrived, Committed
  <2>20. AroundOK'
    <3>1. crm' \in Seq(TargetType)
      <4>1. crm \in Seq(TargetType)
        BY DEF AroundOK
      <4>2. Append(crm, t) \in Seq(TargetType)
        BY <2>1, <4>1
      <4> QED BY <2>4, <4>1, <4>2
    <3>2. result' \in [Targets -> OrNone(Result)]
      BY <2>1, <2>4, <2>5 DEF AroundOK, OrNone
    <3>3. failures' \in 0..MaxFailure
      BY <2>4, SyncAssumption DEF AroundOK
    <3> QED BY <3>1, <3>2, <3>3 DEF AroundOK
  <2>21. LoopTypes(c, answer, asked, source, Finished)'
    BY <1>1, <2>1, <2>3, <2>9 DEF LoopTypes
  <2>22. ActiveOK(c, answer, asked)'
    <3> SUFFICES ASSUME NEW e \in Epochs, c'.active[e] # None
                 PROVE  LET u == c'.active[e] IN
                   /\ u.epoch = e /\ A[u.id] # None /\ (s.ctx # None => e <= s.ctx)
                   /\ \A w \in u.waiters : K[w] # None /\ K[w].epoch = e /\ K[w].rev <= u.rev
                   /\ result'[u.id] # None /\ result'[u.id].is = "committed" =>
                        /\ result'[u.id].source = u.rev
                        /\ result'[u.id].source <= archive[ArchiveOf[e]].source
                        /\ result'[u.id].view <= archive[ArchiveOf[e]].view
      BY <2>3 DEF ActiveOK, Committed
    <3>1. CASE e = e0
      <4>1. \A w \in t.waiters : K[w] # None
        BY <2>1, <2>2 DEF AskedOK
      <4>2. ~ (result'[t.id] # None /\ result'[t.id].is = "committed")
        BY <2>5, <2>7
      <4>3. e <= s.ctx
        BY <2>1, <2>2, <3>1, EpochTypes
      <4> QED BY <2>2, <2>3, <3>1, <4>1, <4>2, <4>3
    <3>2. CASE e # e0
      <4>1. c'.active[e] = s.active[e] /\ s.active[e] # None
        BY <2>3, <3>2
      <4>2. result'[s.active[e].id] = result[s.active[e].id]
        BY <2>8, <4>1
      <4> DEFINE u == s.active[e]
      <4>3. /\ u.epoch = e /\ A[u.id] # None /\ (s.ctx # None => e <= s.ctx)
            /\ \A w \in u.waiters : K[w] # None /\ K[w].epoch = e /\ K[w].rev <= u.rev
            /\ result[u.id] # None /\ result[u.id].is = "committed" =>
                 /\ result[u.id].source = u.rev
                 /\ result[u.id].source <= archive[ArchiveOf[e]].source
                 /\ result[u.id].view <= archive[ArchiveOf[e]].view
        BY <1>2, <4>1 DEF ActiveOK, Committed
      <4> HIDE DEF u
      <4>4. c'.active[e] = u /\ result'[u.id] = result[u.id]
        BY <4>1, <4>2 DEF u
      <4> QED BY <4>3, <4>4
    <3> QED BY <3>1, <3>2
  <2>23. OneEach(c)'
    BY <1>2, <2>2, <2>3 DEF OneEach
  <2>24. PendingOK(c, answer, asked)' /\ SelectOK(c)'
    BY <1>2, <2>1, <2>3 DEF PendingOK, SelectOK
  <2>25. LastOK(c, source)'
    BY <1>2, <2>1, <2>2, <2>3, <2>10 DEF LastOK
  <2>26. ShownOK(c)' /\ ArchiveOK(source)' /\ CoverOK(answer, asked)'
    BY <1>2, <2>3 DEF ShownOK, ArchiveOK, CoverOK
  <2>27. ViewOK(c, Finished)'
    <3>1. ASSUME NEW e \in Epochs, Coming(s, R, e) PROVE Coming(c, Finished, e)'
      BY <2>3, <2>11, <3>1 DEF Coming, Newest
    <3> QED BY <1>2, <2>3, <3>1 DEF ViewOK, NothingRestored
  <2>33. NewestOK(c, Finished)'
    BY <1>2, <2>3, <2>11, <2>12 DEF NewestOK, Newest
  <2>28. QueueOK(c, source)'
    <3>1. \A i \in 1..Len(crm) :
            /\ crm[i] \in TargetType /\ crm[i] # None /\ crm[i].epoch \in Epochs /\ crm[i].rev \in Nat
            /\ s.active[crm[i].epoch] = crm[i] /\ crm[i].epoch # e0
            /\ result[crm[i].id] = None /\ crm[i].rev <= S
            /\ \A a \in Archives : archive[a].source <= crm[i].rev
            /\ \A j \in 1..Len(crm) : i < j => crm[i].rev <= crm[j].rev /\ crm[i].epoch # crm[j].epoch
      <4> SUFFICES ASSUME NEW i \in 1..Len(crm)
                   PROVE  /\ crm[i] \in TargetType /\ crm[i] # None /\ crm[i].epoch \in Epochs
                          /\ crm[i].rev \in Nat /\ crm[i].epoch # e0
        BY <1>2 DEF QueueOK
      <4>1. crm[i] \in TargetType
        BY DEF AroundOK
      <4>2. crm[i] # None /\ crm[i].epoch \in Epochs /\ crm[i].rev \in Nat
        BY <4>1, NoneAssumption DEF TargetType
      <4>3. s.active[crm[i].epoch] = crm[i]
        BY <1>2 DEF QueueOK
      <4> HIDE DEF e0
      <4> QED BY <2>1, <4>1, <4>2, <4>3
    <3>2. \A i \in 1..Len(crm) : c'.active[crm[i].epoch] = crm[i] /\ result'[crm[i].id] = None
      BY <2>3, <2>8, <3>1
    <3>3. CASE taken
      <4> DEFINE N == Len(crm)
      <4>1. N \in Nat /\ Len(crm') = N + 1 /\ crm'[N + 1] = t /\ \A i \in 1..N : crm'[i] = crm[i]
        BY <3>3 DEF AroundOK
      <4> HIDE DEF N
      <4>2. \A i \in 1..Len(crm') : i \in 1..N \/ i = N + 1
        BY <4>1
      <4>3. result'[t.id] = None /\ \A a \in Archives : archive[a].source <= t.rev
        BY <1>2, <2>2, <2>10, <3>3 DEF ArchiveOK
      <4> SUFFICES ASSUME NEW i \in 1..Len(crm')
                   PROVE  /\ c'.active[crm'[i].epoch] = crm'[i] /\ result'[crm'[i].id] = None
                          /\ crm'[i].rev <= S
                          /\ \A a \in Archives : archive[a].source <= crm'[i].rev
                          /\ \A j \in 1..Len(crm') : i < j =>
                               crm'[i].rev <= crm'[j].rev /\ crm'[i].epoch # crm'[j].epoch
        BY DEF QueueOK
      <4>4. CASE i = N + 1
        BY <1>1, <2>3, <2>10, <4>1, <4>2, <4>3, <4>4
      <4>5. CASE i \in 1..N
        <5>1. crm'[i] = crm[i]
          BY <4>1, <4>5
        <5>2. ASSUME NEW j \in 1..Len(crm'), i < j
              PROVE  crm[i].rev <= crm'[j].rev /\ crm[i].epoch # crm'[j].epoch
          <6>1. CASE j = N + 1
            BY <2>10, <3>1, <4>1, <4>5, <6>1 DEF N
          <6>2. CASE j \in 1..N
            BY <3>1, <4>1, <4>5, <5>2, <6>2 DEF N
          <6> QED BY <4>2, <6>1, <6>2
        <5> QED BY <3>1, <3>2, <4>5, <5>1, <5>2 DEF N
      <4> QED BY <4>2, <4>4, <4>5
    <3>4. CASE refused
      BY <3>1, <3>2, <3>4 DEF QueueOK
    <3> QED BY <2>4, <3>3, <3>4
  <2>29. DoneOK(Finished)'
    <3>1. \A u \in calls \cup R : u.id # t.id /\ u.id \in Targets /\ result[u.id] # None
      BY <1>1, <1>2, <2>2 DEF DoneOK, AroundOK, TargetType
    <3>2. refused => result'[t.id] # None
      BY <2>1, <2>5 DEF AroundOK
    <3> QED BY <2>4, <2>6, <2>9, <3>1, <3>2 DEF DoneOK
  <2>30. UsedOK(c, answer, asked)'
    BY <1>2, <2>2, <2>6 DEF UsedOK, AskedOK
  <2>31. BudgetOK(c, answer)'
    <3>1. /\ IsFiniteSet(FailedOf(s)) /\ Cardinality(FailedOf(s)) \in Nat
          /\ Cardinality(Used(A)) \in Nat /\ failures \in Nat /\ MaxTarget \in Nat
      BY UsedFinite, FailedFinite, SyncAssumption DEF AroundOK
    <3>2. \A e \in Epochs : e # e0 => (e \in FailedOf(c)' <=> e \in FailedOf(s))
      BY <2>3, <2>8 DEF FailedOf
    <3>3. e0 \notin FailedOf(s)
      BY <2>1 DEF FailedOf
    <3>4. FailedOf(c)' \subseteq Epochs /\ FailedOf(s) \subseteq Epochs
      BY DEF FailedOf
    <3>5. Used(answer)' = Used(A)
      BY DEF Used
    <3>6. CASE taken
      <4>1. e0 \notin FailedOf(c)'
        BY <2>2, <2>3, <3>6 DEF FailedOf
      <4>2. \A e \in Epochs : e \in FailedOf(c)' <=> e \in FailedOf(s)
        <5> HIDE DEF e0
        <5> QED BY <3>2, <3>3, <4>1
      <4>3. FailedOf(c)' = FailedOf(s)
        BY <3>4, <4>2
      <4> QED BY <1>2, <3>5, <3>6, <4>3 DEF BudgetOK
    <3>7. CASE refused
      <4>1. FailedOf(c)' \subseteq FailedOf(s) \cup {e0}
        BY <3>2, <3>4
      <4>2. Cardinality(FailedOf(s) \cup {e0}) = Cardinality(FailedOf(s)) + 1
            /\ IsFiniteSet(FailedOf(s) \cup {e0})
        <5> HIDE DEF e0
        <5> QED BY <3>1, <3>3, FS_AddElement
      <4>3. Cardinality(FailedOf(c)') <= Cardinality(FailedOf(s)) + 1
            /\ Cardinality(FailedOf(c)') \in Nat
        <5> HIDE DEF e0
        <5>1. IsFiniteSet(FailedOf(c)') /\ Cardinality(FailedOf(c)') <= Cardinality(FailedOf(s) \cup {e0})
          BY <4>1, <4>2, FS_Subset
        <5> QED BY <4>2, <5>1, FS_CardinalityType
      <4>4. Cardinality(FailedOf(s)) <= failures
            /\ Cardinality(Used(A)) + Cardinality(FailedOf(s)) <= MaxTarget + failures
        BY <1>2 DEF BudgetOK
      <4>5. failures' = failures + 1
        BY <3>7
      <4>6. Cardinality(FailedOf(c)') <= failures'
            /\ Cardinality(Used(A)) + Cardinality(FailedOf(c)') <= MaxTarget + failures'
        BY <3>1, <4>3, <4>4, <4>5
      <4> QED BY <3>5, <4>6 DEF BudgetOK
    <3> QED BY <2>4, <3>6, <3>7
  <2>32. LoopOK(c, answer, asked, source, Finished)'
    BY <2>21, <2>22, <2>23, <2>24, <2>25, <2>26, <2>27, <2>28, <2>29, <2>30, <2>31, <2>33
       DEF LoopOK
  <2>34. OrderOK(done)'
    <3>1. \A u \in calls \cup R : (Committed(u)' <=> Committed(u)) /\ result'[u.id] = result[u.id]
      <4>1. \A u \in calls \cup R : u.id # t.id /\ u.id \in Targets
        BY <1>1, <1>2, <2>2 DEF DoneOK, AroundOK, TargetType
      <4> QED BY <2>6, <4>1 DEF Committed
    <3>2. \A u, v \in calls \cup R : (Before(u, v) => Before(u, v)') /\ (Settled(u) => Settled(u)')
      BY <3>1 DEF Before, Settled
    <3>3. \A i \in 1..Len(rest) : rest[i] \in R
      BY DEF R
    <3>4. OrderOK(rest)'
      BY <3>2, <3>3 DEF OrderOK
    <3>5. CASE done' = rest
      BY <3>4, <3>5 DEF OrderOK
    <3>6. CASE refused
      <4>1. ~ Committed(t)'
        BY <2>1, <2>5, <2>6, <3>6 DEF Committed, AroundOK
      <4>2. \A u : Before(u, t)' /\ Before(t, u)' /\ Settled(t)'
        BY <4>1 DEF Before, Settled
      <4> DEFINE N == Len(rest)
      <4>3. PICK d : d = done'
        OBVIOUS
      <4>4. N \in Nat /\ Len(d) = N + 1 /\ d[N + 1] = t /\ \A i \in 1..N : d[i] = rest[i]
        BY <3>6, <4>3
      <4>5. \A i \in 1..Len(d) : i \in 1..N \/ i = N + 1
        BY <4>4
      <4>6. \A i, j \in 1..Len(d) : i < j => i \in 1..N
        BY <4>4
      <4> HIDE DEF N
      <4>7. \A i, j \in 1..Len(d) : i < j => Before(d[i], d[j])'
        <5> SUFFICES ASSUME NEW i \in 1..Len(d), NEW j \in 1..Len(d), i < j
                     PROVE  Before(d[i], d[j])'
          OBVIOUS
        <5>1. CASE j = N + 1
          BY <4>2, <4>4, <5>1
        <5>2. CASE j \in 1..N
          <6>1. i \in 1..N
            BY <4>6
          <6>2. Before(rest[i], rest[j])'
            BY <3>4, <5>2, <6>1 DEF OrderOK, N
          <6> QED BY <4>4, <5>2, <6>1, <6>2
        <5> QED BY <4>5, <5>1, <5>2
      <4>8. \A i \in 1..Len(d) : Settled(d[i])' /\ \A u \in calls' : Before(d[i], u)'
        <5> SUFFICES ASSUME NEW i \in 1..Len(d)
                     PROVE  Settled(d[i])' /\ \A u \in calls' : Before(d[i], u)'
          OBVIOUS
        <5>1. CASE i = N + 1
          BY <4>2, <4>4, <5>1
        <5>2. CASE i \in 1..N
          <6>1. Settled(rest[i])' /\ \A u \in calls' : Before(rest[i], u)'
            BY <3>4, <5>2 DEF OrderOK, N
          <6> QED BY <4>4, <5>2, <6>1
        <5> QED BY <4>5, <5>1, <5>2
      <4>9. \A u \in calls' : Settled(u)' /\ \A v \in calls' : Before(v, u)'
        BY <3>4 DEF OrderOK
      <4> QED BY <4>3, <4>7, <4>8, <4>9 DEF OrderOK
    <3> QED BY <2>4, <3>5, <3>6
  <2> QED BY <1>3, <2>2, <2>3, <2>9, <2>20, <2>32, <2>34
<1> QED BY <1>1, <1>4, <1>5, HandOver

--------------------------------------------------------------------------------
(* Every action keeps the invariant and goes forward *)

Forward ==
  /\ c'.ctx = c.ctx /\ c.ctx # None => c'.shown.view >= c.shown.view
  /\ \A a \in Archives : archive'[a].source >= archive[a].source

LEMMA InvariantFacts ==
  ASSUME IInv
  PROVE  /\ AroundOK /\ LoopOK(c, answer, asked, source, Finished) /\ AskedOK(answer, asked)
         /\ OrderOK(done) /\ c \in Coordinator /\ answer \in Answers /\ asked \in Questions
         /\ source \in 0..MaxRevision /\ source \in Nat /\ done \in Seq(TargetType)
         /\ c.ctx \in OrNone(Epochs) /\ c.active \in [Epochs -> OrNone(TargetType)]
         /\ c.shown \in Shown /\ c.shown.view \in Nat /\ c.shown.source \in Nat
         /\ \A a \in Archives : archive[a] \in Shown /\ archive[a].source \in Nat
                                /\ archive[a].view \in Nat
<1>1. /\ AroundOK /\ LoopOK(c, answer, asked, source, Finished) /\ AskedOK(answer, asked)
      /\ OrderOK(done) /\ c \in Coordinator /\ answer \in Answers /\ asked \in Questions
      /\ source \in 0..MaxRevision /\ done \in Seq(TargetType)
  BY DEF IInv, AskedOK, LoopOK, LoopTypes
<1>2. /\ c.ctx \in OrNone(Epochs) /\ c.active \in [Epochs -> OrNone(TargetType)]
      /\ c.shown \in Shown
  BY <1>1 DEF Coordinator
<1>3. c.shown.view \in Nat /\ c.shown.source \in Nat /\ source \in Nat
  BY <1>1, <1>2, SyncAssumption DEF Shown
<1>4. \A a \in Archives : archive[a] \in Shown /\ archive[a].source \in Nat
                          /\ archive[a].view \in Nat
  BY <1>1 DEF AroundOK, Shown
<1> QED BY <1>1, <1>2, <1>3, <1>4

LEMMA InvariantParts ==
  ASSUME NEW s, NEW A, NEW K, NEW S, NEW R, LoopOK(s, A, K, S, R)
  PROVE  /\ LoopTypes(s, A, K, S, R)
         /\ ActiveOK(s, A, K) /\ OneEach(s) /\ PendingOK(s, A, K) /\ LastOK(s, S)
         /\ SelectOK(s) /\ ShownOK(s) /\ ViewOK(s, R) /\ QueueOK(s, S) /\ ArchiveOK(S)
         /\ DoneOK(R) /\ UsedOK(s, A, K) /\ CoverOK(A, K) /\ BudgetOK(s, A)
         /\ NewestOK(s, R)
BY DEF LoopOK

\* Answers that differ only by what is no commit are alike.
Alike(A, B) ==
  /\ B \in Answers
  /\ \A w \in Targets : /\ B[w] = None <=> A[w] = None
                        /\ B[w] # None /\ B[w].is = "committed" => B[w] = A[w]

LEMMA CancelledAlike ==
  ASSUME NEW A \in Answers, NEW s \in Coordinator
  PROVE  Alike(A, Cancelled(A, s))
<1>1. Cancellation \in Outcome /\ Cancellation # None /\ Cancellation.is # "committed"
  BY NoneAssumption DEF Cancellation, Waiting, Outcome
<1>2. Waiting # None
  BY NoneAssumption DEF Waiting, Outcome
<1>3. CASE s.pending = None
  BY <1>3 DEF Cancelled, Alike
<1>4. CASE s.pending # None
  <2> DEFINE B == [w \in Targets |-> IF w \in s.pending.waiters /\ A[w] = Waiting
                                     THEN Cancellation ELSE A[w]]
  <2>1. Cancelled(A, s) = B
    BY <1>4 DEF Cancelled
  <2>2. B \in Answers
    BY <1>1 DEF Answers, OrNone
  <2>3. ASSUME NEW w \in Targets
        PROVE  /\ B[w] = None <=> A[w] = None
               /\ B[w] # None /\ B[w].is = "committed" => B[w] = A[w]
    BY <1>1, <1>2
  <2> HIDE DEF B
  <2> QED BY <2>1, <2>2, <2>3 DEF Alike
<1> QED BY <1>3, <1>4

LEMMA AlikeUsed == ASSUME NEW A, NEW B, Alike(A, B) PROVE Used(B) = Used(A)
BY DEF Alike, Used

LEMMA SelectedFacts ==
  ASSUME NEW s \in Coordinator, NEW e \in Epochs, NEW restored \in Shown
  PROVE  LET p == Selected(s, e, restored) IN
         /\ p \in Coordinator /\ p.ctx = e /\ p.pending = None /\ p.last = None
         /\ p.active = s.active /\ p.shown.source = restored.source
         /\ p.shown.view = IF s.ctx = e /\ s.shown.view > restored.view
                           THEN s.shown.view ELSE restored.view
<1> DEFINE view == IF s.ctx = e /\ s.shown.view > restored.view
                   THEN s.shown.view ELSE restored.view
           shown == [view |-> view, source |-> restored.source]
           p == [s EXCEPT !.ctx = e, !.pending = None, !.last = None, !.error = FALSE,
                          !.backoff = FALSE, !.shown = shown, !.phase = "idle",
                          !.syncing = FALSE]
<1>1. view \in Nat /\ restored.source \in Nat
  BY DEF Coordinator, Shown
<1> HIDE DEF view
<1>2. shown \in Shown /\ shown.view = view /\ shown.source = restored.source
  BY <1>1 DEF Shown
<1>3. Selected(s, e, restored) = p
  BY DEF Selected, view
<1> HIDE DEF shown
<1>4. /\ p \in Coordinator /\ p.ctx = e /\ p.pending = None /\ p.last = None
      /\ p.active = s.active /\ p.shown = shown
  BY <1>2 DEF Coordinator, OrNone
<1> HIDE DEF p
<1> QED BY <1>2, <1>3, <1>4 DEF view

LEMMA NoArchiveFacts == NoArchive \in Shown /\ NoArchive.view = 0 /\ NoArchive.source = 0
BY DEF NoArchive, Shown

\* A coordinator with another context, or none, that asks nothing yet: what is at work
\* goes on as before.
LEMMA OthersKeep ==
  ASSUME IInv, Alike(answer, answer'), c' \in Coordinator, c'.pending = None,
         c'.active = c.active,
         UNCHANGED <<crm, result, calls, done, archive, asked, source, failures>>,
         selecting' \in OrNone(Selection), unrestored' \in BOOLEAN
  PROVE  /\ AroundOK' /\ LoopTypes(c, answer, asked, source, Finished)'
         /\ (\A e \in Epochs : c.active[e] # None /\ c'.ctx # None => e <= c'.ctx)
              => ActiveOK(c, answer, asked)'
         /\ OneEach(c)' /\ PendingOK(c, answer, asked)' /\ QueueOK(c, source)'
         /\ ArchiveOK(source)' /\ DoneOK(Finished)' /\ UsedOK(c, answer, asked)'
         /\ CoverOK(answer, asked)' /\ BudgetOK(c, answer)'
         /\ AskedOK(answer, asked)' /\ done' \in Seq(TargetType) /\ OrderOK(done)'
         /\ (c'.ctx = None \/ c.ctx # None \/ \A e \in Epochs : c.active[e] = None)
              => NewestOK(c, Finished)'
<1>1. /\ AroundOK /\ LoopOK(c, answer, asked, source, Finished) /\ AskedOK(answer, asked)
      /\ done \in Seq(TargetType) /\ c.active \in [Epochs -> OrNone(TargetType)] /\ OrderOK(done)
  BY InvariantFacts
<1>2. /\ LoopTypes(c, answer, asked, source, Finished)
      /\ ActiveOK(c, answer, asked) /\ OneEach(c) /\ QueueOK(c, source) /\ ArchiveOK(source)
      /\ DoneOK(Finished) /\ UsedOK(c, answer, asked) /\ CoverOK(answer, asked)
      /\ BudgetOK(c, answer) /\ NewestOK(c, Finished)
  BY <1>1, InvariantParts
<1>3. Finished' = Finished
  BY DEF Finished
<1>4. AroundOK' /\ LoopTypes(c, answer, asked, source, Finished)'
  BY <1>1, <1>2, <1>3 DEF AroundOK, LoopTypes, Alike
<1>5. \A w \in Targets : /\ answer'[w] = None <=> answer[w] = None
                         /\ answer'[w] # None /\ answer'[w].is = "committed" => answer'[w] = answer[w]
  BY DEF Alike
<1>6. \A e \in Epochs : c.active[e] # None => c.active[e].id \in Targets
  BY <1>1 DEF OrNone, TargetType
<1>7. (\A e \in Epochs : c.active[e] # None /\ c'.ctx # None => e <= c'.ctx)
         => ActiveOK(c, answer, asked)'
  <2>1. ASSUME NEW e \in Epochs, c.active[e] # None
        PROVE  LET t == c.active[e] IN
               /\ t.epoch = e /\ answer'[t.id] # None
               /\ \A w \in t.waiters : asked[w] # None /\ asked[w].epoch = e /\ asked[w].rev <= t.rev
               /\ Committed(t) => /\ result[t.id].source = t.rev
                                  /\ result[t.id].source <= archive[ArchiveOf[e]].source
                                  /\ result[t.id].view <= archive[ArchiveOf[e]].view
    <3>1. c.active[e].id \in Targets
      BY <1>6, <2>1
    <3> QED BY <1>2, <1>5, <2>1, <3>1 DEF ActiveOK
  <2> QED BY <2>1 DEF ActiveOK, Committed
<1>8. OneEach(c)' /\ PendingOK(c, answer, asked)' /\ QueueOK(c, source)'
  BY <1>2 DEF OneEach, PendingOK, QueueOK
<1>9. ArchiveOK(source)' /\ DoneOK(Finished)'
  BY <1>2, <1>3 DEF ArchiveOK, DoneOK
<1>10. UsedOK(c, answer, asked)' /\ AskedOK(answer, asked)'
  BY <1>1, <1>2, <1>5 DEF UsedOK, AskedOK
<1>11. CoverOK(answer, asked)'
  BY <1>2, <1>5 DEF CoverOK
<1>12. BudgetOK(c, answer)'
  <2>1. FailedOf(c)' = FailedOf(c)
    BY DEF FailedOf
  <2>2. Used(answer)' = Used(answer)
    BY <1>5 DEF Used
  <2> QED BY <1>2, <2>1, <2>2 DEF BudgetOK
<1>13. OrderOK(done)'
  BY <1>1 DEF OrderOK, Before, Settled, Committed
<1>14. ASSUME c'.ctx = None \/ c.ctx # None \/ \A e \in Epochs : c.active[e] = None
       PROVE  NewestOK(c, Finished)'
  <2>1. \A e \in Epochs : Arrived(c, Finished, e)' <=> Arrived(c, Finished, e)
    BY <1>3 DEF Arrived, Committed
  <2> QED BY <1>2, <1>14, <2>1 DEF NewestOK, Newest, Arrived
<1> QED BY <1>1, <1>4, <1>7, <1>8, <1>9, <1>10, <1>11, <1>12, <1>13, <1>14

LEMMA SelectBeginKeeps ==
  ASSUME IInv, NEW e \in Epochs, SelectBegin(e)
  PROVE  IInv' /\ Forward
<1>1. /\ AroundOK /\ c \in Coordinator /\ answer \in Answers /\ done \in Seq(TargetType)
      /\ c.ctx \in OrNone(Epochs) /\ LoopOK(c, answer, asked, source, Finished)
      /\ \A a \in Archives : archive[a].source \in Nat /\ archive[a].view \in Nat
  BY InvariantFacts
<1>2. /\ life = "up" /\ selecting = None /\ e = (IF c.ctx = None THEN 1 ELSE c.ctx + 1)
      /\ c' = Selected(c, e, NoArchive) /\ answer' = Cancelled(answer, c)
      /\ selecting' = [ctx |-> e, state |-> None] /\ unrestored' = FALSE
      /\ UNCHANGED <<crm, result, calls, done, archive, asked, source, life, failures>>
  BY DEF SelectBegin
<1>3. /\ c' \in Coordinator /\ c'.ctx = e /\ c'.pending = None /\ c'.last = None
      /\ c'.active = c.active /\ c'.shown \in Shown /\ c'.shown.source = 0
      /\ c'.shown.view = IF c.ctx = e /\ c.shown.view > 0 THEN c.shown.view ELSE 0
  BY <1>1, <1>2, SelectedFacts, NoArchiveFacts DEF Coordinator
<1>4. Alike(answer, answer')
  BY <1>1, <1>2, CancelledAlike
<1>5. /\ selecting' \in OrNone(Selection) /\ selecting' # None /\ selecting'.ctx = e
      /\ selecting'.state = None
  <2>1. selecting' \in Selection
    BY <1>2 DEF Selection, OrNone
  <2> QED BY <1>2, <2>1, NoneAssumption DEF OrNone
<1>6. e # None /\ e # c.ctx /\ (c.ctx # None => c.ctx \in Nat /\ c.ctx < e) /\ e \in Nat
  <2>1. e # None /\ e \in Nat
    BY EpochTypes
  <2>2. c.ctx # None => c.ctx \in Nat
    BY <1>1, EpochTypes DEF OrNone
  <2>3. c.ctx # None => e = c.ctx + 1
    BY <1>2
  <2> QED BY <2>1, <2>2, <2>3
<1>7. /\ ActiveOK(c, answer, asked) /\ LifeOK
  BY <1>1, InvariantParts DEF IInv
<1>8. \A f \in Epochs : c.active[f] # None => f < e
  <2>1. c.ctx = None => \A f \in Epochs : c.active[f] = None
    BY <1>2, <1>7 DEF LifeOK
  <2>2. c.ctx # None => \A f \in Epochs : c.active[f] # None => f <= c.ctx
    BY <1>7 DEF ActiveOK
  <2> QED BY <1>6, <2>1, <2>2, EpochTypes
<1>9. /\ AroundOK' /\ LoopTypes(c, answer, asked, source, Finished)'
      /\ (\A f \in Epochs : c.active[f] # None /\ c'.ctx # None => f <= c'.ctx)
           => ActiveOK(c, answer, asked)'
      /\ OneEach(c)' /\ PendingOK(c, answer, asked)' /\ QueueOK(c, source)'
      /\ ArchiveOK(source)' /\ DoneOK(Finished)' /\ UsedOK(c, answer, asked)'
      /\ CoverOK(answer, asked)' /\ BudgetOK(c, answer)'
      /\ AskedOK(answer, asked)' /\ done' \in Seq(TargetType) /\ OrderOK(done)'
      /\ NewestOK(c, Finished)'
  <2>1. c'.ctx = None \/ c.ctx # None \/ \A f \in Epochs : c.active[f] = None
    BY <1>2, <1>7 DEF LifeOK
  <2> QED BY <1>2, <1>3, <1>4, <1>5, <2>1, OthersKeep
<1>10. ActiveOK(c, answer, asked)'
  <2>1. \A f \in Epochs : c.active[f] # None => f <= e
    BY <1>6, <1>8, EpochTypes
  <2> QED BY <1>3, <1>9, <2>1
<1>11. c'.active[e] = None
  BY <1>3, <1>6, <1>8
<1>12. LastOK(c, source)'
  BY <1>3, <1>11 DEF LastOK
<1>13. SelectOK(c)'
  BY <1>2, <1>3, <1>5, <1>11 DEF SelectOK
<1>14. ShownOK(c)'
  <2>1. ArchiveOf[e] \in Archives
    BY EpochTypes
  <2>2. archive[ArchiveOf[e]].source >= 0 /\ archive[ArchiveOf[e]].view >= 0
    BY <1>1, <2>1
  <2> QED BY <1>2, <1>3, <1>6, <2>2 DEF ShownOK
<1>15. ViewOK(c, Finished)'
  <2>1. c'.shown.view = 0
    BY <1>3, <1>6
  <2>2. c'.shown = NoArchive
    BY <1>3, <2>1 DEF Shown, NoArchive
  <2> QED BY <1>5, <2>2 DEF ViewOK, NothingRestored
<1>16. LifeOK'
  BY <1>2, <1>3, <1>6 DEF LifeOK
<1>17. LoopOK(c, answer, asked, source, Finished)'
  BY <1>9, <1>10, <1>12, <1>13, <1>14, <1>15 DEF LoopOK
<1>18. IInv'
  BY <1>9, <1>16, <1>17 DEF IInv, AskedOK
<1>19. Forward
  BY <1>1, <1>2, <1>3, <1>6 DEF Forward
<1> QED BY <1>18, <1>19

LEMMA SelectReadKeeps ==
  ASSUME IInv, SelectRead
  PROVE  IInv' /\ Forward
<1>1. /\ AroundOK /\ c \in Coordinator /\ answer \in Answers /\ done \in Seq(TargetType)
      /\ c.ctx \in OrNone(Epochs) /\ LoopOK(c, answer, asked, source, Finished)
      /\ c.shown.view \in Nat
      /\ \A a \in Archives : archive[a] \in Shown /\ archive[a].source \in Nat
                             /\ archive[a].view \in Nat
  BY InvariantFacts
<1>2. /\ selecting # None /\ selecting.state = None
      /\ \/ /\ selecting' = [selecting EXCEPT !.state = archive[ArchiveOf[selecting.ctx]]]
            /\ UNCHANGED unrestored
         \/ /\ selecting' = [selecting EXCEPT !.state = NoArchive]
            /\ unrestored' = TRUE
      /\ UNCHANGED <<c, answer, crm, result, calls, done, archive, asked, source, life, failures>>
  BY DEF SelectRead
<1>3. /\ SelectOK(c) /\ ActiveOK(c, answer, asked) /\ LastOK(c, source) /\ ShownOK(c) /\ LifeOK
      /\ PendingOK(c, answer, asked) /\ ViewOK(c, Finished)
  BY <1>1, InvariantParts DEF IInv
<1>4. selecting \in Selection /\ selecting.ctx \in Epochs
  BY <1>1, <1>2 DEF AroundOK, OrNone, Selection
<1>5. c.ctx = selecting.ctx /\ c.pending = None /\ c.ctx # None
  BY <1>2, <1>3, <1>4, EpochTypes DEF SelectOK
<1>6. archive[ArchiveOf[c.ctx]] \in Shown
  BY <1>1, <1>4, <1>5, EpochTypes
<1>7. /\ selecting' \in Selection /\ selecting' # None /\ selecting'.ctx = c.ctx
      /\ selecting'.state # None /\ unrestored' \in BOOLEAN
      /\ \/ selecting'.state = archive[ArchiveOf[c.ctx]] /\ UNCHANGED unrestored
         \/ selecting'.state = NoArchive /\ unrestored' = TRUE
  <2>1. CASE /\ selecting' = [selecting EXCEPT !.state = archive[ArchiveOf[selecting.ctx]]]
             /\ UNCHANGED unrestored
    <3>1. selecting' \in Selection /\ selecting'.ctx = c.ctx
          /\ selecting'.state = archive[ArchiveOf[c.ctx]]
      BY <1>4, <1>5, <1>6, <2>1 DEF Selection, OrNone
    <3> QED BY <1>1, <1>6, <2>1, <3>1, NoneAssumption DEF AroundOK
  <2>2. CASE selecting' = [selecting EXCEPT !.state = NoArchive] /\ unrestored' = TRUE
    <3>1. selecting' \in Selection /\ selecting'.ctx = c.ctx /\ selecting'.state = NoArchive
      BY <1>4, <1>5, <2>2, NoArchiveFacts DEF Selection, OrNone
    <3> QED BY <2>2, <3>1, NoArchiveFacts, NoneAssumption
  <2> QED BY <1>2, <2>1, <2>2
<1>8. Alike(answer, answer')
  BY <1>1, <1>2 DEF Alike
<1>9. /\ AroundOK' /\ LoopTypes(c, answer, asked, source, Finished)'
      /\ (\A f \in Epochs : c.active[f] # None /\ c'.ctx # None => f <= c'.ctx)
           => ActiveOK(c, answer, asked)'
      /\ OneEach(c)' /\ PendingOK(c, answer, asked)' /\ QueueOK(c, source)'
      /\ ArchiveOK(source)' /\ DoneOK(Finished)' /\ UsedOK(c, answer, asked)'
      /\ CoverOK(answer, asked)' /\ BudgetOK(c, answer)'
      /\ AskedOK(answer, asked)' /\ done' \in Seq(TargetType) /\ OrderOK(done)'
      /\ NewestOK(c, Finished)'
  <2>1. selecting' \in OrNone(Selection) /\ c' \in Coordinator /\ c'.pending = None
        /\ c'.active = c.active
    BY <1>1, <1>2, <1>5, <1>7 DEF OrNone
  <2> QED BY <1>2, <1>5, <1>7, <1>8, <2>1, OthersKeep
<1>10. ActiveOK(c, answer, asked)'
  BY <1>2, <1>3, <1>9 DEF ActiveOK
<1>11. SelectOK(c)'
  <2> DEFINE kept == archive[ArchiveOf[c.ctx]]
  <2>1. kept.source \in Nat /\ kept.view \in Nat
    BY <1>6 DEF Shown
  <2>2. selecting'.state.source <= kept.source /\ selecting'.state.view <= kept.view
    BY <1>7, <2>1, NoArchiveFacts
  <2>3. unrestored' => selecting'.state = NoArchive
    BY <1>2, <1>3, <1>4, <1>7 DEF SelectOK
  <2> QED BY <1>2, <1>3, <1>7, <2>2, <2>3 DEF SelectOK
<1>12. LastOK(c, source)' /\ ShownOK(c)' /\ LifeOK'
  BY <1>2, <1>3, <1>5 DEF LastOK, ShownOK, LifeOK
<1>13. ViewOK(c, Finished)'
  <2>1. CASE selecting'.state = archive[ArchiveOf[c.ctx]]
    BY <1>2, <1>7, <2>1 DEF ViewOK
  <2>2. CASE unrestored' = TRUE
    <3>1. ASSUME NEW e \in Epochs, Coming(c, Finished, e) PROVE Coming(c, Finished, e)'
      BY <1>2, <3>1 DEF Coming, Newest, Arrived, Committed, Finished
    <3>2. \/ c.shown.view = archive[ArchiveOf[c.ctx]].view
          \/ \E e \in Epochs : Coming(c, Finished, e)
          \/ c.shown = NoArchive
      BY <1>2, <1>3, <1>5 DEF ViewOK
    <3> QED BY <1>2, <2>2, <3>1, <3>2 DEF ViewOK, NothingRestored
  <2> QED BY <1>7, <2>1, <2>2
<1>14. LoopOK(c, answer, asked, source, Finished)'
  BY <1>9, <1>10, <1>11, <1>12, <1>13 DEF LoopOK
<1>15. IInv'
  BY <1>9, <1>12, <1>14 DEF IInv, AskedOK
<1>16. Forward
  BY <1>1, <1>2 DEF Forward
<1> QED BY <1>15, <1>16

LEMMA SelectEndKeeps ==
  ASSUME IInv, SelectEnd
  PROVE  IInv' /\ Forward
<1>1. /\ AroundOK /\ c \in Coordinator /\ answer \in Answers /\ done \in Seq(TargetType)
      /\ c.ctx \in OrNone(Epochs) /\ LoopOK(c, answer, asked, source, Finished)
      /\ c.shown.view \in Nat /\ source \in Nat
      /\ \A a \in Archives : archive[a] \in Shown /\ archive[a].source \in Nat
                             /\ archive[a].view \in Nat
  BY InvariantFacts
<1> DEFINE restored == selecting.state
           kept == archive[ArchiveOf[c.ctx]]
<1>2. /\ selecting # None /\ restored # None /\ selecting' = None
      /\ IF restored = NoArchive
         THEN UNCHANGED <<c, answer, source>>
         ELSE /\ source' = IF restored.source > source THEN restored.source ELSE source
              /\ c' = Selected(c, selecting.ctx, restored)
              /\ answer' = Cancelled(answer, c)
      /\ UNCHANGED <<crm, result, calls, done, archive, asked, unrestored, life, failures>>
  BY DEF SelectEnd
<1>3. /\ SelectOK(c) /\ ActiveOK(c, answer, asked) /\ LastOK(c, source) /\ ShownOK(c) /\ LifeOK
      /\ ViewOK(c, Finished) /\ ArchiveOK(source)
  BY <1>1, InvariantParts DEF IInv
<1>4. selecting \in Selection /\ selecting.ctx \in Epochs /\ restored \in Shown
      /\ restored.view \in Nat /\ restored.source \in Nat
  BY <1>1, <1>2 DEF AroundOK, OrNone, Selection, Shown
<1>5. /\ c.ctx = selecting.ctx /\ c.ctx \in Epochs /\ c.ctx # None /\ c.pending = None
      /\ c.last = None /\ c.active[c.ctx] = None
      /\ restored.source <= kept.source /\ restored.view <= kept.view
      /\ (unrestored => restored = NoArchive)
  BY <1>2, <1>3, <1>4, EpochTypes DEF SelectOK
<1>6. ArchiveOf[c.ctx] \in Archives /\ kept.source \in Nat /\ kept.view \in Nat
      /\ kept.source <= source
  BY <1>1, <1>3, <1>5, EpochTypes DEF ArchiveOK
<1>7. source' = source
  BY <1>1, <1>2, <1>4, <1>5, <1>6
<1>8. /\ c' \in Coordinator /\ c'.ctx = c.ctx /\ c'.pending = None /\ c'.last = None
      /\ c'.active = c.active /\ c'.shown.source <= kept.source
      /\ c'.shown.view = IF c.shown.view > restored.view THEN c.shown.view ELSE restored.view
  <2>1. CASE restored = NoArchive
    <3>1. restored.view = 0 /\ c' = c
      BY <1>2, <2>1, NoArchiveFacts
    <3>2. c.shown.view = IF c.shown.view > 0 THEN c.shown.view ELSE 0
      BY <1>1
    <3> QED BY <1>1, <1>3, <1>5, <3>1, <3>2 DEF ShownOK
  <2>2. CASE restored # NoArchive
    <3>1. c' = Selected(c, c.ctx, restored)
      BY <1>2, <1>5, <2>2
    <3> QED BY <1>1, <1>4, <1>5, <3>1, SelectedFacts
  <2> QED BY <2>1, <2>2
<1>9. Alike(answer, answer')
  <2>1. CASE answer' = answer
    BY <1>1, <2>1 DEF Alike
  <2>2. CASE answer' = Cancelled(answer, c)
    BY <1>1, <2>2, CancelledAlike
  <2> QED BY <1>2, <2>1, <2>2
<1>10. /\ AroundOK' /\ LoopTypes(c, answer, asked, source, Finished)'
       /\ (\A f \in Epochs : c.active[f] # None /\ c'.ctx # None => f <= c'.ctx)
            => ActiveOK(c, answer, asked)'
       /\ OneEach(c)' /\ PendingOK(c, answer, asked)' /\ QueueOK(c, source)'
       /\ ArchiveOK(source)' /\ DoneOK(Finished)' /\ UsedOK(c, answer, asked)'
       /\ CoverOK(answer, asked)' /\ BudgetOK(c, answer)'
       /\ AskedOK(answer, asked)' /\ done' \in Seq(TargetType) /\ OrderOK(done)'
       /\ NewestOK(c, Finished)'
  <2>1. selecting' \in OrNone(Selection) /\ unrestored' \in BOOLEAN
    BY <1>1, <1>2 DEF OrNone, AroundOK
  <2> QED BY <1>2, <1>5, <1>7, <1>8, <1>9, <2>1, OthersKeep
<1>11. ActiveOK(c, answer, asked)'
  BY <1>3, <1>8, <1>10 DEF ActiveOK
<1>12. SelectOK(c)' /\ LastOK(c, source)'
  BY <1>2, <1>5, <1>8 DEF SelectOK, LastOK
<1>13. c.shown.view <= kept.view
  BY <1>3, <1>5 DEF ShownOK
<1>14. ShownOK(c)'
  BY <1>2, <1>5, <1>8, <1>13 DEF ShownOK
<1>15. ViewOK(c, Finished)'
  <2>1. CASE c.shown.view = kept.view \/ restored.view = kept.view
    <3>1. c'.shown.view = kept.view
      BY <1>1, <1>4, <1>5, <1>6, <1>8, <1>13, <2>1
    <3> QED BY <1>2, <1>8, <3>1 DEF ViewOK
  <2>2. ASSUME NEW e \in Epochs, Coming(c, Finished, e) PROVE ViewOK(c, Finished)'
    <3>1. Coming(c, Finished, e)'
      BY <1>2, <1>8, <2>2 DEF Coming, Newest, Arrived, Committed, Finished
    <3> QED BY <3>1 DEF ViewOK
  <2>3. CASE unrestored /\ c.shown = NoArchive
    <3>1. c'.shown = c.shown
      BY <1>2, <1>5, <2>3
    <3> QED BY <1>2, <2>3, <3>1 DEF ViewOK, NothingRestored
  <2> QED BY <1>2, <1>3, <1>5, <2>1, <2>2, <2>3 DEF ViewOK, NothingRestored
<1>16. LifeOK'
  BY <1>2, <1>3, <1>5, <1>8 DEF LifeOK
<1>17. LoopOK(c, answer, asked, source, Finished)'
  BY <1>10, <1>11, <1>12, <1>14, <1>15 DEF LoopOK
<1>18. IInv'
  BY <1>10, <1>16, <1>17 DEF IInv, AskedOK
<1>19. Forward
  BY <1>1, <1>2, <1>4, <1>8 DEF Forward
<1> QED BY <1>18, <1>19

\* clear_retry and the end of a backoff only touch what the invariant does not look at.
LEMMA BackoffKeeps ==
  ASSUME IInv, ClearRetry \/ BackoffEnds
  PROVE  IInv' /\ Forward
<1>1. /\ AroundOK /\ c \in Coordinator /\ LoopOK(c, answer, asked, source, Finished)
      /\ AskedOK(answer, asked) /\ done \in Seq(TargetType) /\ OrderOK(done)
      /\ c.shown.view \in Nat
      /\ \A a \in Archives : archive[a].source \in Nat
  BY InvariantFacts
<1>2. /\ c' = [c EXCEPT !.error = FALSE, !.backoff = FALSE] \/ c' = [c EXCEPT !.backoff = FALSE]
      /\ UNCHANGED <<answer, crm, result, calls, done, archive, asked, source, selecting,
                     unrestored, life, failures>>
  BY DEF ClearRetry, BackoffEnds
<1>3. /\ c' \in Coordinator /\ c'.ctx = c.ctx /\ c'.pending = c.pending
      /\ c'.active = c.active /\ c'.last = c.last /\ c'.shown = c.shown
  BY <1>1, <1>2 DEF Coordinator
<1>4. LoopOK(c', answer, asked, source, Finished)
  BY <1>1, <1>3, SameFields
<1>5. Finished' = Finished
  BY <1>2 DEF Finished
<1>6. AroundOK' /\ LoopOK(c, answer, asked, source, Finished)'
  <2> DEFINE s == c'
  <2>1. LoopOK(s, answer, asked, source, Finished) /\ c' = s
    BY <1>4
  <2> HIDE DEF s
  <2> QED BY <1>1, <1>2, <1>5, <2>1, SameAround
<1>7. LifeOK'
  BY <1>2, <1>3 DEF IInv, LifeOK
<1>8. OrderOK(done)'
  BY <1>1, <1>2 DEF OrderOK, Before, Settled, Committed
<1>10. IInv'
  BY <1>1, <1>2, <1>6, <1>7, <1>8 DEF IInv, AskedOK
<1>9. Forward
  BY <1>1, <1>2, <1>3 DEF Forward
<1> QED BY <1>9, <1>10

\* A request: of the present snapshot, or of one that is new.
LEMMA RequestKeeps ==
  ASSUME IInv, NEW rev \in 1..MaxRevision, rev = source \/ rev = source + 1,
         source' = rev, UNCHANGED <<calls, archive, selecting, unrestored, life>>, Request(rev)
  PROVE  IInv' /\ Forward
<1>1. /\ AroundOK /\ c \in Coordinator /\ answer \in Answers /\ done \in Seq(TargetType)
      /\ c.ctx \in OrNone(Epochs) /\ LoopOK(c, answer, asked, source, Finished)
      /\ AskedOK(answer, asked) /\ asked \in Questions /\ rev \in Nat \ {0}
      /\ rev \in 0..MaxRevision /\ OrderOK(done)
      /\ c.active \in [Epochs -> OrNone(TargetType)]
      /\ c.shown.view \in Nat /\ source \in Nat
      /\ \A a \in Archives : archive[a] \in Shown /\ archive[a].source \in Nat
                             /\ archive[a].view \in Nat
  BY InvariantFacts, SyncAssumption
<1>2. /\ LoopTypes(c, answer, asked, source, Finished)
      /\ ActiveOK(c, answer, asked) /\ OneEach(c) /\ PendingOK(c, answer, asked)
      /\ LastOK(c, source) /\ SelectOK(c) /\ ShownOK(c) /\ ViewOK(c, Finished)
      /\ QueueOK(c, source) /\ ArchiveOK(source) /\ DoneOK(Finished)
      /\ UsedOK(c, answer, asked) /\ CoverOK(answer, asked) /\ BudgetOK(c, answer) /\ LifeOK
      /\ NewestOK(c, Finished)
  BY <1>1, InvariantParts DEF IInv
<1> DEFINE known == c.last # None /\ c.last.rev = rev
                    /\ (answer[c.last.id] = Waiting \/ ~c.error)
           id == FirstUnused(answer)
           own == Target(id, c.ctx, rev, {id} \cup Inherited(c))
           question == [epoch |-> c.ctx, rev |-> rev]
           s == [c EXCEPT !.pending = own, !.last = own]
           A == [answer EXCEPT ![id] = Waiting]
           K == [asked EXCEPT ![id] = question]
<1>3. /\ life = "up" /\ selecting = None /\ c.ctx # None
      /\ known => UNCHANGED <<c, answer, crm, result, done, asked, failures>>
      /\ ~ known => Room /\ answer' = A /\ asked' = K /\ Dispatch(s, done)
  BY DEF Request
<1>4. CASE known
  <2>1. source' = source
    BY <1>2, <1>3, <1>4 DEF LastOK
  <2>2. Finished' = Finished
    BY <1>3, <1>4 DEF Finished
  <2>3. UNCHANGED <<c, answer, crm, result, done, asked, failures>>
    BY <1>3, <1>4
  <2>4. AroundOK' /\ LoopOK(c, answer, asked, source, Finished)'
    BY <1>1, <2>1, <2>2, <2>3, SameAround
  <2>5. LifeOK'
    BY <1>2, <2>3 DEF LifeOK
  <2>8. OrderOK(done)'
    BY <1>1, <2>3 DEF OrderOK, Before, Settled, Committed
  <2>6. IInv'
    BY <1>1, <2>3, <2>4, <2>5, <2>8 DEF IInv, AskedOK
  <2>7. Forward
    BY <1>1, <2>3 DEF Forward
  <2> QED BY <2>6, <2>7
<1>5. CASE ~ known
  <2>1. Room /\ answer' = A /\ asked' = K /\ Dispatch(s, done)
    BY <1>3, <1>5
  <2> HIDE DEF known
  <2>2. Cardinality(Used(answer)) < MaxTarget
    BY <2>1 DEF Room, Used
  <2>3. id \in Targets /\ answer[id] = None
    <3>1. Cardinality(Used(answer)) \in Nat /\ MaxTarget \in Nat /\ MaxFailure \in Nat
      BY UsedFinite, SyncAssumption
    <3>2. Cardinality(Used(answer)) < MaxTarget + MaxFailure
      BY <2>2, <3>1
    <3> QED BY <3>2, RoomLeft, FirstUnusedFacts
  <2> HIDE DEF id
  <2>4. c.ctx \in Epochs
    BY <1>1, <1>3 DEF OrNone
  <2>5. Inherited(c) \subseteq Targets
    BY <1>1, NoneAssumption DEF Inherited, Coordinator, OrNone, TargetType
  <2>6. /\ own \in TargetType /\ own.id = id /\ own.epoch = c.ctx /\ own.rev = rev
        /\ own.waiters = {id} \cup Inherited(c)
    BY <1>1, <2>3, <2>4, <2>5 DEF Target, TargetType
  <2>7. question \in Asking /\ question.epoch = c.ctx /\ question.rev = rev /\ question # None
    <3>1. question \in Asking
      BY <1>1, <2>4 DEF Asking
    <3> QED BY <3>1, NoneAssumption
  <2> HIDE DEF own, question
  <2>8. own # None
    BY <2>6, NoneAssumption
  <2>9. /\ s \in Coordinator /\ s.ctx = c.ctx /\ s.pending = own /\ s.last = own
        /\ s.active = c.active /\ s.shown = c.shown
    BY <1>1, <2>6 DEF Coordinator, OrNone
  <2> HIDE DEF s
  <2>10. Waiting # None /\ Waiting \in Outcome /\ Waiting.is # "committed"
    BY NoneAssumption DEF Waiting, Outcome
  <2>11. /\ A \in Answers /\ A[id] = Waiting /\ \A w \in Targets : w # id => A[w] = answer[w]
    BY <1>1, <2>3, <2>10 DEF Answers, OrNone
  <2>12. /\ K \in Questions /\ K[id] = question /\ \A w \in Targets : w # id => K[w] = asked[w]
    BY <1>1, <2>3, <2>7 DEF Questions, OrNone
  <2> HIDE DEF A, K
  <2>13. result[id] = None /\ asked[id] = None
    BY <1>2, <2>3 DEF UsedOK
  <2>14. \A w \in Targets : answer[w] # None => w # id /\ A[w] = answer[w]
    BY <2>3, <2>11
  <2>15. \A w \in Targets : asked[w] # None => w # id /\ K[w] = asked[w]
    BY <2>12, <2>13
  <2>16. \A e \in Epochs : c.active[e] # None =>
           /\ c.active[e].id \in Targets /\ c.active[e].waiters \subseteq Targets
    BY <1>1 DEF OrNone, TargetType
  <2>20. ActiveOK(s, A, K)
    BY <1>2, <2>9, <2>10, <2>14, <2>15, <2>16 DEF ActiveOK
  <2>21. OneEach(s)
    BY <1>2, <2>9 DEF OneEach
  <2>22. PendingOK(s, A, K)
    <3>1. \A e \in Epochs : c.active[e] # None => c.active[e].id # id
      BY <1>2, <2>3 DEF ActiveOK
    <3>2. ASSUME NEW w \in Inherited(c)
          PROVE  A[w] # None /\ (K[w] # None => K[w].epoch = c.ctx /\ K[w].rev <= rev)
      <4>1. c.pending # None /\ w \in c.pending.waiters /\ w \in Targets
        BY <2>5, <3>2 DEF Inherited
      <4>2. /\ answer[w] # None /\ c.last = c.pending
            /\ asked[w] # None => asked[w].epoch = c.ctx /\ asked[w].rev <= c.pending.rev
        BY <1>2, <4>1 DEF PendingOK
      <4>3. c.pending.rev = source
        BY <1>2, <1>3, <4>1, <4>2 DEF LastOK
      <4>4. asked[w] # None /\ asked[w].rev \in Nat
        BY <1>1, <4>1, <4>2 DEF AskedOK, Questions, OrNone, Asking
      <4> QED BY <1>1, <2>14, <2>15, <4>1, <4>2, <4>3, <4>4
    <3>3. A[id] # None /\ K[id] = question
      BY <2>10, <2>11, <2>12
    <3> QED BY <1>1, <1>3, <2>6, <2>7, <2>9, <2>13, <3>1, <3>2, <3>3 DEF PendingOK
  <2>23. LastOK(s, rev)
    BY <2>6, <2>8, <2>9 DEF LastOK
  <2>24. SelectOK(s) /\ ShownOK(s)
    BY <1>2, <1>3, <2>9 DEF SelectOK, ShownOK
  <2>25. ViewOK(s, Finished) /\ NewestOK(s, Finished)
    <3>1. \A e \in Epochs : \A a : Newest(s, Finished, e, a) <=> Newest(c, Finished, e, a)
      BY <2>9 DEF Newest, Arrived
    <3>2. NewestOK(s, Finished)
      BY <1>2, <2>9, <3>1 DEF NewestOK, Arrived
    <3>3. ViewOK(s, Finished)
      BY <1>2, <2>9, <3>1 DEF ViewOK, Coming
    <3> QED BY <3>2, <3>3
  <2>26. QueueOK(s, rev) /\ ArchiveOK(rev)
    <3>1. \A i \in 1..Len(crm) : crm[i] \in TargetType /\ crm[i].rev \in Nat
      <4>1. \A i \in 1..Len(crm) : crm[i] \in TargetType
        BY <1>1 DEF AroundOK
      <4>2. \A t \in TargetType : t.rev \in Nat
        BY DEF TargetType
      <4> QED BY <4>1, <4>2
    <3>2. source <= rev
      BY <1>1
    <3>3. \A i \in 1..Len(crm) : crm[i].rev <= rev
      BY <1>1, <1>2, <3>1, <3>2 DEF QueueOK
    <3>4. \A a \in Archives : archive[a].source <= rev
      BY <1>1, <1>2, <3>2 DEF ArchiveOK
    <3> QED BY <1>2, <2>9, <3>3, <3>4 DEF QueueOK, ArchiveOK
  <2>27. UsedOK(s, A, K)
    BY <1>2, <2>8, <2>9, <2>10, <2>11, <2>12 DEF UsedOK
  <2>28. CoverOK(A, K)
    <3> SUFFICES ASSUME NEW w \in Targets, A[w] # None, A[w].is = "committed"
                 PROVE  A[w] = answer[w] /\ answer[w] # None /\ K[w] = asked[w]
      BY <1>2 DEF CoverOK
    <3>1. w # id
      BY <2>10, <2>11
    <3> QED BY <2>11, <2>12, <3>1
  <2>29. BudgetOK(s, A)
    <3>1. FailedOf(s) = FailedOf(c)
      BY <2>9 DEF FailedOf
    <3>2. Used(A) = Used(answer) \cup {id} /\ id \notin Used(answer)
      BY <2>3, <2>10, <2>11 DEF Used
    <3>3. /\ IsFiniteSet(Used(answer)) /\ Cardinality(Used(answer)) \in Nat
          /\ Cardinality(FailedOf(c)) \in Nat /\ failures \in Nat /\ MaxTarget \in Nat
      BY <1>1, UsedFinite, FailedFinite, SyncAssumption DEF AroundOK
    <3>4. Cardinality(Used(A)) = Cardinality(Used(answer)) + 1
      BY <3>2, <3>3, FS_AddElement
    <3>5. Cardinality(FailedOf(c)) <= failures
      BY <1>2 DEF BudgetOK
    <3>6. Cardinality(Used(A)) + Cardinality(FailedOf(c)) <= MaxTarget + failures
      BY <2>2, <3>3, <3>4, <3>5
    <3> QED BY <3>1, <3>5, <3>6 DEF BudgetOK
  <2>30. LoopTypes(s, A, K, rev, Finished)
    BY <1>2, <2>9, <2>11, <2>12 DEF LoopTypes
  <2>31. LoopOK(s, A, K, rev, Finished)
    BY <1>2, <2>20, <2>21, <2>22, <2>23, <2>24, <2>25, <2>26, <2>27, <2>28, <2>29, <2>30
       DEF LoopOK
  <2>32. AskedOK(A, K)
    BY <1>1, <2>7, <2>11, <2>12 DEF AskedOK
  <2>33. Finished = {done[i] : i \in 1..Len(done)}
    BY DEF Finished
  <2>34. /\ AroundOK' /\ LoopOK(c, answer, asked, source, Finished)'
         /\ done' \in Seq(TargetType) /\ AskedOK(answer, asked)' /\ OrderOK(done)'
         /\ c'.ctx = s.ctx /\ c'.shown = s.shown
    BY <1>1, <2>1, <2>31, <2>32, <2>33, DispatchKeeps
  <2>35. LifeOK'
    BY <1>2, <1>3, <2>9, <2>34 DEF LifeOK
  <2>36. IInv'
    BY <2>34, <2>35 DEF IInv, AskedOK
  <2>37. Forward
    BY <1>1, <2>9, <2>34 DEF Forward
  <2> QED BY <2>36, <2>37
<1> QED BY <1>4, <1>5

\* Questions that the loop's retries add keep what holds of the others.
LEMMA ExtendQuestions ==
  ASSUME NEW s, NEW A, NEW K, NEW S, NEW R, NEW L \in Questions, LoopOK(s, A, K, S, R),
         \A w \in Targets : K[w] # None => L[w] = K[w],
         \A w \in Targets : K[w] = None /\ A[w] # None =>
            L[w] # None /\ L[w].epoch = s.ctx /\ L[w].rev = s.pending.rev,
         \A w \in Targets : K[w] = None /\ A[w] = None => L[w] = None
  PROVE  LoopOK(s, A, L, S, R) /\ AskedOK(A, L)
<1>1. /\ LoopTypes(s, A, K, S, R)
      /\ ActiveOK(s, A, K) /\ OneEach(s) /\ PendingOK(s, A, K) /\ LastOK(s, S)
      /\ SelectOK(s) /\ ShownOK(s) /\ ViewOK(s, R) /\ QueueOK(s, S) /\ ArchiveOK(S)
      /\ DoneOK(R) /\ UsedOK(s, A, K) /\ CoverOK(A, K) /\ BudgetOK(s, A)
      /\ NewestOK(s, R)
  BY InvariantParts
<1>2. s \in Coordinator
  BY <1>1 DEF LoopTypes
<1>3. \A e \in Epochs : s.active[e] # None => s.active[e].waiters \subseteq Targets
  BY <1>2 DEF Coordinator, OrNone, TargetType
<1>4. ActiveOK(s, A, L)
  BY <1>1, <1>3 DEF ActiveOK
<1>5. PendingOK(s, A, L)
  <2> SUFFICES ASSUME s.pending # None
               PROVE  \A w \in s.pending.waiters : L[w] # None => L[w].epoch = s.ctx
                                                                  /\ L[w].rev <= s.pending.rev
    BY <1>1 DEF PendingOK
  <2>1. s.pending.waiters \subseteq Targets /\ s.pending.rev \in Nat
    BY <1>2 DEF Coordinator, OrNone, TargetType
  <2>2. \A w \in s.pending.waiters : A[w] # None /\ (K[w] # None => K[w].epoch = s.ctx
                                                       /\ K[w].rev <= s.pending.rev)
    BY <1>1 DEF PendingOK
  <2> QED BY <2>1, <2>2
<1>6. UsedOK(s, A, L) /\ AskedOK(A, L)
  BY <1>1 DEF UsedOK, AskedOK
<1>7. CoverOK(A, L)
  BY <1>1 DEF CoverOK
<1>8. LoopTypes(s, A, L, S, R)
  BY <1>1 DEF LoopTypes
<1> QED BY <1>1, <1>4, <1>5, <1>6, <1>7, <1>8 DEF LoopOK

LEMMA EmptyOrder ==
  ASSUME NEW q, OrderOK(q)
  PROVE  <<>> \in Seq(TargetType) /\ {<<>>[i] : i \in 1..Len(<<>>)} = {} /\ OrderOK(<<>>)
<1>1. /\ <<>> \in Seq(TargetType) /\ {<<>>[i] : i \in 1..Len(<<>>)} = {}
      /\ \A i \in 1..Len(<<>>) : FALSE
  OBVIOUS
<1> QED BY <1>1 DEF OrderOK

LEMMA TickKeeps ==
  ASSUME IInv, Tick
  PROVE  IInv' /\ Forward
<1>1. /\ AroundOK /\ c \in Coordinator /\ answer \in Answers /\ done \in Seq(TargetType)
      /\ c.ctx \in OrNone(Epochs) /\ LoopOK(c, answer, asked, source, Finished)
      /\ AskedOK(answer, asked) /\ asked \in Questions /\ OrderOK(done)
      /\ c.shown.view \in Nat
      /\ \A a \in Archives : archive[a].source \in Nat
  BY InvariantFacts
<1> DEFINE p == Ticked(done)[1]
           B == Ticked(done)[2]
           L == [w \in Targets |-> IF asked[w] = None /\ B[w] # None
                                   THEN [epoch |-> c.ctx, rev |-> p.last.rev] ELSE asked[w]]
<1>2. /\ answer' = B /\ Dispatch(p, <<>>)
      /\ asked' = [w \in Targets |-> IF asked[w] = None /\ answer'[w] # None
                                     THEN [epoch |-> c.ctx, rev |-> p.last.rev] ELSE asked[w]]
      /\ UNCHANGED <<calls, archive, source, selecting, unrestored, life>>
  BY DEF Tick
<1>3. /\ LoopOK(p, B, asked, source, {}) /\ p.ctx = c.ctx /\ p.shown.view >= c.shown.view
      /\ FreeStays(c, p)
  BY <1>1, LoopKeeps DEF Finished, OrderOK
<1>4. asked' = L
  BY <1>2
<1> HIDE DEF p, B
<1>5. /\ LoopTypes(p, B, asked, source, {}) /\ UsedOK(p, B, asked) /\ PendingOK(p, B, asked)
  BY <1>3, InvariantParts
<1>6. p \in Coordinator
  BY <1>5 DEF LoopTypes
<1>7. ASSUME NEW w \in Targets, asked[w] = None, B[w] # None
      PROVE  /\ [epoch |-> c.ctx, rev |-> p.last.rev] \in Asking
             /\ p.last.rev = p.pending.rev
  <2>1. p.pending # None
    BY <1>5, <1>7 DEF UsedOK
  <2>2. p.ctx # None /\ p.last = p.pending
    BY <1>5, <2>1 DEF PendingOK
  <2>3. p.pending.rev \in Nat /\ p.ctx \in Epochs
    BY <1>6, <2>1, <2>2 DEF Coordinator, OrNone, TargetType
  <2> QED BY <1>3, <2>2, <2>3 DEF Asking
<1>8. L \in Questions
  BY <1>1, <1>7 DEF Questions, OrNone
<1>9. /\ \A w \in Targets : asked[w] # None => L[w] = asked[w]
      /\ \A w \in Targets : asked[w] = None /\ B[w] # None =>
            L[w] # None /\ L[w].epoch = p.ctx /\ L[w].rev = p.pending.rev
      /\ \A w \in Targets : asked[w] = None /\ B[w] = None => L[w] = None
  BY <1>3, <1>7, NoneAssumption
<1> HIDE DEF L
<1>10. LoopOK(p, B, L, source, {}) /\ AskedOK(B, L)
  BY <1>3, <1>8, <1>9, ExtendQuestions
<1>11. <<>> \in Seq(TargetType) /\ {<<>>[i] : i \in 1..Len(<<>>)} = {} /\ OrderOK(<<>>)
  BY <1>1, EmptyOrder
<1>12. LoopOK(p, B, L, source, {<<>>[i] : i \in 1..Len(<<>>)})
  BY <1>10, <1>11
<1>13. /\ AroundOK' /\ LoopOK(c, answer, asked, source, Finished)'
       /\ done' \in Seq(TargetType) /\ AskedOK(answer, asked)' /\ OrderOK(done)'
       /\ c'.ctx = p.ctx /\ c'.shown = p.shown /\ (p.ctx = None => c' = p)
  BY <1>1, <1>2, <1>4, <1>10, <1>11, <1>12, DispatchKeeps
<1>14. LifeOK'
  <2>1. LifeOK
    BY DEF IInv
  <2>2. ASSUME life = "up", c'.ctx = None, NEW e \in Epochs PROVE c'.active[e] = None
    <3>1. c.active[e] = None /\ c.ctx = None
      BY <1>3, <1>13, <2>1, <2>2 DEF LifeOK
    <3>2. p.active[e] = None
      BY <1>3, <3>1 DEF FreeStays
    <3> QED BY <1>3, <1>13, <3>1, <3>2
  <2> QED BY <1>2, <1>3, <1>13, <2>1, <2>2 DEF LifeOK
<1>15. IInv'
  BY <1>13, <1>14 DEF IInv, AskedOK
<1>16. Forward
  BY <1>1, <1>2, <1>3, <1>13 DEF Forward
<1> QED BY <1>15, <1>16

\* The executor's next job commits, or fails.
LEMMA RunKeeps ==
  ASSUME IInv, Run
  PROVE  IInv' /\ Forward
<1>1. /\ AroundOK /\ c \in Coordinator /\ answer \in Answers /\ done \in Seq(TargetType)
      /\ c.ctx \in OrNone(Epochs) /\ LoopOK(c, answer, asked, source, Finished)
      /\ AskedOK(answer, asked) /\ asked \in Questions /\ source \in Nat /\ OrderOK(done)
      /\ c.active \in [Epochs -> OrNone(TargetType)]
      /\ c.shown.view \in Nat /\ c.shown.source \in Nat
      /\ \A a \in Archives : archive[a] \in Shown /\ archive[a].source \in Nat
                             /\ archive[a].view \in Nat
  BY InvariantFacts
<1>2. /\ LoopTypes(c, answer, asked, source, Finished)
      /\ ActiveOK(c, answer, asked) /\ OneEach(c) /\ PendingOK(c, answer, asked)
      /\ LastOK(c, source) /\ SelectOK(c) /\ ShownOK(c) /\ ViewOK(c, Finished)
      /\ QueueOK(c, source) /\ ArchiveOK(source) /\ DoneOK(Finished)
      /\ UsedOK(c, answer, asked) /\ CoverOK(answer, asked) /\ BudgetOK(c, answer) /\ LifeOK
      /\ NewestOK(c, Finished)
  BY <1>1, InvariantParts DEF IInv
<1> DEFINE t == Head(crm)
           e0 == t.epoch
           a0 == ArchiveOf[e0]
           next == [view |-> archive[a0].view + 1, source |-> t.rev]
           committed == [is |-> "committed", view |-> archive[a0].view + 1, source |-> t.rev]
           commits == /\ archive' = [archive EXCEPT ![a0] = next]
                      /\ result' = [result EXCEPT ![t.id] = committed]
                      /\ UNCHANGED failures
           fails == /\ failures < MaxFailure /\ failures' = failures + 1
                    /\ result' = [result EXCEPT ![t.id] = Failure] /\ UNCHANGED archive
<1>3. /\ crm # <<>> /\ calls = {}
      /\ commits \/ fails
      /\ calls' = calls \cup {t} /\ crm' = Tail(crm)
      /\ UNCHANGED <<c, answer, done, asked, source, selecting, unrestored, life>>
  BY DEF Run
<1>4. /\ crm \in Seq(TargetType) /\ Len(crm) \in Nat /\ Len(crm) >= 1 /\ t = crm[1]
      /\ crm' \in Seq(TargetType) /\ Len(crm') = Len(crm) - 1
      /\ \A i \in 1..Len(crm') : i + 1 \in 1..Len(crm) /\ crm'[i] = crm[i + 1]
      /\ 1 \in 1..Len(crm)
  <2>1. crm \in Seq(TargetType) /\ crm # <<>> /\ crm' = Tail(crm)
    BY <1>1, <1>3 DEF AroundOK
  <2>2. Len(crm) \in Nat /\ Len(crm) >= 1 /\ t = crm[1]
    BY <2>1
  <2>3. crm' \in Seq(TargetType) /\ Len(crm') = Len(crm) - 1
    BY <2>1
  <2>4. \A i \in 1..Len(crm') : i + 1 \in 1..Len(crm) /\ crm'[i] = crm[i + 1]
    BY <2>1, <2>2, <2>3
  <2> QED BY <2>1, <2>2, <2>3, <2>4
<1>5. t \in TargetType
  BY <1>4
<1>6. /\ c.active[t.epoch] = t /\ result[t.id] = None /\ t.rev <= source
      /\ \A a \in Archives : archive[a].source <= t.rev
      /\ \A j \in 1..Len(crm) : 1 < j => t.rev <= crm[j].rev /\ t.epoch # crm[j].epoch
  BY <1>2, <1>4 DEF QueueOK
<1> HIDE DEF t
<1>7. t # None /\ t.id \in Targets /\ e0 \in Epochs /\ t.rev \in Nat \ {0}
  BY <1>5, NoneAssumption DEF TargetType
<1>8. a0 \in Archives /\ archive[a0].view \in Nat /\ archive[a0].source \in Nat
  BY <1>1, <1>7, EpochTypes
<1>9. next \in Shown /\ next.view = archive[a0].view + 1 /\ next.source = t.rev
  BY <1>7, <1>8 DEF Shown
<1>10. /\ committed \in Result /\ committed # None /\ committed.is = "committed"
       /\ committed.view = archive[a0].view + 1 /\ committed.source = t.rev
       /\ Failure \in Result /\ Failure # None /\ Failure.is = "failed"
  <2>1. committed \in Result /\ committed \in Outcome /\ Failure \in Result /\ Failure \in Outcome
    BY <1>7, <1>8 DEF Result, Outcome, Failure, Waiting
  <2>2. committed # None /\ Failure # None
    BY <2>1, NoneAssumption
  <2> QED BY <2>1, <2>2 DEF Failure, Waiting
<1> HIDE DEF next, committed, e0, a0
<1>11. /\ \A id \in Targets : id # t.id => result'[id] = result[id]
       /\ result' \in [Targets -> OrNone(Result)] /\ result'[t.id] # None
       /\ commits => result'[t.id] = committed
       /\ fails => result'[t.id] = Failure
  BY <1>1, <1>3, <1>7, <1>10 DEF AroundOK, OrNone
<1>12. /\ archive' \in [Archives -> Shown]
       /\ \A a \in Archives : a # a0 => archive'[a] = archive[a]
       /\ commits => archive'[a0] = next
       /\ fails => archive'[a0] = archive[a0]
  BY <1>1, <1>3, <1>8, <1>9 DEF AroundOK
<1>13. \A a \in Archives : /\ archive'[a].source >= archive[a].source
                           /\ archive'[a].view >= archive[a].view
                           /\ archive'[a].source <= t.rev
                           /\ archive'[a].source \in Nat /\ archive'[a].view \in Nat
  <2> SUFFICES ASSUME NEW a \in Archives
               PROVE  /\ archive'[a].source >= archive[a].source
                      /\ archive'[a].view >= archive[a].view
                      /\ archive'[a].source <= t.rev
                      /\ archive'[a].source \in Nat /\ archive'[a].view \in Nat
    OBVIOUS
  <2>1. archive[a].source <= t.rev /\ archive[a].source \in Nat /\ archive[a].view \in Nat
    BY <1>1, <1>6
  <2>2. \/ archive'[a] = archive[a]
        \/ archive'[a] = next /\ a = a0
    BY <1>3, <1>12
  <2> QED BY <1>7, <1>8, <1>9, <2>1, <2>2
<1>14. \A e \in Epochs : c.active[e] # None =>
         /\ c.active[e].id \in Targets
         /\ e # e0 => c.active[e].id # t.id
                      /\ result'[c.active[e].id] = result[c.active[e].id]
  <2> SUFFICES ASSUME NEW e \in Epochs, c.active[e] # None
               PROVE  /\ c.active[e].id \in Targets
                      /\ e # e0 => c.active[e].id # t.id
    BY <1>11
  <2>1. c.active[e].id \in Targets
    BY <1>1 DEF OrNone, TargetType
  <2>2. e # e0 => c.active[e].id # t.id
    BY <1>2, <1>6, <1>7 DEF OneEach, e0
  <2> QED BY <2>1, <2>2
<1>15. c.active[e0] = t
  BY <1>6 DEF e0
<1>16. Finished' = Finished
  BY <1>3 DEF Finished
<1>20. AroundOK'
  <2>1. failures' \in 0..MaxFailure
    BY <1>1, <1>3, SyncAssumption DEF AroundOK
  <2>2. calls' \subseteq TargetType /\ selecting' \in OrNone(Selection) /\ unrestored' \in BOOLEAN
    BY <1>1, <1>3, <1>5 DEF AroundOK
  <2> QED BY <1>4, <1>11, <1>12, <2>1, <2>2 DEF AroundOK
<1>21. LoopTypes(c, answer, asked, source, Finished)'
  BY <1>2, <1>3, <1>16 DEF LoopTypes
<1>22. ActiveOK(c, answer, asked)'
  <2> SUFFICES ASSUME NEW e \in Epochs, c.active[e] # None, result'[c.active[e].id] # None,
                      result'[c.active[e].id].is = "committed"
               PROVE  /\ result'[c.active[e].id].source = c.active[e].rev
                      /\ result'[c.active[e].id].source <= archive'[ArchiveOf[e]].source
                      /\ result'[c.active[e].id].view <= archive'[ArchiveOf[e]].view
    BY <1>2, <1>3 DEF ActiveOK, Committed
  <2>1. CASE e = e0
    <3>1. commits
      BY <1>3, <1>10, <1>11, <1>15, <2>1
    <3> QED BY <1>7, <1>8, <1>9, <1>10, <1>11, <1>12, <1>15, <2>1, <3>1 DEF a0
  <2>2. CASE e # e0
    <3>1. result'[c.active[e].id] = result[c.active[e].id]
      BY <1>14, <2>2
    <3>2. /\ result[c.active[e].id].source = c.active[e].rev
          /\ result[c.active[e].id].source <= archive[ArchiveOf[e]].source
          /\ result[c.active[e].id].view <= archive[ArchiveOf[e]].view
      BY <1>2, <3>1 DEF ActiveOK, Committed
    <3>3. result[c.active[e].id].source \in Nat /\ result[c.active[e].id].view \in Nat
      BY <1>11, <1>14, <3>1 DEF OrNone, Result
    <3>4. PICK a \in Archives : a = ArchiveOf[e]
      BY EpochTypes
    <3>5. PICK o \in Result : o = result[c.active[e].id]
      BY <1>1, <1>14, <3>1 DEF AroundOK, OrNone
    <3>6. /\ o.source = c.active[e].rev
          /\ o.source <= archive[a].source /\ o.view <= archive[a].view
          /\ o.source \in Nat /\ o.view \in Nat
      BY <3>2, <3>3, <3>4, <3>5
    <3>7. o.source <= archive'[a].source /\ o.view <= archive'[a].view
      BY <1>1, <1>13, <3>6
    <3> QED BY <3>1, <3>4, <3>5, <3>6, <3>7
  <2> QED BY <2>1, <2>2
<1>23. OneEach(c)' /\ LastOK(c, source)'
  BY <1>2, <1>3 DEF OneEach, LastOK
<1>24. PendingOK(c, answer, asked)'
  <2> SUFFICES ASSUME c.pending # None PROVE result'[c.pending.id] = None
    BY <1>2, <1>3 DEF PendingOK
  <2>1. c.pending.id \in Targets
    BY <1>1 DEF Coordinator, OrNone, TargetType
  <2>2. c.pending.id # t.id /\ result[c.pending.id] = None
    BY <1>2, <1>7, <1>15 DEF PendingOK
  <2> QED BY <1>11, <2>1, <2>2
<1>25. c.ctx # None => ArchiveOf[c.ctx] \in Archives
  BY <1>1, EpochTypes DEF OrNone
<1>26. SelectOK(c)'
  <2> SUFFICES ASSUME selecting # None, selecting.state # None
               PROVE  /\ selecting.state.source <= archive'[ArchiveOf[c.ctx]].source
                      /\ selecting.state.view <= archive'[ArchiveOf[c.ctx]].view
    BY <1>2, <1>3 DEF SelectOK
  <2>1. /\ selecting \in Selection /\ selecting.state.source \in Nat
        /\ selecting.state.view \in Nat /\ selecting.ctx \in Epochs
    BY <1>1 DEF AroundOK, OrNone, Selection, Shown
  <2>2. /\ c.ctx = selecting.ctx
        /\ selecting.state.source <= archive[ArchiveOf[c.ctx]].source
        /\ selecting.state.view <= archive[ArchiveOf[c.ctx]].view
    BY <1>2 DEF SelectOK
  <2>3. PICK a \in Archives : a = ArchiveOf[c.ctx]
    BY <2>1, <2>2, EpochTypes
  <2>4. /\ selecting.state.source <= archive[a].source
        /\ selecting.state.view <= archive[a].view
    BY <2>2, <2>3
  <2>5. /\ selecting.state.source <= archive'[a].source
        /\ selecting.state.view <= archive'[a].view
    BY <1>1, <1>13, <2>1, <2>4
  <2> QED BY <2>3, <2>5
<1>27. ShownOK(c)'
  <2> SUFFICES ASSUME c.ctx # None
               PROVE  /\ c.shown.source <= archive'[ArchiveOf[c.ctx]].source
                      /\ c.shown.view <= archive'[ArchiveOf[c.ctx]].view
    BY <1>3 DEF ShownOK
  <2>1. /\ c.shown.source <= archive[ArchiveOf[c.ctx]].source
        /\ c.shown.view <= archive[ArchiveOf[c.ctx]].view
    BY <1>2 DEF ShownOK
  <2>2. PICK a \in Archives : a = ArchiveOf[c.ctx]
    BY <1>25
  <2>3. /\ c.shown.source \in Nat /\ c.shown.view \in Nat
        /\ archive[a].source \in Nat /\ archive[a].view \in Nat
    BY <1>1 DEF Coordinator, Shown
  <2>4. c.shown.source <= archive'[a].source /\ c.shown.view <= archive'[a].view
    BY <1>13, <2>1, <2>2, <2>3
  <2> QED BY <2>2, <2>4
<1>28. ViewOK(c, Finished)'
  <2> SUFFICES ASSUME c.ctx # None PROVE ViewOK(c, Finished)'
    BY <1>3 DEF ViewOK
  <2>1. CASE commits /\ ArchiveOf[c.ctx] = a0
    <3>1. PICK e \in Epochs : e = e0
      BY <1>7
    <3>2. c'.active[e] = t /\ t # None /\ c'.ctx = c.ctx /\ t \in calls'
      BY <1>3, <1>7, <1>15, <3>1
    <3>3. ArchiveOf[e] = ArchiveOf[c'.ctx] /\ archive'[ArchiveOf[c'.ctx]].view = archive[a0].view + 1
      BY <1>9, <1>12, <2>1, <3>1, <3>2 DEF a0
    <3>4. result'[t.id] # None /\ result'[t.id].is = "committed"
          /\ result'[t.id].view = archive[a0].view + 1
      BY <1>10, <1>11, <2>1
    <3>5. Coming(c, Finished, e)'
      BY <3>2, <3>3, <3>4 DEF Coming, Newest, Arrived, Committed
    <3> QED BY <3>5 DEF ViewOK
  <2>2. CASE fails \/ ArchiveOf[c.ctx] # a0
    <3>1. archive'[ArchiveOf[c.ctx]] = archive[ArchiveOf[c.ctx]]
      BY <1>3, <1>12, <1>25, <2>2
    <3>2. ASSUME NEW e \in Epochs, Coming(c, Finished, e) PROVE Coming(c, Finished, e)'
      <4>1. e # e0
        BY <1>6, <1>15, <3>2 DEF Coming, Newest, Arrived, Committed
      <4>2. result'[c.active[e].id] = result[c.active[e].id]
        BY <1>14, <3>2, <4>1 DEF Coming, Newest, Arrived
      <4> QED BY <1>3, <1>16, <3>1, <3>2, <4>2 DEF Coming, Newest, Arrived, Committed
    <3> QED BY <1>2, <1>3, <3>1, <3>2 DEF ViewOK, NothingRestored
  <2> QED BY <1>3, <2>1, <2>2
<1>29. QueueOK(c, source)'
  <2> SUFFICES ASSUME NEW i \in 1..Len(crm')
               PROVE  /\ c.active[crm'[i].epoch] = crm'[i] /\ result'[crm'[i].id] = None
                      /\ crm'[i].rev <= source
                      /\ \A a \in Archives : archive'[a].source <= crm'[i].rev
                      /\ \A j \in 1..Len(crm') : i < j =>
                           crm'[i].rev <= crm'[j].rev /\ crm'[i].epoch # crm'[j].epoch
    BY <1>3 DEF QueueOK
  <2> DEFINE k == i + 1
             u == crm[k]
  <2>1. k \in 1..Len(crm) /\ 1 < k /\ crm'[i] = u
    <3>1. k \in 1..Len(crm) /\ crm'[i] = u
      BY <1>4
    <3>2. 1 < k
      OBVIOUS
    <3> QED BY <3>1, <3>2
  <2>2. u \in TargetType /\ u.rev \in Nat /\ u.epoch \in Epochs /\ u # None
    <3>1. crm \in Seq(TargetType)
      BY <1>4
    <3>2. u \in TargetType
      BY <2>1, <3>1
    <3> HIDE DEF u
    <3> QED BY <3>2, NoneAssumption DEF TargetType
  <2>3. /\ c.active[u.epoch] = u /\ result[u.id] = None /\ u.rev <= source
        /\ \A j \in 1..Len(crm) : k < j => u.rev <= crm[j].rev /\ u.epoch # crm[j].epoch
    BY <1>2, <2>1 DEF QueueOK
  <2>4. t.rev <= u.rev /\ u.epoch # e0
    BY <1>6, <2>1 DEF e0
  <2> HIDE DEF u
  <2>5. result'[u.id] = None
    BY <1>14, <2>2, <2>3, <2>4
  <2>6. \A a \in Archives : archive'[a].source <= u.rev
    BY <1>7, <1>13, <2>2, <2>4
  <2>7. \A j \in 1..Len(crm') : i < j => j + 1 \in 1..Len(crm) /\ k < j + 1 /\ crm'[j] = crm[j + 1]
    BY <1>4
  <2>8. \A j \in 1..Len(crm') : i < j => u.rev <= crm'[j].rev /\ u.epoch # crm'[j].epoch
    BY <2>3, <2>7
  <2> QED BY <2>1, <2>3, <2>5, <2>6, <2>8
<1>30. ArchiveOK(source)' /\ DoneOK(Finished)'
  <2>1. \A a \in Archives : archive'[a].source <= source
    BY <1>1, <1>6, <1>7, <1>13
  <2>2. \A u \in calls \cup Finished : u.id \in Targets /\ result[u.id] # None
    BY <1>1, <1>2 DEF DoneOK, AroundOK, LoopTypes, TargetType
  <2>3. \A u \in (calls \cup {t}) \cup Finished : result'[u.id] # None
    BY <1>11, <2>2
  <2>4. source # 0
    BY <1>1, <1>6, <1>7
  <2> QED BY <1>3, <1>16, <2>1, <2>3, <2>4 DEF ArchiveOK, DoneOK
<1>31. UsedOK(c, answer, asked)'
  <2>1. answer[t.id] # None
    BY <1>2, <1>7, <1>15 DEF ActiveOK
  <2> QED BY <1>2, <1>3, <1>11, <2>1 DEF UsedOK
<1>32. CoverOK(answer, asked)'
  <2> SUFFICES ASSUME NEW w \in Targets, answer[w] # None, answer[w].is = "committed"
               PROVE  /\ answer[w].source <= archive'[ArchiveOf[asked[w].epoch]].source
                      /\ answer[w].view <= archive'[ArchiveOf[asked[w].epoch]].view
    BY <1>2, <1>3 DEF CoverOK
  <2>1. answer[w].source \in Nat /\ answer[w].view \in Nat
    BY <1>1 DEF Answers, OrNone, Outcome
  <2>2. ArchiveOf[asked[w].epoch] \in Archives
    BY <1>1, EpochTypes DEF AskedOK, Questions, OrNone, Asking
  <2> DEFINE a == ArchiveOf[asked[w].epoch]
  <2>3. answer[w].source <= archive[a].source /\ answer[w].view <= archive[a].view
    BY <1>2 DEF CoverOK
  <2>4. a \in Archives
    BY <2>2
  <2>5. answer[w].source <= archive'[a].source /\ answer[w].view <= archive'[a].view
    <3> HIDE DEF a
    <3> QED BY <1>1, <1>13, <2>1, <2>3, <2>4
  <2> QED BY <2>5
<1>33. BudgetOK(c, answer)'
  <2>1. /\ IsFiniteSet(FailedOf(c)) /\ Cardinality(FailedOf(c)) \in Nat
        /\ Cardinality(Used(answer)) \in Nat /\ failures \in Nat /\ MaxTarget \in Nat
    BY <1>1, UsedFinite, FailedFinite, SyncAssumption DEF AroundOK
  <2>2. /\ Cardinality(FailedOf(c)) <= failures
        /\ Cardinality(Used(answer)) + Cardinality(FailedOf(c)) <= MaxTarget + failures
    BY <1>2 DEF BudgetOK
  <2>3. Used(answer)' = Used(answer)
    BY <1>3 DEF Used
  <2>4. \A e \in Epochs : e # e0 => (e \in FailedOf(c)' <=> e \in FailedOf(c))
    BY <1>3, <1>14 DEF FailedOf
  <2>5. e0 \notin FailedOf(c)
    BY <1>6, <1>15 DEF FailedOf
  <2>6. FailedOf(c)' \subseteq Epochs /\ FailedOf(c) \subseteq Epochs
    BY DEF FailedOf
  <2>7. CASE commits
    <3>1. e0 \notin FailedOf(c)'
      BY <1>3, <1>10, <1>11, <1>15, <2>7 DEF FailedOf
    <3>2. \A e \in Epochs : e \in FailedOf(c)' <=> e \in FailedOf(c)
      BY <2>4, <2>5, <3>1
    <3>3. FailedOf(c)' = FailedOf(c)
      BY <2>6, <3>2
    <3> QED BY <2>2, <2>3, <2>7, <3>3 DEF BudgetOK
  <2>8. CASE fails
    <3>1. FailedOf(c)' \subseteq FailedOf(c) \cup {e0}
      BY <2>4, <2>6
    <3>2. Cardinality(FailedOf(c) \cup {e0}) = Cardinality(FailedOf(c)) + 1
          /\ IsFiniteSet(FailedOf(c) \cup {e0})
      BY <2>1, <2>5, FS_AddElement
    <3>3. Cardinality(FailedOf(c)') <= Cardinality(FailedOf(c)) + 1
          /\ Cardinality(FailedOf(c)') \in Nat
      <4>1. IsFiniteSet(FailedOf(c)') /\ Cardinality(FailedOf(c)') <= Cardinality(FailedOf(c) \cup {e0})
        BY <3>1, <3>2, FS_Subset
      <4> QED BY <3>2, <4>1, FS_CardinalityType
    <3>4. failures' = failures + 1
      BY <2>8
    <3>5. Cardinality(FailedOf(c)') <= failures'
          /\ Cardinality(Used(answer)) + Cardinality(FailedOf(c)') <= MaxTarget + failures'
      BY <2>1, <2>2, <3>3, <3>4
    <3> QED BY <2>3, <3>5 DEF BudgetOK
  <2> QED BY <1>3, <2>7, <2>8
<1>38. NewestOK(c, Finished)'
  <2> SUFFICES ASSUME c.ctx # None, NEW e \in Epochs, Arrived(c, Finished, e)'
               PROVE  \E f \in Epochs : Newest(c, Finished, f, ArchiveOf[e])'
    BY <1>3 DEF NewestOK
  <2>1. CASE commits /\ ArchiveOf[e] = a0
    <3>1. /\ c'.active[e0] = t /\ t # None /\ t \in calls' /\ ArchiveOf[e0] = a0
          /\ result'[t.id] = committed /\ archive'[a0] = next
      BY <1>3, <1>7, <1>11, <1>12, <1>15, <2>1 DEF a0
    <3>2. PICK f \in Epochs : f = e0
      BY <1>7
    <3>3. Newest(c, Finished, f, ArchiveOf[e])'
      BY <1>9, <1>10, <2>1, <3>1, <3>2 DEF Newest, Arrived, Committed
    <3> QED BY <3>3
  <2>2. CASE fails \/ ArchiveOf[e] # a0
    <3>1. archive'[ArchiveOf[e]] = archive[ArchiveOf[e]]
      BY <1>3, <1>12, <2>2, EpochTypes
    <3>2. e # e0
      BY <1>3, <1>10, <1>11, <1>15, <2>2 DEF Arrived, Committed, a0
    <3>3. /\ c.active[e] # None /\ c.active[e] # t
          /\ result'[c.active[e].id] = result[c.active[e].id]
      BY <1>3, <1>14, <3>2 DEF Arrived
    <3>4. Arrived(c, Finished, e)
      BY <1>3, <1>16, <3>3 DEF Arrived, Committed
    <3>5. PICK f \in Epochs : Newest(c, Finished, f, ArchiveOf[e])
      BY <1>2, <3>4 DEF NewestOK
    <3>6. f # e0
      BY <1>6, <1>15, <3>5 DEF Newest, Arrived, Committed
    <3>7. result'[c.active[f].id] = result[c.active[f].id]
      BY <1>14, <3>5, <3>6 DEF Newest, Arrived
    <3>8. Newest(c, Finished, f, ArchiveOf[e])'
      BY <1>3, <1>16, <3>1, <3>5, <3>7 DEF Newest, Arrived, Committed
    <3> QED BY <3>8
  <2> QED BY <1>3, <2>1, <2>2
<1>39. OrderOK(done)'
  <2>6. PICK u : u = t
    OBVIOUS
  <2>1. ASSUME NEW i \in 1..Len(done)
        PROVE  /\ result'[done[i].id] = result[done[i].id] /\ result[done[i].id] # None
               /\ done[i].id \in Targets /\ ArchiveOf[done[i].epoch] \in Archives
    <3>1. done[i] \in Finished /\ done[i] \in TargetType
      BY <1>1 DEF Finished
    <3>2. done[i].id \in Targets /\ done[i].epoch \in Epochs /\ result[done[i].id] # None
      BY <1>2, <3>1 DEF DoneOK, TargetType
    <3> QED BY <1>6, <1>11, <3>2, EpochTypes
  <2>2. ASSUME NEW i \in 1..Len(done) PROVE Settled(done[i])' /\ Before(done[i], u)'
    <3> DEFINE o == result[done[i].id]
               a == ArchiveOf[done[i].epoch]
    <3>1. o \in Result /\ a \in Archives /\ result'[done[i].id] = o
      BY <1>1, <2>1 DEF AroundOK, OrNone
    <3>2. o.is = "committed" => o.view <= archive[a].view
      BY <1>1, <2>1 DEF OrderOK, Settled, Committed
    <3> HIDE DEF o, a
    <3>3. o.view \in Nat
      BY <3>1 DEF Result
    <3>4. o.is = "committed" => o.view <= archive'[a].view
      BY <1>1, <1>13, <3>1, <3>2, <3>3
    <3>5. Settled(done[i])'
      BY <1>3, <3>1, <3>4 DEF Settled, Committed, a
    <3>6. result'[t.id].is = "committed" => result'[t.id].view = archive[a0].view + 1
      BY <1>3, <1>10, <1>11
    <3>7. o.is = "committed" /\ a = a0 => o.view <= archive[a0].view + 1
      BY <1>8, <3>2, <3>3
    <3>8. Before(done[i], u)'
      BY <1>3, <2>6, <3>1, <3>6, <3>7 DEF Before, Committed, a, a0, e0
    <3> QED BY <3>5, <3>8
  <2>3. Settled(u)' /\ Before(u, u)'
    <3>1. result'[t.id].is = "committed" =>
            /\ result'[t.id].view = archive'[a0].view /\ archive'[a0].view \in Nat
      BY <1>3, <1>8, <1>9, <1>10, <1>11, <1>12, <1>13
    <3> QED BY <2>6, <3>1 DEF Settled, Before, Committed, a0, e0
  <2>4. ASSUME NEW i \in 1..Len(done), NEW j \in 1..Len(done), i < j PROVE Before(done[i], done[j])'
    <3>1. Before(done[i], done[j])
      BY <1>1, <2>4 DEF OrderOK
    <3> QED BY <1>3, <2>1, <3>1 DEF Before, Committed
  <2>5. calls' = {u} /\ done' = done
    BY <1>3, <2>6
  <2> QED BY <2>2, <2>3, <2>4, <2>5 DEF OrderOK
<1>34. LoopOK(c, answer, asked, source, Finished)'
  BY <1>21, <1>22, <1>23, <1>24, <1>26, <1>27, <1>28, <1>29, <1>30, <1>31, <1>32, <1>33, <1>38
     DEF LoopOK
<1>35. LifeOK'
  BY <1>2, <1>3 DEF LifeOK
<1>36. IInv'
  BY <1>1, <1>3, <1>20, <1>34, <1>35, <1>39 DEF IInv, AskedOK
<1>37. Forward
  BY <1>1, <1>3, <1>13 DEF Forward
<1> QED BY <1>36, <1>37

LEMMA CallbackKeeps ==
  ASSUME IInv, NEW t \in calls, Callback(t)
  PROVE  IInv' /\ Forward
<1>1. /\ AroundOK /\ LoopOK(c, answer, asked, source, Finished) /\ done \in Seq(TargetType)
      /\ OrderOK(done) /\ c.shown.view \in Nat /\ \A a \in Archives : archive[a].source \in Nat
  BY InvariantFacts
<1>2. /\ LoopTypes(c, answer, asked, source, Finished)
      /\ ActiveOK(c, answer, asked) /\ OneEach(c) /\ PendingOK(c, answer, asked)
      /\ LastOK(c, source) /\ SelectOK(c) /\ ShownOK(c) /\ ViewOK(c, Finished)
      /\ QueueOK(c, source) /\ ArchiveOK(source) /\ DoneOK(Finished)
      /\ UsedOK(c, answer, asked) /\ CoverOK(answer, asked) /\ BudgetOK(c, answer) /\ LifeOK
      /\ NewestOK(c, Finished)
  BY <1>1, InvariantParts DEF IInv
<1>3. /\ calls' = calls \ {t} /\ done' = Append(done, t)
      /\ UNCHANGED <<c, answer, crm, result, archive, asked, source, selecting, unrestored,
                     life, failures>>
  BY DEF Callback
<1>4. t \in TargetType
  BY <1>1 DEF AroundOK
<1>5. done' \in Seq(TargetType) /\ Finished' = Finished \cup {t}
  BY <1>1, <1>3, <1>4, AppendRange DEF Finished
<1>6. calls' \cup Finished' = calls \cup Finished
  BY <1>3, <1>5
<1>7. AroundOK'
  BY <1>1, <1>3 DEF AroundOK
<1>8. LoopTypes(c, answer, asked, source, Finished)'
  BY <1>2, <1>3, <1>4, <1>5 DEF LoopTypes
<1>9. ActiveOK(c, answer, asked)' /\ OneEach(c)' /\ PendingOK(c, answer, asked)'
  <2>1. ActiveOK(c, answer, asked)'
    BY <1>2, <1>3 DEF ActiveOK, Committed
  <2>2. OneEach(c)'
    BY <1>2, <1>3 DEF OneEach
  <2>3. PendingOK(c, answer, asked)'
    BY <1>2, <1>3 DEF PendingOK
  <2> QED BY <2>1, <2>2, <2>3
<1>10. LastOK(c, source)' /\ SelectOK(c)' /\ ShownOK(c)' /\ QueueOK(c, source)'
  BY <1>2, <1>3 DEF LastOK, SelectOK, ShownOK, QueueOK
<1>11. ViewOK(c, Finished)'
  <2>1. ASSUME NEW e \in Epochs, Coming(c, Finished, e) PROVE Coming(c, Finished, e)'
    BY <1>3, <1>6, <2>1 DEF Coming, Newest, Arrived, Committed
  <2> QED BY <1>2, <1>3, <2>1 DEF ViewOK, NothingRestored
<1>12. DoneOK(Finished)' /\ ArchiveOK(source)'
  BY <1>2, <1>3, <1>6 DEF DoneOK, ArchiveOK
<1>13. UsedOK(c, answer, asked)' /\ CoverOK(answer, asked)'
  BY <1>2, <1>3 DEF UsedOK, CoverOK
<1>14. BudgetOK(c, answer)'
  BY <1>2, <1>3 DEF BudgetOK, FailedOf, Used
<1>19. NewestOK(c, Finished)'
  <2>1. \A e \in Epochs : Arrived(c, Finished, e)' <=> Arrived(c, Finished, e)
    BY <1>3, <1>6 DEF Arrived, Committed
  <2>2. ASSUME NEW e \in Epochs, NEW a, Newest(c, Finished, e, a)
        PROVE  Newest(c, Finished, e, a)'
    BY <1>3, <2>1, <2>2 DEF Newest
  <2> QED BY <1>2, <1>3, <2>1, <2>2 DEF NewestOK
<1>20. OrderOK(done)'
  <2> DEFINE N == Len(done)
  <2>1. PICK d : d = done'
    OBVIOUS
  <2>2. N \in Nat /\ Len(d) = N + 1 /\ d[N + 1] = t /\ \A i \in 1..N : d[i] = done[i]
    BY <1>1, <1>3, <1>4, <2>1
  <2>3. /\ \A i \in 1..Len(d) : i \in 1..N \/ i = N + 1
        /\ \A i, j \in 1..Len(d) : i < j => i \in 1..N
    BY <2>2
  <2>4. /\ \A i, j \in 1..N : i < j => Before(done[i], done[j])
        /\ \A u \in calls : Settled(u) /\ \A v \in calls : Before(v, u)
        /\ \A i \in 1..N : Settled(done[i]) /\ \A u \in calls : Before(done[i], u)
    BY <1>1 DEF OrderOK
  <2> HIDE DEF N
  <2>5. \A i, j \in 1..Len(d) : i < j => Before(d[i], d[j])
    BY <2>2, <2>3, <2>4
  <2>6. \A u \in calls' : Settled(u) /\ \A v \in calls' : Before(v, u)
    BY <1>3, <2>4
  <2>7. \A i \in 1..Len(d) : Settled(d[i]) /\ \A u \in calls' : Before(d[i], u)
    BY <1>3, <2>2, <2>3, <2>4
  <2>8. /\ \A u, v : Before(u, v)' <=> Before(u, v)
        /\ \A u : Settled(u)' <=> Settled(u)
    BY <1>3 DEF Before, Settled, Committed
  <2> QED BY <1>3, <2>1, <2>5, <2>6, <2>7, <2>8 DEF OrderOK
<1>15. LoopOK(c, answer, asked, source, Finished)'
  BY <1>8, <1>9, <1>10, <1>11, <1>12, <1>13, <1>14, <1>19 DEF LoopOK
<1>16. LifeOK'
  BY <1>2, <1>3 DEF LifeOK
<1>17. IInv'
  BY <1>3, <1>5, <1>7, <1>15, <1>16, <1>20 DEF IInv
<1>18. Forward
  BY <1>1, <1>3 DEF Forward
<1> QED BY <1>17, <1>18

LEMMA ShutdownBeginKeeps ==
  ASSUME IInv, ShutdownBegin
  PROVE  IInv' /\ Forward
<1>1. /\ AroundOK /\ c \in Coordinator /\ answer \in Answers
      /\ \A a \in Archives : archive[a].source \in Nat
  BY InvariantFacts
<1>2. /\ life' = "stopping" /\ selecting = None /\ answer' = Cancelled(answer, c)
      /\ c' = [c EXCEPT !.pending = None, !.ctx = None]
      /\ UNCHANGED <<crm, result, calls, done, archive, asked, source, selecting, unrestored, failures>>
  BY DEF ShutdownBegin
<1>3. c' \in Coordinator /\ c'.ctx = None /\ c'.pending = None /\ c'.active = c.active
  BY <1>1, <1>2 DEF Coordinator, OrNone
<1>4. Alike(answer, answer')
  BY <1>1, <1>2, CancelledAlike
<1>5. /\ AroundOK' /\ LoopTypes(c, answer, asked, source, Finished)'
      /\ (\A f \in Epochs : c.active[f] # None /\ c'.ctx # None => f <= c'.ctx)
           => ActiveOK(c, answer, asked)'
      /\ OneEach(c)' /\ PendingOK(c, answer, asked)' /\ QueueOK(c, source)'
      /\ ArchiveOK(source)' /\ DoneOK(Finished)' /\ UsedOK(c, answer, asked)'
      /\ CoverOK(answer, asked)' /\ BudgetOK(c, answer)'
      /\ AskedOK(answer, asked)' /\ done' \in Seq(TargetType) /\ OrderOK(done)'
      /\ NewestOK(c, Finished)'
  <2>1. selecting' \in OrNone(Selection) /\ unrestored' \in BOOLEAN
    BY <1>1, <1>2 DEF OrNone, AroundOK
  <2> QED BY <1>2, <1>3, <1>4, <2>1, OthersKeep
<1>6. ActiveOK(c, answer, asked)'
  BY <1>3, <1>5
<1>7. LastOK(c, source)' /\ SelectOK(c)' /\ ShownOK(c)' /\ ViewOK(c, Finished)'
  BY <1>2, <1>3 DEF LastOK, SelectOK, ShownOK, ViewOK
<1>8. LoopOK(c, answer, asked, source, Finished)'
  BY <1>5, <1>6, <1>7 DEF LoopOK
<1>9. LifeOK'
  BY <1>2, <1>3 DEF LifeOK
<1>10. IInv'
  BY <1>5, <1>8, <1>9 DEF IInv, AskedOK
<1>11. Forward
  BY <1>1, <1>2, <1>3 DEF Forward
<1> QED BY <1>10, <1>11

\* SetToSeq lists a finite set.
LEMMA SetToSeqType == ASSUME NEW S, IsFiniteSet(S) PROVE SetToSeq(S) \in Seq(S)
<1>1. Cardinality(S) \in Nat /\ ExistsBijection(1..Cardinality(S), S)
  BY FS_CardinalityType
<1>2. \E f \in [1..Cardinality(S) -> S] : IsInjective(f)
  BY <1>1 DEF ExistsBijection, Bijection, Injection
<1>3. SetToSeq(S) \in [1..Cardinality(S) -> S]
  BY <1>2 DEF SetToSeq
<1> QED BY <1>1, <1>3

LEMMA ShutdownEndKeeps ==
  ASSUME IInv, ShutdownEnd
  PROVE  IInv' /\ Forward
<1>1. /\ AroundOK /\ c \in Coordinator /\ answer \in Answers /\ done \in Seq(TargetType)
      /\ LoopOK(c, answer, asked, source, Finished)
      /\ AskedOK(answer, asked) /\ OrderOK(done) /\ c.active \in [Epochs -> OrNone(TargetType)]
      /\ \A a \in Archives : archive[a].source \in Nat
  BY InvariantFacts
<1> DEFINE running == {c.active[e] : e \in Epochs} \ {None}
           all == done \o SetToSeq(running)
           R == {all[i] : i \in 1..Len(all)}
           p == Ticked(all)[1]
           B == Ticked(all)[2]
<1>2. /\ life = "stopping" /\ life' = "stopped"
      /\ \A t \in running : result[t.id] # None
      /\ answer' = B /\ Dispatch(p, <<>>)
      /\ UNCHANGED <<calls, archive, asked, source, selecting, unrestored>>
  BY DEF ShutdownEnd
<1>3. c.ctx = None
  BY <1>2 DEF IInv, LifeOK
<1>4. IsFiniteSet(running) /\ running \subseteq TargetType
  <2>1. IsFiniteSet(Epochs)
    BY SyncAssumption, FS_Interval DEF Epochs
  <2>2. IsFiniteSet({c.active[e] : e \in Epochs})
    <3> DEFINE image == {c.active[e] : e \in Epochs}
    <3>1. c.active \in [Epochs -> image] /\ \A y \in image : \E e \in Epochs : c.active[e] = y
      BY <1>1
    <3>2. c.active \in Surjection(Epochs, image)
      <4> HIDE DEF image
      <4> QED BY <3>1 DEF Surjection
    <3> HIDE DEF image
    <3>3. IsFiniteSet(image)
      BY <2>1, <3>2, FS_Surjection
    <3> QED BY <3>3 DEF image
  <2>3. IsFiniteSet(running)
    BY <2>2, FS_Subset
  <2>4. running \subseteq TargetType
    BY <1>1 DEF OrNone
  <2> QED BY <2>3, <2>4
<1> HIDE DEF running
<1>5. SetToSeq(running) \in Seq(running)
  BY <1>4, SetToSeqType
<1>6. all \in Seq(TargetType) /\ R \subseteq Finished \cup running
  <2> DEFINE list == SetToSeq(running)
  <2>1. /\ list \in Seq(TargetType) /\ done \in Seq(TargetType)
        /\ \A i \in 1..Len(list) : list[i] \in running
    BY <1>1, <1>4, <1>5
  <2> HIDE DEF list
  <2>2. /\ done \o list \in Seq(TargetType) /\ Len(done) \in Nat /\ Len(list) \in Nat
        /\ Len(done \o list) = Len(done) + Len(list)
    BY <2>1
  <2>3. ASSUME NEW i \in 1..Len(done \o list) PROVE (done \o list)[i] \in Finished \cup running
    <3>1. CASE i <= Len(done)
      <4>1. i \in 1..Len(done)
        BY <2>2, <3>1
      <4>2. (done \o list)[i] = done[i]
        BY <2>1, <4>1
      <4> QED BY <4>1, <4>2 DEF Finished
    <3>2. CASE ~ (i <= Len(done))
      <4>1. i - Len(done) \in 1..Len(list)
        BY <2>2, <3>2
      <4>2. (done \o list)[i] = list[i - Len(done)]
        BY <2>1, <2>2, <3>2
      <4> QED BY <2>1, <4>1, <4>2
    <3> QED BY <3>1, <3>2
  <2> QED BY <2>2, <2>3 DEF list
<1> HIDE DEF all
<1>7. LoopOK(c, answer, asked, source, R)
  <2>1. /\ LoopTypes(c, answer, asked, source, Finished)
        /\ ActiveOK(c, answer, asked) /\ OneEach(c) /\ PendingOK(c, answer, asked)
        /\ LastOK(c, source) /\ SelectOK(c) /\ ShownOK(c) /\ ViewOK(c, Finished)
        /\ QueueOK(c, source) /\ ArchiveOK(source) /\ DoneOK(Finished)
        /\ UsedOK(c, answer, asked) /\ CoverOK(answer, asked) /\ BudgetOK(c, answer)
    BY <1>1, InvariantParts
  <2>2. R \subseteq TargetType
    BY <1>4, <1>6, <2>1 DEF LoopTypes
  <2> HIDE DEF R
  <2>3. DoneOK(R)
    BY <1>2, <1>6, <2>1 DEF DoneOK
  <2>4. ViewOK(c, R) /\ NewestOK(c, R)
    BY <1>3 DEF ViewOK, NewestOK
  <2>5. LoopTypes(c, answer, asked, source, R)
    BY <2>1, <2>2 DEF LoopTypes
  <2> QED BY <2>1, <2>3, <2>4, <2>5 DEF LoopOK
<1>8. LoopOK(p, B, asked, source, {}) /\ p.ctx = c.ctx
  BY <1>1, <1>3, <1>6, <1>7, LoopKeeps
<1> HIDE DEF p, B, R
<1>9. AskedOK(B, asked)
  <2>1. p.pending = None
    BY <1>3, <1>8, InvariantParts DEF PendingOK
  <2> QED BY <1>8, <2>1, InvariantParts DEF UsedOK, AskedOK
<1>10. <<>> \in Seq(TargetType) /\ {<<>>[i] : i \in 1..Len(<<>>)} = {} /\ OrderOK(<<>>)
  BY <1>1, EmptyOrder
<1>11. LoopOK(p, B, asked, source, {<<>>[i] : i \in 1..Len(<<>>)})
  BY <1>8, <1>10
<1>12. /\ AroundOK' /\ LoopOK(c, answer, asked, source, Finished)'
       /\ done' \in Seq(TargetType) /\ AskedOK(answer, asked)' /\ OrderOK(done)' /\ c'.ctx = p.ctx
  BY <1>1, <1>2, <1>9, <1>10, <1>11, DispatchKeeps
<1>13. LifeOK'
  BY <1>2, <1>3, <1>8, <1>12 DEF LifeOK, IInv
<1>14. IInv'
  BY <1>12, <1>13 DEF IInv, AskedOK
<1>15. Forward
  BY <1>1, <1>2, <1>3 DEF Forward
<1> QED BY <1>14, <1>15

--------------------------------------------------------------------------------
(* The theorems *)

LEMMA InvariantInit == Init => IInv
<1> SUFFICES ASSUME Init PROVE IInv
  OBVIOUS
<1> USE DEF Init
<1>1. /\ c.ctx = None /\ c.pending = None /\ c.last = None /\ c.shown = NoArchive
      /\ \A e \in Epochs : c.active[e] = None
  OBVIOUS
<1>2. c \in Coordinator
  <2>1. [e \in Epochs |-> None] \in [Epochs -> OrNone(TargetType)]
    BY DEF OrNone
  <2> QED BY <2>1, NoArchiveFacts DEF Coordinator, OrNone
<1>3. answer \in Answers /\ asked \in Questions /\ result \in [Targets -> OrNone(Result)]
  BY DEF Answers, Questions, OrNone
<1>4. AroundOK
  <2>1. archive \in [Archives -> Shown] /\ unrestored \in BOOLEAN
    BY NoArchiveFacts
  <2>2. crm \in Seq(TargetType) /\ calls \subseteq TargetType /\ selecting \in OrNone(Selection)
        /\ failures \in 0..MaxFailure
    BY SyncAssumption DEF OrNone
  <2> QED BY <1>3, <2>1, <2>2 DEF AroundOK
<1>5. Finished = {} /\ done \in Seq(TargetType) /\ calls = {}
  BY DEF Finished
<1>6. LoopTypes(c, answer, asked, source, Finished)
  BY <1>2, <1>3, <1>5, SyncAssumption DEF LoopTypes
<1>7. ActiveOK(c, answer, asked) /\ OneEach(c) /\ PendingOK(c, answer, asked)
  BY <1>1 DEF ActiveOK, OneEach, PendingOK
<1>8. LastOK(c, source) /\ SelectOK(c) /\ ShownOK(c) /\ ViewOK(c, Finished) /\ NewestOK(c, Finished)
  BY <1>1 DEF LastOK, SelectOK, ShownOK, ViewOK, NewestOK
<1>9. QueueOK(c, source) /\ ArchiveOK(source) /\ DoneOK(Finished)
  <2>1. Len(crm) = 0
    OBVIOUS
  <2>2. \A a \in Archives : archive[a].source = 0 /\ archive[a].view = 0
    BY NoArchiveFacts
  <2> QED BY <1>5, <2>1, <2>2 DEF QueueOK, ArchiveOK, DoneOK
<1>10. UsedOK(c, answer, asked) /\ CoverOK(answer, asked)
  BY DEF UsedOK, CoverOK
<1>11. BudgetOK(c, answer)
  <2>1. FailedOf(c) = {} /\ Used(answer) = {}
    BY <1>1 DEF FailedOf, Used
  <2>2. Cardinality({}) = 0
    BY FS_EmptySet
  <2>3. /\ Cardinality(FailedOf(c)) = 0 /\ Cardinality(Used(answer)) = 0
        /\ failures = 0 /\ MaxTarget \in Nat
    BY <2>1, <2>2, SyncAssumption
  <2>4. /\ Cardinality(FailedOf(c)) <= failures
        /\ Cardinality(Used(answer)) + Cardinality(FailedOf(c)) <= MaxTarget + failures
    <3> HIDE DEF Init
    <3> QED BY <2>3
  <2> QED BY <2>4 DEF BudgetOK
<1>12. LifeOK
  BY <1>1 DEF LifeOK
<1>13. LoopOK(c, answer, asked, source, Finished)
  BY <1>6, <1>7, <1>8, <1>9, <1>10, <1>11 DEF LoopOK
<1>14. \A w \in Targets : answer[w] = None
  OBVIOUS
<1>15. OrderOK(done)
  <2>1. \A i \in 1..Len(done) : FALSE
    OBVIOUS
  <2> QED BY <1>5, <2>1 DEF OrderOK
<1> QED BY <1>4, <1>5, <1>12, <1>13, <1>14, <1>15 DEF IInv

LEMMA InvariantNext == IInv /\ [Next]_vars => IInv' /\ (Forward \/ UNCHANGED vars)
<1> SUFFICES ASSUME IInv, [Next]_vars PROVE IInv' /\ (Forward \/ UNCHANGED vars)
  OBVIOUS
<1>1. ASSUME NEW e \in Epochs, SelectBegin(e) PROVE IInv' /\ Forward
  BY <1>1, SelectBeginKeeps
<1>2. CASE SelectRead
  BY <1>2, SelectReadKeeps
<1>3. CASE SelectEnd
  BY <1>3, SelectEndKeeps
<1>4. CASE Refresh
  <2>1. source \in Nat /\ MaxRevision \in Nat /\ source < MaxRevision
    BY <1>4, InvariantFacts, SyncAssumption DEF Refresh
  <2>2. source + 1 \in 1..MaxRevision
    BY <2>1
  <2>3. source' = source + 1 /\ Request(source + 1)
        /\ UNCHANGED <<calls, archive, selecting, unrestored, life>>
    BY <1>4 DEF Refresh
  <2> DEFINE rev == source + 1
  <2>4. rev \in 1..MaxRevision /\ (rev = source \/ rev = source + 1) /\ source' = rev
        /\ Request(rev)
    BY <2>2, <2>3
  <2> HIDE DEF rev
  <2> QED BY <2>3, <2>4, RequestKeeps
<1>5. CASE Resync
  <2>1. source \in 1..MaxRevision
    <3>1. source \in 0..MaxRevision /\ source > 0
      BY <1>5, InvariantFacts DEF Resync
    <3> QED BY <3>1
  <2>2. Request(source) /\ UNCHANGED <<calls, archive, source, selecting, unrestored, life>>
    BY <1>5 DEF Resync
  <2> QED BY <2>1, <2>2, RequestKeeps
<1>6. CASE ClearRetry \/ BackoffEnds
  BY <1>6, BackoffKeeps
<1>7. CASE Tick
  BY <1>7, TickKeeps
<1>8. CASE Run
  BY <1>8, RunKeeps
<1>9. ASSUME NEW t \in calls, Callback(t) PROVE IInv' /\ Forward
  BY <1>9, CallbackKeeps
<1>10. CASE ShutdownBegin
  BY <1>10, ShutdownBeginKeeps
<1>11. CASE ShutdownEnd
  BY <1>11, ShutdownEndKeeps
<1>12. CASE UNCHANGED vars
  <2>1. UNCHANGED <<c, answer, crm, result, calls, done, archive, asked, source, selecting,
                    unrestored, life, failures>>
    BY <1>12 DEF vars
  <2>2. /\ AroundOK /\ LoopOK(c, answer, asked, source, Finished) /\ AskedOK(answer, asked)
        /\ done \in Seq(TargetType) /\ OrderOK(done)
    BY InvariantFacts
  <2>3. Finished' = Finished
    BY <2>1 DEF Finished
  <2>4. AroundOK' /\ LoopOK(c, answer, asked, source, Finished)'
    BY <2>1, <2>2, <2>3, SameAround
  <2>5. LifeOK'
    BY <2>1 DEF IInv, LifeOK
  <2>6. OrderOK(done)'
    BY <2>1, <2>2 DEF OrderOK, Before, Settled, Committed
  <2> QED BY <1>12, <2>1, <2>2, <2>4, <2>5, <2>6 DEF IInv, AskedOK
<1> QED BY <1>1, <1>2, <1>3, <1>4, <1>5, <1>6, <1>7, <1>8, <1>9, <1>10, <1>11, <1>12 DEF Next

\* Coordinator, answers, executor and archives agree in every interleaving of requests,
\* ticks, jobs, callbacks, selections and the shutdown, and between two turns of tick()'s loop.
THEOREM InvariantHolds == Spec => []IInv
<1>1. IInv /\ [Next]_vars => IInv'
  BY InvariantNext
<1> QED BY <1>1, InvariantInit, PTL DEF Spec

\* Every field has its type.
THEOREM TypeCorrect == Spec => []TypeOK
BY InvariantHolds, TypesSuffice, PTL

\* An answer of wait() covers what its caller asked for and is committed in the archive
\* of the caller's account; a source revision that is shown as applied is in the archive,
\* and when nothing is outstanding the revision shown is the committed one, unless the
\* archive's state could not be read when the account was selected: then the blank state
\* is shown, behind the current source (sync_coordinator.py:88, :133, im_db_middleware.py:191).
THEOREM AnswersAlwaysTrue == Spec => []AnswersTrue
BY InvariantHolds, InvariantSuffices, PTL

\* What is shown of a context and what an archive holds never goes back
\* (sync_coordinator.py:46, :133).
THEOREM NothingRegresses == Spec => NeverRegresses
<1> DEFINE A == /\ c'.ctx = c.ctx /\ c.ctx # None => c'.shown.view >= c.shown.view
                /\ \A a \in Archives : archive'[a].source >= archive[a].source
<1>1. IInv /\ [Next]_vars => [A]_vars
  BY InvariantNext DEF Forward
<1>2. Spec => [][A]_vars
  BY <1>1, InvariantHolds, PTL DEF Spec
<1> QED BY <1>2 DEF NeverRegresses
================================================================================
