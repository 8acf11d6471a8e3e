---------------------------- MODULE Experiments ----------------------------
(***************************************************************************)
(* One experiment: a document of steps and progress, and a transcript for  *)
(* each variant (shared/agent/experiments.py, experiment_content.py,       *)
(* experiment_runs.py, api/routers/experiments.py).                        *)
(*                                                                         *)
(* A request holds the account lock from its read of the document to its   *)
(* write.  A run does not: its thread reads the document once, one thread  *)
(* per variant extends a transcript, and each records its progress by      *)
(* writing the whole document back.  Runs live in memory and are lost when *)
(* the process exits; document and transcripts are rows of the database.   *)
(***************************************************************************)
EXTENDS Integers, Sequences, SequencesExt, FiniteSets, Sublists

CONSTANTS
    Accounts,     \* pairs of a seller and a data directory
    Variants,     \* ids of chat_history rows
    Runs,         \* ids of runs
    MaxSteps,     \* MAX_STEPS
    MaxVariants,  \* MAX_VARIANTS_PER_EXPERIMENT
    MaxRequests,  \* bound: requests after the creation
    MaxFaults     \* bound: failing writes, crashes

NoOwner == "no owner"
Unknown == -2
Steps == 0..(MaxSteps - 1)
Terminal == {"completed", "failed", "cancelled"}

VARIABLES
    account,      \* the selected account
    doc,          \* Experiment.content
    hist,         \* the ChatHistory rows of the variants
    request,      \* the one request that holds the account lock
    run,          \* the registry with its background threads
    left,         \* requests left
    faults,       \* faults left
    disturbed,    \* history: variants with a checkpoint that was lost or raced
    outrun,       \* history: variants that were rerun from a checkpoint beyond their turns
    given         \* history: how many turns of others a variant was given when it was added

vars == <<account, doc, hist, request, run, left, faults, disturbed, outrun, given>>

NoRecord == [done |-> {}, before |-> [v \in Variants |-> Unknown]]
NoDocument == [exists |-> FALSE, owner |-> NoOwner, steps |-> <<>>, edits |-> 0,
               runs |-> [s \in Steps |-> NoRecord]]
NoRow == [state |-> "unused", turns |-> <<>>]
NoRequest == [op |-> "none"]
NoRun == [status |-> "unused", step |-> 0, owner |-> NoOwner, cancelled |-> FALSE,
          loaded |-> FALSE, copy |-> NoDocument,
          variants |-> [v \in Variants |-> "absent"],
          at |-> [v \in Variants |-> "idle"], turns |-> [v \in Variants |-> <<>>]]

User(s) == [role |-> "user", step |-> s]
Assistant(s) == [role |-> "assistant", step |-> s]

Attached == {v \in Variants : hist[v].state = "attached"}
Active(r) == run[r].status = "running"
Targets(r) == {v \in Variants : run[r].variants[v] # "absent"}

----------------------------------------------------------------------------
(* The document *)

Owned(d, a) == d.owner \in {NoOwner, a}

WithOwner(d, a) == [d EXCEPT !.owner = a]

AdoptOwner(d, a) == IF d.owner = NoOwner THEN WithOwner(d, a) ELSE d

\* edit_experiment updates a row: there is none to update once it is deleted.
EditExperiment(d) == doc' = IF doc.exists THEN d ELSE doc

\* A write of a copy that misses progress recorded meanwhile loses checkpoints.
Forgotten(d) ==
    {v \in Variants : \E s \in Steps :
        doc.runs[s].before[v] # Unknown /\ d.runs[s].before[v] = Unknown}

Complete(d, s) == d.runs[s].done

StepCheckpoint(d, s, v) == d.runs[s].before[v]

GuardStepRun(d, s, vs, force) ==
    LET pending == vs \ Complete(d, s) IN
    IF pending = {} THEN (IF force THEN vs ELSE {})
    ELSE IF s > 0 /\ Complete(d, s - 1) = {} THEN {} ELSE pending

Recorded(d, s, v, before) ==
    [d EXCEPT !.runs[s].done = @ \cup {v},
              !.runs[s].before[v] = IF @ = Unknown THEN before ELSE @]

----------------------------------------------------------------------------
(* Requests *)

Idle == request.op = "none"

Admit == Idle /\ left > 0 /\ left' = left - 1

\* The starting points "text" and "conversation" bring no turns, "session" does.
SourceTurns(kind) ==
    IF kind = "session" THEN <<User(Unknown), Assistant(Unknown)>> ELSE <<>>

NewVariant(turns) == [state |-> "attached", turns |-> turns]

\* create_experiment: the document of the owner and a row for each variant.
NewExperiment(vs, turns) ==
    /\ vs # {} /\ Cardinality(vs) <= MaxVariants
    /\ doc' = WithOwner([NoDocument EXCEPT !.exists = TRUE], account)
    /\ hist' = [v \in Variants |-> IF v \in vs THEN NewVariant(turns) ELSE hist[v]]

Create ==
    /\ Idle /\ ~doc.exists
    /\ \A v \in Variants : hist[v].state = "unused"
    /\ \E kind \in {"text", "session"}, vs \in SUBSET Variants :
        NewExperiment(vs, SourceTurns(kind))
    /\ UNCHANGED <<account, request, run, left, faults, disturbed, outrun, given>>

\* _experiment_or_404: what every other request begins with.
Begin(q) ==
    /\ Admit /\ doc.exists /\ Owned(doc, account)
    /\ request' = [q EXCEPT !.copy = doc]
    /\ UNCHANGED <<account, doc, hist, run, faults, disturbed, outrun, given>>

BeginAppend == \E m \in {"buyer", "agent"} :
    Len(doc.steps) < MaxSteps /\ Begin([op |-> "append", mode |-> m, copy |-> NoDocument])
BeginEdit == Begin([op |-> "edit", copy |-> NoDocument])
BeginAdd == Begin([op |-> "add", copy |-> NoDocument])
BeginRun == \E s \in Steps, f \in BOOLEAN :
    s < Len(doc.steps) /\ Begin([op |-> "run", step |-> s, force |-> f, copy |-> NoDocument])

\* _save_content: the whole document of the request is written.
Save(d) ==
    /\ EditExperiment(AdoptOwner(d, account))
    /\ disturbed' = disturbed \cup Forgotten(d)
    /\ request' = NoRequest
    /\ UNCHANGED <<account, hist, run, left, faults, outrun, given>>

AppendStep ==
    /\ request.op = "append"
    /\ Save([request.copy EXCEPT !.steps = Append(@, request.mode)])

UpdateExperiment ==
    /\ request.op = "edit"
    /\ Save([request.copy EXCEPT !.edits = @ + 1])

\* The buyer's turns of the dialogue that the variants share.
Lineage(vs) ==
    LET first == hist[CHOOSE v \in vs : TRUE].turns
        shared == {i \in DOMAIN first : /\ first[i].role = "user"
                      /\ \A v \in vs : IsPrefix(SubSeq(first, 1, i), hist[v].turns)}
    IN  IF vs = {} THEN <<>> ELSE Sublist(first, shared)

\* A newcomer is given the buyer's turns, but no completion and no checkpoint of their steps:
\* the run of such a step adds the buyer's message to it once more.
AddVariant ==
    /\ request.op = "add"
    /\ \/ \E v \in Variants :
            /\ hist[v].state = "unused" /\ Cardinality(Attached) < MaxVariants
            /\ hist' = [hist EXCEPT ![v] = NewVariant(Lineage(Attached))]
            /\ given' = [given EXCEPT ![v] = Len(Lineage(Attached))]
       \/ /\ \/ Cardinality(Attached) >= MaxVariants
             \/ \A v \in Variants : hist[v].state # "unused"    \* bound
          /\ UNCHANGED <<hist, given>>
    /\ request' = NoRequest
    /\ UNCHANGED <<account, doc, run, left, faults, disturbed, outrun>>

DeleteVariant ==
    /\ Admit /\ doc.exists /\ Owned(doc, account)
    /\ \E v \in Attached : hist' = [hist EXCEPT ![v] = [state |-> "deleted", turns |-> <<>>]]
    /\ UNCHANGED <<account, doc, request, run, faults, disturbed, outrun, given>>

DeleteExperiment ==
    /\ Admit /\ doc.exists /\ Owned(doc, account)
    /\ doc' = NoDocument
    /\ hist' = [v \in Variants |-> IF v \in Attached
                  THEN [state |-> "deleted", turns |-> <<>>] ELSE hist[v]]
    /\ UNCHANGED <<account, request, run, faults, disturbed, outrun, given>>

\* One run of a step at a time; runs of other steps go on beside it.
Conflict(s) == \E r \in Runs : Active(r) /\ run[r].step = s

\* RunRegistry.start with the guard before it and the thread after it.
StartRun ==
    /\ request.op = "run"
    /\ LET pending == GuardStepRun(request.copy, request.step, Attached, request.force) IN
        \/ /\ pending = {} \/ Conflict(request.step)
           /\ UNCHANGED run
        \/ /\ pending # {} /\ ~Conflict(request.step)
           /\ \E r \in Runs :
               /\ run[r].status = "unused"
               /\ \A q \in Runs : q < r => run[q].status # "unused"
               /\ run' = [run EXCEPT ![r] = [NoRun EXCEPT
                     !.status = "running", !.step = request.step, !.owner = account,
                     !.variants = [v \in Variants |->
                                      IF v \in pending THEN "queued" ELSE "absent"]]]
        \/ /\ pending # {} /\ \A r \in Runs : run[r].status # "unused"   \* bound
           /\ UNCHANGED run
    /\ request' = NoRequest
    /\ UNCHANGED <<account, doc, hist, left, faults, disturbed, outrun, given>>

OwnedRun(r) == run[r].status \notin {"unused", "forgotten"} /\ run[r].owner = account

CancelRun(r) ==
    /\ Admit /\ OwnedRun(r) /\ ~run[r].cancelled
    /\ run' = [run EXCEPT ![r].cancelled = TRUE]
    /\ UNCHANGED <<account, doc, hist, request, faults, disturbed, outrun, given>>

\* A reader after RUN_RETENTION_SECONDS drops the run.
GetRun(r) ==
    /\ Idle /\ OwnedRun(r) /\ ~Active(r)
    /\ run' = [run EXCEPT ![r] = [NoRun EXCEPT !.status = "forgotten"]]
    /\ UNCHANGED <<account, doc, hist, request, left, faults, disturbed, outrun, given>>

SwitchAccount ==
    /\ Admit
    /\ account' \in Accounts \ {account}
    /\ UNCHANGED <<doc, hist, request, run, faults, disturbed, outrun, given>>

----------------------------------------------------------------------------
(* The threads of a run *)

FailAll(r) == [run EXCEPT ![r].loaded = TRUE,
    ![r].variants = [v \in Variants |-> IF v \in Targets(r) THEN "failed" ELSE "absent"]]

\* The experiment the run was started for can still be loaded.
Loadable(r) == doc.exists /\ run[r].step < Len(doc.steps) /\ account = run[r].owner

\* The beginning of _execute_run, up to run_experiment.
Execute(r) ==
    /\ Active(r) /\ ~run[r].loaded
    /\ \/ /\ ~Loadable(r)
          /\ run' = FailAll(r)
          /\ UNCHANGED faults
       \/ /\ Loadable(r)
          /\ run' = [run EXCEPT ![r].loaded = TRUE, ![r].copy = doc,
                ![r].at = [v \in Variants |->
                              IF v \in Targets(r) \cap Attached THEN "ready" ELSE "idle"]]
          /\ UNCHANGED faults
       \/ /\ faults > 0 /\ faults' = faults - 1    \* variant_presets refuses a variant
          /\ run' = FailAll(r)
    /\ UNCHANGED <<account, doc, hist, request, left, disturbed, outrun, given>>

Settle(r, v, status) ==
    run' = [run EXCEPT ![r].variants[v] = status, ![r].at[v] = "idle", ![r].turns[v] = <<>>]

\* Mutant of Replayed: a retry goes on from where the failed turn ended.
ReplayedOn(r, v) ==
    IF run[r].copy.steps[run[r].step + 1] = "buyer"
    THEN Append(hist[v].turns, User(run[r].step)) ELSE hist[v].turns

\* messages[:before]
Cut(turns, before) == SubSeq(turns, 1, IF before >= 0 THEN before ELSE Len(turns) + before)

Checkpoint(r, v) == StepCheckpoint(run[r].copy, run[r].step, v)

\* The messages the turn is run with: cut at the checkpoint, then the buyer's turn.
Replayed(r, v) ==
    LET before == Checkpoint(r, v)
        turns == hist[v].turns
        kept == IF before # Unknown /\ before <= Len(turns) THEN Cut(turns, before) ELSE turns
    IN  IF run[r].copy.steps[run[r].step + 1] = "buyer"
        THEN Append(kept, User(run[r].step)) ELSE kept

\* Two runs may work on one transcript, each from what it read.
Shared(r, v) == \E q \in Runs \ {r} : run[q].at[v] \in {"turn", "written"}

\* The first half of _run_variant, in the variant's own thread.
StartVariant(r, v) ==
    /\ run[r].at[v] = "ready" /\ ~run[r].cancelled
    /\ IF account # run[r].owner \/ hist[v].state # "attached"
       THEN Settle(r, v, "failed") /\ UNCHANGED <<disturbed, outrun>>
       ELSE /\ run' = [run EXCEPT ![r].variants[v] = "running", ![r].at[v] = "turn",
                                  ![r].turns[v] = Replayed(r, v)]
            /\ disturbed' = IF Shared(r, v) THEN disturbed \cup {v} ELSE disturbed
            /\ outrun' = IF Checkpoint(r, v) > Len(hist[v].turns) THEN outrun \cup {v} ELSE outrun
    /\ UNCHANGED <<account, doc, hist, request, left, faults, given>>

\* The runner raises, or stops because the token is cancelled.
TurnFails(r, v) ==
    /\ run[r].at[v] = "turn"
    /\ \/ run[r].cancelled /\ Settle(r, v, "cancelled") /\ UNCHANGED faults
       \/ faults > 0 /\ faults' = faults - 1 /\ Settle(r, v, "failed")
    /\ UNCHANGED <<account, doc, hist, request, left, disturbed, outrun, given>>

WriteTurn(r, v) ==
    /\ run[r].at[v] = "turn"
    /\ LET turns == Append(run[r].turns[v], Assistant(run[r].step)) IN
        /\ hist' = IF hist[v].state = "attached"
                   THEN [hist EXCEPT ![v].turns = turns] ELSE hist
        /\ run' = [run EXCEPT ![r].at[v] = "written", ![r].turns[v] = turns]
    /\ UNCHANGED <<account, doc, request, left, faults, disturbed, outrun, given>>

\* Of a step without a buyer's turn it is one less than the turns before it.
BeforeOf(r, v) ==
    IF Checkpoint(r, v) # Unknown THEN Checkpoint(r, v) ELSE Len(run[r].turns[v]) - 2

\* record_step_progress on the run's copy of the document, and the status.
RecordProgress(r, v) ==
    /\ run[r].at[v] = "written"
    /\ LET d == Recorded(run[r].copy, run[r].step, v, BeforeOf(r, v)) IN
        \/ /\ EditExperiment(d)
           /\ disturbed' = disturbed \cup Forgotten(d)
           /\ run' = [run EXCEPT ![r].copy = d, ![r].variants[v] = "completed",
                                 ![r].at[v] = "idle", ![r].turns[v] = <<>>]
           /\ UNCHANGED faults
        \/ /\ faults > 0 /\ faults' = faults - 1      \* the write of the progress fails
           /\ run' = [run EXCEPT ![r].copy = d, ![r].variants[v] = "failed",
                                 ![r].at[v] = "idle", ![r].turns[v] = <<>>]
           /\ disturbed' = disturbed \cup {v}
           /\ UNCHANGED doc
    /\ UNCHANGED <<account, hist, request, left, outrun, given>>

Outcome(vs) ==
    IF \E v \in Variants : vs[v] = "cancelled" THEN "cancelled"
    ELSE IF \E v \in Variants : vs[v] = "failed" THEN "failed" ELSE "completed"

\* Mutant of Finish: waits for variants that a cancelled run no longer starts.
FinishAll(r) ==
    /\ Active(r) /\ run[r].loaded
    /\ \A v \in Variants : run[r].at[v] = "idle"
    /\ run' = [run EXCEPT ![r] = [NoRun EXCEPT
                 !.status = Outcome(run[r].variants), !.owner = run[r].owner]]
    /\ UNCHANGED <<account, doc, hist, request, left, faults, disturbed, outrun, given>>

\* run_experiment has returned: the finally section of _execute_run.  What the
\* variants of a finished run were is only displayed and not kept here.
Finish(r) ==
    /\ Active(r) /\ run[r].loaded
    /\ \A v \in Variants : \/ run[r].at[v] = "idle"
                           \/ run[r].at[v] = "ready" /\ run[r].cancelled
    /\ LET vs == [v \in Variants |-> IF run[r].variants[v] \in Terminal \cup {"absent"}
                                     THEN run[r].variants[v] ELSE "cancelled"] IN
        run' = [run EXCEPT ![r] = [NoRun EXCEPT
                   !.status = Outcome(vs), !.owner = run[r].owner]]
    /\ UNCHANGED <<account, doc, hist, request, left, faults, disturbed, outrun, given>>

Crash ==
    /\ faults > 0 /\ faults' = faults - 1
    /\ disturbed' = disturbed \cup {v \in Variants : \E r \in Runs : run[r].at[v] = "written"}
    /\ run' = [r \in Runs |-> IF run[r].status = "unused" THEN NoRun
                              ELSE [NoRun EXCEPT !.status = "forgotten"]]
    /\ request' = NoRequest
    /\ UNCHANGED <<account, doc, hist, left, outrun, given>>

----------------------------------------------------------------------------
Init ==
    /\ account = CHOOSE a \in Accounts : TRUE
    /\ \/ doc = NoDocument /\ hist = [v \in Variants |-> NoRow]
       \* A document written before ownership was recorded.
       \/ \E v \in Variants :
            /\ doc = [NoDocument EXCEPT !.exists = TRUE]
            /\ hist = [w \in Variants |-> IF w = v THEN NewVariant(<<>>) ELSE NoRow]
    /\ request = NoRequest
    /\ run = [r \in Runs |-> NoRun]
    /\ left = MaxRequests
    /\ faults = MaxFaults
    /\ disturbed = {}
    /\ outrun = {}
    /\ given = [v \in Variants |-> 0]

Thread(r) == Execute(r) \/ Finish(r) \/ \E v \in Variants :
    StartVariant(r, v) \/ TurnFails(r, v) \/ WriteTurn(r, v) \/ RecordProgress(r, v)

Next ==
    \/ Create \/ BeginAppend \/ BeginEdit \/ BeginAdd \/ BeginRun
    \/ AppendStep \/ UpdateExperiment \/ AddVariant \/ StartRun
    \/ DeleteVariant \/ DeleteExperiment \/ SwitchAccount \/ Crash
    \/ \E r \in Runs : CancelRun(r) \/ GetRun(r) \/ Thread(r)

\* The threads of a run are scheduled; requests, switches and crashes need not come.
Fairness == \A r \in Runs : WF_vars(Thread(r))

Spec == Init /\ [][Next]_vars /\ Fairness

----------------------------------------------------------------------------
Asked(v, s) == {i \in DOMAIN hist[v].turns : hist[v].turns[i] = User(s)}

\* The buyer's message of a step is in a transcript once, over retries and reruns
\* (app/README.md:100), unless a checkpoint was lost or raced.
BuyerOnce ==
    \A v \in Variants \ disturbed, s \in Steps : Cardinality(Asked(v, s)) <= 1

\* The same, for a variant that was not rerun from a checkpoint beyond its turns either,
\* and of the turns after those that it was given when it was added: retries, forced
\* reruns, cancellations and failures keep it so.
RetriesTruncate ==
    \A v \in Variants \ (disturbed \cup outrun), s \in Steps :
        Cardinality({i \in Asked(v, s) : i > given[v]}) <= 1

\* Every run ends, with a status for every variant, whatever is cancelled,
\* deleted or switched meanwhile.
RunsEnd == \A r \in Runs : Active(r) ~> ~Active(r)
=============================================================================
