-------------------------------- MODULE Workbench --------------------------------
(***************************************************************************)
(* What the pages for agents, suggestions, translations and experiments    *)
(* talk to.  The four components share no state (each has its own tables   *)
(* and, but for the intents, its own threads), so one run explores them    *)
(* side by side: focus says whose behaviour it is, the others stay as they *)
(* began.  Suggestions is extended, the others are instances.              *)
(***************************************************************************)
EXTENDS Suggestions

CONSTANTS
    Accounts,                                                    \* Experiments, AgentSessions
    Variants, Runs, MaxSteps, MaxVariants, MaxCalls,             \* Experiments
    Sessions, Edits, MaxBuiltin, KeepRevisions, MaxTurns,        \* AgentSessions
    Cleaned, Jobs, Hash(_, _), MaxSalt, ChunkSize, QueueSize, MaxEpoch, MaxSubmits,
                                                                 \* Translations
    MaxFailures                                                  \* all of these

VARIABLES
    focus,
    account, doc, hist, request, run, requests, mishaps, disturbed, outrun, given,
    selected, preset, revisions, recorded, shipped, up, sessions, turnsLeft, turnFaults, mine, torn,
    epoch, cache, job, queue, running, closing, submits, failures, abnormal

experiments == <<account, doc, hist, request, run, requests, mishaps, disturbed, outrun, given>>
agents == <<selected, preset, revisions, recorded, shipped, up, sessions, turnsLeft, turnFaults,
            mine, torn>>
suggestions == <<intents, tasks, shown, draft, saved, dialog, waiting, posts, left, faults, again>>
translations == <<epoch, cache, job, queue, running, closing, submits, failures, abnormal>>

E == INSTANCE Experiments WITH
        MaxRequests <- MaxCalls, MaxFaults <- MaxFailures, left <- requests, faults <- mishaps

A == INSTANCE AgentSessions WITH
        MaxRequests <- MaxTurns, MaxFaults <- MaxFailures,
        account <- selected, left <- turnsLeft, faults <- turnFaults

T == INSTANCE Translations WITH
        Texts <- Cleaned, MaxRequests <- MaxSubmits, MaxFaults <- MaxFailures,
        left <- submits, faults <- failures

\* An account is selected; steps are counted from 0; a version that a user writes is not
\* that of a release, nor the empty one; texts are not empty, and a salt that makes a hash
\* fresh is found for every text among fewer hashes than there are texts.
ASSUME WorkbenchAssumption ==
    /\ Accounts # {}
    /\ MaxSteps \in Nat
    /\ MaxBuiltin \in Nat \ {0} /\ Edits \cap (A!Builtins \cup {A!Empty, A!Absent}) = {}
    /\ IsFiniteSet(Cleaned) /\ Cleaned \subseteq Nat \ {T!NoNeed}
    /\ ChunkSize \in Nat \ {0} /\ MaxSalt \in Nat
    /\ \A text \in Cleaned, used \in SUBSET T!ShortHashes :
          Cardinality(used) < Cardinality(Cleaned)
              => \E salt \in 0..MaxSalt : Hash(text, salt) \notin used

WorkbenchInit ==
    /\ focus \in {"experiments", "sessions", "suggestions", "translations"}
    /\ E!Init /\ (focus # "experiments" => ~doc.exists)
    /\ A!Init /\ (focus # "sessions" => sessions = [s \in Sessions |-> A!NoSession])
    /\ Init
    /\ T!Init

WorkbenchNext ==
    \/ focus = "experiments" /\ E!Next /\ UNCHANGED <<focus, agents, suggestions, translations>>
    \/ focus = "sessions" /\ A!Next /\ UNCHANGED <<focus, experiments, suggestions, translations>>
    \/ focus = "suggestions" /\ Next /\ UNCHANGED <<focus, experiments, agents, translations>>
    \/ focus = "translations" /\ T!Next /\ UNCHANGED <<focus, experiments, agents, suggestions>>

workbench == <<focus, experiments, agents, suggestions, translations>>

\* Only the threads of experiments are fair, and in what they begin with none runs.
WorkbenchSpec == WorkbenchInit /\ [][WorkbenchNext]_workbench /\ E!Fairness

--------------------------------------------------------------------------------
\* A retry or rerun of a step cuts the transcript back, so the buyer's message of a
\* step is in it once, after the turns a variant was given when it was added and unless
\* a checkpoint was lost, raced or overtaken (experiments router:679, :686;
\* app/README.md:100).
RetriesTruncate == E!RetriesTruncate

\* Every run of a step ends, whatever is cancelled, deleted or switched meanwhile
\* (experiment_runs.py).
RunsEnd == E!RunsEnd

\* Users' system prompts survive and the others get the release's default, over
\* interrupted startups and restores (system_presets.py:188).
DefaultsDelivered == A!DefaultsDelivered

\* Every answer of a session is by the version of the preset it began with
\* (agent.py:651).
AnswersPinned == A!AnswersPinned

\* Colliding short hashes never give a text the translation of another
\* (translation.py:36-43).
OwnTranslation == T!OwnTranslation

\* A job reports success only if every text of it is translated
\* (translation_jobs.py:66).
SuccessIsComplete == T!SuccessIsComplete
==================================================================================
