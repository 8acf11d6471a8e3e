---------------------------- MODULE Translations ----------------------------
(***************************************************************************)
(* Translation jobs (translation_jobs.py, shared/agent/translation.py) on  *)
(* the task queue with one worker (task_queue.py), and the cache of        *)
(* translations that all accounts share (crm/translation_cache.py).        *)
(*                                                                         *)
(* A submission captures the epoch of the account; the worker compares it  *)
(* once, when it takes the job up.  It sends the pending texts in chunks,  *)
(* each text under a short hash that may collide with another's.  A chunk  *)
(* is written text by text, so one that fails may have stored some.  Jobs  *)
(* live in memory, the cache is a table.                                   *)
(***************************************************************************)
EXTENDS Integers, Sequences, SequencesExt, FiniteSets, Sublists

CONSTANTS
    Texts,          \* numbers that stand for cleaned texts
    Jobs,           \* ids of queue tasks
    Hash(_, _),     \* short_text_hash: text and salt to short hash
    MaxSalt,        \* bound: salts that are tried for a text
    ChunkSize,      \* TRANSLATION_CHUNK_SIZE
    QueueSize,      \* TASK_QUEUE_MAXSIZE
    MaxEpoch,       \* bound: changes of the account
    MaxRequests,    \* bound: submissions
    MaxFaults       \* bound: failing calls and writes, crashes

NoEpoch == -1
NoNeed == 0         \* the empty translation

VARIABLES
    epoch,          \* the epoch of the selected account
    cache,          \* the translate table: what each text is translated as
    job,            \* the requests of the queue
    queue,          \* ids of the pending jobs
    running,        \* what the worker is at
    closing,        \* shutdown has begun
    left,           \* submissions left
    faults,         \* faults left
    abnormal        \* history: texts the agent called abnormal in the last job

vars == <<epoch, cache, job, queue, running, closing, left, faults, abnormal>>

Nothing == {}       \* not in the cache
NoJob == [status |-> "unused", texts |-> <<>>, force |-> FALSE, epoch |-> NoEpoch]
NotRunning == [id |-> 0, pc |-> "idle", rest |-> <<>>, hash |-> <<>>, failed |-> 0]

\* The result of an agent call, by text: the translation of some text, no need
\* to translate, an abnormal message, or a missing entry.
Abnormal == -1
Omitted == -2

Cached(text) == cache[text] # Nothing

Ended == {"succeeded", "failed"}

----------------------------------------------------------------------------
(* Short hashes *)

ShortHashes == {Hash(text, salt) : text \in Texts, salt \in 0..MaxSalt}

\* Mutant of FreshShortHash: the hash is taken without a look at those in use.
ShortHashOnly(text, used) == Hash(text, 0)

FreshShortHash(text, used) ==
    Hash(text, CHOOSE salt \in 0..MaxSalt :
                 /\ Hash(text, salt) \notin used
                 /\ \A s \in 0..(salt - 1) : Hash(text, s) \in used)

\* One hash for each text, fresh among those of the texts before it.
AssignsShortHashes(hash, texts) ==
    \A i \in DOMAIN texts :
        hash[texts[i]] = FreshShortHash(texts[i], {hash[texts[j]] : j \in 1..(i - 1)})

----------------------------------------------------------------------------
(* The queue *)

Accept(j, request) ==
    /\ job' = [job EXCEPT ![j] = [request EXCEPT !.status = "pending"]]
    /\ queue' = Append(queue, j)

\* Finished jobs are forgotten some time later; their ids stand for new ones.
Free(j) == job[j].status \in Ended \cup {"unused"} /\ running.id # j

SubmitTranslationJob ==
    /\ left > 0 /\ left' = left - 1
    /\ ~closing /\ Len(queue) < QueueSize
    /\ \E j \in Jobs, texts \in (SUBSET Texts) \ {{}}, force \in BOOLEAN,
          expected \in {NoEpoch, epoch} :
        /\ Free(j)
        /\ \A i \in Jobs : Free(i) => j <= i
        /\ Accept(j, [NoJob EXCEPT !.texts = SetToSeq(texts), !.force = force, !.epoch = expected])
    /\ UNCHANGED <<epoch, cache, running, closing, faults, abnormal>>

\* The worker takes the next job.
Take ==
    /\ running.pc = "idle" /\ queue # <<>>
    /\ job' = [job EXCEPT ![Head(queue)].status = "running"]
    /\ running' = [NotRunning EXCEPT !.id = Head(queue), !.pc = "check"]
    /\ queue' = Tail(queue)
    /\ abnormal' = {}
    /\ UNCHANGED <<epoch, cache, closing, left, faults>>

Complete(status) ==
    /\ job' = [job EXCEPT ![running.id] = [NoJob EXCEPT !.status = status]]
    /\ running' = NotRunning

----------------------------------------------------------------------------
(* The job *)

CheckEpoch ==
    /\ running.pc = "check"
    /\ \/ /\ job[running.id].epoch \in {NoEpoch, epoch}
          /\ running' = [running EXCEPT !.pc = "context"]
          /\ UNCHANGED job
       \/ /\ job[running.id].epoch \notin {NoEpoch, epoch}
          /\ Complete("failed")
    /\ UNCHANGED <<epoch, cache, queue, closing, left, faults, abnormal>>

\* The texts that are really to be translated.
Targets(texts, force) == Sublist(texts, {i \in DOMAIN texts : force \/ ~Cached(texts[i])})

\* After the context is loaded (from the account selected by now).
Prepare ==
    /\ running.pc = "context"
    /\ LET pending == Targets(job[running.id].texts, job[running.id].force) IN
        IF pending = <<>> THEN Complete("succeeded")
        ELSE /\ \E hash \in [ToSet(pending) -> ShortHashes] :
                 /\ AssignsShortHashes(hash, pending)
                 /\ running' = [running EXCEPT !.pc = "chunks", !.rest = pending, !.hash = hash]
             /\ UNCHANGED job
    /\ UNCHANGED <<epoch, cache, queue, closing, left, faults, abnormal>>

Chunk == IF Len(running.rest) <= ChunkSize THEN running.rest
         ELSE SubSeq(running.rest, 1, ChunkSize)

\* The agent answers for every hash with the translation of a text that has it,
\* with a verdict, or not at all.
Answers(items) ==
    {answer \in [ToSet(items) -> DOMAIN running.hash \cup {NoNeed, Abnormal, Omitted}] :
        \A text \in ToSet(items) :
            /\ answer[text] \in Texts => running.hash[answer[text]] = running.hash[text]
            /\ \A t \in ToSet(items) :
                  running.hash[t] = running.hash[text] => answer[t] = answer[text]}

Store(items, answer) ==
    cache' = [text \in Texts |->
        IF text \in ToSet(items) /\ answer[text] \notin {Abnormal, Omitted}
        THEN {answer[text]} ELSE cache[text]]

\* Mutant of MissingFrom: omitted texts are not counted.
MissingNone(items, answer) == 0

MissingFrom(items, answer) == Cardinality({i \in DOMAIN items : answer[items[i]] = Omitted})

Advance(failed) ==
    LET rest == SubSeq(running.rest, Len(Chunk) + 1, Len(running.rest)) IN
    IF rest # <<>>
    THEN /\ running' = [running EXCEPT !.rest = rest, !.failed = @ + failed]
         /\ UNCHANGED job
    ELSE Complete(IF running.failed + failed > 0 THEN "failed" ELSE "succeeded")

TranslateChunk ==
    /\ running.pc = "chunks"
    /\ LET items == Targets(Chunk, job[running.id].force) IN
       \E answer \in Answers(items) :
        /\ Store(items, answer)
        /\ abnormal' = abnormal \cup {text \in ToSet(items) : answer[text] = Abnormal}
        /\ Advance(MissingFrom(items, answer))
    /\ UNCHANGED <<epoch, queue, closing, left, faults>>

\* The call fails, or a write does after some texts are stored.
ChunkFails ==
    /\ running.pc = "chunks"
    /\ faults > 0 /\ faults' = faults - 1
    /\ LET items == Targets(Chunk, job[running.id].force) IN
        \E n \in 0..(Len(items) - 1) :
            Store(SubSeq(items, 1, n), [text \in ToSet(items) |-> text])
    /\ Advance(Len(Chunk))
    /\ UNCHANGED <<epoch, queue, closing, left, abnormal>>

----------------------------------------------------------------------------
(* Around it *)

SelectAccount ==
    /\ epoch < MaxEpoch /\ epoch' = epoch + 1
    /\ UNCHANGED <<cache, job, queue, running, closing, left, faults, abnormal>>

\* shutdown_task_queue: accepted work is drained, unless the process ends first.
Shutdown ==
    /\ ~closing /\ closing' = TRUE
    /\ UNCHANGED <<epoch, cache, job, queue, running, left, faults, abnormal>>

Restart ==
    /\ \/ closing /\ queue = <<>> /\ running.pc = "idle" /\ UNCHANGED faults
       \/ faults > 0 /\ faults' = faults - 1
    /\ job' = [j \in Jobs |-> NoJob]
    /\ queue' = <<>> /\ running' = NotRunning /\ closing' = FALSE
    /\ abnormal' = {}
    /\ UNCHANGED <<epoch, cache, left>>

Init ==
    /\ epoch = 0
    /\ cache = [text \in Texts |-> Nothing]
    /\ job = [j \in Jobs |-> NoJob]
    /\ queue = <<>>
    /\ running = NotRunning
    /\ closing = FALSE
    /\ left = MaxRequests
    /\ faults = MaxFaults
    /\ abnormal = {}

Next ==
    \/ SubmitTranslationJob \/ Take \/ CheckEpoch \/ Prepare \/ TranslateChunk \/ ChunkFails
    \/ SelectAccount \/ Shutdown \/ Restart

Spec == Init /\ [][Next]_vars

----------------------------------------------------------------------------
\* A text is cached with its own translation or as needing none, however short
\* hashes collide within a chunk or between the chunks of a job (translation.py:36-43).
OwnTranslation == \A text \in Texts : cache[text] \subseteq {text, NoNeed}

\* A job that reports success has left no text without a translation, except what
\* the agent called abnormal: omissions and failed chunks count (translation_jobs.py:66).
SuccessIsComplete ==
    [][\A j \in Jobs : job[j].status = "running" /\ job'[j].status = "succeeded"
        => \A text \in ToSet(job[j].texts) : cache'[text] # Nothing \/ text \in abnormal']_vars
=============================================================================
