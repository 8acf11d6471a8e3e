# A verification of the MaaAlibabaSupplier backend

The backend (`src/backend/app`) lets a supplier work on an Alibaba chat client
from a browser. It reads the client's local message database into a CRM
database of its own, shows the conversations, and types and sends messages
through GUI automation of the client's window. There is no platform API and no
acknowledgement: whether a message was sent can only be inferred. These
questions are the core of the system, and the modules here answer them:

1. Can a message be sent twice, sent without the user's confirmation, sent to
   another contact than the confirmed one, or forgotten? (outbox)
2. Can a message be declared sent that was not? (send verification)
3. Is what the workbench shows as current what is committed? (sync)
4. Can a message be marked read that the user never saw, or can an upgrade or a
   first import flood or lose the unread? (inbox)
5. Can the update stop the application while it accepts work, or leave it shut
   for writes for ever? (updater)
6. What do the pages around them rest on: agents and their versions, suggested
   replies, experiments, translations? (workbench)
7. What do all of them rest on: the copied database, who is who, the account and
   its locks, logins, portraits, logs? (platform)

## Inventory

| Component (source under `backend/app`) | State | Operations | Correct when |
|---|---|---|---|
| Outbox store (`shared/crm/outbox_state.py`, `outbox_store.py`) | rows of `app_outbox`, events | create, transition, update_fields, retry, cancel, recover; each one write transaction with a version CAS | no call order replays a possible send, avoids the confirmation or claims one message twice |
| Outbox service (`shared/backend/outbox_service.py`, `api/routers/outbox.py`) | live authorizations, active attempt, deferred writes, stop flag | submit, confirm, cancel, retry, `_execute_attempt`, `reconcile_once`, start, stop | one click at most, only as confirmed, never after stop; every task ends |
| GUI task queue (`task_queue.py`) | bounded queue, job states, one worker | enqueue, work, shutdown | jobs run once, in order; shutdown drains |
| GUI session and runner (`gui_session.py`, `maafw_runner.py`, `gui_evidence.py`) | window generation, child process, runner lock | connect, probe, capture_gui_session, run_guarded, native calls | no native call under an old token |
| Account context (`account_context.py`, `api/account_scope.py`, `api/main.py`) | selected seller, epoch, account lock | select, AccountRoute, changing_account | no write under another account, no answer of two epochs, no circular wait |
| Send verification (`send_verification.py`, `source_messages.py`) | none: judges rows by a snapshot | match_outbox | nothing is proved by a foreign message; doubt ends |
| Sync coordinator (`sync_coordinator.py`) | selected context, pending and active targets, waiters, published state | select, request, tick, wait, clear_retry, shutdown | waiters are answered by what covers them; the state shown is true |
| IM database middleware (`im_db_middleware.py`, `im_wal.py`) | revisions, copies, pins, key | select, refresh, save key, validate, retry | what is served is one state of the right account; a copy in use is not deleted |
| IM database readers (`im_chat_db.py`, `im_layout.py`, `im_db_decryptor.py`) | none | read, decrypt, merge | (data formats) |
| CRM sync (`shared/crm/sync.py`, `sync_store.py`) | accounts, aliases, conversations, `app_crm_sync_state` | one transaction per scan; merges of aliases | all or nothing, revision with the rows; nobody becomes somebody else |
| CRM migrations and account keys (`migrations.py`, `account_keys.py`) | schema version, saved keys | migrate at startup, save, load | a key is validated before it is used |
| Inbox ledger (`shared/crm/inbox_store.py`, `inbox_queries.py`, `api/routers/conversations.py`) | scope, ledger, read cursors, read snapshots | baseline, adopt, record arrivals, mark_read | unread is neither flooded nor lost; only what was shown becomes read |
| Authentication (`api/auth.py`, `auth_cli.py`) | fingerprint, sessions, limiter | startup, login, verify, logout, revoke, middleware gate | one secret's sessions do not survive another's |
| Updater (`updater.py`, `update_runtime.py`, `update-helper.ps1`) | update phase, lease, helper process, files | check, download, hand off, arm, cancel | no write accepted beside a helper that may stop the application; every handoff ends |
| Translation jobs (`translation_jobs.py`, `shared/agent/translation.py`) | jobs, the cache of translations | submit, poll, translate a chunk | a text gets its own translation; success is complete |
| Experiments (`shared/agent/experiment*.py`, `api/routers/experiments.py`) | document with steps and progress, transcripts, runs | create, append, edit, run, cancel, delete | a rerun cuts back what it runs again; every run ends |
| Intents and agent runs (`shared/crm/intent_store.py`, `shared/agent/*`, `api/routers/agent.py`) | intents, presets, revisions, sessions | suggest, submit, accept, save, restore, converse, branch | a suggestion is sent once and alone of its batch; a session keeps its version |
| Customer portraits (`customer_portrait_store.py`, `api/routers/portraits.py`) | stage, loss, tags, versions, operations | apply a batch, edit the catalog | a batch overwrites only what its page has shown; every change is on record |
| Card sweep (`card_sweep_service.py`) | targets, progress | wake, run, stop | navigates only while what it was started for lasts |
| MITM proxy and pool (`mitm/proxy.py`, `shared/mitm`) | profiles with an index | capture, put, find, submit | the index and the profiles agree |
| Process lifecycle (`main.py`, `maafw_process.py`) | | start and stop of all services | |
| Logging, diagnostics, settings (`native_logs.py`, `process_logs.py`, `diagnostics.py`) | log sessions and leases, archives and ages | switch, prune, rotate | a log in use is kept, an old one ends |
| Frontend and packaging | draft, keys in the browser's storage | submit, retry, recover | a retry is the same submission |

How they interact. HTTP handlers call the outbox service under the account
lock. The service persists a row, captures a token of account epoch and window
generation and queues a job; the queue's only thread runs it inside
`run_guarded`, which holds the account and runner locks. A verifier thread reads
the source through the middleware and settles rows. The middleware asks the
coordinator for a sync of every new source snapshot; the coordinator hands
targets to the one-worker CRM executor, whose callbacks only queue. An account
switch bumps the epoch, selects another context in the coordinator and makes
every token of the outbox and every read snapshot of the inbox stale. The sync
transaction writes the inbox ledger before the archive. The updater's handoff
closes the write gate of the HTTP middleware, which also tells it when the
response that announces the installation is sent to its end. The suggestion agent writes
intents; the page submits one under a key of its own, the server makes it an
outbox task and then marks the intent. Experiments, sessions and translations
call the model under pinned presets, some in threads of their own beside the
requests that edit the same documents. The receiver of captured traffic writes a
pool of profiles and submits them to the executor of the CRM.

What is hard: the three threads and the HTTP requests of the outbox around two
locks; a crash between the durable mark and the click; compensation that a
database fault delays; `stop()` against an attempt that is past its checks;
verdicts computed from an old snapshot; coalesced waiters; a commit that is
published in the middle of an account selection; a sync that commits between the
reads of one page; a helper process that outlives its handoff; whole documents
written back over others' changes; a retried POST whose first answer was lost;
two processes that share a database or a log directory while one replaces the
other; a file that changes while it is copied. The list with lines is in
`PROJECT.json` under `hazards`.

## Modules

| Module | Models | Notes |
|---|---|---|
| `OutboxRules` | `outbox_state.py` and the checks of one write | constant level, shared by store, service and proofs |
| `OutboxPromise` | what the outbox promises | abstract: a phase and a claim for each task |
| `OutboxStore` | `outbox_store.py` | callers are arbitrary |
| `OutboxStoreProofs` | theorems about `OutboxStore` | checked by TLAPS |
| `OutboxService` | `outbox_service.py` and what it races | composes queue, worker, verifier, locks, stop, crash, account, window; refines `OutboxPromise` |
| `OutboxServiceProofs` | theorems about `OutboxService` | checked by TLAPS |
| `SendVerification` | `send_verification.py` in its use | clock, person, late messages |
| `SendVerificationProofs` | theorems about `SendVerification` | checked by TLAPS |
| `SyncCoordinator` | `sync_coordinator.py`, the selection of `im_db_middleware.py`, the executor | |
| `SyncCoordinatorProofs` | theorems about `SyncCoordinator` | checked by TLAPS |
| `InboxPromise` | what the workbench promises about the unread | abstract: a mark for each message and directory |
| `Inbox` | `inbox_store.py` as the sync and the conversation routes use it | refines `InboxPromise` |
| `InboxProofs` | theorems about `Inbox` | checked by TLAPS |
| `Updater` | `updater.py`, `update_runtime.py`, `update-helper.ps1` and the write gate of `auth.py` | its cfg needs no MC module |
| `UpdaterProofs` | theorems about `Updater` | checked by TLAPS |
| `Experiments` | experiment documents, transcripts and run threads | in `Workbench`; its finding alone |
| `AgentSessions` | presets, defaults, revisions, sessions | in `Workbench` |
| `Suggestions` | a reply from the suggestion agent to the outbox | in `Workbench` |
| `Translations` | translation jobs on `task_queue.py` | in `Workbench` |
| `Sublists` | list comprehensions with a condition | used by `Translations` and `Experiments` |
| `Workbench` | composes the four modules above | given constants by `MCWorkbench` |
| `WorkbenchProofs` | theorems about `Workbench` and its parts | checked by TLAPS |
| `SourceCache` | `im_db_middleware.py`: copies, pins, keys | in `Platform` |
| `Identities` | `pool.py`, `proxy.py`, the accounts and aliases of `sync.py` | in `Platform` |
| `Portraits` | `customer_portrait_store.py` and its routes | in `Platform` |
| `ClientSession` | account context, window, locks, card sweep | in `Platform` |
| `Auth` | sessions, startups, limiter | in `Platform` |
| `NativeLogs` | `native_logs.py` | in `Platform` |
| `LogRotation` | `process_logs.py` | in `Platform` |
| `Platform` | composes the seven modules above | given constants by `MCPlatform` |
| `PlatformProofs` | theorems about `Platform` and its parts | checked by TLAPS |
| `MC*` | constants for TLC | |

`Workbench` and `Platform` each put several components together for one run. The
components of such a group share no variable: what one needs of another (the
selected account, a pinned file) is part of its own module. Exploring the product
would multiply their states and show nothing more, so `focus` chooses one whose
behaviour it is and the others stay as they began. One component of the group is
extended; the others are instances, with a variable renamed where two modules use
the same name. `WorkbenchProofs` and `PlatformProofs` show that each component behaves in
the composition as its own module says (`PartsOfWorkbench`, `PartsOfPlatform`).

The definitions that a comment calls "mutant of" another one are that
definition with a plausible bug: substituted for it, they break the property
named in `PROJECT.json`, which shows that the property can fail.

### OutboxRules, OutboxStore

A row keeps its status, version, attempt, action (`send` or `test`),
`may_have_sent`, the screenshot (id, time and digest as one value), the
baseline, whether evidence is recorded, and the matched message. Text,
timestamps and the payload are left out: `_validate_editable` makes them
immutable. `ValidTransition`, `ValidUpdate` and `ValidValues` are
`_validate_transition`, `_validate_editable` and `_validate_values`. Each
transaction (`BEGIN IMMEDIATE`) is one action; a refused write rolls back and is
no action. `Recover` is the one transaction over all pending rows. `logged` is
the newest `app_outbox_events` entry of a row.

The idempotency key with its scope is UNIQUE, so a key stands for its row.
`create` of an existing key returns or refuses, without a write.

### OutboxService

One seller's tasks. `rows` are the durable rows; `attempts` is `_attempts`,
`pending` is `_pending_terminal_writes`, `worker` is the queue's thread in
`_execute_attempt` with a program counter, `worker.snap` is `_active[id]`,
`worker.rec` the local `record`. `verifier` is the epoch under which
`reconcile_once` reads.

*Locks.* `_condition` is held inside each `with self._condition` block. Such a
block is one action (no other holder can interleave), except the third one
(lines 386-396): the stop flag is set without the lock and a process can die
between the mark, the second look at the flag and the post, so it is split in
`Barrier`, `Arm` and `Click`, and `LockFree` is false in between. `account_lock`
is held by `run_guarded` for a whole GUI action and by HTTP writes
(`AccountFree`). `cancel` takes neither (`Cancel` only needs `LockFree`), and
`submit` is split in two sections with the account lock held.

*Tokens.* `token` is (account epoch, window generation); `TokenValid` is
`_validate_token`, probed before every native call. Epochs alternate between the
seller of `Tasks` and another one.

*Faults.* A failing database write makes the callback raise (`Fails`), or keeps a
deferred write (`Flush`). `ReadMayFail` also lets the first read of a job fail,
which is outside the `try`. `Exit` loses all but `rows` and may be a crash at any
program counter or the exit after stop; `Boot` runs `recover`.

*Screens.* A frame is a value of `Shots`; `screen` changes whenever the user, a
message or a blind contact search changes it. A capture takes the present one,
`Decide` compares it with the confirmed one, or finds it expired. `approved` is a
history variable: the frame the user confirmed.

### SendVerification

The messages of one contact carry an author that no definition taken from the
code looks at; only the properties do. `Candidates` is `_candidates`, `Verdict`
is `match_outbox`. Sends are made one after another by the one worker (`Busy`).
Assumed, because no code could do without it: one clock for the backend and the
client, and less than the 120 s window between the start of an input and its
message (`MaxInput <= Window`). Without them a message that is outside its own
task's window could match another task of the same text.

### SyncCoordinator

`c` holds the fields the coordinator's lock protects. `Request`, `SelectBegin`,
`SelectEnd`, `Tick` and the two halves of `shutdown` are its locked sections;
`SelectRead` reads the archive's stored state between two of them. That read may
fail (im_db_middleware.py:191-196): the failure is caught, the selection stays with
the blank state of its first section, and nothing reads again before the next sync of
the account. `unrestored` remembers it, for it is the one case in which nothing is
outstanding and the revision shown is not the archive's (Observations); `FreshIsTrue`
then says that the blank state is shown and counts as stale. `crm` is the
executor's queue, `result` its futures, `calls` the done callbacks that have not
run, `done` is `_completed`. A target is named by its own waiter and holds the
waiters it took over. The `tick()` at the end of `request()` is a section of its
own and so a separate `Tick`; the polling thread gives the fairness. A failed
target of the selected context is asked for again by the coordinator, which
takes one more target id (`Targets = 1..MaxTarget + MaxFailure`). `Run` waits for the
callback of the job before it, which the executor's only thread (sync.py:57) calls.

Left out: archives that hold a state when the process starts and revisions kept from
then, the texts of the status, contexts without a seller, and starting the service again in the same
process after `shutdown`.

### Inbox

One seller's ledger over its data directories and the one archive they share.
`opened` are the rows of `app_inbox_scope`, `seq` and `history` those of
`app_inbox_message`, `read` those of `app_inbox_state`, `synced` those of
`app_crm_sync_state`. `WriteInbox` is `write_inbox`; a sync and a first visit
call it with their own arguments (`CommitSync`, `Visit`). A write transaction is
one action; the check of `_inbox_store` before `initialize` is part of `Visit`,
because `write_inbox` looks again inside the transaction. A detail request takes
its watermark (`TakeSnapshot`), loads the archive (`LoadMessages`) and filters by
the scope (`Respond`), with syncs in between; requests exclude each other by the
account lock. A token lives in the browser and survives selections and
restarts; a new epoch for each of them stands for the context's epoch and for
`_TOKEN_KEY`.

Abstracted: a message belongs to one conversation; its other columns are
"edited" or not; the client's database holds any set of messages when a sync
reads it (they may be deleted there); `has_selected_archive` holds once the
archive has a message. The reply states, filters and pages of the list only read
the ledger. `shown` and `upgrade` are history variables.

Adoption as documented has a consequence: with two old directories, the first
one opened claims the whole archive, and what the second one imports again is
unread there. `OpensQuietly` therefore excepts messages another ledger claims.

### Updater

`u` holds the fields the updater's lock protects; each locked section is an
action. `cycle` is the one check or download thread, `install` is
`install_update`, which runs on the event loop: while it waits for the helper no
response ends and no second installation begins. `attempt[n]` is the n-th helper
process with the files it shares with the application. `Respond` is the end of
the middleware's `__call__`: a response sent to its end arms the handoff, a
broken one cancels it, one that is never read does neither. Time is the end of
a lease (`LeaseEnds`). A build stands for its candidate id. `Query` may find any
newer build, since runs also disappear. `Vanish` removes an installer the
application does not hold (`Fragile`).

Left out: `cancel.json`, which only hastens what `Poll` may do anyway;
`last_result` and diagnostics; the start of the new version; the pruning of old
stages. Writes that were admitted before the handoff are not waited for, by
design (`backend/app/README.md:175`).

### Experiments

`doc` is `Experiment.content` (steps, progress, owner), `hist` the transcripts of
the variants, `run` the registry of `experiment_runs.py` with one program counter
per variant. A request holds the account lock from its read of the document
(`BeginAppend`, `BeginEdit`, ...) to its write and so is two actions; a run's
thread holds nothing and interleaves anywhere. `WriteTurn` and `RecordProgress`
are the two writes of `_run_variant`. `Save` and `RecordProgress` write whole
documents, so progress that another writer recorded in between is lost.
`disturbed` collects the variants to which that, a failed second write or a crash
between the two happened. Their buyer may be heard twice (Observations). A rerun
cuts with `Cut`, Python's slice, whose bound may be -1: `BeforeOf` is
`len(messages) - 2` also where a step added one turn only. `outrun` collects the
variants that were rerun while their checkpoint was beyond their turns: for them
the finding `buyer_once` holds, for all others `RetriesTruncate` must.

A variant that is added later is given the buyer's turns that the others share
(experiments.py:299-318) and neither a completion nor a checkpoint of their steps. So a
run of such a step finds it pending, cuts nothing and appends the buyer's message once
more, without any fault or race (Observations). `given` is the number of turns it was
given, and `RetriesTruncate` counts the turns after them: the message comes once more
and not again, for later runs cut back to there. `BuyerOnce` counts all turns; in the
run `buyer_once` there is one variant and so no newcomer.

### AgentSessions

One system agent, one regular agent and the sessions that try them. A version
stands for prompt, level and tools. `Startup` delivers the release's default by
the fingerprint rule of `ensure_system_agents_seeded`, `WriteDefault` is its three
writes with a fault after any. A session's `pin` is what `versions.py` records:
none, the saved preset, a revision, a draft. `Regenerate`, `Branch` and `Fork`
follow the list operations of `chat_history_content.py`. `torn` marks the one
case `DefaultsDelivered` leaves out: an upgrade before the next start has repaired
an interrupted delivery.

Left out: a database of a release without fingerprints that holds an untouched default
older than the first release modelled; the code then cannot tell it from a user's prompt.

### Suggestions

The server's tables (`intents`, `tasks`), the page's state (`shown`, `draft`,
`dialog`, `waiting`) and the browser's storage (`saved`); `posts` are requests
under way, which may be lost, late, or answered to a page that was reloaded.
`Submit` is the whole of `submit` in useOutbox.ts: find the key this submission
continues, save it, post. `SendMessage` is one request of the server, which makes
the task in one transaction and marks the intent in another (`Fault` in between).
`again` counts the user's deliberate new sends of a text.

### Translations

`queue`, `job` and `running` are `task_queue.py` with one worker, `cache` the
table. A chunk is written text by text; `ChunkFails` stops after any of them.
`Hash` is the short hash, a constant: the run gives all texts the same one until
they are salted.

### SourceCache

`source` is the client's main file and WAL of each account, which `ClientWrites`
appends to, checkpoints and restarts. A refresh is `BeginRefresh`, `CheckFresh`,
`Capture` (the main file, then the WAL, with client steps in between, compared by
fingerprint) and `Publish` (swap, deletion of what nobody holds). `copy[f].sound`
says whether a copy is one state of the source. `validation` is the startup
thread that reads outside the locks under a sequence number. `transfer` are the
files handed to the coordinator.

### Identities

Three captures bring one or two aliases of a person each, sometimes those of two
people. The pool's writers run at once on the receiver's threads, so each is one
action under the pool's lock; `queue` is the executor of the CRM. `crm.alias` is
`app_account_alias`, `crm.contact` the customer of each conversation.

### Portraits

A batch is a message in `sent` with the view it was composed on; `Apply` is the
transaction, which may be delivered twice or late, between `UpdateTag`, other
batches and `Sync`. `operation` keeps the snapshot before and the payload, as
`app_portrait_operation` does.

### ClientSession

`locks` are the account lock, the runner's and the middleware's, `threads` the
requests, the queue's worker and the card sweep, each with the locks it still
has to take. Selecting an account is three writes (configuration, context,
served epoch); a request without the account lock reads in between. `binding` is
the window the runner is connected to with its generation; the person at the
client closes and opens windows at any time. `connects` is a history variable:
the generation alone is what the code compares, `connects` is what it must mean.

Left out: a write of the configuration that fails, which ends the selection before the
context is set.

### Auth

Processes of an old and a new release and the shell command share
`auth_sessions` and `auth_metadata`; each has the secret of its environment.
`Initialize` is one transaction. A request is admitted by `Contains` and handled
later, so another process may rotate the fingerprint in between. `issued`,
`rotations` and `ended` are history.

### NativeLogs, LogRotation

`NativeLogs`: two processes with sessions leased by file locks; switching the
native log, closing, listing and deleting are separate steps, each of which may
fail; a crash drops the leases. `LogRotation`: a file and its archives with an age
file beside each; every rename, age write and deletion is a step that may fail or
be the last one.

## Runs

All bounds are constants of the cfg. Deadlock is not checked in any run: the bounds
(versions, requests, messages, time) end every behaviour, and a stopped service or
coordinator really stops.

| Run | Module | Bounds | Properties, and what they show |
|---|---|---|---|
| `store` | MCOutboxStore | 2 keys of one scope, 1 message, 6 versions | `RowsConsistent`, `NeverReplayed`, `ConfirmedBeforeInput`, `KeepsPromise` (unique claims, final phases) |
| `service` | MCOutboxService | 1 task, 2 attempts, 9 versions, 2 account switches, 1 window change, 1 crash, 1 fault, stop | `InputIsOwned`, `NoLateCompensation`, `ClickAsConfirmed`; `TasksEnd` |
| `service_pair` | MCOutboxService | 2 tasks, 1 attempt, 4 versions, 1 crash, 1 fault, stop | `NoneStranded`, `KeepsPromise` |
| `full_queue` | MCOutboxService | 2 tasks, 1 place in the queue | violation of `ConfirmedIsQueued`, see Findings |
| `lost_job` | MCOutboxService | 1 task, 1 fault of a first read | violation of `AttemptsEnd`, see Findings |
| `sync` | MCSyncCoordinator | 3 contexts over 2 archives, 3 source revisions, 3 requests, 1 failure | `AnswersTrue`, `NeverRegresses`; `RequestsEnd` |
| `inbox` | MCInbox | 2 directories, 1 conversation, 3 messages, 3 revisions, 1 selection or restart, 1 token | `ReadWasShown`, `OpensQuietly`, `KeepsPromise` |
| `updater` | Updater | 2 builds, 2 attempts, 1 fragile installer | `GateHeld`, `InstallsAsConfirmed`; `UpdatesEnd` |
| `verification` | MCSendVerification | 2 tasks and a person with one text, 2 messages, 2 ticks, window, slack and input of 1 | `NoMisattribution`; `VerifierSettles` |
| `workbench` | MCWorkbench | below | `RetriesTruncate`, `DefaultsDelivered`, `AnswersPinned`, `SentOnce`, `OneOfBatch`, `OwnTranslation`, `SuccessIsComplete`; `RunsEnd` |
| `platform` | MCPlatform | below | `ServesRightCopy`, `UsedFilesExist`, `NeverRedirected`, `StaleRefused`, `AuditExplains`, `NavigatesForSelection`, `AnsweredInOneEpoch`, `NoCircularWait`, `LetInWithLiveToken`, `WriterKept`, `OldStaysOld` |
| `buyer_once` | Experiments | 1 variant, 2 steps, 5 runs, 7 requests, no fault | violation of `BuyerOnce`, see Findings |

Several properties are conjunctions of facts that fail for the same reasons:
`InputIsOwned` is the types, `ClickedOnceAndMarked` and `InputOwnsRow`; `TasksEnd`
is `AttemptsEnd` and `VerificationEnds`; `AnswersTrue` is `AnswersCover` and
`FreshIsTrue`; `RequestsEnd` is `WaitersAnswered` and `NewestCommitted`;
`InstallsAsConfirmed` is `StopIsConfirmed` and `InstallerKept`; `UpdatesEnd` is
`HandoffEnds` and `CyclesEnd`; `VerifierSettles` is `ProvableIsObserved` and
`WaitEnds`; `ServesRightCopy` is `CopyIsWhole` and `ServesSelected`.

Bounds of `workbench`: experiments with 2 accounts, 2 variants, 2 runs, 2 steps,
4 requests and 1 fault; sessions with 2 accounts, 2 sessions, 1 edit, 2 releases,
4 requests and 1 fault; suggestions with 2 intents, 3 keys, 8 actions of the user
and 2 faults; translations with 3 texts in chunks of 2, 2 jobs, 2 places, 1 change
of the account, 2 submissions and 1 fault. Of `platform`: the cache with 2
accounts, 3 writes of the client, 2 copies, 2 requests and 1 fault; identities
with a buyer and the seller, 3 captures, 2 places and 1 crash; portraits with 2
conversations, 2 customers, 1 tag, 2 batches, 2 edits and 1 repetition; the client
with 2 accounts, 2 concurrent and 3 requests in all, 2 windows and 2 targets;
logins with 2 processes, 2 secrets, 2 tokens, 6 requests and 1 fault; native logs
with 2 processes, 3 sessions, 1 job, 3 starts and 2 failures; rotation with 2
archives, ages and sizes of 2, 4 ticks and 2 failures.

The larger runs reach 0.2 to 2 million distinct states and take between half a
minute and four minutes.

Why the bounds suffice. The outbox's dangerous orders involve one task with an
older and a newer attempt (two attempts), a fault that delays a write into the
newer one, one restart, and an account that leaves and comes back (two
switches, so the seller is the same but the epoch is not). In `service` nine
versions let the second attempt click; in `store` six take it to its screenshot,
and longer histories of a row are covered by the theorems, as are more tasks.
Two tasks are needed only for the queue and for a shared
message. The coordinator needs a third context that shares the archive of the
first, since only then does a deselected job publish, and three requests, so
that one is active, one pending and one replaces it. Misattribution needs a
rival with the same text; a task with another text never matches, so it adds
only states. The inbox needs a message of the old archive, one of the source and
one that arrives late, and a second directory for claims; more conversations and
tokens are covered by the theorems. The updater needs an attempt whose helper
outlives its handoff while the next one runs, and a second build that is
downloaded beside the installation of the first. An experiment needs a rerun of
a step after a later one, and a run beside it; a session a version that is
replaced, deleted and restored below it; a suggestion a sibling, a lost answer and
a reload before the retry; a chunk two texts with one hash and a third that comes
in the next chunk. A copy needs a client that checkpoints and restarts its WAL
between the two reads; a circle of locks needs two threads with two locks each,
and there are four threads; a stale navigation an account that changes after the
capture and perhaps comes back; a token a rotation there and back again, which two
secrets and two processes allow; a log a process that cleans up beside another
that was left half-way in a switch.

Keys, tasks, messages, directories and requests are symmetric where the cfg says
so; runs with liveness use no symmetry.

## Fairness

Only `service`, `lost_job`, `sync`, `updater`, `verification` and `workbench`
assume any.

* Outbox: the queue's worker, a request that has begun, the verifier's loop and
  `stop()` keep running (weak fairness of their steps) and a process that is down
  is started again. Nothing is assumed of the user, the account or the window.
  `SF(Decided)`: `match_outbox` answers "wait" only up to 120 s after the send
  (send_verification.py:95), so a verifier that keeps reading does not answer it
  for ever; the account may be deselected again and again in between, hence strong.
* Sync: the polling thread ticks, backoffs expire, the executor and its callbacks
  run. No request is assumed: `NewestCommitted` rests on the coordinator's retry.
* Updater: the cycle's thread and `install_update` run on (network calls and the
  wait for the helper have deadlines), the watchdog polls, the lease runs out and
  a helper acts or ends. Nothing is assumed of responses: a client may never read.
* Verification: the clock advances, and a source that is readable again and
  again is read (strong fairness of `Read(TRUE)`).
* Experiments: the threads of each run are scheduled. Calls of the model end, by
  their timeout at the latest; requests, switches and crashes need not come.

`WaitersAnswered` and `NewestCommitted` speak of all waiters and requests at
once: requests are bounded, so a waiter that is never answered would leave
`Blocked` true for ever.

## What is proved

TLAPS checks eight modules of theorems. Each assumes no more than the named
assumptions of the module it extends, which TLC evaluates in every run.

**Store.** `OutboxStoreProofs` proves, for all sets of keys, scopes, messages,
screenshots and baselines and every `MaxVersion`, from `RulesAssumption` (the
"none" values are no members of their sets) and `StoreAssumption`:
`TypeCorrect`, `RowsAlwaysConsistent`, `ClaimsAlwaysUnique`,
`AuditAlwaysCurrent`, `NoReplay`, `FinalsStay`, `InputIsConfirmed` and
`StoreKeepsPromise`.

The argument has two layers. `StepsAreAccepted` shows of each action that every
row is unchanged or changed by an *accepted* write (`Accepts`: a new row, a
checked edit, `Retried`, `Recovered`) and that the newest event follows. All
else is argued for one row over `Accepts`. `RowsConsistent` is not preserved by
the checks alone, for `retry` and `recover` bypass them; it is inductive because
`Retried` applies to unmarked rows only and `Recovered` leaves the mark and
drops the screenshot in a status that needs none. The inductive invariant is
`TypeOK /\ RowsConsistent /\ ClaimsUnique /\ AuditCurrent`; the action
properties and the refinement follow from it with the accepted writes. The
refinement needs `RowsConsistent`: without it an unmarked row might be observed
or a marked one retried, which `OutboxPromise` forbids.

**Service.** `OutboxServiceProofs` proves, for every finite set of tasks and every
bound, from `RulesAssumption` and `ServiceAssumption`, all safety properties of
the runs `service` and `service_pair`: `InputAlwaysOwned`, `CompensationNeverLate`,
`ClicksAsConfirmed`, `NeverStranded`, `ServiceKeepsPromise`. None is inductive. What
holds a click back from a second one, from a changed frame or from a cancelled task is spread over the row, the job in
the queue, the worker's local copies and the authorization, so the invariant says
how these agree:

* `RowsOK`: the row's version and attempt, its screenshot while it waits or
  runs, no mark before it runs, and `approved` is the row's screenshot;
* `QueueOK`: a job is of this version of its row or an older one, and if of this
  one the row waits for just that job;
* `ActiveOK`, `RecordOK`: the worker's task keeps its attempt, and its snapshot
  and local record are the row or an older version of it;
* `InputOK`: from the input on the row is what the worker wrote itself, or
  `stop()` has made it uncertain; so no compare-and-set of another thread can have
  got in between, and between mark and post nothing was clicked;
* `FreshOK`: before `submit()` binds it nobody knows of a task;
* `PendingOK`: a deferred write that still applies is of an attempt that is
  neither authorized nor at work.

Every write takes a later version (`Advance`), so copies only get older and
deferred writes stop applying; `OutsideKeeps` argues this once for all callers
that are not the worker, `OwnTaskKeeps` for the worker, and `RefusedFacts` for
`_fail_if_current`, which is where rows, authorizations and deferred writes change
at once.

`NeverStranded` (`NoneStranded`) has one hypothesis, `Ample`: the queue has a place
for every task and the reads of a row succeed. Findings 1 and 2 are what happens
without it, so the theorem says that these two are the only ways to strand a task.
Its invariant `NInv` adds to `IInv`, while the service is up:

* `OneEach`: the queue holds at most one job of a task, so with a place for every
  task there is one for the job that is enqueued (`RoomForOne`);
* `Good(t)`: a queued job, the worker's snapshot and an authorization are of the
  row's version unless the task was cancelled, and a row that waits for work or is
  at work is `Served` by a job or a deferred write, is with the worker (`At`) that
  has not `Left` it, is with `submit()`, or waits for the user.

The lemmas say what an enqueue, a dequeue and a `_fail_if_current` do to the jobs
of one task (`AppendJobs`, `TailJobs`, `TaskFacts`, `NewestFlushed`), and
`OneTaskKeeps` that a step which touches one task leaves the others good.

`ServiceKeepsPromise` needs of the rows that exactly the observed ones have claimed a
message and that what waits for a verdict is marked (`Kept`), and that no two have
claimed the same message (`ClaimsDiffer`); then each action is a step of
`OutboxPromise` or a stutter (`StepRefines`).

**Verification.** `SendVerificationProofs` proves, for any tasks, texts, slack and
window, from `VerificationAssumption`: `NothingMisattributed`. `match_outbox` names a
message only if it is the one candidate of one task, so the danger is a message of
another task while a task's own is late. The invariant says that a message a task
sent is one `match_outbox` takes for a possible message of that task (`SentOK`): its
click is marked, its baseline is final and earlier than the message, and the message
lies in the task's window. So a foreign message that is a candidate has a rival, its
author, and the verdict is ambiguous. That needs that ids are given out once and what
is read or held in a baseline was sent (`Numbered`), that no baseline speaks of a
later moment (`ClockOK`), that what is shown is a message of its own task or of the
person (`MatchedOK`), and that no two tasks are shown with one (`Distinct`).

**Sync.** `SyncCoordinatorProofs` proves, for any archives, contexts and bounds, from
`SyncAssumption` and `NoneAssumption`, the safety properties of the run `sync`:
`AnswersAlwaysTrue`, `NothingRegresses`, and `TypeCorrect`. `tick()` takes one
finished target after another from a queue, and each may change the coordinator and
the answers, ask again and publish, so the invariant must hold between two turns of
its loop. It is stated of a coordinator, answers, questions, a source revision and the
set of finished targets still to be looked at, and the loop is handled by induction
over its turns (`TraceExists`, `LoopKeeps`; with the least number principle, because
the induction theorems of the library cannot be used here). Its parts:

* `ActiveOK`, `OneEach`: the target at work in a context covers what its waiters
  asked for, and what it committed is in the archive of that context;
* `PendingOK`, `LastOK`: the pending target is of the selected context and, like the
  last one, of the newest snapshot;
* `QueueOK`: the executor's jobs are at work, in the order of their snapshots, and
  none is older than what is committed anywhere; so no commit takes an archive back;
* `SelectOK`, `ShownOK`: what the selection read, and what is shown, is not ahead of
  the archive;
* `ViewOK`: a commit that is not shown is on its way: read by the selection, or the
  outcome of a target that is still to be completed (`Coming`);
* `CoverOK`, `UsedOK`: an answer covers the question, and every target that was given
  out has a waiter;
* `NewestOK`, `OrderOK`: if an outcome of an archive is still to be completed, its newest
  commit is too, and outcomes are completed in the order of their commits; so after the
  last one the newest revision is shown;
* `NothingRestored`: after a failed restore nothing of the archive is shown until one of
  its outcomes is completed;
* `BudgetOK`: failures that are not completed yet leave an id for their retries, so
  that the bound of the model is never what stops the coordinator.

**Inbox.** `InboxProofs` proves, for all sets of directories and conversations, any
finite set of messages and every bound, from `InboxAssumption`: `TypeCorrect`,
`LedgerAlwaysBacked`, `ReadAlwaysShown`, `UpgradeAlwaysKeepsHistory`,
`ChangesAreAnnounced`, `OpeningIsQuiet` and `InboxKeepsPromise`, that is all the
run checks.

`ReadWasShown` is not inductive. The invariant adds that a loaded page holds
every row of its conversation up to its watermark, which was taken before
(`PageOK`); that no token is of a later epoch and those of the present one cover
only what was shown (`TokensOK`); that what was shown is in the selected ledger
(`ShownOK`); and that rows are in the archive with numbers of their own, none
beyond the last one given out, so that new rows lie beyond every watermark
(`LedgerOK`). `UpgradeKeepsHistory` needs that archive and sync states are as
the upgrade found them until something is opened (`UpgradeOK`), and
`OpensQuietly` that only adopted history opens a directory before its first sync
(`VisitedOK`). `WriteFacts` and its companions state once what `write_inbox` does; visit and
sync cite them.

**Updater.** `UpdaterProofs` proves, for any number of builds and attempts, from
`UpdaterAssumption`: `GateAlwaysHeld` and `InstallsConfirmed`. The gate is closed
because a helper that was told to go on and can still stop the application belongs
to the handoff that is armed (`GateOK`): an armed handoff is never given up by the
lease, and one that is not armed has a helper that was not told to go on. That
needs what the files of an attempt say of its helper (`FilesOK`) and how the
stages of `install_update` hold the runtime (`InstallOK`). The installer is kept
because what is offered is what is held (`OfferOK`) and a cleanup spares both it
and what is handed over (`HandedOK`).

**Platform.** `PlatformProofs` has a section for each part of `Platform` and proves
everything the run `platform` checks, from `PlatformAssumption`: the account that is
logged in is one of the accounts; a snapshot lists finitely many conversations; batches
and conversations are numbered and there is a first conversation (the model takes the
least unused number for the next random id); the worker, the sweep and nobody are not
requests and 0, which stands for no owner of a lock, is no process; and a rotated log has
at least one archive (`process_logs.py:94` refuses less).

* *Logins* (`StoreIsLive`, `LetInIsLive`): a token in the database is of the stored
  fingerprint and of the last rotation and was ended by nobody; so whoever is let in has
  a live one. Needed: numbers of tokens are given out once (`NumbersOK`), else a logout
  could end a later token.
* *Copies* (`CopyIsServedWhole`, `UsedFilesAlwaysExist`): the frames of a WAL that are in
  use have its present salt and are of consecutive transactions that continue the main
  file, and what follows them is older (`SourceOK`); so what a refresh reads up to the
  last valid frame is one state of the database, and none older than what the client
  had written when it began (`SourcesOK`). What is served is the selected account's
  (`ServesSelected`), and what is served, pinned, pending or in transfer is kept
  (`FilesOK`).
* *Identities* (`NeverRedirects`): a profile is stored under its ali_id (`PoolOK`), and
  the customer of a conversation is the account of its buyer's ali_id (`ContactOK`), so
  that resolving it again, also in a conflict, finds the same. `Grows` (what was known is
  known unchanged) is shown of one account, of one conversation, and then of a snapshot,
  by induction over its conversations with the least number principle.
* *Portraits* (`AuditAlwaysExplains`, `StaleIsRefused`): of a request, that every customer
  its page has shown has since only got later versions, or is still as it was shown
  (`RequestOK`); of a customer, that each version has exactly one operation, whose
  snapshot is the version before and whose changes lead to the snapshot of the next or to
  the present record (`AuditOK`). A version thus has one content, and the comparison of
  versions in `apply` compares contents.
* *The client's session* (`NavigatesForTheSelection`, `AnswersAreOfOneEpoch`,
  `LocksNeverCircle`): a thread has just the locks its operation has taken so far
  (`LocksOK`), and the account lock is always the first of two; what a request did was
  done in its epoch or a later one, and the context differs from the settings only while
  a selection is between its writes (`EpochsOK`); a generation is of one connection, and
  a posted input is of the account, epoch and connection of its token (`TokensOK`).
* *Native logs* (`WriterAlwaysKept`): what a process may write to it leases, what it leases
  exists and is locked by it alone (`Keeps`), and what it is about to delete nobody leases
  (`Deletes`).
* *Rotation* (`OldLinesStayOld`): the age beside a file is never later than its first line,
  also where an interrupted rotation has left one beside no file, and archives are in
  order (`AgesOK`); within a rotation, the place a file moves to is empty (`RotationOK`).

`PlatformIsSafe` puts them together: by `PartsOfPlatform` every behaviour of the
composition is one of each part.

**Workbench.** `WorkbenchProofs` has a section for each part of `Workbench` and proves
every safety property the run `workbench` checks, for all sets and bounds, from
`WorkbenchAssumption` and the assumption of `Suggestions`: an account is selected; steps
are counted from 0; a version that a user writes is not one of a release, nor the empty
one; a text is not empty; and the loop of `translation.py:36` finds a salt, that is, with
fewer short hashes taken than there are texts some salt gives a free one. The last holds
of SHA-256 for all but unimaginable texts; where it fails the loop does not end.

* *Suggestions* (`OneAcceptedReply`, `SentAtMostOnce`): draft, dialog and posts carry the
  text of the intent they carry (`LinksOK`), and batches are numbered without a gap, so
  that a new run of the agent does not join an old batch (`BatchesOK`); whatever was
  posted or created was posted under a key that had been saved with its text before
  (`KeysOK`), and a text has at most one saved key more than there were deliberate new
  sends (`CountOK`).
* *Agents* (`DefaultsAreDelivered`, `AnswersArePinned`): the row of the system agent is
  what the user saved; or it is not there, or the running release's, or the one the
  recorded fingerprint names, so that the next start replaces it (`DefaultsOK`).
  The answers of a session with a pin are all by the pinned version, but for a pinned empty
  prompt, which runs the present preset; `Regenerate`, `Branch` and `Fork` take turns away
  or copy them with the pin (`SessionsPinned`).
* *Translations* (`CacheIsOwn`, `SuccessesAreComplete`): what is written for a text is
  found by its hash, so no two texts that are still to be sent may share one. Each
  hash is fresh among those of the texts before (`FreshHash`, by the least number
  principle), which are fewer than the texts (`FewHashes`), so all differ
  (`HashesDiffer`). Of every
  text of the running job, that it is still to be sent, done, or counted as failed
  (`NothingForgotten`): a job that counts none and has none left has done all.
* *Experiments* (`AskedAtMostOnce`): see below.

`RetriesTruncate` is the least inductive of them. A transcript, the document's
checkpoints, and the copies of both that each run and request holds have to agree though
none is locked, and `ExperimentsInv` says how far they do for the variants that are
neither `disturbed` nor `outrun`:

* `TranscriptsOK`: beyond the turns that a variant was given when it was added, the
  buyer's message of a step is in its transcript at most once, after the step's checkpoint
  if it has one, and not at all if it has none, unless a run has written it and will
  record it. A checkpoint of -1 is of a step of the agent alone;
* `CopiesOK`: what a copy knows, the document knows too and the same; what the document
  knows and a copy does not is what a write of the copy forgets (`Forgotten`), and then
  the variant is `disturbed`. A checkpoint is of a step that exists and of a variant that
  was created, so a new variant has none;
* `WorksOK`: a run that works on a variant knows of its own step what the document does;
  `OneRun`: no other run can record that step meanwhile; `Alone`: no other run has read
  or written the transcript;
* `TurnsOK`: a turn that is under way began with the transcript cut at its checkpoint,
  which was within it, and a written one is the transcript.

The steps that leave document and transcripts alone are argued at once (`Steady`), those
of one run's thread on one variant by `MovesKeep`, and the three writers of the whole
document by `Follows`: for the variants that stay undisturbed a write keeps what was
known and adds at most the step it records. A newcomer has no turn but those it was given,
so nothing is claimed of them. `AskedOnce` is the heart: a transcript cut
at a checkpoint and continued has the message once, also where Python's slice was taken
to -1.

`WorkbenchIsSafe` puts the four together: by `PartsOfWorkbench` every behaviour of the
composition is one of each part.

Only model-checked: liveness (`TasksEnd`, `RequestsEnd`, `UpdatesEnd`, `VerifierSettles`,
`RunsEnd`), which rests on fairness and `ENABLED` and so is outside the prover's reach.
Every other property of a passing run is a theorem.

## Findings

1. *A confirmed task without a job* (`full_queue`). When the worker has left
   `run_guarded` after saving the screenshot, `account_lock` is free, but the task
   stays in `_active` until the `finally` section. A confirm in between moves the
   row to `queued_send`; if the queue refuses the job, `_fail_if_current` returns
   at once because the id is active (outbox_service.py:266-267). Neither a job nor
   a deferred write is left. `test_outbox_service.py:367`, also parametrised for
   the confirm, expects `failed`; it calls confirm after the worker has gone.
   `NoneStranded` is checked with a queue that has room for every job.
2. *A job lost to a transient fault* (`lost_job`). The first read of the row
   (outbox_service.py:334) is outside the `try`; if it raises, the queue logs a
   failed job and nothing is written later, although `backend/app/README.md:111`
   says that a transient database failure only delays the result. The `service` runs
   therefore let every access but this one fail (`ReadMayFail` is FALSE).
3. *The buyer's message twice* (`buyer_once`). A forced rerun of a step cuts the
   transcript back and leaves the checkpoints of later steps as they were. If a later
   step is rerun now, its checkpoint is beyond the turns: the cut is skipped
   (experiments router, 662), and since the recorded checkpoint is kept
   (`setdefault`), the buyer's turn stands below it. The next rerun of that step
   cuts behind it and appends the buyer's message again; `backend/app/README.md:100`
   says it is appended only once. TLC's trace has no fault and one variant: an agent
   step, a buyer step, the first rerun once, the second twice. The agent step matters
   only because its checkpoint is one too small (686); with three buyer steps,
   rerunning the first and then the third twice does the same. This came out of the
   attempt to find an inductive invariant for `RetriesTruncate`: the small instance
   of `workbench`, with two runs and four requests, does not reach it.

## Observations

Met while modelling. No line of the repository says otherwise plainly enough for a
run, or the code they concern is not modelled; they are here for its authors.

* Experiments: a variant's transcript is written (router, 679-685) before its
  checkpoint (686). If the process ends in between, the second write fails, or a
  request that read the document earlier writes it back whole, the next run of the
  step finds no checkpoint, cuts nothing and appends the buyer's message again; so
  does a run that worked on the transcript beside another. And so does the first run of a
  step for a variant that was added after it: `add_variant` gives it the buyer's turns of
  the shared dialogue (experiments.py:166, 299-318) without a completion or a checkpoint,
  `guard_step_run` returns it as pending, and `_run_variant` (router, 661-665) cuts nothing
  and appends. `backend/app/README.md:100` says that the message is appended only once and
  an unfinished variant can be run by itself, the docstring experiments.py:407-410 that
  rerunning a step must not append it twice, and `test_agent_experiments.py:265-268` that
  the newcomer joins at the same input; the test does not run the step for it. It takes a
  second variant and no fault, and `BuyerOnce` with two variants shows it at once; the run
  of finding 3 has one variant, to show the other way. The checkpoint of a step is
  `len(messages) - 2`, also for a step without a buyer's message, so a rerun of it
  drops the answer before it. `record_step_progress` writes a whole document it read earlier, so a step
  appended in the meantime is lost with its annotations. A session endpoint may
  edit a variant while a run's thread writes it. The docstring that names
  `reconcile_interrupted` names a function that does not exist.
* Sync: when `read_sync_state` fails while an account is selected
  (im_db_middleware.py:191-196), revision 0 stays on display with `sync_error` until the
  account's next sync, though the archive has a state; there is no second read.
* Agents: regenerating an answer drops the buyer's question as well; a session
  pinned to an empty prompt runs the current preset.
* Suggestions: a recovered submission has lost its intent id; when the mark of an
  intent fails its siblings can still be requested; two tabs overwrite each
  other's saved keys; only the first three replies are shown though all are
  recorded as requested.
* Translations: the context is read from the account selected after the epoch
  check (translation_jobs.py:49-54). A task that is enqueued after
  `shutdown_task_queue` goes to a queue nobody drains.
* Source: `save_ali_key` writes the table before it drops the cached key.
* CRM: a snapshot is refused for ever when login and encrypted alias belong to two
  accounts and there is no ali mapping (sync.py:173-175). The seller's `is_self`
  mark that proxy.py:197-200 sets is overwritten by `sync_user_infos`
  (sync.py:109-119, 248), where the README asks for it (README.md:147).
* Pool: `find_by_product_id` matches substrings (pool.py:415).
* Portraits: the stage `lost` is accepted without a reason, which PORTRAITS.md
  calls required; renaming a tag in case only is ignored.
* Client: after `stop()` a sweep navigates its remaining targets without a pause,
  and `stop()` joins for five seconds only. `get_client_status` probes, and may
  reset the binding, with only the run lock although the docstring of
  `_probe_binding` asks for both. Between the write of `set_self_ali_id` and the
  invalidation a reader without the lock makes an epoch that the invalidation ends
  at once, which costs a 409.
* Auth: a process created with the old secret whose startup comes late, or the
  command under another environment, undoes a newer rotation (auth.py:105-118; the
  comment at auth.py:123 speaks of one direction).
* Logs: session directories that no process owns and that were never closed are
  not reclaimed.

## Not modelled, and the plan

Left out, and why:

* The readers and the decryption of foreign database files, migrations, the
  parsing of captured payloads, diagnostics and the texts of states: data formats
  and I/O without concurrent state of their own.
* The order in which `main.py` starts and stops the services: each service's own
  stop is modelled; their composition would need the modules of both groups at
  once.
* The frontend but for the submission of a message, and the packaging scripts.
* The model's own tool loop and the settings of the language model: external.

What would come next:

1. The shutdown order of `main.py` over the queue, the outbox, the coordinator and
   the card sweep.
2. The remaining fields of `customer_portrait_store.py` and of the list filters in
   `inbox_queries.py`, as operators checked against reference definitions.
