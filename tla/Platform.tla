-------------------------------- MODULE Platform -------------------------------
(***************************************************************************)
(* What the pages and the outbox stand on: the copies of the client's      *)
(* database, the captured identities, the portraits, the client's session, *)
(* the logins and the logs.  The modules share no variable: what one needs *)
(* of another (the selected account, files that are pinned, native jobs)   *)
(* is part of its own module.  So one run explores them side by side:      *)
(* focus says whose behaviour it is, the others stay as they began.  Auth  *)
(* is extended, the others are instances.                                  *)
(***************************************************************************)
EXTENDS Auth

CONSTANTS
    Accounts, LoggedIn, MaxWrites, MaxBuilds, MaxAsks,              \* SourceCache
    Buyers, Seller, MaxQueue, MaxCaptures,                          \* Identities
    Sids, Cids, Tags, Names, Stages, Reasons, Batches, MaxEdits,    \* Portraits
    Requests, MaxCalls, MaxWindows, MaxTargets,                     \* ClientSession
    Processes, MaxSessions, MaxJobs, MaxStarts,                     \* NativeLogs
    Archives, MaxAge, MaxSize, MaxTime,                             \* LogRotation
    MaxFailures                                                     \* NativeLogs, LogRotation

\* A snapshot lists finitely many conversations; the portraits' batches and conversations
\* are numbered and begin with a first conversation; a lock that nobody holds has the
\* owner 0.
ASSUME PlatformAssumption ==
    /\ LoggedIn \in Accounts
    /\ IsFiniteSet(Buyers)
    /\ Batches \subseteq Nat /\ Sids \subseteq Nat /\ Sids # {}
    /\ {"worker", "sweep", "nobody"} \cap Requests = {}        \* the other threads
    /\ MaxSessions \in Nat /\ 0 \notin Processes
    /\ Archives \in Nat \ {0}

VARIABLES
    focus,
    account, source, saved, key, enabled, validation, build, cached, copy, files, pins, held,
    transfer, asks, unreadable,
    pool, index, queue, crm, synced, captures, crashes,
    contact, visible, portrait, tag, revision, operation, sent, edits, repeats,
    config, context, serving, window, windows, binding, generations, locks, threads, tasks, sweep,
    connects, requests,
    process, writer, session, made, starts, failures,
    file, age, opened, step, now, troubles

sourceCache == <<account, source, saved, key, enabled, validation, build, cached, copy, files, pins,
                 held, transfer, asks, unreadable>>
identities == <<pool, index, queue, crm, synced, captures, crashes>>
portraits == <<contact, visible, portrait, tag, revision, operation, sent, edits, repeats>>
client == <<config, context, serving, window, windows, binding, generations, locks, threads, tasks,
            sweep, connects, requests>>
auth == <<secret, fingerprint, tokens, app, command, issued, rotations, ended, left, faults>>
nativeLogs == <<process, writer, session, made, starts, failures>>
rotation == <<file, age, opened, step, now, troubles>>

S == INSTANCE SourceCache WITH MaxRequests <- MaxAsks, left <- asks, faults <- unreadable

I == INSTANCE Identities WITH MaxRequests <- MaxCaptures, left <- captures, faults <- crashes

P == INSTANCE Portraits WITH Requests <- Batches, faults <- repeats

C == INSTANCE ClientSession WITH MaxRequests <- MaxCalls, left <- requests

N == INSTANCE NativeLogs

R == INSTANCE LogRotation WITH failures <- troubles

PlatformInit ==
    /\ focus \in {"cache", "identities", "portraits", "client", "logins", "native logs", "logs"}
    /\ S!Init /\ (focus # "cache" => saved = [a \in Accounts |-> "good"])
    /\ I!Init
    /\ P!Init /\ (focus # "portraits" => contact = [s \in Sids |-> CHOOSE c \in Cids : TRUE])
    /\ C!Init /\ (focus # "client" => config = LoggedIn)
    /\ Init /\ (focus # "logins" => secret = CHOOSE s \in Secrets : TRUE)
    /\ N!Init
    /\ R!Init

PlatformNext ==
    \/ /\ focus = "cache" /\ S!Next
       /\ UNCHANGED <<focus, identities, portraits, client, auth, nativeLogs, rotation>>
    \/ /\ focus = "identities" /\ I!Next
       /\ UNCHANGED <<focus, sourceCache, portraits, client, auth, nativeLogs, rotation>>
    \/ /\ focus = "portraits" /\ P!Next
       /\ UNCHANGED <<focus, sourceCache, identities, client, auth, nativeLogs, rotation>>
    \/ /\ focus = "client" /\ C!Next
       /\ UNCHANGED <<focus, sourceCache, identities, portraits, auth, nativeLogs, rotation>>
    \/ /\ focus = "logins" /\ Next
       /\ UNCHANGED <<focus, sourceCache, identities, portraits, client, nativeLogs, rotation>>
    \/ /\ focus = "native logs" /\ N!Next
       /\ UNCHANGED <<focus, sourceCache, identities, portraits, client, auth, rotation>>
    \/ /\ focus = "logs" /\ R!Next
       /\ UNCHANGED <<focus, sourceCache, identities, portraits, client, auth, nativeLogs>>

platform == <<focus, sourceCache, identities, portraits, client, auth, nativeLogs, rotation>>

PlatformSpec == PlatformInit /\ [][PlatformNext]_platform

--------------------------------------------------------------------------------
\* What is served is one state of the selected account's database, whatever the
\* client writes meanwhile (im_db_middleware.py:345, :490).
ServesRightCopy == S!ServesRightCopy

\* No file is deleted that is served, pinned or in transfer (im_db_middleware.py:600).
UsedFilesExist == S!UsedFilesExist

\* Aliases and conversations never move to another account (sync.py:209, :357).
NeverRedirected == I!NeverRedirected

\* Every portrait is explained by the snapshots of the operations that made it
\* (customer_portrait_store.py:491).
AuditExplains == P!AuditExplains

\* A batch overwrites only what its page has shown (customer_portrait_store.py:491).
StaleRefused == P!StaleRefused

\* GUI input is posted only while the session it was captured for lasts
\* (gui_session.py:67, :100-105).
NavigatesForSelection == C!NavigatesForSelection

\* An answer is of the one epoch it tells (api/main.py:55-57).
AnsweredInOneEpoch == C!AnsweredInOneEpoch

\* The locks are never waited for in a circle (account_context.py:82).
NoCircularWait == C!NoCircularWait

\* The directory a native runtime writes to is kept (native_logs.py:101-105).
WriterKept == N!WriterKept

\* Rotation never makes old lines younger (process_logs.py:162).
OldStaysOld == R!OldStaysOld
================================================================================
