--------------------------------- MODULE Inbox ---------------------------------
(***************************************************************************)
(* The unread state of one seller: the ledger of shared/crm/inbox_store.py *)
(* as the sync transaction (shared/crm/sync.py) and the conversation       *)
(* routes (api/routers/conversations.py) use it.  A write transaction is   *)
(* one action (BEGIN IMMEDIATE); the three reads of one detail request are *)
(* separate, since a sync may commit between any two of them.              *)
(*                                                                         *)
(* A message belongs to one conversation.  Its other columns (direction,   *)
(* time, kind) are left out: that they changed is the "edited" of a sync.  *)
(* In the client's database messages arrive and are deleted at any time,   *)
(* so the snapshot a sync read, whenever it did, may be any set of them.   *)
(***************************************************************************)
EXTENDS Integers, FiniteSets

CONSTANTS Dirs,           \* data directories of the seller's client
          Sids,           \* conversations
          Mids,           \* external message ids
          SidOf,          \* the conversation of each message
          NoPage, NoDir,
          MaxRevision,    \* bound: inbox revision of a directory
          MaxEpoch,       \* bound: selections and restarts
          MaxTokens       \* bound: read snapshots the browser holds

ASSUME InboxAssumption ==
  /\ IsFiniteSet(Mids)
  /\ SidOf \in [Mids -> Sids]
  /\ NoDir \notin Dirs
  /\ MaxRevision \in Nat /\ MaxEpoch \in Nat /\ MaxTokens \in Nat

VARIABLES
  archive,    \* CRM messages of the seller: one table for all directories
  synced,     \* directories with a row in app_crm_sync_state
  opened,     \* directories with a row in app_inbox_scope
  last,       \* their last_seq
  revision,   \* their inbox_revision
  seq,        \* ingest_seq of each message in each directory, 0 without a row
  history,    \* the rows with is_history
  read,       \* read_seq of each conversation in each directory
  syncing,    \* directory whose snapshot is read and not yet committed
  dir,        \* data directory of the selected context
  epoch,      \* of the selected context: a new one for each selection and process
  page,       \* the detail request in progress
  tokens,     \* read snapshots returned to the browser, which outlives restarts
  shown,      \* history variable: messages shown in this epoch
  upgrade     \* history variable: what the first version with a ledger found, and
              \* the first directory it opened

crm == <<archive, synced, opened, last, revision, seq, history, read>>
vars == <<archive, synced, opened, last, revision, seq, history, read,
          syncing, dir, epoch, page, tokens, shown, upgrade>>

Token == [dir: Dirs, sid: Sids, epoch: Nat, seq: Nat]
Page  == [sid: Sids, seq: Nat, loaded: BOOLEAN, msgs: SUBSET Mids]

TypeOK ==
  /\ archive \in SUBSET Mids
  /\ synced \in SUBSET Dirs
  /\ opened \in SUBSET Dirs
  /\ last \in [Dirs -> Nat]
  /\ revision \in [Dirs -> Nat]
  /\ seq \in [Dirs -> [Mids -> Nat]]
  /\ history \in [Dirs -> SUBSET Mids]
  /\ read \in [Dirs -> [Sids -> Nat]]
  /\ syncing \in Dirs \cup {NoDir}
  /\ dir \in Dirs
  /\ epoch \in Nat
  /\ page \in Page \cup {NoPage}
  /\ tokens \in SUBSET Token
  /\ shown \in SUBSET Mids
  /\ upgrade \in [archive: SUBSET Mids, synced: SUBSET Dirs, first: Dirs \cup {NoDir}]

\* A database of an older version: an archive, with or without sync states, no ledger.
Init ==
  /\ archive \in SUBSET Mids
  /\ synced \in SUBSET Dirs
  /\ opened = {}
  /\ last = [d \in Dirs |-> 0]
  /\ revision = [d \in Dirs |-> 0]
  /\ seq = [d \in Dirs |-> [m \in Mids |-> 0]]
  /\ history = [d \in Dirs |-> {}]
  /\ read = [d \in Dirs |-> [s \in Sids |-> 0]]
  /\ syncing = NoDir
  /\ dir \in Dirs
  /\ epoch = 0
  /\ page = NoPage
  /\ tokens = {}
  /\ shown = {}
  /\ upgrade = [archive |-> archive, synced |-> synced, first |-> NoDir]

--------------------------------------------------------------------------------
(* write_inbox *)

Recorded(d) == {m \in Mids : seq[d][m] > 0}

Claimed(d) == UNION {Recorded(e) : e \in Dirs \ {d}}

\* Mutant of AdoptsArchive: the baseline is repeated.
AdoptsAgain(d) == d \in synced \/ synced \cup opened = {}

AdoptsArchive(d) == /\ d \notin opened
                    /\ d \in synced \/ synced \cup opened = {}

Adopted(d) == IF AdoptsArchive(d) THEN archive \ Claimed(d) ELSE {}

\* Sequence numbers of new rows: a position each, adopted messages first.
Orders(new, adopted) ==
  {o \in [new -> 1..Cardinality(new)] :
     /\ \A m, n \in new : o[m] = o[n] => m = n
     /\ \A m \in new \cap adopted, n \in new \ adopted : o[m] < o[n]}

\* One transaction on the ledger of d over a payload of messages.  "asHistory": the
\* source snapshot is the baseline; "edited": a row already there has other columns.
WriteInbox(d, payload, asHistory, edited) ==
  LET new == payload \ Recorded(d)
  IN /\ \E o \in Orders(new, Adopted(d)) :
          seq' = [seq EXCEPT ![d] = [m \in Mids |-> IF m \in new THEN last[d] + o[m] ELSE @[m]]]
     /\ history' = [history EXCEPT ![d] = @ \cup (IF asHistory THEN new ELSE new \cap Adopted(d))]
     /\ last' = [last EXCEPT ![d] = @ + Cardinality(new)]
     /\ IF d \notin opened \/ new # {} \/ edited
        THEN revision[d] < MaxRevision /\ revision' = [revision EXCEPT ![d] = @ + 1]
        ELSE UNCHANGED revision
     /\ opened' = opened \cup {d}
     /\ upgrade' = [upgrade EXCEPT !.first = IF @ = NoDir THEN d ELSE @]
     /\ UNCHANGED read

--------------------------------------------------------------------------------
(* Sync of the selected directory: read a snapshot, commit it or roll back *)

ReadSource ==
  /\ syncing = NoDir
  /\ syncing' = dir
  /\ UNCHANGED <<crm, dir, epoch, page, tokens, shown, upgrade>>

\* The archive is written after the ledger, so the ledger sees the previous commit.
CommitSync ==
  /\ syncing # NoDir
  /\ \E msgs \in SUBSET Mids :
       LET d == syncing
           baseline == d \notin opened /\ d \notin synced /\ Adopted(d) = {}
       IN /\ \E edited \in {FALSE, msgs \cap Recorded(d) # {}} :
               WriteInbox(d, msgs \cup Adopted(d), baseline, edited)
          /\ synced' = synced \cup {d}
          /\ archive' = archive \cup msgs
  /\ syncing' = NoDir
  /\ UNCHANGED <<dir, epoch, page, tokens, shown>>

\* Any failure before the commit rolls everything back.
FailSync ==
  /\ syncing # NoDir
  /\ syncing' = NoDir
  /\ UNCHANGED <<crm, dir, epoch, page, tokens, shown, upgrade>>

--------------------------------------------------------------------------------
(* Requests: one at a time, each under the account lock *)

Idle == page = NoPage

\* Mutant of Visit: a visit that finds nothing to adopt consumes the baseline.
VisitAnyhow ==
  /\ Idle
  /\ dir \notin opened
  /\ archive # {}
  /\ WriteInbox(dir, Adopted(dir), FALSE, FALSE)
  /\ UNCHANGED <<archive, synced, syncing, dir, epoch, page, tokens, shown>>

\* The first request on a directory adopts its archive; without one it must be synced.
Visit ==
  /\ Idle
  /\ dir \notin opened
  /\ archive # {}
  /\ Adopted(dir) # {} \/ dir \in synced
  /\ WriteInbox(dir, Adopted(dir), FALSE, FALSE)
  /\ UNCHANGED <<archive, synced, syncing, dir, epoch, page, tokens, shown>>

InConversation(s) == {m \in Mids : SidOf[m] = s}

Rows(d, s) == InConversation(s) \cap Recorded(d)

\* The watermark is taken before the detail is loaded.
TakeSnapshot(s) ==
  /\ Idle
  /\ dir \in opened
  /\ \E m \in Rows(dir, s) :
       /\ \A n \in Rows(dir, s) : seq[dir][n] <= seq[dir][m]
       /\ page' = [sid |-> s, seq |-> seq[dir][m], loaded |-> FALSE, msgs |-> {}]
  /\ UNCHANGED <<crm, syncing, dir, epoch, tokens, shown, upgrade>>

LoadMessages ==
  /\ page # NoPage /\ ~page.loaded
  /\ page' = [page EXCEPT !.loaded = TRUE, !.msgs = archive \cap InConversation(page.sid)]
  /\ UNCHANGED <<crm, syncing, dir, epoch, tokens, shown, upgrade>>

\* Mutant of Respond: the watermark is taken after the detail is loaded.
RespondLate ==
  /\ page # NoPage /\ page.loaded
  /\ LET msgs == page.msgs \cap Recorded(dir)
     IN IF msgs = {}
        THEN UNCHANGED <<tokens, shown>>
        ELSE /\ \E m \in Rows(dir, page.sid) :
                  /\ \A n \in Rows(dir, page.sid) : seq[dir][n] <= seq[dir][m]
                  /\ tokens' = {[dir |-> dir, sid |-> page.sid, epoch |-> epoch, seq |-> seq[dir][m]]}
             /\ shown' = shown \cup msgs
  /\ page' = NoPage
  /\ UNCHANGED <<crm, syncing, dir, epoch, upgrade>>

\* Only messages of this directory's ledger are shown; with none the request is a 404.
Respond ==
  /\ page # NoPage /\ page.loaded
  /\ LET msgs == page.msgs \cap Recorded(dir)
         token == [dir |-> dir, sid |-> page.sid, epoch |-> epoch, seq |-> page.seq]
     IN IF msgs = {}
        THEN UNCHANGED <<tokens, shown>>
        ELSE /\ Cardinality(tokens \cup {token}) <= MaxTokens
             /\ tokens' = tokens \cup {token}
             /\ shown' = shown \cup msgs
  /\ page' = NoPage
  /\ UNCHANGED <<crm, syncing, dir, epoch, upgrade>>

\* mark_read verifies the token against the request's conversation and context.
Accepted(token) ==
  /\ token.dir = dir
  /\ token.epoch = epoch
  /\ \E m \in Rows(dir, token.sid) : token.seq <= seq[dir][m]

MarkRead(token) ==
  /\ Idle
  /\ dir \in opened
  /\ Accepted(token)
  /\ token.seq > read[dir][token.sid]
  /\ revision[dir] < MaxRevision
  /\ read' = [read EXCEPT ![dir][token.sid] = token.seq]
  /\ revision' = [revision EXCEPT ![dir] = @ + 1]
  /\ UNCHANGED <<archive, synced, opened, last, seq, history,
                 syncing, dir, epoch, page, tokens, shown, upgrade>>

--------------------------------------------------------------------------------
(* Selections and restarts *)

\* A selection, of the same directory too, waits for the request in progress.
Select ==
  /\ Idle
  /\ epoch < MaxEpoch
  /\ epoch' = epoch + 1
  /\ dir' \in Dirs
  /\ shown' = {}
  /\ UNCHANGED <<crm, syncing, page, tokens, upgrade>>

\* The process ends anywhere; the browser keeps its tokens.
Restart ==
  /\ epoch < MaxEpoch
  /\ epoch' = epoch + 1
  /\ syncing' = NoDir
  /\ page' = NoPage
  /\ shown' = {}
  /\ UNCHANGED <<crm, dir, tokens, upgrade>>

Next ==
  \/ ReadSource \/ CommitSync \/ FailSync
  \/ Visit \/ LoadMessages \/ Respond
  \/ \E s \in Sids : TakeSnapshot(s)
  \/ \E token \in tokens : MarkRead(token)
  \/ Select \/ Restart

Spec == Init /\ [][Next]_vars

--------------------------------------------------------------------------------
(* Properties *)

\* The ledger never runs ahead of what can be shown: each row's message is in the
\* archive, no directory has rows without a baseline, and both a cursor and a read
\* snapshot stay within the numbers given out (inbox_store.py:117-126, 401-404).
LedgerBacked ==
  \A d \in Dirs :
    /\ Recorded(d) \subseteq archive
    /\ d \notin opened => Recorded(d) = {}
    /\ \A m \in Mids : seq[d][m] <= last[d]
    /\ \A m, n \in Recorded(d) : seq[d][m] = seq[d][n] => m = n
    /\ history[d] \subseteq Recorded(d)
    /\ \A s \in Sids : read[d][s] <= last[d]
    /\ \A token \in tokens : token.dir = d => token.seq <= last[d]

\* Whatever the browser may still mark read has been shown to the user since the
\* account was selected: a page that was loaded while a sync committed, a tab of an
\* earlier selection or process and a token of the other directory included
\* ("Concurrent arrivals after that boundary stay unread", inbox_store.py:29).
ReadWasShown ==
  \A token \in tokens :
    Accepted(token) => {m \in Rows(dir, token.sid) : seq[dir][m] <= token.seq} \subseteq shown

\* An upgrade keeps exactly the old archive as history in the first directory it may
\* be assigned to, whether the user visits first or a sync commits first
\* (backend/app/README.md:119).
UpgradeKeepsHistory ==
  LET d == upgrade.first
  IN /\ d # NoDir
     /\ d \in upgrade.synced \/ upgrade.synced = {}
     /\ upgrade.archive # {} \/ d \in upgrade.synced
     => history[d] = upgrade.archive

\* Opening a directory never makes archived messages unread, unless another
\* directory's ledger claims them; and the first complete import of a directory
\* makes a message unread only beside adopted history ("首次完整导入不产生历史未读",
\* backend/app/README.md:119), whatever was visited before it.
OpensQuietly ==
  [][\A d \in Dirs :
       LET unread == {m \in Mids : seq'[d][m] > 0} \ history'[d]
       IN /\ d \in opened' \ opened => unread \cap archive \subseteq Claimed(d)
          /\ d \in synced' \ synced => unread = {} \/ history'[d] # {}]_vars

\* Every change of a directory's unread state raises its inbox_revision, by which
\* an open list notices it; nothing lowers a revision.
ChangesAnnounced ==
  [][\A d \in Dirs :
       /\ revision'[d] >= revision[d]
       /\ <<seq[d], history[d], read[d]>>' # <<seq[d], history[d], read[d]>>
            => revision'[d] > revision[d]]_vars

--------------------------------------------------------------------------------
(* The inbox keeps its promise. *)

MarkOf(d, m) == IF seq[d][m] = 0 THEN "absent"
                ELSE IF m \in history[d] THEN "history"
                ELSE IF seq[d][m] > read[d][SidOf[m]] THEN "unread" ELSE "read"

Promise == INSTANCE InboxPromise
             WITH mark <- [d \in Dirs |-> [m \in Mids |-> MarkOf(d, m)]],
                  selected <- dir

\* Every behaviour of the ledger is a behaviour of the abstract inbox: one baseline
\* for each directory, arrivals unread, and reading only what was shown.
KeepsPromise == Promise!PSpec
================================================================================
