---------------------------- MODULE SourceCache -----------------------------
(***************************************************************************)
(* The decrypted copy of the client's message database                     *)
(* (shared/backend/im_db_middleware.py, utils/im_wal.py, crm/account_keys). *)
(*                                                                         *)
(* The client keeps writing its database, a main file and a WAL, while the *)
(* service thread copies the pair.  A refresh holds both locks, so of the  *)
(* middleware nothing else moves meanwhile, except readers that let go of  *)
(* a pinned copy and the transfer of an earlier copy to the CRM.  The      *)
(* validation of the saved key at startup reads outside the locks.         *)
(***************************************************************************)
EXTENDS Integers, Sequences, SequencesExt, FiniteSetsExt

CONSTANTS
    Accounts,       \* pairs of a seller and a data directory
    LoggedIn,       \* the one the client runs with, whose database it writes
    MaxWrites,      \* bound: transactions of the client
    MaxBuilds,      \* bound: copies built
    MaxRequests,    \* bound: requests of the user, restarts
    MaxFaults       \* bound: files that cannot be read, transfers that fail

NoFile == 0
NoOne == "no account"

VARIABLES
    account,        \* the selected account
    source,         \* the client's database of each account
    saved,          \* im_account_key: absent, bad or good for the source
    key,            \* the account of the key in memory, if any
    enabled,        \* _auto_enabled
    validation,     \* [task, state]: the startup validation and its sequence
    build,          \* the refresh under way
    cached,         \* _cached_db_path
    copy,           \* each copy made: whose, and whether it is one state of the source
    files,          \* the files that exist
    pins,           \* files that readers hold
    held,           \* the fingerprint of the source the live copy was made of
    transfer,       \* [active, pending]: the files handed to the coordinator
    left,           \* requests left
    faults          \* faults left

vars == <<account, source, saved, key, enabled, validation, build, cached, copy, files, pins,
          held, transfer, left, faults>>

keyVars == <<saved, key, enabled, validation>>
cacheVars == <<build, cached, copy, files, held>>

----------------------------------------------------------------------------
(* The client's files *)

\* main holds the transactions up to a number, or is being brought to another; a
\* frame of the WAL has the salt it was written under, and the client knows how
\* many it uses.
NewSource == [main |-> 0, goal |-> 0, salt |-> 0, wal |-> <<>>, used |-> 0, stamp |-> 0]

\* Two transactions are in the WAL.
FirstSource == [NewSource EXCEPT !.used = 2,
    !.wal = <<[salt |-> 0, write |-> 1], [salt |-> 0, write |-> 2]>>]

\* Frames up to the first that has an older salt.
Usable(s) ==
    Max({n \in 0..Len(s.wal) : \A i \in 1..n : s.wal[i].salt = s.salt})

Frames(s) == [i \in 1..Usable(s) |-> s.wal[i].write]

\* The last transaction in the pair.
Logical(s) == IF Frames(s) = <<>> THEN s.main ELSE Last(Frames(s))

\* The pair is one state of the database: no transaction between main and WAL is
\* missing, and a main file that is half written is covered by the WAL.
Whole(s) ==
    LET f == Frames(s) IN
    /\ \A i \in 2..Len(f) : f[i] = f[i - 1] + 1
    /\ f # <<>> => f[1] <= s.main + 1 /\ Last(f) >= s.main
    /\ s.goal > s.main => f # <<>> /\ Last(f) >= s.goal

Stamped(s) == [s EXCEPT !.stamp = @ + 1]

\* The last transaction of the client.
Written(s) == IF s.used = 0 THEN s.main ELSE s.wal[s.used].write

\* A restarted WAL is overwritten from its first frame on.
WriteFrame(s) ==
    LET frame == [salt |-> s.salt, write |-> Written(s) + 1]  n == s.used + 1 IN
    Stamped([s EXCEPT !.used = n,
        !.wal = IF n <= Len(@) THEN [@ EXCEPT ![n] = frame] ELSE Append(@, frame)])

\* The client's next step: a transaction, a checkpoint begun and finished, and the
\* WAL restarted.
ClientWrites ==
    LET s == source[LoggedIn] IN
    /\ \/ /\ Written(s) < MaxWrites
          /\ source' = [source EXCEPT ![LoggedIn] = WriteFrame(s)]
       \/ /\ s.goal = s.main /\ Written(s) > s.main
          /\ source' = [source EXCEPT ![LoggedIn] = Stamped([s EXCEPT !.goal = Written(s)])]
       \/ /\ s.goal > s.main
          /\ source' = [source EXCEPT ![LoggedIn] = Stamped([s EXCEPT !.main = s.goal])]
       \/ /\ s.goal = s.main /\ s.used > 0 /\ Written(s) = s.main
          /\ source' = [source EXCEPT ![LoggedIn] = Stamped([s EXCEPT !.salt = @ + 1, !.used = 0])]
    /\ UNCHANGED <<account, pins, transfer, left, faults>>
    /\ UNCHANGED keyVars /\ UNCHANGED cacheVars

----------------------------------------------------------------------------
(* Runtime state *)

NoBuild == [pc |-> "idle", seen |-> NewSource, got |-> NewSource, floor |-> 0]
\* An active transfer of an earlier selection is not mine.  One thread carries them
\* out in the order of their start.
NoTransfer == [active |-> <<>>, pending |-> NoFile]
NoValidation == [task |-> NoOne, state |-> "unverified", reading |-> NoOne, found |-> "absent",
                 started |-> FALSE]

Unlocked == build.pc = "idle"

Request == Unlocked /\ left > 0 /\ left' = left - 1

\* _reset_runtime_state and _select_sync_context.
ResetFor ==
    /\ key' = NoOne /\ enabled' = FALSE
    /\ validation' = [validation EXCEPT !.task = NoOne, !.state = "unverified"]
    /\ cached' = NoFile /\ held' = 0
    /\ transfer' = [active |-> [i \in DOMAIN transfer.active |->
                                    [transfer.active[i] EXCEPT !.mine = FALSE]],
                    pending |-> NoFile]
    /\ UNCHANGED <<build, copy, files>>

\* set_self_ali_id, set_data_dir
SetSelfAliId ==
    /\ Request /\ account' \in Accounts \ {account}
    /\ ResetFor
    /\ UNCHANGED <<source, saved, pins, faults>>

\* save_ali_key and clear_ali_key: the table first, then drop_cached_key.
ChangeKey ==
    /\ Request
    /\ \E state \in {"absent", "good"} : saved' = [saved EXCEPT ![account] = state]
    /\ ResetFor
    /\ UNCHANGED <<account, source, pins, faults>>

----------------------------------------------------------------------------
(* The key *)

\* Once in a process, when SyncService starts; nothing is checked before.
PrepareStartupValidation ==
    /\ Request /\ ~validation.started
    /\ validation' = IF validation.state = "unverified"
           THEN [validation EXCEPT !.started = TRUE, !.task = account, !.state = "verifying"]
           ELSE [validation EXCEPT !.started = TRUE]
    /\ UNCHANGED <<account, source, saved, key, enabled, pins, transfer, faults>>
    /\ UNCHANGED cacheVars

\* sync_tick takes the validation up; from here on no lock is held.
StartReading ==
    /\ Unlocked /\ validation.task # NoOne /\ validation.reading = NoOne
    /\ validation' = [validation EXCEPT !.reading = validation.task,
                                        !.found = saved[validation.task]]
    /\ UNCHANGED <<account, source, saved, key, enabled, pins, transfer, left, faults>>
    /\ UNCHANGED cacheVars

\* The account was switched, or the key saved, or a retry has begun meanwhile.
Superseded == validation.task # validation.reading \/ validation.reading # account

\* The end of _revalidate_saved_key, with the locks.  What cannot be read is tried again.
EndReading ==
    /\ Unlocked /\ validation.reading # NoOne
    /\ LET over == [validation EXCEPT !.reading = NoOne, !.found = "absent"] IN
        \/ /\ Superseded
           /\ validation' = over
           /\ UNCHANGED <<key, enabled, faults>>
        \/ /\ ~Superseded
           /\ validation' = [over EXCEPT !.task = NoOne, !.state =
                  CASE validation.found = "good" -> "valid"
                    [] validation.found = "bad" -> "invalid"
                    [] OTHER -> "unavailable"]
           /\ key' = IF validation.found = "good" THEN validation.reading ELSE key
           /\ enabled' = (enabled \/ validation.found = "good")
           /\ UNCHANGED faults
        \/ /\ ~Superseded /\ faults > 0 /\ faults' = faults - 1
           /\ validation' = [over EXCEPT !.state = "unverified"]
           /\ UNCHANGED <<key, enabled>>
    /\ UNCHANGED <<account, source, saved, pins, transfer, left>>
    /\ UNCHANGED cacheVars

\* retry_connection up to its refresh: the saved key, or the one of the running
\* client, which is saved.
Retry ==
    /\ Request
    /\ \E captured \in BOOLEAN :
        LET usable == key = account \/ saved[account] = "good" \/ captured IN
        /\ saved' = IF usable /\ key # account /\ saved[account] # "good"
                    THEN [saved EXCEPT ![account] = "good"] ELSE saved
        /\ key' = IF usable THEN account ELSE NoOne
        /\ enabled' = usable
        /\ validation' = [validation EXCEPT !.task = NoOne, !.state =
               IF usable THEN "valid" ELSE IF saved[account] = "bad" THEN "invalid" ELSE "unavailable"]
        /\ build' = IF usable THEN [NoBuild EXCEPT !.pc = "begin"] ELSE build
    /\ UNCHANGED <<account, source, cached, copy, files, held, pins, transfer, faults>>

----------------------------------------------------------------------------
(* A refresh *)

BeginRefresh ==
    /\ Unlocked /\ enabled
    /\ build' = [NoBuild EXCEPT !.pc = "begin"]
    /\ UNCHANGED <<account, source, cached, copy, files, held, pins, transfer, left, faults>>
    /\ UNCHANGED keyVars

\* The first half of _refresh_locked: equal fingerprints are enough, a burst of
\* writes is coalesced, a source that cannot be read leaves what there is.
CheckFresh ==
    /\ build.pc = "begin"
    /\ LET s == source[account]
           fresh == cached # NoFile /\ s.stamp = held
       IN  \/ build' = NoBuild /\ UNCHANGED faults /\ (cached # NoFile \/ Len(copy) = MaxBuilds)
           \/ build' = NoBuild /\ faults > 0 /\ faults' = faults - 1
           \/ /\ ~fresh /\ Len(copy) < MaxBuilds
              /\ build' = [build EXCEPT !.pc = "main", !.floor = Logical(s)]
              /\ UNCHANGED faults
    /\ UNCHANGED <<account, source, cached, copy, files, held, pins, transfer, left>>
    /\ UNCHANGED keyVars

\* used is not in the file; it is kept to compare whole files.
MainOf(s, old) == [old EXCEPT !.main = s.main, !.goal = s.goal]
WalOf(s, old) == [old EXCEPT !.salt = s.salt, !.wal = s.wal, !.used = s.used, !.stamp = s.stamp]

\* Checksums of the two files, then copies of the two, then checksums again.
Capture ==
    /\ LET s == source[account] IN
        build' = CASE build.pc = "main" -> [build EXCEPT !.pc = "wal", !.seen = MainOf(s, @)]
                   [] build.pc = "wal" -> [build EXCEPT !.pc = "copy main", !.seen = WalOf(s, @)]
                   [] build.pc = "copy main" -> [build EXCEPT !.pc = "copy wal", !.got = MainOf(s, @)]
                   [] OTHER -> [build EXCEPT !.pc = "compare", !.got = WalOf(s, @)]
    /\ build.pc \in {"main", "wal", "copy main", "copy wal"}
    /\ UNCHANGED <<account, source, pins, transfer, left, faults, cached, copy, files, held>>
    /\ UNCHANGED keyVars

\* Mutant of Stable: the sizes of the files are compared, a main file keeps its own.
StableSizes == Len(build.got.wal) = Len(build.seen.wal)

Stable == build.got = build.seen /\ source[account] = build.seen

ActiveFiles == {transfer.active[i].file : i \in DOMAIN transfer.active}

\* Mutant of Kept: only the new copy is kept.
KeptNew(new) == {new}

\* What _cleanup_stale_caches spares once the new copy is live.
Kept(new) == {new} \cup ActiveFiles \cup pins

Mine == {i \in DOMAIN transfer.active : transfer.active[i].mine}

\* The copy is decrypted, checked, opened and handed to the coordinator, which drops
\* the target that was pending; then the other files are deleted.
Publish ==
    /\ build.pc = "compare"
    /\ build' = NoBuild
    /\ \/ /\ Stable
          /\ LET new == Len(copy) + 1 IN
              /\ copy' = Append(copy, [owner |-> account,
                     sound |-> Whole(build.got) /\ Logical(build.got) >= build.floor])
              /\ cached' = new /\ held' = build.seen.stamp
              /\ transfer' = [transfer EXCEPT !.pending = new]
              /\ files' = (files \cup {new}) \cap Kept(new)
          /\ UNCHANGED faults
       \/ /\ ~Stable
          /\ UNCHANGED <<copy, cached, held, transfer, files, faults>>
       \/ /\ faults > 0 /\ faults' = faults - 1       \* a torn frame, no SQLite file
          /\ UNCHANGED <<copy, cached, held, transfer, files>>
    /\ UNCHANGED <<account, source, pins, left>>
    /\ UNCHANGED keyVars

----------------------------------------------------------------------------
(* Around it *)

\* The coordinator starts one transfer of the selection at a time.
Dispatch ==
    /\ transfer.pending # NoFile /\ Mine = {}
    /\ transfer' = [active |-> Append(transfer.active, [file |-> transfer.pending, mine |-> TRUE]),
                    pending |-> NoFile]
    /\ UNCHANGED <<account, source, pins, left, faults>>
    /\ UNCHANGED keyVars /\ UNCHANGED cacheVars

\* The oldest transfer has been read into the archive, or failed and is tried again
\* unless a newer one waits.
Transferred ==
    /\ transfer.active # <<>>
    /\ LET t == Head(transfer.active)  rest == [transfer EXCEPT !.active = Tail(@)] IN
        \/ transfer' = rest /\ UNCHANGED faults
        \/ /\ faults > 0 /\ faults' = faults - 1
           /\ transfer' = IF t.mine /\ rest.pending = NoFile THEN [rest EXCEPT !.pending = t.file] ELSE rest
    /\ UNCHANGED <<account, source, pins, left>>
    /\ UNCHANGED keyVars /\ UNCHANGED cacheVars

\* pin_source_reader: only a verified cache of the selected account.
Pin ==
    /\ Request
    /\ enabled /\ validation.state = "valid" /\ key = account /\ cached # NoFile
    /\ pins' = pins \cup {cached}
    /\ UNCHANGED <<account, source, transfer, faults>>
    /\ UNCHANGED keyVars /\ UNCHANGED cacheVars

Unpin ==
    /\ \E f \in pins : pins' = pins \ {f}
    /\ UNCHANGED <<account, source, transfer, left, faults>>
    /\ UNCHANGED keyVars /\ UNCHANGED cacheVars

Restart ==
    /\ Request
    /\ key' = NoOne /\ enabled' = FALSE /\ validation' = NoValidation
    /\ cached' = NoFile /\ held' = 0 /\ build' = NoBuild
    /\ pins' = {} /\ transfer' = NoTransfer
    /\ UNCHANGED <<account, source, saved, copy, files, faults>>

Init ==
    /\ account = CHOOSE a \in Accounts : TRUE
    /\ source = [a \in Accounts |-> FirstSource]
    /\ saved \in [Accounts -> {"bad", "good"}]
    /\ key = NoOne /\ enabled = FALSE /\ validation = NoValidation
    /\ build = NoBuild /\ cached = NoFile /\ copy = <<>> /\ files = {} /\ pins = {}
    /\ held = 0
    /\ transfer = NoTransfer
    /\ left = MaxRequests
    /\ faults = MaxFaults

Next ==
    \/ ClientWrites
    \/ SetSelfAliId \/ ChangeKey \/ PrepareStartupValidation \/ StartReading \/ EndReading \/ Retry
    \/ BeginRefresh \/ CheckFresh \/ Capture \/ Publish
    \/ Dispatch \/ Transferred \/ Pin \/ Unpin \/ Restart

Spec == Init /\ [][Next]_vars

----------------------------------------------------------------------------
\* Every copy that is served is one state of the client's database, as new as the
\* refresh that made it: no torn pair, no leftover of a restarted WAL, however the
\* client writes and checkpoints meanwhile (im_db_middleware.py:490).
CopyIsWhole ==
    \A f \in DOMAIN copy : copy[f].sound

\* The live copy, the copies of readers and the copy in transfer exist, over
\* refreshes, resets and switches of the account (im_db_middleware.py:600).
UsedFilesExist ==
    ({cached, transfer.pending} \cup ActiveFiles \cup pins) \ {NoFile} \subseteq files

\* What is served is the selected account's, opened with its key: a validation or
\* retry begun for another account never takes effect (im_db_middleware.py:345).
ServesSelected ==
    /\ enabled => key = account
    /\ cached # NoFile => copy[cached].owner = account

\* Both: readers get one state of the selected account's database
\* (im_db_middleware.py:345, :490).
ServesRightCopy == CopyIsWhole /\ ServesSelected
=============================================================================
