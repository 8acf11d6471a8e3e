---------------------------- MODULE ClientSession ----------------------------
(***************************************************************************)
(* The selected account, the window of the client and the locks that keep  *)
(* them still (shared/backend/account_context.py, gui_session.py,          *)
(* maafw_runner.py, card_sweep_service.py, api/account_scope.py, main.py). *)
(*                                                                         *)
(* Requests, the task worker and the card sweep take the account lock and  *)
(* then the lock of the GUI runner or of the database middleware.  Nothing *)
(* stops the user from closing the client's window at any moment.          *)
(***************************************************************************)
EXTENDS Integers, Sequences

CONSTANTS
    Accounts,       \* values of the configured account
    Requests,       \* the requests that run at once
    MaxRequests,    \* bound: requests made
    MaxWindows,     \* bound: windows of the client, opened one after another
    MaxTargets      \* bound: conversations of a sweep

VARIABLES
    config,         \* the account in the configuration file
    context,        \* _context: the account that was read last and its epoch
    serving,        \* the epoch that the source's status tells
    window,         \* the client's window: 0 if none, or not just one, is found
    windows,        \* windows opened so far
    binding,        \* the window the runner is connected to, its generation, is it up
    generations,    \* generations made so far
    locks,          \* the owner of each lock
    threads,        \* what each thread does
    tasks,          \* the jobs of the task queue
    sweep,          \* [wake, stop, targets]: what the sweep was told and has to visit
    connects,       \* history: how often the user connected the client
    left            \* requests left

vars == <<config, context, serving, window, windows, binding, generations, locks, threads, tasks,
          sweep, connects, left>>
clientVars == <<window, windows, binding, generations, connects>>
accountVars == <<config, context, serving>>

Threads == Requests \cup {"worker", "sweep"}
Nobody == "nobody"
NoBinding == [window |-> 0, generation |-> 0, up |-> FALSE]

\* A GUI session: the account and generation it was captured for.
NoToken == [account |-> Nobody, epoch |-> 0, generation |-> 0, connects |-> 0]

\* held: how many of its locks the thread has; did: the epochs whose data it worked on.
NoWork == [op |-> "none", pc |-> "idle", held |-> 0, epoch |-> 0, account |-> Nobody,
           did |-> {}, token |-> NoToken]

----------------------------------------------------------------------------
(* The account *)

\* get_account_context: another account in the configuration is a new epoch.
Current == IF context.account = config THEN context
           ELSE [account |-> config, epoch |-> context.epoch + 1]

Invalidated == [account |-> config, epoch |-> context.epoch + 1]

\* Mutant of Order: GUI work takes the lock of the runner first.
OrderRunnerFirst(op) ==
    CASE op \in {"read", "send", "select", "key"} -> <<"account", "source">>
      [] op = "navigate" -> <<"runner", "account">>
      [] op \in {"goto", "connect", "capture"} -> <<"account", "runner">>
      [] op = "unpin" -> <<"source">>
      [] OTHER -> <<>>

\* What each operation locks, in the order in which it does.
Order(op) ==
    CASE op \in {"read", "send", "select", "key"} -> <<"account", "source">>
      [] op \in {"goto", "connect", "navigate", "capture"} -> <<"account", "runner">>
      [] op = "unpin" -> <<"source">>
      [] OTHER -> <<>>

\* Settings and the requests that may not wait refuse while the account is in use.
RejectBusy(op) == op \in {"send", "select", "key", "connect"}

Owner(t, lock) == locks[lock] = t

\* Mutant of MayTake: the settings do not look at the account lock.
MayTakeSettings(t, lock) ==
    \/ locks[lock] \in {Nobody, t}
    \/ lock = "account" /\ threads[t].op \in {"select", "key"}

MayTake(t, lock) == locks[lock] \in {Nobody, t}
Released(t) == [lock \in DOMAIN locks |-> IF Owner(t, lock) THEN Nobody ELSE locks[lock]]

Holds(t) == threads[t].held = Len(Order(threads[t].op))
Next1(t) == Order(threads[t].op)[threads[t].held + 1]

\* The thread waits for a lock that another one has.
Waits(t) == /\ threads[t].pc = "lock" /\ ~Holds(t)
            /\ ~MayTake(t, Next1(t))
            /\ ~(RejectBusy(threads[t].op) /\ Next1(t) = "account")

----------------------------------------------------------------------------
(* The window *)

\* Observing the window drops a binding that is not to it, or that is broken.
Probed == IF window = 0 \/ binding.window # window \/ ~binding.up THEN NoBinding ELSE binding
Connected == Probed # NoBinding

TokenOf == [account |-> Current.account, epoch |-> Current.epoch,
            generation |-> binding.generation, connects |-> connects]

ValidToken(token) ==
    /\ token.epoch = Current.epoch /\ token.account = Current.account
    /\ token.account # Nobody
    /\ token.generation = Probed.generation
    /\ Connected

\* The connection that is made, if the window has none that works.
Initialised(bound, made) ==
    IF window = 0 THEN bound = NoBinding /\ made = generations
    ELSE IF Connected THEN bound = binding /\ made = generations
    ELSE \/ bound = NoBinding /\ made = generations
         \/ /\ made = generations + 1
            /\ bound = [window |-> window, generation |-> made, up |-> TRUE]

----------------------------------------------------------------------------
(* Requests *)

Set(t, work) == threads' = [threads EXCEPT ![t] = work]

Refuse(t) ==
    /\ Set(t, NoWork)
    /\ locks' = Released(t)

\* add_request_id: a request of another epoch is answered at once, so it is not
\* here; what has no epoch begins with any.  The request then takes its locks.
Begin(r) ==
    /\ threads[r].pc = "idle" /\ left > 0
    /\ left' = left - 1
    /\ context' = Current
    /\ \E op \in {"read", "send", "observe", "select", "key", "goto", "connect", "unpin", "status"} :
       \E a \in Accounts :
        /\ op # "select" => a = config
        /\ op = "observe" => config # Nobody
        /\ Set(r, [NoWork EXCEPT !.op = op, !.account = a, !.epoch = Current.epoch, !.pc = "lock"])
    /\ UNCHANGED <<config, serving, clientVars, locks, tasks, sweep>>

TakeLock(t) ==
    /\ threads[t].pc = "lock" /\ ~Holds(t)
    /\ MayTake(t, Next1(t))
    /\ locks' = [locks EXCEPT ![Next1(t)] = t]
    /\ Set(t, [threads[t] EXCEPT !.held = @ + 1])
    /\ UNCHANGED <<accountVars, clientVars, tasks, sweep, left>>

\* changing_account: the lock is taken or the request is refused.
Busy(r) ==
    /\ threads[r].pc = "lock" /\ ~Holds(r)
    /\ RejectBusy(threads[r].op) /\ Next1(r) = "account"
    /\ ~MayTake(r, "account")
    /\ Refuse(r)
    /\ UNCHANGED <<accountVars, clientVars, tasks, sweep, left>>

\* AccountRoute, SettingsRoute: with the lock, the epoch is looked at again.
RequireEpoch(r) ==
    /\ threads[r].pc = "lock" /\ Holds(r)
    /\ threads[r].op \notin {"status", "unpin"}
    /\ context' = Current
    /\ IF threads[r].epoch = Current.epoch
       THEN Set(r, [threads[r] EXCEPT !.pc = "work"]) /\ UNCHANGED locks
       ELSE Refuse(r)
    /\ UNCHANGED <<config, serving, clientVars, tasks, sweep, left>>

\* The endpoint reads or writes what belongs to the account, or, if it has no lock,
\* to the account it found first; the epoch must still be the one of the request.
Endpoint(r) ==
    /\ threads[r].pc = "work" /\ threads[r].op \in {"read", "send", "observe"}
    /\ context' = Current
    /\ IF threads[r].epoch = Current.epoch
       THEN /\ locks' = Released(r)
            /\ Set(r, [threads[r] EXCEPT !.pc = "answer", !.did =
                   {IF threads[r].op = "observe" THEN threads[r].epoch ELSE Current.epoch}])
       ELSE Refuse(r)
    /\ UNCHANGED <<config, serving, clientVars, tasks, sweep, left>>

Unpin(r) ==
    /\ threads[r].pc = "lock" /\ Holds(r) /\ threads[r].op = "unpin"
    /\ Refuse(r)
    /\ UNCHANGED <<accountVars, clientVars, tasks, sweep, left>>

\* goto_contact_api: the session is captured when the task is queued.
Goto(r) ==
    /\ threads[r].pc = "work" /\ threads[r].op = "goto"
    /\ context' = Current
    /\ binding' = Probed
    /\ locks' = Released(r)
    /\ IF Connected /\ config # Nobody
       THEN /\ tasks' = Append(tasks, TokenOf)
            /\ Set(r, [threads[r] EXCEPT !.did = {Current.epoch}, !.pc = "answer"])
       ELSE Set(r, NoWork) /\ UNCHANGED tasks
    /\ UNCHANGED <<config, serving, window, windows, generations, connects, sweep, left>>

\* connect_client: even the same window gets another generation.
ConnectClient(r) ==
    /\ threads[r].pc = "work" /\ threads[r].op = "connect"
    /\ Refuse(r)
    /\ \E bound \in {NoBinding, binding,
                     [window |-> window, generation |-> generations + 1, up |-> TRUE]},
          made \in {generations, generations + 1} :
        /\ Initialised(bound, made)
        /\ IF bound = NoBinding
           THEN /\ binding' = bound /\ generations' = made
                /\ UNCHANGED connects
           ELSE /\ generations' = made + 1
                /\ binding' = [bound EXCEPT !.generation = made + 1]
                /\ connects' = connects + 1
    /\ UNCHANGED <<accountVars, window, windows, tasks, sweep, left>>

\* set_self_ali_id writes the configuration file, forgets the context and has the
\* coordinator serve the new one: three writes that others may read between.
WriteAccount(r) ==
    /\ threads[r].pc = "work" /\ threads[r].op \in {"select", "key"}
    /\ IF threads[r].op = "select" /\ threads[r].account = config
       THEN /\ Set(r, [threads[r] EXCEPT !.pc = "answer", !.did = {Current.epoch}])
            /\ locks' = Released(r)
            /\ UNCHANGED config
       ELSE /\ config' = threads[r].account
            /\ Set(r, [threads[r] EXCEPT !.pc = "invalidate"])
            /\ UNCHANGED locks
    /\ UNCHANGED <<context, serving, clientVars, tasks, sweep, left>>

InvalidateAccount(r) ==
    /\ threads[r].pc = "invalidate"
    /\ context' = Invalidated
    /\ Set(r, [threads[r] EXCEPT !.pc = "serve"])
    /\ UNCHANGED <<config, serving, clientVars, locks, tasks, sweep, left>>

\* The answer is marked with the epoch that the settings ended in.
ServeAccount(r) ==
    /\ threads[r].pc = "serve"
    /\ serving' = Current.epoch
    /\ context' = Current
    /\ locks' = Released(r)
    /\ Set(r, [threads[r] EXCEPT !.pc = "answer", !.epoch = Current.epoch, !.did = {Current.epoch}])
    /\ UNCHANGED <<config, clientVars, tasks, sweep, left>>

\* connection_snapshot takes no lock for long: the status of the source and, if no
\* task is running, a look at the window; then it compares.
ReadStatus(r) ==
    /\ threads[r].pc = "lock" /\ threads[r].op = "status"
    /\ binding' = IF MayTake(r, "runner") THEN Probed ELSE binding
    /\ Set(r, [threads[r] EXCEPT !.pc = "answer", !.did = {threads[r].epoch, serving}])
    /\ UNCHANGED <<accountVars, window, windows, generations, connects, locks, tasks, sweep, left>>

\* Mutant of Unchanged: only the status compares what it has read.
UnchangedStatus(r) == threads[r].op = "status" => threads[r].did = {threads[r].epoch}

\* The epoch in which the request ends is the one its answer is about.
Unchanged(r) ==
    /\ Current.epoch = threads[r].epoch
    /\ threads[r].op = "status" => threads[r].did = {threads[r].epoch}

\* add_request_id answers with the epoch it reads last, or refuses.
Answer(r) ==
    /\ threads[r].pc = "answer"
    /\ context' = Current
    /\ Set(r, IF Unchanged(r)
              THEN [threads[r] EXCEPT !.pc = "answered", !.epoch = Current.epoch]
              ELSE NoWork)
    /\ UNCHANGED <<config, serving, clientVars, locks, tasks, sweep, left>>

Leave(r) ==
    /\ threads[r].pc = "answered"
    /\ Set(r, NoWork)
    /\ UNCHANGED <<accountVars, clientVars, locks, tasks, sweep, left>>

----------------------------------------------------------------------------
(* GUI work: run_guarded and what it runs *)

\* The worker takes the next job, whose session was captured long ago.
WorkerTakes ==
    /\ threads["worker"].pc = "idle" /\ tasks # <<>>
    /\ tasks' = Tail(tasks)
    /\ Set("worker", [NoWork EXCEPT !.op = "navigate", !.pc = "lock", !.token = Head(tasks)])
    /\ UNCHANGED <<accountVars, clientVars, locks, sweep, left>>

\* run_guarded validates the session, then run_node does before it posts.
ValidateToken(t) ==
    /\ \/ threads[t].pc = "lock" /\ Holds(t) /\ threads[t].op = "navigate"
       \/ threads[t].pc = "node"
    /\ context' = Current
    /\ binding' = Probed
    /\ Set(t, [threads[t] EXCEPT !.pc =
              IF ~ValidToken(threads[t].token) THEN "failed"
              ELSE IF @ = "lock" THEN "node" ELSE "posted"])
    /\ UNCHANGED <<config, serving, window, windows, generations, connects, locks, tasks, sweep, left>>

\* run_targets: with or without success the next one follows, with the same session.
NextTarget ==
    IF sweep.targets = 1 THEN Set("sweep", NoWork)
    ELSE Set("sweep", [threads["sweep"] EXCEPT !.pc = "lock", !.held = 0])

\* What was posted may fail as well; the guard is left in either case.
LeaveGuard(t) ==
    /\ threads[t].pc \in {"posted", "failed"}
    /\ locks' = Released(t)
    /\ IF t = "sweep"
       THEN NextTarget /\ sweep' = [sweep EXCEPT !.targets = @ - 1]
       ELSE Set(t, NoWork) /\ UNCHANGED sweep
    /\ UNCHANGED <<accountVars, clientVars, tasks, left>>

----------------------------------------------------------------------------
(* The card sweep *)

SweepNow ==
    /\ left > 0 /\ ~sweep.wake
    /\ left' = left - 1
    /\ sweep' = [sweep EXCEPT !.wake = TRUE]
    /\ UNCHANGED <<accountVars, clientVars, locks, threads, tasks>>

StopSweep ==
    /\ ~sweep.stop
    /\ sweep' = [sweep EXCEPT !.stop = TRUE, !.wake = TRUE]
    /\ UNCHANGED <<accountVars, clientVars, locks, threads, tasks, left>>

\* select_targets: conversations with a card that the pool does not know yet.
Unresolved == 0..MaxTargets

\* The sweep looks once whether the outbox has work, with no target then, and captures
\* a session for the epoch it began with.
BeginSweep ==
    /\ threads["sweep"].pc = "idle" /\ sweep.wake
    /\ context' = Current
    /\ \E n \in Unresolved :
        /\ sweep' = [sweep EXCEPT !.wake = FALSE, !.targets = IF sweep.stop THEN 0 ELSE n]
        /\ Set("sweep",
               IF sweep.stop THEN [NoWork EXCEPT !.pc = "stopped"]
               ELSE IF config = Nobody \/ n = 0 THEN NoWork
               ELSE [NoWork EXCEPT !.op = "capture", !.pc = "lock", !.epoch = Current.epoch])
    /\ UNCHANGED <<config, serving, clientVars, locks, tasks, left>>

CaptureGuiSession ==
    /\ threads["sweep"].pc = "lock" /\ threads["sweep"].op = "capture" /\ Holds("sweep")
    /\ context' = Current
    /\ binding' = Probed
    /\ locks' = Released("sweep")
    /\ Set("sweep",
           IF Connected /\ threads["sweep"].epoch = Current.epoch /\ config # Nobody
           THEN [NoWork EXCEPT !.op = "navigate", !.pc = "lock", !.token = TokenOf]
           ELSE NoWork)
    /\ sweep' = [sweep EXCEPT !.targets = IF Connected THEN @ ELSE 0]
    /\ UNCHANGED <<config, serving, window, windows, generations, connects, tasks, left>>

----------------------------------------------------------------------------
(* The client *)

\* Its window is closed and another is opened, or the connection to it breaks.
WindowChanges ==
    /\ windows < MaxWindows
    /\ IF window = 0
       THEN windows' = windows + 1 /\ window' = windows + 1
       ELSE window' = 0 /\ UNCHANGED windows
    /\ UNCHANGED <<accountVars, binding, generations, connects, locks, threads, tasks, sweep, left>>

ConnectionLost ==
    /\ binding.up
    /\ windows < MaxWindows
    /\ windows' = windows + 1
    /\ binding' = [binding EXCEPT !.up = FALSE]
    /\ UNCHANGED <<accountVars, window, generations, connects, locks, threads, tasks, sweep, left>>

Init ==
    /\ config \in Accounts
    /\ context = [account |-> config, epoch |-> 1] /\ serving = 1
    /\ window = 1 /\ windows = 1
    /\ binding = NoBinding /\ generations = 0
    /\ locks = [lock \in {"account", "runner", "source"} |-> Nobody]
    /\ threads = [t \in Threads |-> NoWork]
    /\ tasks = <<>>
    /\ sweep = [wake |-> FALSE, stop |-> FALSE, targets |-> 0]
    /\ connects = 0
    /\ left = MaxRequests

Next ==
    \/ \E r \in Requests :
        \/ Begin(r) \/ Busy(r) \/ RequireEpoch(r) \/ Endpoint(r) \/ Unpin(r) \/ Goto(r)
        \/ ConnectClient(r) \/ WriteAccount(r) \/ InvalidateAccount(r) \/ ServeAccount(r)
        \/ ReadStatus(r) \/ Answer(r) \/ Leave(r)
    \/ \E t \in Threads : TakeLock(t)
    \/ \E t \in {"worker", "sweep"} : ValidateToken(t) \/ LeaveGuard(t)
    \/ WorkerTakes \/ SweepNow \/ StopSweep \/ BeginSweep \/ CaptureGuiSession
    \/ WindowChanges \/ ConnectionLost

Spec == Init /\ [][Next]_vars

----------------------------------------------------------------------------
(* Properties *)

\* GUI input is posted only while the session it was captured for lasts: the account
\* is still selected, in the same epoch, and the user has not connected the client
\* again (gui_session.py:67, :100-105; account_context.py:84).
NavigatesForSelection ==
    \A t \in {"worker", "sweep"} : threads[t].pc = "posted" =>
        /\ threads[t].token.account = config
        /\ threads[t].token.epoch = Current.epoch
        /\ threads[t].token.connects = connects

\* An answer that is delivered tells the one epoch that everything in it is of, also
\* when the account was changed while it was made (api/main.py:55-57, connection.py:99).
AnsweredInOneEpoch ==
    \A r \in Requests : threads[r].pc = "answered" => threads[r].did \subseteq {threads[r].epoch}

\* No threads wait for each other in a circle: the account lock comes before the
\* others wherever two are taken (account_context.py:82, maafw_runner.py:149).
NoCircularWait ==
    \A S \in SUBSET Threads : S # {} =>
        \E t \in S : Waits(t) => locks[Next1(t)] \notin S
=============================================================================
