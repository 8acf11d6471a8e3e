------------------------------ MODULE NativeLogs ------------------------------
(***************************************************************************)
(* The directories that the native runtime of the GUI runner logs to       *)
(* (shared/utils/native_logs.py, shared/backend/maafw_runner.py).          *)
(*                                                                         *)
(* A process switches its native log to a new session directory between    *)
(* operations, closes the one it left and deletes old closed ones.  Two    *)
(* processes share the root: a process that is being replaced, or that did *)
(* not end, still logs while the next one cleans up.  A session is leased  *)
(* by a file lock, which the system drops with the process.                *)
(***************************************************************************)
EXTENDS Integers, FiniteSets

CONSTANTS
    Processes,      \* processes that use the root
    MaxSessions,    \* bound: session directories made, by number; names are not reused
    MaxJobs,        \* bound: native jobs outstanding in a process
    MaxStarts,      \* bound: starts of processes
    MaxFailures     \* bound: file operations, switches and native calls that fail

Free == 0
Elsewhere == 0

VARIABLES
    process,        \* each process: what _native_logs knows, and its step
    writer,         \* the session that the native runtime of a process writes to
    session,        \* the directories
    made,           \* directories made so far
    starts,         \* starts left
    failures        \* failures left

vars == <<process, writer, session, made, starts, failures>>

Sessions == 1..MaxSessions

\* victims: the sessions that the inventory found closed.
Ended == [step |-> "ended", active |-> 0, candidate |-> 0, leases |-> {}, uncertain |-> FALSE,
          jobs |-> 0, doubt |-> FALSE, victims |-> {}]

NoSession == [exists |-> FALSE, owned |-> FALSE, lease |-> FALSE, holder |-> Free, closed |-> FALSE]

Fail == failures > 0 /\ failures' = failures - 1
Step(p, step) == process' = [process EXCEPT ![p].step = step]

Unlocked(s, p) == [s EXCEPT !.holder = IF @ = p THEN Free ELSE @]

----------------------------------------------------------------------------
(* The runner *)

Start(p) ==
    /\ process[p].step = "ended" /\ starts > 0
    /\ starts' = starts - 1
    /\ Step(p, "idle")
    /\ UNCHANGED <<writer, session, made, failures>>

\* The system ends the native writer and drops the locks.
Crash(p) ==
    /\ process[p].step # "ended"
    /\ process' = [process EXCEPT ![p] = Ended]
    /\ writer' = [writer EXCEPT ![p] = Elsewhere]
    /\ session' = [s \in Sessions |-> Unlocked(session[s], p)]
    /\ UNCHANGED <<made, starts, failures>>

Quiescent(p) == process[p].jobs = 0 /\ ~process[p].doubt

\* _prepare_native_logs at the start of a guarded operation; the active session is
\* left if it is too big or too old, and the first operation makes one.
Prepare(p) ==
    /\ process[p].step = "idle"
    /\ \E due \in BOOLEAN :
        Step(p, IF ~Quiescent(p) THEN "work"
                ELSE IF process[p].active # 0 /\ ~process[p].uncertain /\ ~due THEN "inventory"
                ELSE IF process[p].candidate # 0 THEN "switch" ELSE "create")
    /\ UNCHANGED <<writer, session, made, starts, failures>>

\* _ensure_init: Toolkit.init_option sends the log somewhere else, so the session is
\* set again, by force.
InitOption(p) ==
    /\ process[p].step = "work" /\ Quiescent(p)
    /\ writer' = [writer EXCEPT ![p] = Elsewhere]
    /\ Step(p, IF process[p].candidate # 0 THEN "switch" ELSE "create")
    /\ UNCHANGED <<session, made, starts, failures>>

\* The marker of the owner comes last: before it the directory is nobody's.  If the
\* directory cannot be completed it stays as it is.
CreateSession(p) ==
    /\ process[p].step = "create" /\ made < MaxSessions
    /\ made' = made + 1
    /\ \/ /\ session' = [session EXCEPT ![made + 1] =
                [exists |-> TRUE, owned |-> TRUE, lease |-> TRUE, holder |-> p, closed |-> FALSE]]
          /\ process' = [process EXCEPT ![p].step = "switch", ![p].candidate = made + 1,
                                        ![p].leases = @ \cup {made + 1}]
          /\ UNCHANGED failures
       \/ /\ Fail
          /\ \E lease \in BOOLEAN :
                session' = [session EXCEPT ![made + 1] =
                    [NoSession EXCEPT !.exists = TRUE, !.lease = lease]]
          /\ Step(p, "work")
    /\ UNCHANGED <<writer, starts>>

\* A switch that is not confirmed may or may not have been made.
SwitchLogDir(p) ==
    /\ process[p].step = "switch"
    /\ \/ /\ writer' = [writer EXCEPT ![p] = process[p].candidate]
          /\ process' = [process EXCEPT ![p].step = "close", ![p].active = process[p].candidate,
                                        ![p].candidate = 0, ![p].uncertain = FALSE]
          /\ UNCHANGED failures
       \/ /\ Fail
          /\ writer' \in {writer, [writer EXCEPT ![p] = process[p].candidate]}
          /\ process' = [process EXCEPT ![p].step = "work", ![p].uncertain = TRUE]
    /\ UNCHANGED <<session, made, starts>>

\* The sessions that a confirmed switch has left.
Left(p) == process[p].leases \ {process[p].active}

\* _close_session: the lease is let go of, also if the marker cannot be written.
CloseSession(p) ==
    /\ process[p].step = "close"
    /\ IF Left(p) = {}
       THEN Step(p, "inventory") /\ UNCHANGED <<session, failures>>
       ELSE \E s \in Left(p) :
            \/ /\ session' = [session EXCEPT ![s] = [@ EXCEPT !.closed = TRUE, !.holder = Free]]
               /\ process' = [process EXCEPT ![p].leases = @ \ {s}]
               /\ UNCHANGED failures
            \/ /\ Fail
               /\ session' = [session EXCEPT ![s] = [@ EXCEPT !.holder = Free]]
               /\ process' = [process EXCEPT ![p].leases = @ \ {s}, ![p].step = "work"]
    /\ UNCHANGED <<writer, made, starts>>

----------------------------------------------------------------------------
(* Retention *)

Owned(s) == session[s].exists /\ session[s].owned

\* Mutant of Recoverable: a session without an owner in this process has ended.
RecoverableAlways(p, s) == s \notin process[p].leases

\* _recover_exited_session: the lock can be had, so its process is gone; a lease that
\* a deletion removed says nothing.
Recoverable(p, s) ==
    /\ s \notin process[p].leases
    /\ session[s].lease => session[s].holder = Free
    /\ ~session[s].lease => session[s].closed

\* What exited without closing its session is closed now; the locks are let go of
\* before anything is deleted.
Inventory(p) ==
    /\ process[p].step = "inventory"
    /\ LET free == {s \in Sessions : Owned(s) /\ Recoverable(p, s)}
       IN  /\ session' = [s \in Sessions |->
                IF s \in free THEN [session[s] EXCEPT !.closed = TRUE] ELSE session[s]]
           /\ process' = [process EXCEPT ![p].step = "delete", ![p].victims = free]
    /\ UNCHANGED <<writer, made, starts, failures>>

\* prune deletes what is over budget or too old; the payload goes first, so a deletion
\* that stops leaves some of the markers.
Delete(p) ==
    /\ process[p].step = "delete"
    /\ \/ /\ process' = [process EXCEPT ![p].step = "work", ![p].victims = {}]
          /\ UNCHANGED <<session, failures>>
       \/ \E s \in process[p].victims :
            /\ process' = [process EXCEPT ![p].victims = @ \ {s}]
            /\ IF Owned(s) /\ s \notin process[p].leases
               THEN \/ session' = [session EXCEPT ![s] = NoSession] /\ UNCHANGED failures
                    \/ /\ Fail
                       /\ \E owned, lease, closed \in BOOLEAN :
                            session' = [session EXCEPT ![s] =
                                [@ EXCEPT !.owned = owned, !.lease = @ /\ lease,
                                          !.closed = closed]]
               ELSE UNCHANGED <<session, failures>>
    /\ UNCHANGED <<writer, made, starts>>

----------------------------------------------------------------------------
(* Native jobs *)

\* A failing post may have been submitted.
PostNative(p) ==
    /\ process[p].step = "work" /\ process[p].jobs < MaxJobs
    /\ \/ process' = [process EXCEPT ![p].jobs = @ + 1] /\ UNCHANGED failures
       \/ Fail /\ process' = [process EXCEPT ![p].doubt = TRUE]
    /\ UNCHANGED <<writer, session, made, starts>>

WaitNative(p) ==
    /\ process[p].jobs > 0
    /\ process[p].step = "work"
    /\ process' = [process EXCEPT ![p].jobs = @ - 1]
    /\ UNCHANGED <<writer, session, made, starts, failures>>

\* The operation ends; a job whose wait failed is outstanding for good.
EndOperation(p) ==
    /\ process[p].step = "work"
    /\ process[p].jobs > 0 => Fail
    /\ process[p].jobs = 0 => UNCHANGED failures
    /\ Step(p, "idle")
    /\ UNCHANGED <<writer, session, made, starts>>

Init ==
    /\ process = [p \in Processes |-> Ended]
    /\ writer = [p \in Processes |-> Elsewhere]
    /\ session = [s \in Sessions |-> NoSession]
    /\ made = 0 /\ starts = MaxStarts /\ failures = MaxFailures

Next ==
    \E p \in Processes :
        \/ Start(p) \/ Crash(p) \/ Prepare(p) \/ InitOption(p) \/ CreateSession(p)
        \/ SwitchLogDir(p) \/ CloseSession(p) \/ Inventory(p) \/ Delete(p)
        \/ PostNative(p) \/ WaitNative(p) \/ EndOperation(p)

Spec == Init /\ [][Next]_vars

----------------------------------------------------------------------------
(* Properties *)

\* The directory that a native runtime writes to exists and does not count as closed,
\* whichever process cleans up and however a switch failed (native_logs.py:3-8, :101-105).
WriterKept ==
    \A p \in Processes : writer[p] # Elsewhere =>
        session[writer[p]].exists /\ ~session[writer[p]].closed
=============================================================================
