-------------------------------- MODULE Updater --------------------------------
(***************************************************************************)
(* The application update: Updater of updater.py, WindowsUpdateRuntime of  *)
(* update_runtime.py, the helper process of update-helper.ps1 and the      *)
(* write gate and response handling of auth.py.                            *)
(*                                                                         *)
(* Actors: the event loop (install requests, responses), one check or      *)
(* download cycle, the watchdogs and other callers of writes_blocked(),    *)
(* and one helper process for each installation attempt, which shares only *)
(* files with the application.  Each section of the updater's lock is one  *)
(* action.                                                                 *)
(***************************************************************************)
EXTENDS Naturals, FiniteSets

CONSTANTS MaxBuild,     \* builds newer than the running one
          MaxAttempt,   \* bound on installation attempts
          Fragile,      \* builds whose installer may be removed by others
          None

ASSUME UpdaterAssumption == /\ MaxBuild \in Nat \ {0} /\ MaxAttempt \in Nat \ {0}
                            /\ Fragile \subseteq 1..MaxBuild /\ None \notin Nat

Builds == 1..MaxBuild
Attempts == 1..MaxAttempt

VARIABLES
  app,        \* "up", "down" (exited or crashed), "killed" (by a helper)
  u,          \* the fields the updater's lock protects
  runtime,    \* None, or the attempt whose helper WindowsUpdateRuntime holds
  cycle,      \* None, or the check or download thread
  install,    \* install_update() on the event loop, from the handoff to its return
  unsent,     \* attempts whose response has not been sent to its end
  attempt,    \* the helper process and the files of each attempt
  disk,       \* builds whose verified installer is on disk
  vanished,   \* builds whose installer others have removed
  used        \* attempts so far

vars == <<app, u, runtime, cycle, install, unsent, attempt, disk, vanished, used>>

NoAttempt == [helper |-> "none", accepted |-> "none", go |-> FALSE,
              build |-> None, confirmed |-> None, sent |-> FALSE]

Resting == [pc |-> "idle", id |-> None]

\* poll() of the helper's process
Exited(n) == attempt[n].helper = "exited"

--------------------------------------------------------------------------------
(* Parts of the locked sections *)

\* _admit, for supported installations
Admits == u.phase \notin {"checking", "downloading", "installing"} /\ ~u.handoff

\* _retry_phase_locked: the candidate is offered again if one is held
Rest == IF u.prepared # None THEN "ready" ELSE "error"

\* _clear_handoff_locked and the phase that follows
Cleared(phase) == [u EXCEPT !.phase = phase, !.handoff = FALSE, !.id = None]

\* _cancel_install_locked.  The cancel.json of the runtime's cancel(), which an I/O error
\* may keep from being written, asks the helper to end its loop; its deadline lets it
\* do so at any time (Poll), so the file adds no behaviour and has no variable.
CancelInstall == u' = Cleared(Rest) /\ UNCHANGED attempt

\* Mutant of Failed: the process is not polled.
FailedAsWritten == runtime # None /\ attempt[runtime].accepted = "error"

\* failed() of the runtime
Failed == runtime # None /\ (Exited(runtime) \/ attempt[runtime].accepted = "error")

\* Mutant of Lapsed: the lease ends for an armed handoff too.
LapsedArmed == u.lease = "over"

\* The lease of a handoff that was not armed in time.
Lapsed == ~u.armed /\ u.lease = "over"

\* _protected_locked
Protected == {u.prepared, u.stage} \ {None}

--------------------------------------------------------------------------------
(* Checks and downloads: _cycle under _run_guarded *)

envOfCycle == <<app, runtime, install, unsent, attempt, vanished, used>>

Goto(pc) == cycle' = [cycle EXCEPT !.pc = pc]

\* check(), with the thread that may not start
Check ==
  /\ app = "up" /\ Admits /\ ~u.busy
  /\ \/ /\ u' = [u EXCEPT !.phase = "checking", !.busy = TRUE]
        /\ cycle' = [announce |-> TRUE, pc |-> "query", run |-> None]
     \/ u' = [u EXCEPT !.phase = "error"] /\ UNCHANGED cycle
  /\ UNCHANGED disk /\ UNCHANGED envOfCycle

\* _scheduled_cycle, when it is not skipped
Scheduled ==
  /\ app = "up" /\ u.phase \in {"idle", "ready", "error"} /\ ~u.handoff /\ ~u.busy
  /\ u' = [u EXCEPT !.busy = TRUE]
  /\ cycle' = [announce |-> FALSE, pc |-> "query", run |-> None]
  /\ UNCHANGED disk /\ UNCHANGED envOfCycle

\* _run_guarded: a failed operation leaves no phase of its own behind.
FailCycle ==
  /\ u' = IF u.phase \in {"checking", "downloading"} THEN [u EXCEPT !.phase = Rest] ELSE u
  /\ Goto("reconcile")

\* _latest_run: any run, newer ones may have come or gone; None is nothing newer.
Query ==
  /\ app = "up" /\ cycle # None /\ cycle.pc = "query"
  /\ \/ /\ \E run \in Builds \cup {None} : cycle' = [cycle EXCEPT !.pc = "compare", !.run = run]
        /\ UNCHANGED u
     \/ FailCycle
  /\ UNCHANGED disk /\ UNCHANGED envOfCycle

\* _cycle, locked: nothing newer, or its installer is held already.
Compare ==
  /\ app = "up" /\ cycle # None /\ cycle.pc = "compare"
  /\ IF cycle.run \in {None, u.prepared}
     THEN /\ u' = IF ~cycle.announce THEN u
                  ELSE IF u.prepared = None THEN [u EXCEPT !.phase = "idle", !.candidate = None]
                  ELSE [u EXCEPT !.phase = "ready"]
          /\ Goto("reconcile")
     ELSE Goto("resolve") /\ UNCHANGED u
  /\ UNCHANGED disk /\ UNCHANGED envOfCycle

\* _resolve, then the first section of _download_candidate.
Resolve ==
  /\ app = "up" /\ cycle # None /\ cycle.pc = "resolve"
  /\ \/ IF u.handoff \/ u.phase = "installing"
        THEN Goto("reconcile") /\ UNCHANGED u
        ELSE /\ u' = [u EXCEPT !.phase = "downloading", !.stage = cycle.run]
             /\ Goto("download")
     \/ FailCycle
  /\ UNCHANGED disk /\ UNCHANGED envOfCycle

\* _download, and the section that publishes it or restores the held candidate.
Download ==
  /\ app = "up" /\ cycle # None /\ cycle.pc = "download"
  /\ \/ /\ disk' = disk \cup {cycle.run}
        /\ u' = [u EXCEPT !.phase = "ready", !.stage = None,
                          !.prepared = cycle.run, !.candidate = cycle.run]
     \/ /\ u' = [u EXCEPT !.phase = Rest, !.stage = None]
        /\ UNCHANGED disk
  /\ Goto("reconcile")
  /\ UNCHANGED envOfCycle

\* reconcile_staging
Reconcile ==
  /\ app = "up" /\ cycle # None /\ cycle.pc = "reconcile"
  /\ disk' = IF u.handoff \/ u.phase = "installing" THEN disk ELSE disk \cap Protected
  /\ Goto("release")
  /\ UNCHANGED u /\ UNCHANGED envOfCycle

\* Mutant of Release: a cycle that has nothing to announce keeps _busy.
ReleaseAnnounced ==
  /\ app = "up" /\ cycle # None /\ cycle.pc = "release"
  /\ u' = [u EXCEPT !.busy = ~cycle.announce]
  /\ cycle' = None
  /\ UNCHANGED disk /\ UNCHANGED envOfCycle

\* _run_guarded, finally
Release ==
  /\ app = "up" /\ cycle # None /\ cycle.pc = "release"
  /\ u' = [u EXCEPT !.busy = FALSE]
  /\ cycle' = None
  /\ UNCHANGED disk /\ UNCHANGED envOfCycle

CycleStep == Query \/ Compare \/ Resolve \/ Download \/ Reconcile \/ Release

--------------------------------------------------------------------------------
(* Installation: install_update on the event loop *)

\* The user confirms a candidate seen at any time before.
Install(c) ==
  /\ app = "up" /\ install.pc = "idle" /\ Admits
  /\ u.candidate = c /\ u.phase = "ready" /\ u.prepared # None
  /\ IF u.prepared \notin disk
     THEN /\ u' = [u EXCEPT !.prepared = None, !.phase = "idle", !.candidate = None]
          /\ UNCHANGED <<runtime, install, attempt, used>>
     ELSE LET n == used + 1 IN
          /\ n \in Attempts
          /\ used' = n
          /\ runtime' = None
          /\ u' = [u EXCEPT !.handoff = TRUE, !.id = n, !.lease = "open", !.armed = FALSE,
                            !.phase = "installing"]
          /\ attempt' = [attempt EXCEPT ![n].build = u.prepared, ![n].confirmed = c]
          /\ install' = [pc |-> "launch", id |-> n]
  /\ UNCHANGED <<app, cycle, unsent, disk, vanished>>

\* The exception path of install_update: restore the candidate, cancel the helper.
Rejected(n) ==
  /\ install' = Resting
  /\ u' = IF u.id = n THEN Cleared("ready") ELSE u

\* start() of the runtime up to the process, which may not come up.
Launch ==
  /\ app = "up" /\ install.pc = "launch"
  /\ LET n == install.id IN
       \/ /\ runtime' = n
          /\ attempt' = [attempt EXCEPT ![n].helper = "boot"]
          /\ install' = [install EXCEPT !.pc = "await"]
          /\ UNCHANGED u
       \/ Rejected(n) /\ UNCHANGED <<runtime, attempt>>
  /\ UNCHANGED <<app, cycle, unsent, disk, vanished, used>>

\* _await_accept: accepted, or rejected, exited or too late; then the helper is killed.
Await ==
  /\ app = "up" /\ install.pc = "await"
  /\ LET n == install.id IN
       \/ /\ attempt[n].accepted = "accepted"
          /\ install' = [install EXCEPT !.pc = "accepted"]
          /\ UNCHANGED <<u, runtime, attempt>>
       \/ /\ Rejected(n)
          /\ runtime' = None
          /\ attempt' = [attempt EXCEPT ![n].helper = "exited"]
  /\ UNCHANGED <<app, cycle, unsent, disk, vanished, used>>

\* The lease begins, the watchdog starts (or does not), the response is on its way.
Accepted ==
  /\ app = "up" /\ install.pc = "accepted"
  /\ LET n == install.id IN
       \/ /\ u' = [u EXCEPT !.lease = "running"]
          /\ install' = Resting
          /\ unsent' = unsent \cup {n}
          /\ UNCHANGED attempt
       \/ Rejected(n) /\ UNCHANGED <<attempt, unsent>>
  /\ UNCHANGED <<app, runtime, cycle, disk, vanished, used>>

\* arm()
Arm(n) ==
  IF u.id # n \/ u.armed
  THEN UNCHANGED <<u, attempt>>
  ELSE \/ /\ u.lease # "over" /\ runtime # None /\ ~Exited(runtime)
          /\ u' = [u EXCEPT !.armed = TRUE]
          /\ attempt' = [attempt EXCEPT ![runtime].go = TRUE, ![n].sent = TRUE]
       \/ CancelInstall           \* too late, no helper, or go.json not written

\* cancel_install()
Disarm(n) ==
  IF u.id = n /\ ~u.armed THEN CancelInstall ELSE UNCHANGED <<u, attempt>>

\* Mutant of Respond: the handoff is armed whether or not the response was delivered.
RespondAnyhow(n) ==
  /\ app = "up" /\ install.pc = "idle" /\ n \in unsent
  /\ unsent' = unsent \ {n}
  /\ \/ Arm(n)
     \/ /\ u.id = n /\ ~u.armed /\ runtime # None /\ ~Exited(runtime)
        /\ u' = [u EXCEPT !.armed = TRUE]
        /\ attempt' = [attempt EXCEPT ![runtime].go = TRUE]
  /\ UNCHANGED <<app, runtime, cycle, install, disk, vanished, used>>

\* The middleware's finally: the response was sent to its end, or it was not.
Respond(n) ==
  /\ app = "up" /\ install.pc = "idle" /\ n \in unsent
  /\ unsent' = unsent \ {n}
  /\ Arm(n) \/ Disarm(n)
  /\ UNCHANGED <<app, runtime, cycle, install, disk, vanished, used>>

LeaseEnds ==
  /\ u.handoff /\ u.lease = "running"
  /\ u' = [u EXCEPT !.lease = "over"]
  /\ UNCHANGED <<app, runtime, cycle, install, unsent, attempt, disk, vanished, used>>

\* writes_blocked(), from a watchdog, the write gate or a status request.
WritesBlocked ==
  /\ app = "up" /\ u.handoff /\ (Failed \/ Lapsed)
  /\ CancelInstall
  /\ UNCHANGED <<app, runtime, cycle, install, unsent, disk, vanished, used>>

--------------------------------------------------------------------------------
(* The helper of attempt n: update-helper.ps1 *)

Becomes(n, pc) == attempt' = [attempt EXCEPT ![n].helper = pc]
envOfHelper == <<u, runtime, cycle, install, unsent, disk, vanished, used>>

\* The catch block before the commit; accepted.json may not be written.
HelperFails(n) ==
  \E note \in {attempt[n].accepted, "error"} :
    attempt' = [attempt EXCEPT ![n].helper = "exited", ![n].accepted = note]

Boot(n) ==
  /\ attempt[n].helper = "boot"
  /\ \/ /\ app = "up"
        /\ attempt' = [attempt EXCEPT ![n].helper = "waiting", ![n].accepted = "accepted"]
     \/ HelperFails(n)
  /\ UNCHANGED app /\ UNCHANGED envOfHelper

\* The loop over cancel.json, go.json, the process and the deadline.
Poll(n) ==
  /\ attempt[n].helper = "waiting"
  /\ \/ attempt[n].go /\ Becomes(n, "verify")
     \/ Becomes(n, "exited")     \* cancelled, the application is gone, or 60 s
  /\ UNCHANGED app /\ UNCHANGED envOfHelper

\* The installer is opened, verified and kept open; the application's identity again.
Verify(n) ==
  /\ attempt[n].helper = "verify"
  /\ \/ attempt[n].build \in disk /\ app = "up" /\ Becomes(n, "committed")
     \/ HelperFails(n)
  /\ UNCHANGED app /\ UNCHANGED envOfHelper

\* TerminateJobObject and the wait for the process.
Terminate(n) ==
  /\ attempt[n].helper = "committed"
  /\ \/ /\ app' = IF app = "up" THEN "killed" ELSE app
        /\ Becomes(n, "setup")
     \/ Becomes(n, "exited") /\ UNCHANGED app
  /\ UNCHANGED envOfHelper

\* The installer runs, the new build is checked and started, or any of it fails.
Setup(n) ==
  /\ attempt[n].helper = "setup"
  /\ Becomes(n, "installed") \/ Becomes(n, "exited")
  /\ UNCHANGED app /\ UNCHANGED envOfHelper

\* The helper is ended from outside.
HelperDies(n) ==
  /\ attempt[n].helper \in {"boot", "waiting", "verify", "committed", "setup"}
  /\ Becomes(n, "exited")
  /\ UNCHANGED app /\ UNCHANGED envOfHelper

HelperStep(n) == Boot(n) \/ Poll(n) \/ Verify(n) \/ Terminate(n) \/ Setup(n)

--------------------------------------------------------------------------------
(* The surroundings *)

\* The application exits or crashes.
AppExits ==
  /\ app = "up"
  /\ app' = "down"
  /\ UNCHANGED <<u, runtime, cycle, install, unsent, attempt, disk, vanished, used>>

\* Security software or a cleanup removes an installer, unless a helper holds it open.
Vanish(b) ==
  /\ b \in disk \cap Fragile
  /\ \A n \in Attempts : attempt[n].build = b => attempt[n].helper \notin {"committed", "setup"}
  /\ disk' = disk \ {b}
  /\ vanished' = vanished \cup {b}
  /\ UNCHANGED <<app, u, runtime, cycle, install, unsent, attempt, used>>

Init ==
  /\ app = "up"
  /\ u = [phase |-> "idle", handoff |-> FALSE, id |-> None, lease |-> "open", armed |-> FALSE,
          prepared |-> None, candidate |-> None, busy |-> FALSE, stage |-> None]
  /\ runtime = None /\ cycle = None /\ install = Resting /\ unsent = {}
  /\ attempt = [n \in Attempts |-> NoAttempt]
  /\ disk = {} /\ vanished = {} /\ used = 0

Next == \/ Check \/ Scheduled \/ CycleStep
        \/ \E c \in Builds : Install(c)
        \/ Launch \/ Await \/ Accepted
        \/ \E n \in unsent : Respond(n)
        \/ LeaseEnds \/ WritesBlocked
        \/ \E n \in Attempts : HelperStep(n) \/ HelperDies(n)
        \/ AppExits
        \/ \E b \in disk : Vanish(b)

Spec == Init /\ [][Next]_vars

\* The cycle's thread and install_update() run on (downloads and the wait for the
\* helper have deadlines), the watchdog polls, the clock passes and a helper acts
\* or ends.  Nothing is assumed of responses: a client may never read one.
Fairness == /\ WF_vars(CycleStep)
            /\ WF_vars(Launch) /\ WF_vars(Await) /\ WF_vars(Accepted)
            /\ WF_vars(LeaseEnds) /\ WF_vars(WritesBlocked)
            /\ \A n \in Attempts : WF_vars(HelperStep(n))

FairSpec == Spec /\ Fairness

--------------------------------------------------------------------------------
(* Invariants *)

OrNone(S) == S \cup {None}
AttemptType ==
  [helper : {"none", "boot", "waiting", "verify", "committed", "setup", "installed", "exited"},
   accepted : {"none", "accepted", "error"}, go : BOOLEAN,
   build : OrNone(Builds), confirmed : OrNone(Builds), sent : BOOLEAN]

TypeOK ==
  /\ app \in {"up", "down", "killed"}
  /\ u \in [phase : {"idle", "checking", "downloading", "ready", "installing", "error"},
            handoff : BOOLEAN, id : OrNone(Attempts), lease : {"open", "running", "over"},
            armed : BOOLEAN, prepared : OrNone(Builds), candidate : OrNone(Builds),
            busy : BOOLEAN, stage : OrNone(Builds)]
  /\ runtime \in OrNone(Attempts)
  /\ cycle \in OrNone([announce : BOOLEAN, run : OrNone(Builds),
                       pc : {"query", "compare", "resolve", "download", "reconcile", "release"}])
  /\ install \in [pc : {"idle", "launch", "await", "accepted"}, id : OrNone(Attempts)]
  /\ unsent \subseteq Attempts
  /\ attempt \in [Attempts -> AttemptType]
  /\ disk \subseteq Builds /\ vanished \subseteq Builds
  /\ used \in 0..MaxAttempt

\* A helper that may still terminate the application.
Doomed(n) == attempt[n].go /\ attempt[n].helper \in {"waiting", "verify", "committed"}

\* From the moment a helper may terminate the application until it can no longer do so
\* the write gate stays closed, whatever leases, responses and watchdogs of this or
\* an earlier attempt do: no write is accepted that the handoff would cut off.
GateHeld == app = "up" => \A n \in Attempts : Doomed(n) => u.handoff /\ u.id = n

\* The application is stopped only for what the user asked for: the candidate that was
\* confirmed is the build that gets installed, and the user was told so first, with a
\* response that was sent to its end.
StopIsConfirmed ==
  \A n \in Attempts :
    attempt[n].helper \in {"committed", "setup", "installed"} =>
      attempt[n].sent /\ attempt[n].confirmed = attempt[n].build

\* The cleanup of a cycle that overlaps an installation never removes an installer that
\* is offered or handed over; only others do.
InstallerKept ==
  app = "up" =>
    /\ u.prepared # None => u.prepared \in disk \cup vanished
    /\ \A n \in Attempts : Doomed(n) => attempt[n].build \in disk \cup vanished

\* Both: what is installed is there and is what the user confirmed
\* (updater.py:508; auth.py:302).
InstallsAsConfirmed == StopIsConfirmed /\ InstallerKept

(* Liveness *)

\* Every handoff ends: the application is stopped by it or takes writes again.
HandoffEnds == u.handoff ~> (~u.handoff \/ app # "up")

\* Every check and download ends and lets the next one in.
CyclesEnd == u.busy ~> (~u.busy \/ app # "up")

\* Both, beside each other (updater.py:415, :548).
UpdatesEnd == HandoffEnds /\ CyclesEnd
================================================================================
