---------------------------- MODULE UpdaterProofs -----------------------------
(***************************************************************************)
(* Theorems about Updater, for any number of builds and attempts and any   *)
(* fragile installers: the write gate is closed for as long as a helper    *)
(* may stop the application, and what it installs is what was confirmed.   *)
(***************************************************************************)
EXTENDS Updater, TLAPS

Typed(v) ==
    v \in [phase : {"idle", "checking", "downloading", "ready", "installing", "error"},
           handoff : BOOLEAN, id : OrNone(Attempts), lease : {"open", "running", "over"},
           armed : BOOLEAN, prepared : OrNone(Builds), candidate : OrNone(Builds),
           busy : BOOLEAN, stage : OrNone(Builds)]

CycleType ==
    OrNone([announce : BOOLEAN, run : OrNone(Builds),
            pc : {"query", "compare", "resolve", "download", "reconcile", "release"}])

\* Attempts are used in order, and only those that were begun have files.
Numbered == \A n \in Attempts : n > used => attempt[n] = NoAttempt

\* A handoff is of an attempt that was begun; once install_update() has returned the
\* runtime holds its helper.  What is downloaded is a build.
HandoffOK ==
    /\ u.handoff <=> u.id # None
    /\ u.id # None => u.id <= used
    /\ u.id # None /\ install.pc = "idle" => runtime = u.id
    /\ cycle # None /\ cycle.pc \in {"resolve", "download"} => cycle.run # None

\* While install_update() runs nothing is armed.
InstallOK ==
    install.pc # "idle" =>
        /\ install.id # None /\ install.id <= used
        /\ u.id \in {install.id, None} /\ (u.id # None => ~u.armed)
        /\ ~attempt[install.id].go
        /\ install.pc = "launch" => runtime = None /\ attempt[install.id].helper = "none"
        /\ install.pc # "launch" => runtime = install.id

\* A helper that was told to go on is that of the armed handoff until it cannot stop
\* the application any more.
GateOK ==
    \A n \in Attempts :
        attempt[n].go /\ attempt[n].helper \in {"boot", "waiting", "verify", "committed"}
            => u.id = n /\ u.armed

\* What the files of an attempt say of its helper and of what was confirmed.
FilesOK ==
    \A n \in Attempts :
        /\ attempt[n].accepted = "error" => attempt[n].helper = "exited"
        /\ attempt[n].go => attempt[n].sent
        /\ attempt[n].helper \in {"verify", "committed", "setup", "installed"} => attempt[n].go
        /\ attempt[n].build = attempt[n].confirmed

\* The candidate that is offered is the one that is held.
OfferOK == u.prepared # None => u.candidate = u.prepared /\ u.prepared \in disk \cup vanished

\* The build that is handed over is on disk unless others have removed it.
HandedOK == u.id # None => attempt[u.id].build \in disk \cup vanished

IInv == /\ TypeOK /\ Numbered /\ HandoffOK /\ InstallOK
        /\ GateOK /\ FilesOK /\ OfferOK /\ HandedOK

--------------------------------------------------------------------------------
LEMMA NoneIsNothing == None \notin Attempts /\ None \notin Builds
BY UpdaterAssumption DEF Attempts, Builds

\* The invariant, with the types of the updater's fields and of the cycle by name.
LEMMA Types == TypeOK => Typed(u) /\ cycle \in CycleType
BY DEF TypeOK, Typed, CycleType

LEMMA InitIInv == Init => IInv
<1> SUFFICES ASSUME Init PROVE IInv
    OBVIOUS
<1> USE UpdaterAssumption, NoneIsNothing DEF Init
<1>1. TypeOK
    BY DEF TypeOK, OrNone, AttemptType, NoAttempt, Resting
<1>2. Numbered /\ HandoffOK /\ InstallOK /\ OfferOK /\ HandedOK
    BY DEF Numbered, HandoffOK, InstallOK, OfferOK, HandedOK, Resting
<1>3. GateOK /\ FilesOK
    BY DEF GateOK, FilesOK, NoAttempt
<1> QED BY <1>1, <1>2, <1>3 DEF IInv

--------------------------------------------------------------------------------
(* Checks and downloads *)

\* A cycle touches neither a handoff nor what is handed over.
LEMMA CycleKeeps ==
    ASSUME IInv, UNCHANGED envOfCycle, Typed(u'), cycle' \in CycleType,
           u'.handoff = u.handoff, u'.id = u.id, u'.armed = u.armed,
           cycle' # None /\ cycle'.pc \in {"resolve", "download"} => cycle'.run # None,
           disk' \subseteq Builds, u.id # None => disk \subseteq disk', OfferOK'
    PROVE  IInv'
<1> USE DEF IInv, envOfCycle
<1>1. TypeOK'
    BY DEF TypeOK, Typed, CycleType
<1>2. Numbered' /\ HandoffOK' /\ InstallOK'
    BY DEF Numbered, HandoffOK, InstallOK
<1>3. GateOK' /\ FilesOK' /\ HandedOK'
    BY DEF GateOK, FilesOK, HandedOK
<1> QED BY <1>1, <1>2, <1>3

\* A thread that goes on with a later step of its cycle.
LEMMA GotoFacts ==
    ASSUME cycle \in CycleType, cycle # None,
           NEW pc \in {"query", "compare", "resolve", "download", "reconcile", "release"},
           Goto(pc)
    PROVE  cycle' \in CycleType /\ cycle'.pc = pc /\ cycle'.run = cycle.run
<1>1. cycle \in [announce : BOOLEAN, run : OrNone(Builds),
            pc : {"query", "compare", "resolve", "download", "reconcile", "release"}]
    BY DEF CycleType, OrNone
<1>2. cycle' = [cycle EXCEPT !.pc = pc]
    BY DEF Goto
<1>3. /\ cycle' \in [announce : BOOLEAN, run : OrNone(Builds),
            pc : {"query", "compare", "resolve", "download", "reconcile", "release"}]
      /\ cycle'.pc = pc /\ cycle'.run = cycle.run
    BY <1>1, <1>2
<1> QED BY <1>3 DEF CycleType, OrNone

LEMMA FailCycleFacts ==
    ASSUME IInv, cycle # None, FailCycle
    PROVE  /\ Typed(u') /\ cycle' \in CycleType /\ cycle'.pc = "reconcile"
           /\ u'.handoff = u.handoff /\ u'.id = u.id /\ u'.armed = u.armed
           /\ u'.prepared = u.prepared /\ u'.candidate = u.candidate
<1>1. Typed(u) /\ cycle \in CycleType
    BY Types DEF IInv
<1>2. cycle' \in CycleType /\ cycle'.pc = "reconcile"
    <2>1. Goto("reconcile")
        BY DEF FailCycle
    <2> QED BY <1>1, <2>1, GotoFacts
<1>3. u' = u \/ \E phase \in {"ready", "error"} : u' = [u EXCEPT !.phase = phase]
    BY DEF FailCycle, Rest
<1> QED BY <1>1, <1>2, <1>3 DEF Typed

LEMMA CycleInv ==
    ASSUME IInv, Check \/ Scheduled \/ CycleStep
    PROVE  IInv'
<1> USE NoneIsNothing
<1>0. Typed(u) /\ cycle \in CycleType /\ disk \subseteq Builds
    BY Types DEF IInv, TypeOK
<1>1. CASE Check \/ Scheduled
    <2>1. UNCHANGED envOfCycle /\ disk' = disk
        BY <1>1 DEF Check, Scheduled
    <2>2. Typed(u')
        BY <1>0, <1>1 DEF Check, Scheduled, Typed
    <2>6. cycle' \in CycleType
        <3>1. \A b \in BOOLEAN : [announce |-> b, pc |-> "query", run |-> None] \in CycleType
            BY DEF CycleType, OrNone
        <3>2. \/ cycle' = cycle
              \/ \E b \in BOOLEAN : cycle' = [announce |-> b, pc |-> "query", run |-> None]
            BY <1>1 DEF Check, Scheduled
        <3> QED BY <1>0, <3>1, <3>2
    <2>3. /\ u'.handoff = u.handoff /\ u'.id = u.id /\ u'.armed = u.armed
          /\ u'.prepared = u.prepared /\ u'.candidate = u.candidate
        BY <1>0, <1>1 DEF Check, Scheduled, Typed
    <2>4. cycle' # None /\ cycle'.pc \in {"resolve", "download"} => cycle'.run # None
        BY <1>1 DEF Check, Scheduled, IInv, HandoffOK
    <2> QED BY <1>0, <2>1, <2>2, <2>3, <2>4, <2>6, CycleKeeps DEF IInv, OfferOK, envOfCycle
<1>2. CASE Query \/ Compare \/ Resolve
    <2>1. UNCHANGED envOfCycle /\ disk' = disk
        BY <1>2 DEF Query, Compare, Resolve
    <2>2. CASE FailCycle /\ cycle # None
        BY <1>0, <2>1, <2>2, FailCycleFacts, CycleKeeps DEF IInv, OfferOK, envOfCycle
    <2>3. CASE Query /\ ~FailCycle
        <3>1. PICK run \in Builds \cup {None} : cycle' = [cycle EXCEPT !.pc = "compare", !.run = run]
            BY <2>3 DEF Query
        <3>2. u' = u /\ cycle # None
            BY <2>3 DEF Query
        <3>3. cycle' \in CycleType /\ cycle'.pc = "compare"
            BY <1>0, <3>1, <3>2 DEF CycleType, OrNone
        <3> QED BY <1>0, <2>1, <3>2, <3>3, CycleKeeps DEF IInv, OfferOK, envOfCycle
    <2>4. CASE Compare
        <3> PICK pc \in {"reconcile", "resolve"} :
                Goto(pc) /\ cycle # None /\ (cycle.run = None => pc = "reconcile")
            BY <2>4 DEF Compare
        <3>0. cycle' \in CycleType /\ cycle'.pc = pc /\ cycle'.run = cycle.run
            BY <1>0, GotoFacts
        <3>1. Typed(u')
            <4>1. \/ u' = u
                  \/ u' = [u EXCEPT !.phase = "idle", !.candidate = None]
                  \/ u' = [u EXCEPT !.phase = "ready"]
                BY <2>4 DEF Compare
            <4>2. CASE u' = u
                BY <1>0, <4>2
            <4>3. CASE u' = [u EXCEPT !.phase = "idle", !.candidate = None]
                BY <1>0, <4>3 DEF Typed, OrNone
            <4>4. CASE u' = [u EXCEPT !.phase = "ready"]
                BY <1>0, <4>4 DEF Typed
            <4> QED BY <4>1, <4>2, <4>3, <4>4
        <3>2. u'.handoff = u.handoff /\ u'.id = u.id /\ u'.armed = u.armed /\ OfferOK'
            BY <1>0, <2>1, <2>4 DEF Compare, Typed, IInv, OfferOK, envOfCycle
        <3>3. cycle' # None /\ cycle'.pc \in {"resolve", "download"} => cycle'.run # None
            BY <3>0
        <3> QED BY <1>0, <2>1, <3>0, <3>1, <3>2, <3>3, CycleKeeps
    <2>5. CASE Resolve /\ ~FailCycle
        <3>1. cycle.run # None /\ cycle # None
            BY <2>5 DEF Resolve, IInv, HandoffOK
        <3>0. cycle' \in CycleType /\ cycle'.run = cycle.run
            <4>1. Goto("reconcile") \/ Goto("download")
                BY <2>5 DEF Resolve
            <4> QED BY <1>0, <3>1, <4>1, GotoFacts
        <3>2. Typed(u')
            <4>1. u' = u \/ u' = [u EXCEPT !.phase = "downloading", !.stage = cycle.run]
                BY <2>5 DEF Resolve
            <4>2. cycle.run \in Builds
                BY <1>0, <3>1 DEF CycleType, OrNone
            <4> QED BY <1>0, <4>1, <4>2 DEF Typed, OrNone
        <3>3. /\ u'.handoff = u.handoff /\ u'.id = u.id /\ u'.armed = u.armed
              /\ u'.prepared = u.prepared /\ u'.candidate = u.candidate
            BY <1>0, <2>5 DEF Resolve, Typed
        <3>4. cycle' # None /\ cycle'.pc \in {"resolve", "download"} => cycle'.run # None
            BY <3>0, <3>1
        <3> QED BY <1>0, <2>1, <3>0, <3>2, <3>3, <3>4, CycleKeeps DEF IInv, OfferOK, envOfCycle
    <2> QED BY <1>2, <2>2, <2>3, <2>4, <2>5 DEF Query, Resolve
<1>3. CASE Download
    <2>1. UNCHANGED envOfCycle /\ cycle # None /\ cycle.run # None
        BY <1>3 DEF Download, IInv, HandoffOK
    <2>2. cycle.run \in Builds
        BY <1>0, <2>1 DEF CycleType, OrNone
    <2>0. cycle' \in CycleType /\ cycle'.pc = "reconcile"
        <3>1. Goto("reconcile")
            BY <1>3 DEF Download
        <3> QED BY <1>0, <2>1, <3>1, GotoFacts
    <2>3. Typed(u') /\ disk' \subseteq Builds /\ disk \subseteq disk'
        <3>1. \/ /\ disk' = disk \cup {cycle.run}
                 /\ u' = [u EXCEPT !.phase = "ready", !.stage = None,
                                   !.prepared = cycle.run, !.candidate = cycle.run]
              \/ /\ u' = [u EXCEPT !.phase = Rest, !.stage = None]
                 /\ disk' = disk
            BY <1>3 DEF Download
        <3>2. ASSUME u' = [u EXCEPT !.phase = "ready", !.stage = None,
                                    !.prepared = cycle.run, !.candidate = cycle.run]
              PROVE  Typed(u')
            <4>1. cycle.run \in OrNone(Builds) /\ None \in OrNone(Builds)
                BY <2>2 DEF OrNone
            <4> QED BY <1>0, <3>2, <4>1 DEF Typed
        <3>3. ASSUME u' = [u EXCEPT !.phase = Rest, !.stage = None]
              PROVE  Typed(u')
            <4>1. Rest \in {"ready", "error"} /\ None \in OrNone(Builds)
                BY DEF Rest, OrNone
            <4> HIDE DEF Rest
            <4> QED BY <1>0, <3>3, <4>1 DEF Typed
        <3> QED BY <1>0, <2>2, <3>1, <3>2, <3>3
    <2>4. u'.handoff = u.handoff /\ u'.id = u.id /\ u'.armed = u.armed
        BY <1>0, <1>3 DEF Download, Typed
    <2>5. OfferOK'
        <3>1. OfferOK /\ vanished' = vanished
            BY <2>1 DEF IInv, envOfCycle
        <3>2. CASE disk' = disk \cup {cycle.run} /\ u'.prepared = cycle.run /\ u'.candidate = cycle.run
            BY <3>1, <3>2 DEF OfferOK
        <3>3. CASE disk' = disk /\ u'.prepared = u.prepared /\ u'.candidate = u.candidate
            BY <3>1, <3>3 DEF OfferOK
        <3> QED BY <1>0, <1>3, <3>2, <3>3 DEF Download, Typed
    <2> QED BY <2>0, <2>1, <2>3, <2>4, <2>5, CycleKeeps
<1>4. CASE Reconcile
    <2>1. UNCHANGED envOfCycle /\ u' = u /\ cycle # None
        BY <1>4 DEF Reconcile
    <2>2. cycle' \in CycleType /\ cycle'.pc = "release" /\ disk' \subseteq Builds
        <3>1. Goto("release") /\ disk' \subseteq disk
            BY <1>4 DEF Reconcile
        <3> QED BY <1>0, <2>1, <3>1, GotoFacts
    <2>3. u.id # None => disk' = disk
        BY <1>4 DEF Reconcile, IInv, HandoffOK
    <2>4. OfferOK'
        BY <1>4, <2>1 DEF Reconcile, Protected, IInv, OfferOK, envOfCycle
    <2> QED BY <1>0, <2>1, <2>2, <2>3, <2>4, CycleKeeps
<1>5. CASE Release
    <2>1. UNCHANGED envOfCycle /\ cycle' = None /\ disk' = disk
        BY <1>5 DEF Release
    <2>2. /\ Typed(u') /\ u'.handoff = u.handoff /\ u'.id = u.id /\ u'.armed = u.armed
          /\ u'.prepared = u.prepared /\ u'.candidate = u.candidate
        BY <1>0, <1>5 DEF Release, Typed
    <2>3. cycle' \in CycleType /\ OfferOK'
        BY <2>1, <2>2 DEF CycleType, OrNone, IInv, OfferOK, envOfCycle
    <2> QED BY <1>0, <2>1, <2>2, <2>3, CycleKeeps
<1> QED BY <1>1, <1>2, <1>3, <1>4, <1>5 DEF CycleStep

--------------------------------------------------------------------------------
(* Handoffs *)

\* No helper may stop the application: what may be said when a handoff is given up.
Harmless ==
    \A n \in Attempts :
        ~(attempt[n].go /\ attempt[n].helper \in {"boot", "waiting", "verify", "committed"})

\* Whatever gives up the handoff of a harmless helper keeps the invariant.
LEMMA GivenUpKeeps ==
    ASSUME IInv, Harmless, Typed(u'), u'.id = None, ~u'.handoff,
           u'.prepared = u.prepared, u'.candidate = u.candidate,
           install' \in {install, Resting}, unsent' \subseteq Attempts,
           UNCHANGED <<app, runtime, cycle, attempt, disk, vanished, used>>
    PROVE  IInv'
<1> USE NoneIsNothing DEF IInv
<1>1. install' \in [pc : {"idle", "launch", "await", "accepted"}, id : OrNone(Attempts)]
    BY DEF TypeOK, Resting, OrNone
<1>2. TypeOK'
    BY <1>1 DEF TypeOK, Typed
<1>3. install'.pc # "idle" => install' = install
    BY DEF Resting
<1>4. Numbered' /\ HandoffOK' /\ InstallOK' /\ HandedOK' /\ OfferOK'
    BY <1>3 DEF Numbered, HandoffOK, InstallOK, HandedOK, OfferOK
<1>5. GateOK' /\ FilesOK'
    BY DEF GateOK, FilesOK, Harmless
<1> QED BY <1>2, <1>4, <1>5

LEMMA ClearedFacts ==
    ASSUME IInv, NEW phase \in {"idle", "ready", "error"}, u' = Cleared(phase)
    PROVE  /\ Typed(u') /\ u'.id = None /\ ~u'.handoff
           /\ u'.prepared = u.prepared /\ u'.candidate = u.candidate
<1>1. Typed(u)
    BY Types DEF IInv
<1> QED BY <1>1 DEF Cleared, Typed, OrNone

\* A handoff that is not armed has a harmless helper.
LEMMA UnarmedIsHarmless ==
    ASSUME IInv, ~u.armed \/ u.id = None
    PROVE  Harmless
BY NoneIsNothing DEF IInv, GateOK, Harmless

LEMMA CancelKeeps ==
    ASSUME IInv, Harmless, CancelInstall, unsent' \subseteq Attempts,
           UNCHANGED <<app, runtime, cycle, install, disk, vanished, used>>
    PROVE  IInv'
<1>1. u' = Cleared(Rest) /\ Rest \in {"idle", "ready", "error"} /\ UNCHANGED attempt
    BY DEF CancelInstall, Rest
<1> QED BY <1>1, ClearedFacts, GivenUpKeeps

LEMMA RejectedFacts ==
    ASSUME IInv, install.pc # "idle", Rejected(install.id)
    PROVE  /\ install' = Resting /\ Harmless
           /\ Typed(u') /\ u'.id = None /\ ~u'.handoff
           /\ u'.prepared = u.prepared /\ u'.candidate = u.candidate
<1>1. Typed(u) /\ u.id \in {install.id, None} /\ (u.id # None => ~u.armed) /\ install' = Resting
    BY Types DEF IInv, InstallOK, Rejected
<1>2. Harmless
    BY <1>1, UnarmedIsHarmless
<1>3. CASE u.id = install.id
    BY <1>1, <1>2, <1>3, ClearedFacts DEF Rejected
<1>4. CASE u.id # install.id
    BY <1>1, <1>2, <1>4 DEF Rejected, IInv, HandoffOK
<1> QED BY <1>3, <1>4

LEMMA InstallInv ==
    ASSUME IInv, NEW b \in Builds, Install(b)
    PROVE  IInv'
<1> USE NoneIsNothing DEF IInv
<1>0. Typed(u) /\ u.prepared # None /\ u.candidate = b /\ u.phase = "ready" /\ install.pc = "idle"
    BY Types DEF Install
<1>1. CASE u.prepared \notin disk
    <2>1. UNCHANGED <<app, runtime, cycle, install, unsent, attempt, disk, vanished, used>>
        BY <1>1 DEF Install
    <2>2. /\ Typed(u') /\ u'.handoff = u.handoff /\ u'.id = u.id /\ u'.armed = u.armed
          /\ u'.prepared = None
        <3>1. u' = [u EXCEPT !.prepared = None, !.phase = "idle", !.candidate = None]
            BY <1>1 DEF Install
        <3> QED BY <1>0, <3>1 DEF Typed, OrNone
    <2> QED BY <2>1, <2>2, Types, CycleKeeps DEF HandoffOK, OfferOK, envOfCycle, TypeOK
<1>2. CASE u.prepared \in disk
    <2> DEFINE n == used + 1
    <2>1. /\ n \in Attempts /\ used' = n /\ runtime' = None
          /\ install' = [pc |-> "launch", id |-> n]
          /\ attempt' = [attempt EXCEPT ![n].build = u.prepared, ![n].confirmed = b]
          /\ UNCHANGED <<app, cycle, unsent, disk, vanished>>
        BY <1>2 DEF Install
    <2>2. /\ Typed(u') /\ u'.handoff /\ u'.id = n /\ ~u'.armed
          /\ u'.prepared = u.prepared /\ u'.candidate = u.candidate
        <3>1. u' = [u EXCEPT !.handoff = TRUE, !.id = n, !.lease = "open", !.armed = FALSE,
                             !.phase = "installing"]
            BY <1>2 DEF Install
        <3> QED BY <1>0, <2>1, <3>1 DEF Typed, OrNone
    <2>3. used \in Nat /\ used < n /\ n \in Nat /\ n <= MaxAttempt
        BY <2>1, UpdaterAssumption DEF TypeOK, Attempts
    <2>4. attempt[n] = NoAttempt /\ u.id = None
        BY <2>1, <2>3 DEF Numbered, HandoffOK, Install, Admits
    <2>5. /\ attempt' \in [Attempts -> AttemptType]
          /\ attempt'[n] = [NoAttempt EXCEPT !.build = u.prepared, !.confirmed = b]
          /\ \A m \in Attempts \ {n} : attempt'[m] = attempt[m]
        BY <1>0, <2>1, <2>4 DEF TypeOK, Typed, AttemptType, OrNone
    <2>6. /\ attempt'[n].go = FALSE /\ attempt'[n].helper = "none" /\ attempt'[n].accepted = "none"
          /\ attempt'[n].build = u.prepared /\ attempt'[n].confirmed = b
        BY <2>5 DEF NoAttempt
    <2>7. TypeOK'
        BY <2>1, <2>2, <2>3, <2>5 DEF TypeOK, Typed, OrNone
    <2>8. Numbered' /\ HandoffOK'
        BY <2>1, <2>2, <2>3, <2>5 DEF Numbered, HandoffOK, TypeOK, Attempts
    <2>9. InstallOK'
        BY <2>1, <2>2, <2>3, <2>6 DEF InstallOK
    <2>10. GateOK' /\ FilesOK'
        <3>1. Harmless
            BY <2>4, UnarmedIsHarmless
        <3>2. GateOK'
            BY <2>5, <2>6, <3>1 DEF GateOK, Harmless
        <3>3. u.prepared = b
            BY <1>0 DEF OfferOK
        <3>4. FilesOK'
            <4> SUFFICES ASSUME NEW m \in Attempts
                         PROVE  /\ attempt'[m].accepted = "error" => attempt'[m].helper = "exited"
                                /\ attempt'[m].go => attempt'[m].sent
                                /\ attempt'[m].helper \in {"verify", "committed", "setup", "installed"}
                                     => attempt'[m].go
                                /\ attempt'[m].build = attempt'[m].confirmed
                BY DEF FilesOK
            <4>1. CASE m = n
                BY <2>6, <3>3, <4>1
            <4>2. CASE m # n
                BY <2>5, <4>2 DEF FilesOK
            <4> QED BY <4>1, <4>2
        <3> QED BY <3>2, <3>4
    <2>11. OfferOK' /\ HandedOK'
        BY <1>2, <2>1, <2>2, <2>6 DEF OfferOK, HandedOK
    <2> QED BY <2>7, <2>8, <2>9, <2>10, <2>11
<1> QED BY <1>1, <1>2

LEMMA LaunchInv == ASSUME IInv, Launch PROVE IInv'
<1> USE NoneIsNothing DEF IInv
<1> DEFINE n == install.id
<1>1. /\ install.pc = "launch" /\ n \in Attempts /\ n <= used /\ attempt[n].helper = "none"
      /\ ~attempt[n].go /\ u.id \in {n, None} /\ (u.id # None => ~u.armed)
      /\ UNCHANGED <<app, cycle, unsent, disk, vanished, used>>
    BY DEF Launch, InstallOK, TypeOK, OrNone
<1>2. CASE Rejected(n) /\ UNCHANGED <<runtime, attempt>>
    BY <1>1, <1>2, RejectedFacts, GivenUpKeeps DEF TypeOK
<1>3. CASE /\ runtime' = n
           /\ attempt' = [attempt EXCEPT ![n].helper = "boot"]
           /\ install' = [install EXCEPT !.pc = "await"]
           /\ UNCHANGED u
    <2>1. /\ attempt' \in [Attempts -> AttemptType]
          /\ \A m \in Attempts \ {n} : attempt'[m] = attempt[m]
          /\ attempt'[n] = [attempt[n] EXCEPT !.helper = "boot"]
        BY <1>1, <1>3 DEF TypeOK, AttemptType
    <2>2. /\ attempt'[n].helper = "boot" /\ attempt'[n].go = attempt[n].go
          /\ attempt'[n].build = attempt[n].build /\ attempt'[n].confirmed = attempt[n].confirmed
          /\ attempt'[n].accepted = attempt[n].accepted
        BY <1>1, <2>1 DEF TypeOK, AttemptType
    <2>3. install'.pc = "await" /\ install'.id = n
        BY <1>3 DEF TypeOK
    <2>4. TypeOK'
        BY <1>1, <1>3, <2>1 DEF TypeOK, OrNone
    <2>5. Numbered' /\ HandoffOK' /\ InstallOK'
        BY <1>1, <1>3, <2>1, <2>2, <2>3
           DEF Numbered, HandoffOK, InstallOK, TypeOK, Attempts
    <2>6. GateOK' /\ FilesOK'
        BY <1>1, <1>3, <2>1, <2>2 DEF GateOK, FilesOK
    <2>7. OfferOK' /\ HandedOK'
        BY <1>1, <1>3, <2>1, <2>2 DEF OfferOK, HandedOK
    <2> QED BY <2>4, <2>5, <2>6, <2>7
<1> QED BY <1>2, <1>3 DEF Launch

LEMMA AwaitInv == ASSUME IInv, Await PROVE IInv'
<1> USE NoneIsNothing DEF IInv
<1> DEFINE n == install.id
<1>1. /\ install.pc = "await" /\ n \in Attempts /\ n <= used /\ runtime = n
      /\ UNCHANGED <<app, cycle, unsent, disk, vanished, used>>
    BY DEF Await, InstallOK, TypeOK, OrNone
<1>2. CASE install' = [install EXCEPT !.pc = "accepted"] /\ UNCHANGED <<u, runtime, attempt>>
    <2>1. install'.pc = "accepted" /\ install'.id = n
        BY <1>2 DEF TypeOK
    <2>2. TypeOK'
        BY <1>1, <1>2 DEF TypeOK
    <2>3. Numbered' /\ HandoffOK' /\ InstallOK'
        BY <1>1, <1>2, <2>1 DEF Numbered, HandoffOK, InstallOK
    <2>4. GateOK' /\ FilesOK' /\ OfferOK' /\ HandedOK'
        BY <1>1, <1>2 DEF GateOK, FilesOK, OfferOK, HandedOK
    <2> QED BY <2>2, <2>3, <2>4
<1>3. CASE /\ Rejected(n) /\ runtime' = None
           /\ attempt' = [attempt EXCEPT ![n].helper = "exited"]
    <2>1. /\ install' = Resting /\ Harmless
          /\ Typed(u') /\ u'.id = None /\ ~u'.handoff
          /\ u'.prepared = u.prepared /\ u'.candidate = u.candidate
        BY <1>1, <1>3, RejectedFacts
    <2>2. /\ attempt' \in [Attempts -> AttemptType]
          /\ \A m \in Attempts \ {n} : attempt'[m] = attempt[m]
          /\ attempt'[n] = [attempt[n] EXCEPT !.helper = "exited"]
        BY <1>1, <1>3 DEF TypeOK, AttemptType
    <2>3. /\ attempt'[n].helper = "exited" /\ attempt'[n].go = attempt[n].go
          /\ attempt'[n].sent = attempt[n].sent
          /\ attempt'[n].build = attempt[n].build /\ attempt'[n].confirmed = attempt[n].confirmed
        BY <1>1, <2>2 DEF TypeOK, AttemptType
    <2>4. TypeOK'
        BY <1>1, <1>3, <2>1, <2>2 DEF TypeOK, Typed, Resting, OrNone
    <2>5. Numbered' /\ HandoffOK' /\ InstallOK'
        BY <1>1, <1>3, <2>1, <2>2 DEF Numbered, HandoffOK, InstallOK, Resting, TypeOK, Attempts
    <2>6. GateOK' /\ FilesOK'
        <3>1. GateOK'
            BY <2>1, <2>2, <2>3 DEF GateOK, Harmless
        <3>2. FilesOK'
            <4>1. \A m \in Attempts : m = n \/ attempt'[m] = attempt[m]
                BY <2>2
            <4>2. /\ attempt[n].go => attempt[n].sent
                  /\ attempt[n].build = attempt[n].confirmed
                BY <1>1 DEF FilesOK
            <4> QED BY <2>3, <4>1, <4>2 DEF FilesOK
        <3> QED BY <3>1, <3>2
    <2>7. OfferOK' /\ HandedOK'
        BY <1>1, <2>1 DEF OfferOK, HandedOK
    <2> QED BY <2>4, <2>5, <2>6, <2>7
<1> QED BY <1>2, <1>3 DEF Await

LEMMA AcceptedInv == ASSUME IInv, Accepted PROVE IInv'
<1> USE NoneIsNothing DEF IInv
<1> DEFINE n == install.id
<1>1. /\ install.pc = "accepted" /\ n \in Attempts /\ runtime = n /\ u.id \in {n, None}
      /\ UNCHANGED <<app, runtime, cycle, disk, vanished, used>>
    BY DEF Accepted, InstallOK, TypeOK, OrNone
<1>2. CASE Rejected(n) /\ UNCHANGED <<attempt, unsent>>
    BY <1>1, <1>2, RejectedFacts, GivenUpKeeps DEF TypeOK
<1>3. CASE /\ u' = [u EXCEPT !.lease = "running"]
           /\ install' = Resting
           /\ unsent' = unsent \cup {n}
           /\ UNCHANGED attempt
    <2>1. /\ Typed(u') /\ u'.id = u.id /\ u'.handoff = u.handoff /\ u'.armed = u.armed
          /\ u'.prepared = u.prepared /\ u'.candidate = u.candidate
        BY <1>3, Types DEF Typed
    <2>2. TypeOK'
        BY <1>1, <1>3, <2>1 DEF TypeOK, Typed, Resting, OrNone
    <2>3. Numbered' /\ HandoffOK' /\ InstallOK'
        BY <1>1, <1>3, <2>1 DEF Numbered, HandoffOK, InstallOK, Resting
    <2>4. GateOK' /\ FilesOK' /\ OfferOK' /\ HandedOK'
        BY <1>1, <1>3, <2>1 DEF GateOK, FilesOK, OfferOK, HandedOK
    <2> QED BY <2>2, <2>3, <2>4
<1> QED BY <1>2, <1>3 DEF Accepted

--------------------------------------------------------------------------------
(* Responses, leases and the helper *)

LEMMA ArmInv ==
    ASSUME IInv, NEW n \in unsent, Arm(n), install.pc = "idle", unsent' = unsent \ {n},
           UNCHANGED <<app, runtime, cycle, install, disk, vanished, used>>
    PROVE  IInv'
<1> USE NoneIsNothing DEF IInv
<1>0. n \in Attempts /\ unsent' \subseteq Attempts
    BY DEF TypeOK
<1>1. CASE UNCHANGED <<u, attempt>>
    <2>1. TypeOK'
        BY <1>0, <1>1 DEF TypeOK
    <2> QED BY <1>1, <2>1
            DEF Numbered, HandoffOK, InstallOK, GateOK, FilesOK, OfferOK, HandedOK
<1>2. CASE CancelInstall /\ ~u.armed
    BY <1>0, <1>2, UnarmedIsHarmless, CancelKeeps
<1>3. CASE /\ u.id = n /\ ~u.armed /\ runtime # None /\ ~Exited(runtime)
           /\ u' = [u EXCEPT !.armed = TRUE]
           /\ attempt' = [attempt EXCEPT ![runtime].go = TRUE, ![n].sent = TRUE]
    <2>1. runtime = n /\ n <= used
        BY <1>0, <1>3 DEF HandoffOK
    <2>2. /\ Typed(u') /\ u'.id = n /\ u'.handoff = u.handoff /\ u'.armed
          /\ u'.prepared = u.prepared /\ u'.candidate = u.candidate
        BY <1>3, Types DEF Typed
    <2>3. /\ attempt' \in [Attempts -> AttemptType]
          /\ \A m \in Attempts \ {n} : attempt'[m] = attempt[m]
          /\ attempt'[n] = [attempt[n] EXCEPT !.go = TRUE, !.sent = TRUE]
        <3>1. attempt \in [Attempts -> AttemptType]
            BY DEF TypeOK
        <3>2. [attempt[n] EXCEPT !.go = TRUE, !.sent = TRUE] \in AttemptType
            BY <1>0, <3>1 DEF AttemptType
        <3>3. attempt' = [attempt EXCEPT ![n] = [attempt[n] EXCEPT !.go = TRUE, !.sent = TRUE]]
            BY <1>0, <1>3, <2>1, <3>1 DEF AttemptType
        <3> QED BY <1>0, <3>1, <3>2, <3>3
    <2>4. /\ attempt'[n].go /\ attempt'[n].sent /\ attempt'[n].helper = attempt[n].helper
          /\ attempt'[n].accepted = attempt[n].accepted
          /\ attempt'[n].build = attempt[n].build /\ attempt'[n].confirmed = attempt[n].confirmed
        BY <1>0, <2>3 DEF TypeOK, AttemptType
    <2>5. TypeOK'
        BY <1>0, <2>2, <2>3 DEF TypeOK, Typed
    <2>6. Numbered' /\ HandoffOK' /\ InstallOK'
        BY <1>0, <1>3, <2>1, <2>2, <2>3
           DEF Numbered, HandoffOK, InstallOK, TypeOK, Attempts
    <2>7. GateOK' /\ FilesOK'
        <3>1. Harmless
            BY <1>3, UnarmedIsHarmless
        <3>2. GateOK'
            BY <2>2, <2>3, <3>1 DEF GateOK, Harmless
        <3>3. FilesOK'
            <4>1. \A m \in Attempts : m = n \/ attempt'[m] = attempt[m]
                BY <2>3
            <4>2. /\ attempt[n].accepted = "error" => attempt[n].helper = "exited"
                  /\ attempt[n].build = attempt[n].confirmed
                BY <1>0 DEF FilesOK
            <4> QED BY <2>4, <4>1, <4>2 DEF FilesOK
        <3> QED BY <3>2, <3>3
    <2>8. OfferOK' /\ HandedOK'
        BY <1>0, <1>3, <2>2, <2>4 DEF OfferOK, HandedOK
    <2> QED BY <2>5, <2>6, <2>7, <2>8
<1> QED BY <1>1, <1>2, <1>3 DEF Arm

LEMMA RespondInv == ASSUME IInv, NEW n \in unsent, Respond(n) PROVE IInv'
<1>1. /\ install.pc = "idle" /\ unsent' = unsent \ {n} /\ unsent' \subseteq Attempts
      /\ UNCHANGED <<app, runtime, cycle, install, disk, vanished, used>>
    BY DEF Respond, IInv, TypeOK
<1>2. CASE Arm(n)
    BY <1>1, <1>2, ArmInv
<1>3. CASE Disarm(n)
    <2>1. CASE CancelInstall /\ ~u.armed
        BY <1>1, <2>1, UnarmedIsHarmless, CancelKeeps
    <2>2. CASE UNCHANGED <<u, attempt>>
        <3>1. TypeOK'
            BY <1>1, <2>2 DEF IInv, TypeOK
        <3> QED BY <1>1, <2>2, <3>1
                DEF IInv, Numbered, HandoffOK, InstallOK, GateOK, FilesOK, OfferOK, HandedOK
    <2> QED BY <1>3, <2>1, <2>2 DEF Disarm
<1> QED BY <1>2, <1>3 DEF Respond

LEMMA LeaseEndsInv == ASSUME IInv, LeaseEnds PROVE IInv'
<1>1. /\ Typed(u') /\ u'.id = u.id /\ u'.handoff = u.handoff /\ u'.armed = u.armed
      /\ u'.prepared = u.prepared /\ u'.candidate = u.candidate
    BY Types DEF LeaseEnds, IInv, Typed
<1>2. UNCHANGED envOfCycle /\ cycle' = cycle /\ disk' = disk
    BY DEF LeaseEnds, envOfCycle
<1> QED BY <1>1, <1>2, Types, CycleKeeps DEF IInv, HandoffOK, OfferOK, TypeOK, envOfCycle

\* A handoff is given up by a watchdog only if its helper is harmless: it is not armed,
\* or the helper has exited.
LEMMA WritesBlockedInv == ASSUME IInv, WritesBlocked PROVE IInv'
<1>1. Harmless
    <2>1. CASE Lapsed
        BY <2>1, UnarmedIsHarmless DEF Lapsed
    <2>2. CASE Failed
        <3>1. u.id # None /\ runtime # None /\ runtime \in Attempts
            BY <2>2 DEF Failed, WritesBlocked, IInv, HandoffOK, TypeOK, OrNone
        <3>2. attempt[runtime].helper = "exited"
            BY <2>2, <3>1 DEF Failed, Exited, IInv, FilesOK
        <3>3. u.armed => runtime = u.id
            BY <3>1 DEF IInv, HandoffOK, InstallOK
        <3> QED BY <3>1, <3>2, <3>3, UnarmedIsHarmless DEF IInv, GateOK, Harmless
    <2> QED BY <2>1, <2>2 DEF WritesBlocked
<1> QED BY <1>1, CancelKeeps DEF WritesBlocked, IInv, TypeOK

\* A helper goes on, writes its note or ends.
LEMMA HelperKeeps ==
    ASSUME IInv, NEW n \in Attempts, app' \in {"up", "down", "killed"}, UNCHANGED envOfHelper,
           NEW helper \in {"waiting", "verify", "committed", "setup", "installed", "exited"},
           NEW note \in {"none", "accepted", "error"},
           attempt' = [attempt EXCEPT ![n].helper = helper, ![n].accepted = note],
           attempt[n].helper # "none",
           helper \in {"waiting", "verify", "committed"}
               => attempt[n].helper \in {"boot", "waiting", "verify", "committed"},
           helper \in {"verify", "committed", "setup", "installed"} => attempt[n].go,
           note = "error" => helper = "exited"
    PROVE  IInv'
<1> USE NoneIsNothing DEF IInv, envOfHelper
<1>1. /\ attempt' \in [Attempts -> AttemptType]
      /\ \A m \in Attempts \ {n} : attempt'[m] = attempt[m]
      /\ attempt'[n] = [attempt[n] EXCEPT !.helper = helper, !.accepted = note]
    <2> DEFINE new == [attempt[n] EXCEPT !.helper = helper, !.accepted = note]
    <2>1. attempt \in [Attempts -> AttemptType]
        BY DEF TypeOK
    <2>2. new \in AttemptType
        BY <2>1 DEF AttemptType
    <2>3. attempt' = [attempt EXCEPT ![n] = new]
        BY <2>1 DEF AttemptType
    <2> QED BY <2>1, <2>2, <2>3
<1>2. /\ attempt'[n].helper = helper /\ attempt'[n].accepted = note
      /\ attempt'[n].go = attempt[n].go /\ attempt'[n].sent = attempt[n].sent
      /\ attempt'[n].build = attempt[n].build /\ attempt'[n].confirmed = attempt[n].confirmed
    BY <1>1 DEF TypeOK, AttemptType
<1>3. n <= used
    BY DEF Numbered, NoAttempt, TypeOK, Attempts
<1>4. TypeOK'
    BY <1>1 DEF TypeOK
<1>5. Numbered' /\ HandoffOK' /\ InstallOK'
    BY <1>1, <1>2, <1>3 DEF Numbered, HandoffOK, InstallOK, TypeOK, Attempts, OrNone
<1>6. GateOK'
    BY <1>1, <1>2 DEF GateOK
<1>7. FilesOK'
    BY <1>1, <1>2 DEF FilesOK
<1>8. OfferOK' /\ HandedOK'
    BY <1>1, <1>2 DEF OfferOK, HandedOK, TypeOK, OrNone
<1> QED BY <1>4, <1>5, <1>6, <1>7, <1>8

LEMMA HelperInv ==
    ASSUME IInv, NEW n \in Attempts, HelperStep(n) \/ HelperDies(n)
    PROVE  IInv'
<1>0. attempt[n] \in AttemptType /\ UNCHANGED envOfHelper
    BY DEF IInv, TypeOK, HelperStep, HelperDies, Boot, Poll, Verify, Terminate, Setup
<1>1. app' \in {"up", "down", "killed"}
    BY DEF IInv, TypeOK, HelperStep, HelperDies, Boot, Poll, Verify, Terminate, Setup
<1>2. \A pc : Becomes(n, pc) =>
          attempt' = [attempt EXCEPT ![n].helper = pc, ![n].accepted = attempt[n].accepted]
    BY <1>0 DEF Becomes, IInv, TypeOK, AttemptType
<1>3. attempt[n].helper \in {"boot", "waiting", "verify", "committed", "setup"}
    BY DEF HelperStep, HelperDies, Boot, Poll, Verify, Terminate, Setup
<1>4. attempt[n].accepted \in {"none", "accepted"}
    BY <1>0, <1>3 DEF IInv, FilesOK, AttemptType
<1>5. PICK helper \in {"waiting", "verify", "committed", "setup", "installed", "exited"},
           note \in {"none", "accepted", "error"} :
        /\ attempt' = [attempt EXCEPT ![n].helper = helper, ![n].accepted = note]
        /\ helper \in {"waiting", "verify", "committed"}
               => attempt[n].helper \in {"boot", "waiting", "verify", "committed"}
        /\ helper \in {"verify", "committed", "setup", "installed"} => attempt[n].go
        /\ note = "error" => helper = "exited"
    <2>1. CASE HelperFails(n)
        <3>1. PICK note \in {attempt[n].accepted, "error"} :
                  attempt' = [attempt EXCEPT ![n].helper = "exited", ![n].accepted = note]
            BY <2>1 DEF HelperFails
        <3> QED BY <1>4, <3>1
    <2>2. CASE Boot(n) /\ ~HelperFails(n)
        BY <2>2 DEF Boot
    <2>3. CASE Poll(n)
        BY <1>2, <1>4, <2>3 DEF Poll
    <2>4. CASE Verify(n) /\ ~HelperFails(n)
        BY <1>2, <1>4, <2>4 DEF Verify, IInv, FilesOK
    <2>5. CASE Terminate(n)
        BY <1>2, <1>4, <2>5 DEF Terminate, IInv, FilesOK
    <2>6. CASE Setup(n)
        BY <1>2, <1>4, <2>6 DEF Setup, IInv, FilesOK
    <2>7. CASE HelperDies(n)
        BY <1>2, <1>4, <2>7 DEF HelperDies
    <2> QED BY <2>1, <2>2, <2>3, <2>4, <2>5, <2>6, <2>7 DEF HelperStep
<1> QED BY <1>0, <1>1, <1>3, <1>5, HelperKeeps

LEMMA SurroundingsInv ==
    ASSUME IInv, AppExits \/ \E b \in disk : Vanish(b)
    PROVE  IInv'
<1>1. UNCHANGED <<u, runtime, cycle, install, unsent, attempt, used>>
    BY DEF AppExits, Vanish
<1>2. /\ app' \in {"up", "down", "killed"} /\ disk' \subseteq Builds /\ vanished' \subseteq Builds
      /\ disk \cup vanished \subseteq disk' \cup vanished'
    BY DEF AppExits, Vanish, IInv, TypeOK
<1>3. TypeOK'
    BY <1>1, <1>2 DEF IInv, TypeOK
<1> QED BY <1>1, <1>2, <1>3
        DEF IInv, Numbered, HandoffOK, InstallOK, GateOK, FilesOK, OfferOK, HandedOK

LEMMA StepIInv == IInv /\ [Next]_vars => IInv'
<1> SUFFICES ASSUME IInv, [Next]_vars PROVE IInv'
    OBVIOUS
<1>1. CASE UNCHANGED vars
    <2>1. TypeOK'
        BY <1>1 DEF vars, IInv, TypeOK
    <2> QED BY <1>1, <2>1
            DEF vars, IInv, Numbered, HandoffOK, InstallOK, GateOK, FilesOK, OfferOK, HandedOK
<1>2. CASE Check \/ Scheduled \/ CycleStep
    BY <1>2, CycleInv
<1>3. CASE \E b \in Builds : Install(b)
    BY <1>3, InstallInv
<1>4. CASE Launch \/ Await \/ Accepted
    BY <1>4, LaunchInv, AwaitInv, AcceptedInv
<1>5. CASE \E n \in unsent : Respond(n)
    BY <1>5, RespondInv
<1>6. CASE LeaseEnds \/ WritesBlocked
    BY <1>6, LeaseEndsInv, WritesBlockedInv
<1>7. CASE \E n \in Attempts : HelperStep(n) \/ HelperDies(n)
    BY <1>7, HelperInv
<1>8. CASE AppExits \/ \E b \in disk : Vanish(b)
    BY <1>8, SurroundingsInv
<1> QED BY <1>1, <1>2, <1>3, <1>4, <1>5, <1>6, <1>7, <1>8 DEF Next

--------------------------------------------------------------------------------
\* The fields of the updater, the files and the helpers keep their types, and the
\* invariant holds in all reachable states.
THEOREM InvariantHolds == Spec => []IInv
<1> QED BY InitIInv, StepIInv, PTL DEF Spec

\* The write gate is closed for as long as a helper may stop the application
\* (updater.py:415), for any number of builds and attempts.
THEOREM GateAlwaysHeld == Spec => []GateHeld
<1>1. IInv => GateHeld
    BY NoneIsNothing DEF IInv, GateOK, HandoffOK, GateHeld, Doomed
<1> QED BY <1>1, InvariantHolds, PTL

\* What stops the application is what was confirmed, and its installer is there unless
\* others removed it (updater.py:508; auth.py:302).
THEOREM InstallsConfirmed == Spec => []InstallsAsConfirmed
<1>1. IInv => StopIsConfirmed
    BY DEF IInv, FilesOK, StopIsConfirmed
<1>2. IInv => InstallerKept
    BY NoneIsNothing DEF IInv, GateOK, OfferOK, HandedOK, InstallerKept, Doomed
<1>3. IInv => InstallsAsConfirmed
    BY <1>1, <1>2 DEF InstallsAsConfirmed
<1> QED BY <1>3, InvariantHolds, PTL
===============================================================================
