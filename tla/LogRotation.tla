----------------------------- MODULE LogRotation ------------------------------
(***************************************************************************)
(* The rotated log of a child process (shared/utils/process_logs.py).      *)
(*                                                                         *)
(* A file and its archives are each kept for a week from the first line in *)
(* them.  When that was is in another file beside each.  Every operation   *)
(* on either may fail, or the process may end after it.                    *)
(***************************************************************************)
EXTENDS Integers, FiniteSets

CONSTANTS
    Archives,       \* archives kept
    MaxAge,         \* how long a line may be kept
    MaxSize,        \* lines that a file takes
    MaxTime,        \* bound: the clock
    MaxFailures     \* bound: operations that fail, processes that end

None == -1

VARIABLES
    file,           \* file[0] is written, the others are the archives
    age,            \* the .age file of each, if any
    opened,         \* _opened_at: when the writer's file was begun, if it knows
    step,           \* what the writer does, and with which archive
    now,            \* the clock
    failures        \* failures left

vars == <<file, age, opened, step, now, failures>>

Files == 0..Archives
Idle == [at |-> "idle", number |-> 0]

\* lines: how many; oldest: when the first one was written.
NoFile == [lines |-> 0, oldest |-> None]
Exists(k) == file[k].lines > 0

At(at) == step.at = at
Go(at, number) == step' = [at |-> at, number |-> number]

\* _read_age: without the file, the birth of the log is a lower bound if the system
\* tells it; if not, the log counts as very old.
AgeOf(k) == IF age[k] # None THEN {age[k]} ELSE {0, file[k].oldest}

Expired(epoch) == epoch <= now - MaxAge \/ epoch > now

----------------------------------------------------------------------------
(* write *)

\* A line arrives; once a minute, or when something is due, expired files go first.
Write ==
    /\ At("idle")
    /\ \/ Go("prune", 0)
       \/ Go("open", 0)
    /\ UNCHANGED <<file, age, opened, now, failures>>

Prune ==
    /\ At("prune")
    /\ LET k == step.number
           next == IF k < Archives THEN [at |-> "prune", number |-> k + 1]
                   ELSE [at |-> "open", number |-> 0]
       IN  IF ~Exists(k)
           THEN age' = [age EXCEPT ![k] = None] /\ step' = next /\ UNCHANGED file
           ELSE \E epoch \in AgeOf(k) :
                IF Expired(epoch)
                THEN file' = [file EXCEPT ![k] = NoFile] /\ UNCHANGED <<step, age>>
                ELSE step' = next /\ UNCHANGED <<file, age>>
    /\ UNCHANGED <<opened, now, failures>>

\* Mutant of Opened: the writer takes its file for a new one.
OpenedNow == {now}

Opened == IF Exists(0) THEN AgeOf(0) ELSE {now}

\* The age is persisted before anything is appended.
Open ==
    /\ At("open")
    /\ IF opened = None \/ ~Exists(0)
       THEN /\ opened' \in Opened
            /\ age' = [age EXCEPT ![0] = opened']
       ELSE UNCHANGED <<opened, age>>
    /\ Go("check", 0)
    /\ UNCHANGED <<file, now, failures>>

\* A full file, or one of the day before, is rotated.
CheckRotation ==
    /\ At("check")
    /\ \/ /\ Exists(0)
          /\ file[0].lines >= MaxSize \/ now - opened >= 1
          /\ Go("drop", Archives)
       \/ /\ ~Exists(0) \/ (file[0].lines < MaxSize /\ now - opened < MaxAge)
          /\ Go("append", 0)
    /\ UNCHANGED <<file, age, opened, now, failures>>

\* The last archive is dropped, then its age.
DropLast ==
    /\ At("drop")
    /\ IF Exists(Archives)
       THEN file' = [file EXCEPT ![Archives] = NoFile] /\ UNCHANGED <<age, step>>
       ELSE /\ age' = [age EXCEPT ![Archives] = None]
            /\ Go("move", Archives) /\ UNCHANGED file
    /\ UNCHANGED <<opened, now, failures>>

NextArchive(k) == IF k > 1 THEN [at |-> "move", number |-> k - 1] ELSE [at |-> "begin", number |-> 0]

\* source.replace(target); the age that was read goes with it.
Move ==
    /\ At("move")
    /\ LET k == step.number
       IN  IF ~Exists(k - 1)
           THEN step' = NextArchive(k) /\ UNCHANGED file
           ELSE /\ file' = [file EXCEPT ![k] = file[k - 1], ![k - 1] = NoFile]
                /\ \E epoch \in AgeOf(k - 1) :
                    step' = [at |-> "age", number |-> k, epoch |-> epoch]
    /\ UNCHANGED <<age, opened, now, failures>>

WriteAge ==
    /\ At("age")
    /\ age' = [age EXCEPT ![step.number] = step.epoch]
    /\ Go("unage", step.number)
    /\ UNCHANGED <<file, opened, now, failures>>

DropAge ==
    /\ At("unage")
    /\ age' = [age EXCEPT ![step.number - 1] = None]
    /\ step' = NextArchive(step.number)
    /\ UNCHANGED <<file, opened, now, failures>>

BeginFile ==
    /\ At("begin")
    /\ opened' = now
    /\ age' = [age EXCEPT ![0] = now]
    /\ Go("append", 0)
    /\ UNCHANGED <<file, now, failures>>

AppendLine ==
    /\ At("append")
    /\ file' = [file EXCEPT ![0] = [lines |-> @.lines + 1,
                                    oldest |-> IF @.lines = 0 THEN now ELSE @.oldest]]
    /\ step' = Idle
    /\ UNCHANGED <<age, opened, now, failures>>

----------------------------------------------------------------------------
(* Failures *)

\* An operation fails and the line is dropped: the drain goes on with the next.
Drop ==
    /\ step # Idle /\ failures > 0
    /\ failures' = failures - 1
    /\ step' = Idle
    /\ UNCHANGED <<file, age, opened, now>>

\* An application that starts again knows nothing of its file.
Restart ==
    /\ failures > 0
    /\ failures' = failures - 1
    /\ step' = Idle /\ opened' = None
    /\ UNCHANGED <<file, age, now>>

Tick ==
    /\ At("idle") /\ now < MaxTime
    /\ now' = now + 1
    /\ UNCHANGED <<file, age, opened, step, failures>>

Init ==
    /\ file = [k \in Files |-> NoFile] /\ age = [k \in Files |-> None]
    /\ opened = None /\ step = Idle /\ now = 1
    /\ failures = MaxFailures

Next ==
    \/ Write \/ Prune \/ Open \/ CheckRotation \/ DropLast \/ Move \/ WriteAge \/ DropAge
    \/ BeginFile \/ AppendLine \/ Drop \/ Restart \/ Tick

Spec == Init /\ [][Next]_vars

----------------------------------------------------------------------------
(* Properties *)

\* No failure gives old lines a new age: what is recorded beside a file is never later
\* than the first line in it (process_logs.py:79-80, :162).
OldStaysOld == \A k \in Files : Exists(k) => age[k] <= file[k].oldest
=============================================================================
