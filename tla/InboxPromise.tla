------------------------------ MODULE InboxPromise ------------------------------
(***************************************************************************)
(* What the workbench promises about unread messages, with no word on      *)
(* sequence numbers, scans, tokens or restarts: a directory is opened      *)
(* once, and only then may messages enter it as history; whatever arrives  *)
(* later is unread; an unread message becomes read only by being shown     *)
(* since the account was last selected; and nothing else ever changes.     *)
(***************************************************************************)
CONSTANTS Dirs, Mids

VARIABLES mark,       \* of each message in each directory
          opened,     \* directories with a baseline
          selected,   \* the directory the user works on
          shown       \* messages shown to the user since it was selected

pvars == <<mark, opened, selected, shown>>

Marks == {"absent", "history", "unread", "read"}

PInit == /\ mark = [d \in Dirs |-> [m \in Mids |-> "absent"]]
         /\ opened = {}
         /\ selected \in Dirs
         /\ shown = {}

\* Messages enter directory d; history is possible in the step that opens it.
Enter(d) ==
  /\ \E kept, new \in SUBSET {m \in Mids : mark[d][m] = "absent"} :
       /\ kept \cap new = {}
       /\ d \in opened => kept = {}
       /\ mark' = [mark EXCEPT ![d] = [m \in Mids |->
                     IF m \in kept THEN "history" ELSE IF m \in new THEN "unread" ELSE @[m]]]
  /\ opened' = opened \cup {d}
  /\ UNCHANGED <<selected, shown>>

Show ==
  /\ \E ms \in SUBSET {m \in Mids : mark[selected][m] # "absent"} : shown' = shown \cup ms
  /\ UNCHANGED <<mark, opened, selected>>

MarkRead ==
  /\ \E ms \in SUBSET {m \in shown : mark[selected][m] = "unread"} :
       mark' = [mark EXCEPT ![selected] = [m \in Mids |-> IF m \in ms THEN "read" ELSE @[m]]]
  /\ UNCHANGED <<opened, selected, shown>>

\* Another selection, or a restart: what was on the screen no longer counts.
Select ==
  /\ selected' \in Dirs
  /\ shown' = {}
  /\ UNCHANGED <<mark, opened>>

PNext == (\E d \in Dirs : Enter(d)) \/ Show \/ MarkRead \/ Select

PSpec == PInit /\ [][PNext]_pvars
================================================================================
