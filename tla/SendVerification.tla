--------------------------- MODULE SendVerification ----------------------------
(***************************************************************************)
(* match_outbox of send_verification.py, with what it is used for: sends   *)
(* of one seller to one contact, made one after the other by the GUI       *)
(* worker, a person who types in the same chat, a local source in which    *)
(* messages turn up late, and the verifier that reads the source and later *)
(* judges the tasks by what it read (reconcile_once).                      *)
(*                                                                         *)
(* Time is a small clock.  A message is an id with its text, its time and  *)
(* its author; the author is what the properties speak of and what no      *)
(* operator taken from the code looks at.                                  *)
(***************************************************************************)
EXTENDS Naturals, FiniteSets

CONSTANTS Tasks, Texts, TextOf,  \* the tasks with may-be-equal texts
          Person,                \* author of what is typed by hand
          MaxMessage,            \* bound on messages
          MaxTime,               \* bound on the clock
          Slack, Window,         \* the 5 s before and the 120 s after of _candidates
          MaxInput,              \* longest time from the start of the input to the message
          None

ASSUME VerificationAssumption ==
  /\ TextOf \in [Tasks -> Texts] /\ Person \notin Tasks
  /\ MaxMessage \in Nat /\ MaxTime \in Nat /\ Slack \in Nat /\ Window \in Nat
  /\ MaxInput \in 0..Window /\ None \notin Nat

VARIABLES
  now,
  task,      \* the app_outbox rows: status, may_have_sent, baseline and claim
  sent,      \* the messages of the platform
  source,    \* the ids the local source shows
  snapshot   \* None, or what the verifier has read and not yet judged

vars == <<now, task, sent, source, snapshot>>

Ids == 1..MaxMessage
Times == 0..MaxTime
Message == [id : Ids, text : Texts, at : Times, by : Tasks \cup {Person}]
NoBase == [ids |-> {}, checkedAt |-> 0, sentAt |-> 0]
Busy == \E t \in Tasks : task[t].status \in {"based", "running"}

--------------------------------------------------------------------------------
(* match_outbox *)

\* _candidates: the messages that could be the one task t sent.
Candidates(t, messages) ==
  LET base == task[t].base IN
  {m \in messages : /\ m.id \notin base.ids
                    /\ m.text = TextOf[t]
                    /\ m.at + Slack >= base.checkedAt
                    /\ m.at <= base.sentAt + Window}

\* Mutant of Rival: only the tasks still in doubt are looked at.
RivalVerifying(t, u, m) ==
  task[u].status = "verifying" /\ TextOf[u] = TextOf[t] /\ Candidates(u, {m}) # {}

\* Another task that keeps message m from being the proof of task t.
Rival(t, u, m) ==
  \/ task[u].matched = m.id
  \/ task[u].mayHaveSent /\ TextOf[u] = TextOf[t] /\ Candidates(u, {m}) # {}

\* The status of a task that nothing proves: still waiting, or unknown after its window.
Waiting(t, checkedAt) ==
  IF task[t].status = "unknown" \/ checkedAt > task[t].base.sentAt + Window
  THEN "unknown" ELSE "verifying"

\* The status match_outbox gives a task, with the message when it is observed.
Verdict(t, snap) ==
  LET found == Candidates(t, snap.messages) IN
  CASE ~snap.valid -> [status |-> Waiting(t, snap.checkedAt), matched |-> None]
    [] snap.valid /\ snap.checkedAt < task[t].base.checkedAt ->
         [status |-> "unknown", matched |-> None]
    [] snap.valid /\ snap.checkedAt >= task[t].base.checkedAt /\ found = {} ->
         [status |-> Waiting(t, snap.checkedAt), matched |-> None]
    [] snap.valid /\ snap.checkedAt >= task[t].base.checkedAt /\ found # {} ->
         LET m == CHOOSE x \in found : TRUE IN
         IF Cardinality(found) = 1 /\ \A u \in Tasks \ {t} : ~Rival(t, u, m)
         THEN [status |-> "observed", matched |-> m.id]
         ELSE [status |-> "unknown", matched |-> None]

--------------------------------------------------------------------------------
(* The GUI worker: one send at a time *)

\* The baseline is read before the guard.
TakeBaseline(t) ==
  /\ ~Busy /\ task[t].status = "queued"
  /\ task' = [task EXCEPT ![t].status = "based",
                          ![t].base = [ids |-> source, checkedAt |-> now, sentAt |-> now]]
  /\ UNCHANGED <<now, sent, source, snapshot>>

\* The frame matched: the input begins.
Begin(t) ==
  /\ task[t].status = "based"
  /\ task' = [task EXCEPT ![t].status = "running", ![t].base.sentAt = now]
  /\ UNCHANGED <<now, sent, source, snapshot>>

\* The send is marked, then clicked: the message is sent, or it never is; a call
\* that fails after the click leaves "unknown".
NextId == Cardinality(sent) + 1
Click(t) ==
  /\ task[t].status = "running"
  /\ \/ /\ NextId \in Ids /\ now <= task[t].base.sentAt + MaxInput
        /\ sent' = sent \cup {[id |-> NextId, text |-> TextOf[t], at |-> now, by |-> t]}
     \/ UNCHANGED sent
  /\ \E status \in {"verifying", "unknown"} :
       task' = [task EXCEPT ![t].status = status, ![t].mayHaveSent = TRUE]
  /\ UNCHANGED <<now, source, snapshot>>

\* Nothing was sent and nothing was marked.
GiveUp(t) ==
  /\ task[t].status \in {"based", "running"}
  /\ task' = [task EXCEPT ![t].status = "failed"]
  /\ UNCHANGED <<now, sent, source, snapshot>>

--------------------------------------------------------------------------------
(* The person, the platform and the clock *)

Type(text) ==
  /\ NextId \in Ids
  /\ sent' = sent \cup {[id |-> NextId, text |-> text, at |-> now, by |-> Person]}
  /\ UNCHANGED <<now, task, source, snapshot>>

Arrive(m) ==
  /\ m.id \notin source
  /\ source' = source \cup {m.id}
  /\ UNCHANGED <<now, task, sent, snapshot>>

Wait ==
  /\ now < MaxTime
  /\ now' = now + 1
  /\ UNCHANGED <<task, sent, source, snapshot>>

--------------------------------------------------------------------------------
(* The verifier *)

\* Mutant of Judged: an unknown task is settled.
JudgedVerifying == {t \in Tasks : task[t].status = "verifying" /\ task[t].mayHaveSent}

Judged == {t \in Tasks : task[t].status \in {"verifying", "unknown"} /\ task[t].mayHaveSent}

\* read_source_messages: the observation starts now; the source may be unreadable.
Read(valid) ==
  /\ snapshot = None /\ Judged # {}
  /\ snapshot' = [valid |-> valid, checkedAt |-> now,
                  messages |-> IF valid THEN {m \in sent : m.id \in source} ELSE {}]
  /\ UNCHANGED <<now, task, sent, source>>

\* The locked section after the read: tasks that were sent meanwhile are judged too.
Judge ==
  /\ snapshot # None
  /\ task' = [t \in Tasks |->
       LET v == Verdict(t, snapshot) IN
       IF t \in Judged /\ v.status # task[t].status
       THEN [task[t] EXCEPT !.status = v.status, !.matched = v.matched] ELSE task[t]]
  /\ snapshot' = None
  /\ UNCHANGED <<now, sent, source>>

--------------------------------------------------------------------------------
Init == /\ now = 0 /\ sent = {} /\ source = {} /\ snapshot = None
        /\ task = [t \in Tasks |-> [status |-> "queued", mayHaveSent |-> FALSE,
                                    base |-> NoBase, matched |-> None]]

Next == \/ \E t \in Tasks : TakeBaseline(t) \/ Begin(t) \/ Click(t) \/ GiveUp(t)
        \/ \E text \in Texts : Type(text)
        \/ \E m \in sent : Arrive(m)
        \/ Wait
        \/ \E valid \in BOOLEAN : Read(valid)
        \/ Judge

Spec == Init /\ [][Next]_vars

\* The verifier thread reads every two seconds and judges what it read; the source
\* is readable again and again.
Fairness == WF_vars(Wait) /\ WF_vars(Judge) /\ SF_vars(Read(TRUE))

FairSpec == Spec /\ Fairness

--------------------------------------------------------------------------------
(* Invariants *)

TypeOK ==
  /\ now \in Times
  /\ task \in [Tasks -> [status : {"queued", "based", "running", "verifying", "unknown",
                                   "observed", "failed"},
                         mayHaveSent : BOOLEAN,
                         base : [ids : SUBSET Ids, checkedAt : Times, sentAt : Times],
                         matched : Ids \cup {None}]]
  /\ sent \subseteq Message /\ source \subseteq Ids
  /\ snapshot # None => /\ snapshot.valid \in BOOLEAN /\ snapshot.checkedAt \in Times
                        /\ snapshot.messages \subseteq sent

\* The message a task is shown with is never the message of another task, however late
\* messages turn up, whatever was judged before and whatever a person typed between;
\* and two tasks judged by one snapshot never share their proof, although each verdict
\* is reached from the rows as they were before the others were written.
NoMisattribution ==
  /\ \A t \in Tasks, m \in sent : task[t].matched = m.id => m.by \in {t, Person}
  /\ \A t, u \in Tasks : t # u /\ task[t].matched # None => task[t].matched # task[u].matched

(* Liveness *)

\* Task t has sent the only message of its text, the local source shows it, and no
\* other task with its text may have sent.
Provable(t) ==
  /\ task[t].status \in {"verifying", "unknown"}
  /\ \A u \in Tasks \ {t} : TextOf[u] = TextOf[t] => ~task[u].mayHaveSent
  /\ \E m \in sent : m.by = t /\ m.id \in source
                     /\ \A n \in sent \ {m} : n.text # TextOf[t]

\* Doubt is not final: a task that missed its deadline or was judged too early is still
\* observed once its message can be told apart.
ProvableIsObserved == \A t \in Tasks : ~<>[]Provable(t)

\* No task waits beyond its window.
WaitEnds ==
  \A t \in Tasks :
    (task[t].status = "verifying" /\ now > task[t].base.sentAt + Window)
      ~> task[t].status # "verifying"

\* Both: a verifier that keeps reading settles every task as well as it can be settled
\* (send_verification.py:95, :119).
VerifierSettles == ProvableIsObserved /\ WaitEnds
================================================================================
