------------------------ MODULE SendVerificationProofs ------------------------
(***************************************************************************)
(* Theorems about SendVerification, for any tasks, texts, slack and        *)
(* window: no task is shown with the message of another task, and no two   *)
(* tasks share their proof.                                                *)
(***************************************************************************)
EXTENDS SendVerification, FiniteSetTheorems, TLAPS

Base == [ids : SUBSET Ids, checkedAt : Times, sentAt : Times]
Row == [status : {"queued", "based", "running", "verifying", "unknown", "observed", "failed"},
        mayHaveSent : BOOLEAN, base : Base, matched : Ids \cup {None}]

\* The platform's ids are given out once, in order; what the source shows and what a
\* baseline holds was sent.
Numbered ==
  /\ IsFiniteSet(sent)
  /\ \A m \in sent : m.id \in 1..Cardinality(sent)
  /\ \A m, n \in sent : m.id = n.id => m = n
  /\ source \subseteq 1..Cardinality(sent)
  /\ \A t \in Tasks : task[t].base.ids \subseteq 1..Cardinality(sent)

\* A baseline is read before the moment it speaks of is over.
ClockOK == \A t \in Tasks : task[t].base.checkedAt <= now /\ task[t].base.sentAt <= now

\* Message m is one that match_outbox takes for a possible message of its author,
\* whose click is marked and whose baseline is final.
Own(m) ==
  LET t == m.by IN
  /\ task[t].status \in {"verifying", "unknown", "observed"} /\ task[t].mayHaveSent
  /\ m.text = TextOf[t] /\ m.id \notin task[t].base.ids
  /\ task[t].base.checkedAt <= m.at /\ m.at <= task[t].base.sentAt + Window

SentOK == \A m \in sent : m.by \in Tasks => Own(m)

\* What task t is shown with is a message, its own or one typed by hand.
Explained(t, id) == id # None => \E m \in sent : m.id = id /\ m.by \in {t, Person}
MatchedOK == \A t \in Tasks : Explained(t, task[t].matched)

Distinct == \A t, u \in Tasks : t # u /\ task[t].matched # None
                                  => task[t].matched # task[u].matched

IInv == TypeOK /\ Numbered /\ ClockOK /\ SentOK /\ MatchedOK /\ Distinct

--------------------------------------------------------------------------------
\* NoMisattribution follows: ids tell messages apart.
LEMMA InvariantSuffices == IInv => NoMisattribution
<1> SUFFICES ASSUME IInv PROVE NoMisattribution
  OBVIOUS
<1>1. ASSUME NEW t \in Tasks, NEW m \in sent, task[t].matched = m.id
      PROVE  m.by \in {t, Person}
  <2>1. m.id # None
    BY VerificationAssumption DEF IInv, TypeOK, Message, Ids
  <2>2. PICK n \in sent : n.id = m.id /\ n.by \in {t, Person}
    BY <1>1, <2>1 DEF IInv, MatchedOK, Explained
  <2> QED BY <2>2 DEF IInv, Numbered
<1> QED BY <1>1 DEF NoMisattribution, IInv, Distinct

LEMMA RowTypes == TypeOK => task \in [Tasks -> Row] /\ \A t \in Tasks : task[t].base \in Base
BY DEF TypeOK, Row, Base

LEMMA InitIInv == Init => IInv
<1> SUFFICES ASSUME Init PROVE IInv
  OBVIOUS
<1>1. TypeOK
  BY VerificationAssumption DEF Init, TypeOK, NoBase, Times
<1>2. Numbered
  BY FS_EmptySet DEF Init, Numbered, NoBase
<1>3. ClockOK /\ SentOK /\ MatchedOK /\ Distinct
  BY DEF Init, ClockOK, SentOK, MatchedOK, Distinct, Explained, NoBase
<1> QED BY <1>1, <1>2, <1>3 DEF IInv

--------------------------------------------------------------------------------
(* match_outbox *)

\* A message of another task is not taken for a proof, for its author is a rival.
LEMMA AuthorIsRival ==
  ASSUME IInv, NEW t \in Tasks, NEW m \in sent, NEW messages \in SUBSET sent,
         m \in Candidates(t, messages), m.by \in Tasks \ {t}
  PROVE  Rival(t, m.by, m)
<1>1. Own(m) /\ m.text = TextOf[t]
  BY DEF IInv, SentOK, Candidates
<1>2. m \in Candidates(m.by, {m})
  <2>1. /\ m.at \in Nat /\ task[m.by].base.checkedAt \in Nat
    BY DEF IInv, TypeOK, Message, Times
  <2>2. m.at + Slack >= task[m.by].base.checkedAt
    BY <1>1, <2>1, VerificationAssumption DEF Own
  <2> QED BY <1>1, <2>2 DEF Own, Candidates
<1> QED BY <1>1, <1>2 DEF Own, Rival

\* What a verdict that names a message says of it.
LEMMA VerdictFacts ==
  ASSUME IInv, snapshot # None, NEW t \in Tasks
  PROVE  LET v == Verdict(t, snapshot) IN
         /\ v.status \in {"verifying", "unknown", "observed"} /\ v.matched \in Ids \cup {None}
         /\ v.matched # None =>
              \E m \in snapshot.messages :
                /\ v.matched = m.id /\ m \in Candidates(t, snapshot.messages)
                /\ \A u \in Tasks \ {t} : ~Rival(t, u, m)
<1> DEFINE found == Candidates(t, snapshot.messages)
           m == CHOOSE x \in found : TRUE
<1>1. Waiting(t, snapshot.checkedAt) \in {"verifying", "unknown"}
  BY DEF Waiting
<1>2. found \subseteq snapshot.messages /\ snapshot.messages \subseteq sent /\ sent \subseteq Message
  BY DEF Candidates, IInv, TypeOK
<1>3. CASE /\ snapshot.valid /\ ~(snapshot.checkedAt < task[t].base.checkedAt) /\ found # {}
           /\ \A u \in Tasks \ {t} : ~Rival(t, u, m)
           /\ Verdict(t, snapshot) = [status |-> "observed", matched |-> m.id]
  <2> HIDE DEF found
  <2>1. m \in found
    BY <1>3
  <2>2. m.id \in Ids
    BY <1>2, <2>1 DEF Message
  <2> HIDE DEF m
  <2> QED BY <1>2, <1>3, <2>1, <2>2 DEF found
<1>4. CASE \E status \in {"verifying", "unknown"} :
             Verdict(t, snapshot) = [status |-> status, matched |-> None]
  BY <1>4
<1>5. snapshot.valid \in BOOLEAN /\ snapshot.checkedAt \in Nat /\ task[t].base.checkedAt \in Nat
  BY DEF IInv, TypeOK, Times
<1>6. CASE ~snapshot.valid
  BY <1>1, <1>4, <1>6 DEF Verdict
<1>7. CASE snapshot.valid /\ snapshot.checkedAt < task[t].base.checkedAt
  BY <1>4, <1>5, <1>7 DEF Verdict
<1>8. CASE snapshot.valid /\ snapshot.checkedAt >= task[t].base.checkedAt /\ found = {}
  BY <1>1, <1>4, <1>5, <1>8 DEF Verdict
<1>9. CASE snapshot.valid /\ snapshot.checkedAt >= task[t].base.checkedAt /\ found # {}
  <2>1. ~(snapshot.checkedAt < task[t].base.checkedAt)
    BY <1>5, <1>9
  <2>2. Verdict(t, snapshot) =
          IF Cardinality(found) = 1 /\ \A u \in Tasks \ {t} : ~Rival(t, u, m)
          THEN [status |-> "observed", matched |-> m.id]
          ELSE [status |-> "unknown", matched |-> None]
    BY <1>9, <2>1 DEF Verdict
  <2> HIDE DEF found, m
  <2> QED BY <1>3, <1>4, <1>9, <2>1, <2>2
<1> QED BY <1>5, <1>6, <1>7, <1>8, <1>9

--------------------------------------------------------------------------------
(* Steps *)

\* A new message gets a number that nothing holds yet.
LEMMA SentKeeps ==
  ASSUME IInv, NextId \in Ids, NEW m \in Message, m.id = NextId, sent' = sent \cup {m},
         UNCHANGED source, \A t \in Tasks : task'[t].base = task[t].base
  PROVE  Numbered'
<1> DEFINE n == Cardinality(sent)
<1>1. n \in Nat /\ IsFiniteSet(sent)
  BY FS_CardinalityType DEF IInv, Numbered
<1>2. m \notin sent /\ m.id = n + 1
  BY <1>1 DEF IInv, Numbered, NextId
<1>3. IsFiniteSet(sent') /\ Cardinality(sent') = n + 1
  BY <1>1, <1>2, FS_AddElement
<1> HIDE DEF n
<1>4. \A x \in sent : x.id \in 1..n
  BY DEF IInv, Numbered, n
<1>5. \A x \in sent' : x.id \in 1..(n + 1)
  BY <1>1, <1>2, <1>4
<1>6. \A x, y \in sent' : x.id = y.id => x = y
  BY <1>1, <1>2, <1>4 DEF IInv, Numbered
<1>7. source' \subseteq 1..(n + 1) /\ \A t \in Tasks : task'[t].base.ids \subseteq 1..(n + 1)
  BY <1>1 DEF IInv, Numbered, n
<1> QED BY <1>3, <1>5, <1>6, <1>7 DEF Numbered

\* The worker's steps before the click, for a task that nothing was sent for.
LEMMA BeforeClickKeeps ==
  ASSUME IInv, NEW t \in Tasks, task[t].status \in {"queued", "based", "running"},
         UNCHANGED <<now, sent, source, snapshot>>, TypeOK',
         \A u \in Tasks \ {t} : task'[u] = task[u],
         task'[t].matched = task[t].matched,
         task'[t].base.ids \subseteq task[t].base.ids \cup source,
         task'[t].base.checkedAt <= now, task'[t].base.sentAt <= now
  PROVE  IInv'
<1>1. Numbered'
  BY DEF IInv, Numbered
<1>2. ClockOK'
  BY DEF IInv, ClockOK
<1>3. SentOK'
  BY DEF IInv, SentOK, Own
<1>4. MatchedOK' /\ Distinct'
  BY DEF IInv, MatchedOK, Distinct, Explained
<1> QED BY <1>1, <1>2, <1>3, <1>4 DEF IInv

LEMMA WorkerKeeps ==
  ASSUME IInv, NEW t \in Tasks, TakeBaseline(t) \/ Begin(t) \/ GiveUp(t)
  PROVE  IInv'
<1>1. /\ now \in Times /\ source \subseteq Ids /\ now <= now
      /\ task[t].base.checkedAt <= now /\ task[t].base.sentAt <= now
  BY DEF IInv, TypeOK, ClockOK, Times
<1>2. CASE TakeBaseline(t)
  <2>1. TypeOK'
    <3> DEFINE base == [ids |-> source, checkedAt |-> now, sentAt |-> now]
               row == [task[t] EXCEPT !.status = "based", !.base = base]
    <3>1. task \in [Tasks -> Row] /\ task' = [task EXCEPT ![t] = row]
      BY <1>2, RowTypes DEF IInv, TakeBaseline
    <3>2. base \in Base
      BY <1>1 DEF Base
    <3> HIDE DEF base
    <3>3. row \in Row
      BY <3>1, <3>2 DEF Row
    <3> HIDE DEF row
    <3>4. task' \in [Tasks -> Row]
      BY <3>1, <3>3
    <3> QED BY <1>2, <3>4 DEF IInv, TypeOK, Row, Base, TakeBaseline
  <2> QED BY <1>1, <1>2, <2>1, BeforeClickKeeps DEF TakeBaseline, IInv, TypeOK
<1>3. CASE Begin(t)
  <2> DEFINE base == [task[t].base EXCEPT !.sentAt = now]
             row == [task[t] EXCEPT !.status = "running", !.base = base]
  <2>1. task \in [Tasks -> Row] /\ task[t].base \in Base
    BY RowTypes DEF IInv
  <2>2. task' = [task EXCEPT ![t] = row]
    BY <1>3 DEF Begin
  <2>3. base \in Base /\ base.ids = task[t].base.ids
        /\ base.checkedAt = task[t].base.checkedAt /\ base.sentAt = now
    BY <1>1, <2>1 DEF Base
  <2> HIDE DEF base
  <2>4. row \in Row /\ row.base = base /\ row.matched = task[t].matched
    BY <2>1, <2>3 DEF Row
  <2> HIDE DEF row
  <2>5. task' \in [Tasks -> Row] /\ task'[t] = row /\ \A u \in Tasks \ {t} : task'[u] = task[u]
    BY <2>1, <2>2, <2>4
  <2>6. TypeOK'
    BY <1>3, <2>5 DEF IInv, TypeOK, Begin, Row, Base
  <2> QED BY <1>1, <1>3, <2>3, <2>4, <2>5, <2>6, BeforeClickKeeps DEF Begin
<1>4. CASE GiveUp(t)
  <2>1. TypeOK'
    BY <1>4 DEF IInv, TypeOK, GiveUp
  <2> QED BY <1>1, <1>4, <2>1, BeforeClickKeeps DEF GiveUp, IInv, TypeOK
<1> QED BY <1>2, <1>3, <1>4

LEMMA ClickKeeps ==
  ASSUME IInv, NEW t \in Tasks, Click(t)
  PROVE  IInv'
<1>1. PICK status \in {"verifying", "unknown"} :
        task' = [task EXCEPT ![t].status = status, ![t].mayHaveSent = TRUE]
  BY DEF Click
<1>2. /\ task[t].status = "running" /\ UNCHANGED <<now, source, snapshot>>
      /\ \A u \in Tasks : task'[u].base = task[u].base /\ task'[u].matched = task[u].matched
      /\ task'[t].status = status /\ task'[t].mayHaveSent
      /\ \A u \in Tasks \ {t} : task'[u] = task[u]
  BY <1>1 DEF Click, IInv, TypeOK
<1>3. TypeOK' /\ Numbered' /\ SentOK' /\ sent \subseteq sent'
  <2>1. \A m \in sent : m.by \in Tasks => Own(m)'
    BY <1>2 DEF IInv, SentOK, Own
  <2>2. CASE sent' = sent
    <3>1. TypeOK'
      BY <1>1, <1>2, <2>2 DEF IInv, TypeOK
    <3>2. Numbered'
      BY <1>2, <2>2 DEF IInv, Numbered
    <3> QED BY <2>1, <2>2, <3>1, <3>2 DEF SentOK
  <2>3. CASE /\ NextId \in Ids /\ now <= task[t].base.sentAt + MaxInput
             /\ sent' = sent \cup {[id |-> NextId, text |-> TextOf[t], at |-> now, by |-> t]}
    <3>0. PICK m \in Message : /\ m.id = NextId /\ m.text = TextOf[t] /\ m.at = now /\ m.by = t
                              /\ sent' = sent \cup {m}
      <4>1. [id |-> NextId, text |-> TextOf[t], at |-> now, by |-> t] \in Message
        BY <2>3, VerificationAssumption DEF Message, IInv, TypeOK
      <4> QED BY <2>3, <4>1
    <3>2. TypeOK'
      <4>1. task' \in [Tasks -> Row]
        <5> DEFINE row == [task[t] EXCEPT !.status = status, !.mayHaveSent = TRUE]
        <5>1. task \in [Tasks -> Row] /\ task' = [task EXCEPT ![t] = row]
          BY <1>1, RowTypes DEF IInv
        <5>2. row \in Row
          BY <5>1 DEF Row
        <5> HIDE DEF row
        <5> QED BY <5>1, <5>2
      <4> QED BY <1>2, <3>0, <4>1 DEF IInv, TypeOK, Row, Base
    <3>3. Numbered'
      BY <1>2, <2>3, <3>0, SentKeeps
    <3>4. Own(m)'
      <4>1. NextId \notin task[t].base.ids
        <5>1. Cardinality(sent) \in Nat
          BY FS_CardinalityType DEF IInv, Numbered
        <5> QED BY <5>1 DEF IInv, Numbered, NextId
      <4>2. now <= task[t].base.sentAt + Window
        BY <2>3, VerificationAssumption DEF IInv, TypeOK, Times
      <4> QED BY <1>2, <3>0, <4>1, <4>2 DEF Own, IInv, ClockOK
    <3> QED BY <2>1, <3>0, <3>2, <3>3, <3>4 DEF SentOK
  <2> QED BY <2>2, <2>3 DEF Click
<1>4. ClockOK' /\ MatchedOK' /\ Distinct'
  BY <1>2, <1>3 DEF IInv, ClockOK, MatchedOK, Distinct, Explained
<1> QED BY <1>3, <1>4 DEF IInv

\* The person, the platform, the clock and the verifier's read: no task changes.
LEMMA OtherKeeps ==
  ASSUME IInv, \/ \E text \in Texts : Type(text)
               \/ \E m \in sent : Arrive(m)
               \/ Wait
               \/ \E valid \in BOOLEAN : Read(valid)
  PROVE  IInv'
<1>1. task' = task /\ now' >= now /\ now' \in Times
  BY VerificationAssumption DEF Type, Arrive, Wait, Read, IInv, TypeOK, Times
<1>2. ASSUME NEW text \in Texts, Type(text) PROVE IInv'
  <2> DEFINE m == [id |-> NextId, text |-> text, at |-> now, by |-> Person]
  <2>1. m.id = NextId /\ m.by = Person
    OBVIOUS
  <2>2. sent' = sent \cup {m} /\ NextId \in Ids /\ UNCHANGED <<now, source, snapshot>>
    BY <1>2 DEF Type
  <2>3. m \in Message
    BY <1>2, <2>2 DEF Message, IInv, TypeOK
  <2> HIDE DEF m
  <2>4. TypeOK'
    BY <1>1, <2>2, <2>3 DEF IInv, TypeOK
  <2>5. Numbered'
    BY <1>1, <2>1, <2>2, <2>3, SentKeeps
  <2>6. SentOK'
    BY <1>1, <2>1, <2>2, VerificationAssumption DEF IInv, SentOK, Own
  <2>7. ClockOK' /\ MatchedOK' /\ Distinct'
    BY <1>1, <2>2 DEF IInv, ClockOK, MatchedOK, Distinct, Explained
  <2> QED BY <2>4, <2>5, <2>6, <2>7 DEF IInv
<1>3. ASSUME sent' = sent, source' \subseteq source \cup {m.id : m \in sent}, TypeOK'
      PROVE  IInv'
  <2>1. Numbered'
    BY <1>1, <1>3 DEF IInv, Numbered
  <2>2. ClockOK'
    BY <1>1 DEF IInv, ClockOK, TypeOK, Times
  <2>3. SentOK' /\ MatchedOK' /\ Distinct'
    BY <1>1, <1>3 DEF IInv, SentOK, Own, MatchedOK, Distinct, Explained
  <2> QED BY <1>3, <2>1, <2>2, <2>3 DEF IInv
<1>4. ASSUME NEW m \in sent, Arrive(m) PROVE IInv'
  <2>1. TypeOK'
    BY <1>1, <1>4 DEF IInv, TypeOK, Arrive, Message
  <2> QED BY <1>3, <1>4, <2>1 DEF Arrive
<1>5. CASE Wait
  <2>1. TypeOK'
    BY <1>1, <1>5 DEF IInv, TypeOK, Wait
  <2> QED BY <1>3, <1>5, <2>1 DEF Wait
<1>6. ASSUME NEW valid \in BOOLEAN, Read(valid) PROVE IInv'
  <2>1. TypeOK'
    BY <1>1, <1>6 DEF IInv, TypeOK, Read
  <2> QED BY <1>3, <1>6, <2>1 DEF Read
<1> QED BY <1>2, <1>4, <1>5, <1>6

\* One judgement settles several tasks by the rows as they were: two of them with the
\* same proof would have been each other's rivals.
LEMMA JudgeKeeps ==
  ASSUME IInv, Judge
  PROVE  IInv'
<1> DEFINE v(t) == Verdict(t, snapshot)
<1>1. /\ snapshot # None /\ snapshot' = None /\ UNCHANGED <<now, sent, source>>
      /\ task' = [t \in Tasks |->
            IF t \in Judged /\ v(t).status # task[t].status
            THEN [task[t] EXCEPT !.status = v(t).status, !.matched = v(t).matched] ELSE task[t]]
  BY DEF Judge
<1>2. \A t \in Tasks :
        /\ v(t).status \in {"verifying", "unknown", "observed"} /\ v(t).matched \in Ids \cup {None}
        /\ v(t).matched # None =>
             \E m \in snapshot.messages :
               /\ v(t).matched = m.id /\ m \in Candidates(t, snapshot.messages)
               /\ \A u \in Tasks \ {t} : ~Rival(t, u, m)
  BY <1>1, VerdictFacts
<1> HIDE DEF v
<1>3. ASSUME NEW t \in Tasks
      PROVE  /\ task'[t].base = task[t].base /\ task'[t].mayHaveSent = task[t].mayHaveSent
             /\ \/ task'[t] = task[t]
                \/ /\ t \in Judged /\ task'[t].matched = v(t).matched
                   /\ task'[t].status = v(t).status
                   /\ task'[t] = [task[t] EXCEPT !.status = v(t).status, !.matched = v(t).matched]
  <2>1. task[t] \in Row
    BY RowTypes DEF IInv
  <2>2. CASE t \in Judged /\ v(t).status # task[t].status
    BY <1>1, <2>1, <2>2 DEF Row
  <2>3. CASE ~(t \in Judged /\ v(t).status # task[t].status)
    BY <1>1, <2>3
  <2> QED BY <2>2, <2>3
<1>4. TypeOK'
  <2>1. ASSUME NEW t \in Tasks PROVE task'[t] \in Row
    <3>1. task[t] \in Row
      BY RowTypes DEF IInv
    <3> QED BY <1>2, <1>3, <3>1 DEF Row
  <2>2. task' \in [Tasks -> Row]
    BY <1>1, <2>1
  <2> QED BY <1>1, <2>2 DEF IInv, TypeOK, Row, Base
<1>5. Numbered' /\ ClockOK'
  BY <1>1, <1>3 DEF IInv, Numbered, ClockOK
<1>6. SentOK'
  <2>1. \A t \in Judged : t \in Tasks /\ task[t].mayHaveSent
    BY DEF Judged
  <2>2. ASSUME NEW m \in sent, m.by \in Tasks PROVE Own(m)'
    BY <1>2, <1>3, <2>2 DEF IInv, SentOK, Own
  <2> QED BY <1>1, <2>2 DEF SentOK
<1>7. MatchedOK'
  <2>1. ASSUME NEW t \in Tasks, v(t).matched # None PROVE Explained(t, v(t).matched)
    <3>1. PICK m \in snapshot.messages :
             /\ v(t).matched = m.id /\ m \in Candidates(t, snapshot.messages)
             /\ \A u \in Tasks \ {t} : ~Rival(t, u, m)
      BY <1>2, <2>1
    <3>2. snapshot.messages \in SUBSET sent /\ m \in sent /\ m.by \in Tasks \cup {Person}
      BY <1>1 DEF IInv, TypeOK, Message
    <3>3. m.by \in {t, Person}
      BY <3>1, <3>2, AuthorIsRival
    <3> QED BY <3>1, <3>2, <3>3 DEF Explained
  <2>2. \A t \in Tasks : Explained(t, task'[t].matched)
    BY <1>3, <2>1 DEF IInv, MatchedOK, Explained
  <2> QED BY <1>1, <2>2 DEF MatchedOK, Explained
<1>8. Distinct'
  <2> SUFFICES ASSUME NEW t \in Tasks, NEW u \in Tasks, t # u, task'[t].matched # None,
                      task'[t].matched = task'[u].matched
               PROVE  FALSE
    BY DEF Distinct
  <2>1. ASSUME NEW x \in Tasks, NEW y \in Tasks, x # y, x \in Judged,
               v(x).matched # None, v(x).matched = task[y].matched
        PROVE  FALSE
    BY <1>2, <2>1 DEF Rival
  <2>2. ASSUME t \in Judged, u \in Judged, v(t).matched # None, v(t).matched = v(u).matched
        PROVE  FALSE
    <3>1. PICK m \in snapshot.messages :
             /\ v(t).matched = m.id /\ m \in Candidates(t, snapshot.messages)
             /\ \A x \in Tasks \ {t} : ~Rival(t, x, m)
      BY <1>2, <2>2
    <3>2. PICK n \in snapshot.messages :
             v(u).matched = n.id /\ n \in Candidates(u, snapshot.messages)
      BY <1>2, <2>2
    <3>3. m = n
      BY <1>1, <2>2, <3>1, <3>2 DEF IInv, TypeOK, Numbered
    <3> QED BY <2>2, <3>1, <3>2, <3>3 DEF Rival, Judged, Candidates
  <2>3. CASE task'[t] = task[t] /\ task'[u] = task[u]
    BY <2>3 DEF IInv, Distinct
  <2>4. CASE t \in Judged /\ task'[t].matched = v(t).matched /\ task'[u] = task[u]
    BY <2>1, <2>4
  <2>5. CASE u \in Judged /\ task'[u].matched = v(u).matched /\ task'[t] = task[t]
    BY <2>1, <2>5
  <2>6. CASE /\ t \in Judged /\ task'[t].matched = v(t).matched
             /\ u \in Judged /\ task'[u].matched = v(u).matched
    BY <2>2, <2>6
  <2> QED BY <1>3, <2>3, <2>4, <2>5, <2>6
<1> QED BY <1>4, <1>5, <1>6, <1>7, <1>8 DEF IInv

LEMMA StepIInv == IInv /\ [Next]_vars => IInv'
<1> SUFFICES ASSUME IInv, [Next]_vars PROVE IInv'
  OBVIOUS
<1>1. CASE UNCHANGED vars
  BY <1>1 DEF vars, IInv, TypeOK, Numbered, ClockOK, SentOK, Own, MatchedOK, Distinct, Explained
<1>2. CASE Next
  BY <1>2, WorkerKeeps, ClickKeeps, OtherKeeps, JudgeKeeps DEF Next
<1> QED BY <1>1, <1>2

\* The invariant of the rows, the messages and what was read of them: every message a
\* task sent is one that match_outbox weighs against the others (send_verification.py:95).
THEOREM InvariantHolds == Spec => []IInv
<1> QED BY InitIInv, StepIInv, PTL DEF Spec

\* No task is shown with a message of another task, and no two share a proof
\* (send_verification.py:95, :119), however late messages turn up.
THEOREM NothingMisattributed == Spec => []NoMisattribution
<1> QED BY InvariantHolds, InvariantSuffices, PTL
================================================================================
