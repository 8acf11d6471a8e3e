---------------------------- MODULE WorkbenchProofs ----------------------------
(***************************************************************************)
(* Theorems about what the pages of the workbench talk to, for any sets    *)
(* and bounds.  Suggestions: a batch has at most one accepted reply, and   *)
(* that reply has a task; a text is sent once, and once more for each      *)
(* deliberate new send.  AgentSessions: defaults are delivered without     *)
(* losing what users wrote, and answers are by the pinned version.         *)
(* Translations: the cache has only a text's own translation, and a        *)
(* success is complete.  Experiments: the buyer's message of a step is in  *)
(* a transcript once.  The workbench has all of it at once.                *)
(***************************************************************************)
EXTENDS Workbench, Sublists, FiniteSetTheorems, SequenceTheorems, WellFoundedInduction, TLAPS

--------------------------------------------------------------------------------
(* Suggestions *)

Row == [status : {"absent", "requested", "accepted", "discarded"}, batch : Nat]
SomeText == Texts \cup {NoText}
SomeIntent == Intents \cup {NoIntent}
SomeKey == Keys \cup {NoKey}
Task == [text : SomeText, intent : SomeIntent]
Entry == [key : Keys, text : SomeText]
Post == [key : Keys, text : SomeText, intent : SomeIntent]

TypeOK ==
    /\ intents \in [Intents -> Row]
    /\ tasks \in [Keys -> Task]
    /\ shown \subseteq Intents
    /\ draft \in Task
    /\ saved \in Seq(Entry)
    /\ dialog \in [text : SomeText, intent : SomeIntent, key : SomeKey, again : BOOLEAN]
    /\ posts \subseteq Post

\* What carries an intent carries its reply.
Linked(x) == x.intent # NoIntent => x.text = x.intent

LinksOK == Linked(draft) /\ Linked(dialog) /\ \A p \in posts : Linked(p)

\* Batches are numbered from 1; what is absent has none.
BatchesOK ==
    /\ \A i \in Intents : intents[i].status = "absent" <=> intents[i].batch = 0
    /\ \E n \in Nat : Batches \cup {0} = 0..n

Inv == TypeOK /\ LinksOK /\ BatchesOK /\ OneOfBatch

--------------------------------------------------------------------------------
(* Keys *)

LEMMA LeastNumber ==
    ASSUME NEW S \in SUBSET Nat, S # {}
    PROVE  \E n \in S : \A m \in S : n <= m
<1>1. PICK n \in S : \A m \in S : ~(<<m, n>> \in OpToRel(<, Nat))
    BY NatLessThanWellFounded, WFMin
<1>2. \A m \in S : n <= m
    <2>1. TAKE m \in S
    <2>2. m \in Nat /\ n \in Nat
        OBVIOUS
    <2>3. m < n => <<m, n>> \in OpToRel(<, Nat)
        BY <2>2 DEF OpToRel
    <2>4. ~(m < n)
        BY <1>1, <2>3
    <2> QED BY <2>2, <2>4
<1> QED BY <1>2

LEMMA GreatestIndex ==
    ASSUME NEW n \in Nat, NEW S \in SUBSET (1..n), S # {}
    PROVE  \E i \in S : \A j \in S : j <= i
<1> DEFINE D == {n - i : i \in S}
<1>1. D \in SUBSET Nat /\ D # {}
    <2>1. ASSUME NEW i \in S PROVE n - i \in Nat
        BY i \in 1..n
    <2> QED BY <2>1
<1>2. PICK m \in D : \A k \in D : m <= k
    BY <1>1, LeastNumber
<1>3. PICK i \in S : m = n - i
    BY <1>2
<1>4. \A j \in S : j <= i
    <2>1. TAKE j \in S
    <2>2. m <= n - j
        BY <1>2
    <2> QED BY <1>3, <2>2
<1> QED BY <1>4

LEMMA KeysNumbered == Cardinality(Keys) \in Nat /\ Keys \in SUBSET (1..Cardinality(Keys))
BY SuggestionsAssumption, FS_CardinalityType

LEMMA NewKeyType ==
    ASSUME Keys \ Drawn # {}
    PROVE  NewKey \in Keys \ Drawn
<1>1. \E k \in Keys \ Drawn : \A j \in Keys \ Drawn : k <= j
    <2>1. Keys \ Drawn \in SUBSET Nat
        BY KeysNumbered
    <2> QED BY <2>1, LeastNumber
<1> QED BY <1>1 DEF NewKey

LEMMA PriorKeyType ==
    ASSUME TypeOK
    PROVE  PriorKey \in SomeKey
<1> DEFINE same == {i \in DOMAIN saved : saved[i].text = dialog.text}
           last == CHOOSE i \in same : \A j \in same : j <= i
<1>1. saved \in Seq(Entry) /\ dialog.key \in SomeKey
    BY DEF TypeOK
<1>2. Len(saved) \in Nat /\ same \subseteq 1..Len(saved)
    BY <1>1
<1>3. same # {} => last \in same
    <2>1. same # {} => \E i \in same : \A j \in same : j <= i
        BY <1>2, GreatestIndex
    <2> QED BY <2>1
<1>4. same # {} => saved[last].key \in Keys
    <2> HIDE DEF last, same
    <2>1. \A i \in same : saved[i] \in Entry
        <3>1. DOMAIN saved = 1..Len(saved)
            BY <1>1
        <3>2. \A i \in 1..Len(saved) : saved[i] \in Entry
            BY <1>1
        <3> QED BY <1>2, <3>2
    <2> QED BY <1>3, <2>1 DEF Entry
<1>5. PriorKey = IF dialog.key # NoKey THEN dialog.key
                 ELSE IF same = {} THEN NoKey ELSE saved[last].key
    BY DEF PriorKey
<1> HIDE DEF same, last
<1> QED BY <1>1, <1>4, <1>5 DEF SomeKey

LEMMA ListedType == Listed \in SomeKey
<1> DEFINE same == {k \in Created : tasks[k].text = dialog.text}
           newest == CHOOSE k \in same : \A j \in same : j <= k
<1>1. same \in SUBSET Keys
    BY DEF Created
<1>2. same # {} => \E k \in same : \A j \in same : j <= k
    <2>1. same \in SUBSET (1..Cardinality(Keys))
        BY <1>1, KeysNumbered
    <2> HIDE DEF same, newest
    <2> QED BY <2>1, KeysNumbered, GreatestIndex
<1>3. same # {} => newest \in same
    BY <1>2
<1>4. Listed = IF same = {} THEN NoKey ELSE newest
    BY DEF Listed
<1> HIDE DEF same, newest
<1> QED BY <1>1, <1>3, <1>4 DEF SomeKey

--------------------------------------------------------------------------------
(* The steps *)

LEMMA InitInv == Init => Inv
<1> SUFFICES ASSUME Init PROVE Inv
    OBVIOUS
<1> USE SuggestionsAssumption DEF Init
<1>1. TypeOK
    BY DEF TypeOK, NoRow, NoTask, NoDialog, Row, Task, SomeText, SomeIntent, SomeKey,
           Texts, NoText, NoIntent, NoKey
<1>2. LinksOK
    BY DEF LinksOK, Linked, NoDialog
<1>3. \A i \in Intents : intents[i].status = "absent" /\ intents[i].batch = 0
    BY DEF NoRow
<1>4. BatchesOK
    <2>1. Batches \cup {0} = 0..0
        BY <1>3 DEF Batches
    <2> QED BY <1>3, <2>1 DEF BatchesOK
<1> QED BY <1>1, <1>2, <1>3, <1>4 DEF Inv, OneOfBatch

\* What leaves the intents and the tasks alone.
LEMMA KeptRows ==
    ASSUME Inv, UNCHANGED <<intents, tasks>>
    PROVE  BatchesOK' /\ OneOfBatch'
BY DEF Inv, BatchesOK, Batches, OneOfBatch, Created

\* A run of the agent opens a batch above all others.
LEMMA SuggestKeeps ==
    ASSUME Inv, NEW replies \in Replies, intents' = Dispatched(replies), UNCHANGED tasks
    PROVE  intents' \in [Intents -> Row] /\ BatchesOK' /\ OneOfBatch'
<1>0. /\ intents \in [Intents -> Row] /\ BatchesOK /\ OneOfBatch
      /\ replies # {} /\ replies \subseteq Intents
      /\ \A i \in replies : intents[i] = NoRow
    BY DEF Inv, TypeOK, Replies
<1>1. PICK n \in Nat : Batches \cup {0} = 0..n
    BY <1>0 DEF BatchesOK
<1>2. Batches = 0..n
    <2>1. PICK i \in replies : intents[i].batch = 0
        BY <1>0 DEF NoRow
    <2>2. 0 \in Batches
        BY <1>0, <2>1 DEF Batches
    <2> QED BY <1>1, <2>2
<1>3. Batch = n + 1
    <2>1. Cardinality(0..n) = n - 0 + 1
        BY FS_Interval
    <2> QED BY <1>2, <2>1 DEF Batch
<1>4. \A i \in Intents : /\ i \in replies => intents'[i] = Requested(n + 1)
                         /\ i \notin replies => intents'[i] = intents[i]
    BY <1>3 DEF Dispatched
<1>5. Requested(n + 1) \in Row /\ Requested(n + 1).status = "requested"
      /\ Requested(n + 1).batch = n + 1
    BY DEF Requested, Row
<1>6. intents' \in [Intents -> Row]
    BY <1>0, <1>4, <1>5, <1>3 DEF Dispatched
<1>7. \A i \in Intents : intents[i].batch \in 0..n
    BY <1>2 DEF Batches
<1>8. \A i \in Intents : intents'[i].status = "absent" <=> intents'[i].batch = 0
    BY <1>0, <1>4, <1>5 DEF BatchesOK
<1>9. {intents'[i].batch : i \in Intents} \cup {0} = 0..(n + 1)
    <2>1. \A i \in Intents : intents'[i].batch \in 0..(n + 1)
        BY <1>4, <1>5, <1>7
    <2>2. \A b \in 1..n : \E i \in Intents : intents'[i].batch = b
        <3>1. TAKE b \in 1..n
        <3>2. b \in Batches
            BY <1>2
        <3>3. PICK i \in Intents : intents[i].batch = b
            BY <3>2 DEF Batches
        <3>4. i \notin replies
            BY <1>0, <3>3 DEF NoRow
        <3> QED BY <1>4, <3>3, <3>4
    <2>3. \E i \in Intents : intents'[i].batch = n + 1
        BY <1>0, <1>4, <1>5
    <2> QED BY <2>1, <2>2, <2>3
<1>10. OneOfBatch'
    <2> SUFFICES ASSUME NEW i \in Intents, intents'[i].status = "accepted"
                 PROVE  /\ \E k \in Created' : tasks'[k].text = i
                        /\ \A j \in Intents \ {i} : intents'[j].batch = intents'[i].batch
                                => intents'[j].status = "discarded"
        BY DEF OneOfBatch
    <2>1. i \notin replies /\ intents'[i] = intents[i]
        BY <1>4, <1>5
    <2>2. \E k \in Created : tasks[k].text = i
        BY <1>0, <2>1 DEF OneOfBatch
    <2>3. ASSUME NEW j \in Intents \ {i}, intents'[j].batch = intents'[i].batch
          PROVE  intents'[j].status = "discarded"
        <3>1. j \notin replies
            BY <1>4, <1>5, <1>7, <2>1, <2>3
        <3> QED BY <1>0, <1>4, <2>1, <2>3, <3>1 DEF OneOfBatch
    <2> QED BY <2>2, <2>3 DEF Created
<1> QED BY <1>6, <1>8, <1>9, <1>10 DEF BatchesOK, Batches

\* A created task stays, and a new one takes the text of its request.
LEMMA TaskStep ==
    ASSUME TypeOK, NEW p \in posts, tasks' = CreateTask(p),
           tasks[p.key] \in {NoTask} \cup [text : {p.text}, intent : SomeIntent]
    PROVE  /\ tasks' \in [Keys -> Task]
           /\ \A k \in Created : k \in Created' /\ tasks'[k].text = tasks[k].text
           /\ p.text # NoText => p.key \in Created' /\ tasks'[p.key].text = p.text
<1>1. /\ tasks \in [Keys -> Task] /\ p.key \in Keys
      /\ [text |-> p.text, intent |-> p.intent] \in Task
    BY DEF TypeOK, Post, Task
<1>2. CASE tasks[p.key] = NoTask
    <2>1. tasks' = [tasks EXCEPT ![p.key] = [text |-> p.text, intent |-> p.intent]]
        BY <1>2 DEF CreateTask
    <2>2. tasks' \in [Keys -> Task]
        BY <1>1, <2>1
    <2>3. \A k \in Keys : k # p.key => tasks'[k] = tasks[k]
        BY <1>1, <2>1
    <2>4. tasks'[p.key].text = p.text
        BY <1>1, <2>1
    <2>5. p.text # NoText => tasks'[p.key] # NoTask
        BY <2>4 DEF NoTask
    <2> QED BY <1>1, <1>2, <2>2, <2>3, <2>4, <2>5 DEF Created
<1>3. CASE tasks[p.key] # NoTask
    <2>1. tasks' = tasks
        BY <1>3 DEF CreateTask
    <2>2. tasks[p.key].text = p.text
        BY <1>3
    <2> QED BY <1>1, <1>3, <2>1, <2>2 DEF Created
<1> QED BY <1>2, <1>3

\* Accepting keeps the rule: the batch had no accepted reply before.
LEMMA AcceptKeeps ==
    ASSUME Inv, NEW p \in posts, p.intent # NoIntent, AcceptedIntent(p.intent),
           tasks' = CreateTask(p), intents' = Accept(p.intent),
           tasks[p.key] \in {NoTask} \cup [text : {p.text}, intent : SomeIntent]
    PROVE  intents' \in [Intents -> Row] /\ BatchesOK' /\ OneOfBatch'
<1> DEFINE c == p.intent
<1>1. /\ c \in Intents /\ p.text = c /\ intents[c].status = "requested"
      /\ intents \in [Intents -> Row] /\ OneOfBatch /\ BatchesOK /\ c # NoText
    <2>1. p \in Post
        BY DEF Inv, TypeOK
    <2>2. c \in Intents
        BY <2>1 DEF Post, SomeIntent
    <2>3. Linked(p)
        BY DEF Inv, LinksOK
    <2> QED BY <2>2, <2>3, SuggestionsAssumption
            DEF Inv, TypeOK, Linked, AcceptedIntent, NoText, NoIntent
<1> HIDE DEF c
<1>2. intents' = Accept(c)
    BY DEF c
<1>3. /\ \A k \in Created : k \in Created' /\ tasks'[k].text = tasks[k].text
      /\ p.key \in Created' /\ tasks'[p.key].text = c
    BY <1>1, TaskStep DEF Inv
<1>4. intents'[c] = [intents[c] EXCEPT !.status = "accepted"]
    BY <1>1, <1>2 DEF Accept
<1>5. \A j \in Intents \ {c} :
        IF intents[j].batch = intents[c].batch /\ intents[j].status = "requested"
        THEN intents'[j] = [intents[j] EXCEPT !.status = "discarded"]
        ELSE intents'[j] = intents[j]
    BY <1>2 DEF Accept
<1>6. \A i \in Intents : /\ intents'[i] \in Row
                         /\ intents'[i].batch = intents[i].batch
                         /\ intents'[i].status = "absent" <=> intents[i].status = "absent"
    <2>1. TAKE i \in Intents
    <2>2. intents[i] \in Row
        BY <1>1
    <2>3. /\ [intents[i] EXCEPT !.status = "accepted"] \in Row
          /\ [intents[i] EXCEPT !.status = "discarded"] \in Row
        BY <2>2 DEF Row
    <2>4. CASE i = c
        BY <1>1, <1>4, <2>2, <2>3, <2>4 DEF Row
    <2>5. CASE i # c /\ intents'[i] = intents[i]
        BY <2>2, <2>5
    <2>6. CASE /\ i # c /\ intents[i].status = "requested"
               /\ intents'[i] = [intents[i] EXCEPT !.status = "discarded"]
        BY <2>2, <2>3, <2>6 DEF Row
    <2> QED BY <1>5, <2>4, <2>5, <2>6
<1>7. intents' \in [Intents -> Row]
    BY <1>2, <1>6 DEF Accept
<1>8. Batches' = Batches
    BY <1>6 DEF Batches
<1>9. BatchesOK'
    BY <1>1, <1>6, <1>8 DEF BatchesOK
<1>10. OneOfBatch'
    <2> SUFFICES ASSUME NEW i \in Intents, intents'[i].status = "accepted"
                 PROVE  /\ \E k \in Created' : tasks'[k].text = i
                        /\ \A j \in Intents \ {i} : intents'[j].batch = intents'[i].batch
                                => intents'[j].status = "discarded"
        BY DEF OneOfBatch
    <2>1. CASE i = c
        <3>1. ASSUME NEW j \in Intents \ {i}, intents'[j].batch = intents'[i].batch
              PROVE  intents'[j].status = "discarded"
            <4>1. intents[j].batch = intents[c].batch
                BY <1>6, <2>1, <3>1
            <4>2. intents[j] \in Row /\ intents[c] \in Row
                BY <1>1
            <4>3. intents[j].status # "accepted"
                BY <1>1, <2>1, <4>1 DEF OneOfBatch
            <4>4. intents[j].status # "absent"
                BY <1>1, <4>1 DEF BatchesOK
            <4>5. intents[j].status \in {"requested", "discarded"}
                BY <4>2, <4>3, <4>4 DEF Row
            <4> QED BY <1>5, <2>1, <4>1, <4>2, <4>5 DEF Row
        <3> QED BY <1>3, <2>1, <3>1
    <2>2. CASE i # c
        <3>1. intents[i] \in Row
            BY <1>1
        <3>2. intents[i].status = "accepted" /\ intents'[i] = intents[i]
            BY <1>5, <2>2, <3>1 DEF Row
        <3>3. intents[i].batch # intents[c].batch
            BY <1>1, <2>2, <3>2 DEF OneOfBatch
        <3>4. \A j \in Intents \ {i} : intents[j].batch = intents[i].batch
                    => j # c /\ intents[j].status = "discarded"
            BY <1>1, <3>2, <3>3 DEF OneOfBatch
        <3>5. \A j \in Intents \ {i} : intents'[j].batch = intents'[i].batch
                    => intents'[j].status = "discarded"
            BY <1>5, <1>6, <3>4
        <3>6. \E k \in Created : tasks[k].text = i
            BY <1>1, <3>2 DEF OneOfBatch
        <3> QED BY <1>3, <3>5, <3>6
    <2> QED BY <2>1, <2>2
<1> QED BY <1>7, <1>9, <1>10

\* A new task alone breaks nothing.
LEMMA CreateKeeps ==
    ASSUME Inv, NEW p \in posts, tasks' = CreateTask(p), UNCHANGED intents,
           tasks[p.key] \in {NoTask} \cup [text : {p.text}, intent : SomeIntent]
    PROVE  BatchesOK' /\ OneOfBatch'
<1>1. \A k \in Created : k \in Created' /\ tasks'[k].text = tasks[k].text
    BY TaskStep DEF Inv
<1>2. BatchesOK'
    BY DEF Inv, BatchesOK, Batches
<1>3. OneOfBatch'
    BY <1>1 DEF Inv, OneOfBatch
<1> QED BY <1>2, <1>3

\* What the page does to its own state, and what an answer leaves.
LEMMA AnswerKeeps ==
    ASSUME TypeOK, LinksOK, NEW p \in posts, NEW closes \in BOOLEAN, Answer(p, closes)
    PROVE  posts' \subseteq posts /\ dialog' \in {dialog, NoDialog}
BY DEF Answer

LEMMA StepInv == Inv /\ [Next]_vars => Inv'
<1> SUFFICES ASSUME Inv, [Next]_vars PROVE Inv'
    OBVIOUS
<1> USE SuggestionsAssumption
<1>0. TypeOK /\ LinksOK /\ BatchesOK /\ OneOfBatch
    BY DEF Inv
<1>n. /\ [text |-> NoText, intent |-> NoIntent] \in Task
      /\ NoDialog \in [text : SomeText, intent : SomeIntent, key : SomeKey, again : BOOLEAN]
      /\ Linked(NoDialog)
      /\ \A d \in Task : [d EXCEPT !.intent = NoIntent] \in Task
                         /\ Linked([d EXCEPT !.intent = NoIntent])
    BY DEF Task, NoDialog, SomeText, SomeIntent, SomeKey, Linked
<1>1. CASE Suggest
    <2>1. PICK replies \in Replies :
            /\ intents' = Dispatched(replies)
            /\ shown' = replies \/ shown' = shown
        BY <1>1 DEF Suggest
    <2>2. UNCHANGED <<tasks, draft, saved, dialog, posts>>
        BY <1>1 DEF Suggest
    <2>3. intents' \in [Intents -> Row] /\ BatchesOK' /\ OneOfBatch'
        BY <2>1, <2>2, SuggestKeeps
    <2>4. shown' \subseteq Intents
        BY <1>0, <2>1 DEF TypeOK, Replies
    <2>5. TypeOK' /\ LinksOK'
        BY <1>0, <2>2, <2>3, <2>4 DEF TypeOK, LinksOK
    <2> QED BY <2>3, <2>5 DEF Inv
<1>2. CASE InsertSuggestion
    <2>1. PICK i \in shown : draft' = [text |-> i, intent |-> i]
        BY <1>2 DEF InsertSuggestion
    <2>2. UNCHANGED <<intents, tasks, shown, saved, dialog, posts>>
        BY <1>2 DEF InsertSuggestion
    <2>3. draft' \in Task /\ Linked(draft')
        BY <1>0, <2>1 DEF TypeOK, Task, SomeText, SomeIntent, Texts, Linked
    <2>4. TypeOK' /\ LinksOK'
        BY <1>0, <2>2, <2>3 DEF TypeOK, LinksOK
    <2> QED BY <2>2, <2>4, KeptRows DEF Inv
<1>3. CASE SetDraft
    <2>1. PICK text \in Texts : draft' = [text |-> text, intent |-> NoIntent]
        BY <1>3 DEF SetDraft
    <2>2. UNCHANGED <<intents, tasks, shown, saved, dialog, posts>>
        BY <1>3 DEF SetDraft
    <2>3. draft' \in Task /\ Linked(draft')
        BY <2>1 DEF Task, SomeText, SomeIntent, Linked
    <2>4. TypeOK' /\ LinksOK'
        BY <1>0, <2>2, <2>3 DEF TypeOK, LinksOK
    <2> QED BY <2>2, <2>4, KeptRows DEF Inv
<1>4. CASE OpenSubmission
    <2>1. /\ dialog' = [NoDialog EXCEPT !.text = draft.text, !.intent = draft.intent]
          /\ draft' = [draft EXCEPT !.intent = NoIntent]
          /\ UNCHANGED <<intents, tasks, shown, saved, posts>>
        BY <1>4 DEF OpenSubmission
    <2>2. draft \in Task /\ Linked(draft)
        BY <1>0 DEF TypeOK, LinksOK
    <2>3. /\ dialog' \in [text : SomeText, intent : SomeIntent, key : SomeKey, again : BOOLEAN]
          /\ Linked(dialog')
        BY <2>1, <2>2 DEF NoDialog, Task, SomeKey, Linked
    <2>4. TypeOK' /\ LinksOK'
        BY <1>0, <1>n, <2>1, <2>2, <2>3 DEF TypeOK, LinksOK
    <2> QED BY <2>1, <2>4, KeptRows DEF Inv
<1>5. CASE OpenNewSend
    <2>1. PICK k \in Created :
            dialog' = [NoDialog EXCEPT !.text = tasks[k].text, !.key = NewKey, !.again = TRUE]
        BY <1>5 DEF OpenNewSend
    <2>2. /\ UNCHANGED <<intents, tasks, shown, draft, saved, posts>>
          /\ NewKey \in Keys
        BY <1>5, NewKeyType DEF OpenNewSend
    <2>3. /\ dialog' \in [text : SomeText, intent : SomeIntent, key : SomeKey, again : BOOLEAN]
          /\ Linked(dialog')
        BY <1>0, <2>1, <2>2 DEF TypeOK, Created, Task, NoDialog, SomeIntent, SomeKey, Linked
    <2>4. TypeOK' /\ LinksOK'
        BY <1>0, <2>2, <2>3 DEF TypeOK, LinksOK
    <2> QED BY <2>2, <2>4, KeptRows DEF Inv
<1>6. CASE OpenRecovery
    <2>1. PICK i \in DOMAIN saved :
            dialog' = [NoDialog EXCEPT !.text = saved[i].text, !.key = saved[i].key]
        BY <1>6 DEF OpenRecovery
    <2>2. UNCHANGED <<intents, tasks, shown, draft, saved, posts>>
        BY <1>6 DEF OpenRecovery
    <2>3. saved[i] \in Entry
        BY <1>0 DEF TypeOK
    <2>4. /\ dialog' \in [text : SomeText, intent : SomeIntent, key : SomeKey, again : BOOLEAN]
          /\ Linked(dialog')
        BY <2>1, <2>3 DEF Entry, NoDialog, SomeIntent, SomeKey, Linked
    <2>5. TypeOK' /\ LinksOK'
        BY <1>0, <2>2, <2>4 DEF TypeOK, LinksOK
    <2> QED BY <2>2, <2>5, KeptRows DEF Inv
<1>7. CASE CloseSubmission
    <2>1. dialog' = NoDialog /\ UNCHANGED <<intents, tasks, shown, draft, saved, posts>>
        BY <1>7 DEF CloseSubmission
    <2>2. TypeOK' /\ LinksOK'
        BY <1>0, <1>n, <2>1 DEF TypeOK, LinksOK
    <2> QED BY <2>1, <2>2, KeptRows DEF Inv
<1>8. CASE Submit
    <2> DEFINE key == IF PriorKey # NoKey THEN PriorKey ELSE Listed
               drawn == IF key # NoKey THEN key ELSE NewKey
               post == [key |-> drawn, text |-> dialog.text, intent |-> dialog.intent]
    <2>1. /\ key # NoKey \/ Keys \ Drawn # {}
          /\ saved' = PersistIntents(drawn, dialog.text)
          /\ \/ dialog' = NoDialog /\ posts' = posts
             \/ dialog' = dialog /\ posts' = posts \cup {post}
          /\ UNCHANGED <<intents, tasks, shown, draft>>
        BY <1>8 DEF Submit
    <2>2. drawn \in Keys
        BY <1>0, <2>1, PriorKeyType, ListedType, NewKeyType DEF SomeKey
    <2> HIDE DEF key, drawn
    <2>3. post \in Post /\ Linked(post)
        BY <1>0, <2>2 DEF TypeOK, LinksOK, Post, Linked
    <2> HIDE DEF post
    <2>4. saved' \in Seq(Entry)
        <3>1. [key |-> drawn, text |-> dialog.text] \in Entry
            BY <1>0, <2>2 DEF TypeOK, Entry
        <3>2. saved \in Seq(Entry)
            BY <1>0 DEF TypeOK
        <3>3. saved' = saved \/ saved' = Append(saved, [key |-> drawn, text |-> dialog.text])
            BY <2>1 DEF PersistIntents
        <3> QED BY <3>1, <3>2, <3>3
    <2>5. posts' \subseteq Post /\ \A p \in posts' : Linked(p)
        BY <1>0, <2>1, <2>3 DEF TypeOK, LinksOK
    <2>6. TypeOK' /\ LinksOK'
        BY <1>0, <1>n, <2>1, <2>4, <2>5 DEF TypeOK, LinksOK
    <2> QED BY <2>1, <2>6, KeptRows DEF Inv
<1>9. CASE GiveUp
    <2>1. posts' \subseteq posts /\ UNCHANGED <<intents, tasks, shown, draft, saved, dialog>>
        BY <1>9 DEF GiveUp
    <2>2. TypeOK' /\ LinksOK'
        BY <1>0, <2>1 DEF TypeOK, LinksOK
    <2> QED BY <2>1, <2>2, KeptRows DEF Inv
<1>10. CASE Reload
    <2>1. /\ shown' = {} /\ dialog' = NoDialog
          /\ draft' = [draft EXCEPT !.intent = NoIntent]
          /\ UNCHANGED <<intents, tasks, saved, posts>>
        BY <1>10 DEF Reload
    <2>2. draft' \in Task /\ Linked(draft')
        BY <1>0, <1>n, <2>1 DEF TypeOK
    <2>3. TypeOK' /\ LinksOK'
        BY <1>0, <1>n, <2>1, <2>2 DEF TypeOK, LinksOK
    <2> QED BY <2>1, <2>3, KeptRows DEF Inv
<1>11. ASSUME NEW p \in posts, SendMessage(p) PROVE Inv'
    <2>1. UNCHANGED <<shown, draft, saved>> /\ \E closes \in BOOLEAN : Answer(p, closes)
        BY <1>11 DEF SendMessage
    <2>2. posts' \subseteq posts /\ dialog' \in {dialog, NoDialog}
        BY <1>0, <2>1, AnswerKeeps
    <2>3. ASSUME intents' \in [Intents -> Row], tasks' \in [Keys -> Task]
          PROVE  TypeOK' /\ LinksOK'
        BY <1>0, <1>n, <2>1, <2>2, <2>3 DEF TypeOK, LinksOK
    <2>4. CASE UNCHANGED <<intents, tasks>>
        BY <1>0, <2>3, <2>4, KeptRows DEF Inv, TypeOK
    <2>5. CASE /\ AcceptedIntent(p.intent) /\ tasks' = CreateTask(p)
               /\ tasks[p.key] \in {NoTask} \cup [text : {p.text}, intent : SomeIntent]
        <3>1. tasks' \in [Keys -> Task]
            BY <1>0, <2>5, TaskStep
        <3>2. CASE intents' = intents
            BY <1>0, <2>3, <2>5, <3>1, <3>2, CreateKeeps DEF Inv, TypeOK
        <3>3. CASE p.intent # NoIntent /\ intents' = Accept(p.intent)
            BY <2>3, <2>5, <3>1, <3>3, AcceptKeeps DEF Inv
        <3> QED BY <1>11, <2>4, <3>2, <3>3 DEF SendMessage
    <2> QED BY <1>11, <2>4, <2>5 DEF SendMessage, SomeIntent
<1>12. CASE UNCHANGED vars
    <2>1. UNCHANGED <<intents, tasks, shown, draft, saved, dialog, posts>>
        BY <1>12 DEF vars
    <2>2. TypeOK' /\ LinksOK'
        BY <1>0, <2>1 DEF TypeOK, LinksOK
    <2> QED BY <2>1, <2>2, KeptRows DEF Inv
<1> QED BY <1>1, <1>2, <1>3, <1>4, <1>5, <1>6, <1>7, <1>8, <1>9, <1>10, <1>11, <1>12 DEF Next

--------------------------------------------------------------------------------
(* How often a text is sent *)

\* The keys a text was submitted under.
KeysOf(s, text) == {s[i].key : i \in {j \in DOMAIN s : s[j].text = text}}

\* A key is saved with its text before anything else knows of it, and only a
\* deliberate new send brings one that is not.
KeysOK ==
    /\ \A k \in Created : k \in KeysOf(saved, tasks[k].text)
    /\ \A p \in posts : p.key \in KeysOf(saved, p.text)
    /\ dialog.key \in Saved => dialog.key \in KeysOf(saved, dialog.text)
    /\ dialog.key \notin Saved \cup {NoKey} => dialog.again

CountOK ==
    /\ again \in [Texts -> Nat]
    /\ \A text \in Texts : Cardinality(KeysOf(saved, text)) <= 1 + again[text]

KInv == Inv /\ KeysOK /\ CountOK

LEMMA NoKeyUnknown == NoKey \notin Keys
BY KeysNumbered DEF NoKey

LEMMA KeysOfType ==
    ASSUME TypeOK
    PROVE  Saved \subseteq Keys /\ \A text : KeysOf(saved, text) \subseteq Saved
<1>1. \A i \in DOMAIN saved : saved[i] \in Entry
    <2>1. saved \in Seq(Entry)
        BY DEF TypeOK
    <2> QED BY <2>1
<1> QED BY <1>1 DEF Saved, KeysOf, Entry

LEMMA AppendKeys ==
    ASSUME NEW s \in Seq(Entry), NEW e \in Entry
    PROVE  /\ KeysOf(Append(s, e), e.text) = KeysOf(s, e.text) \cup {e.key}
           /\ \A text : text # e.text => KeysOf(Append(s, e), text) = KeysOf(s, text)
<1> DEFINE a == Append(s, e)
<1>1. Len(s) \in Nat /\ DOMAIN s = 1..Len(s)
    OBVIOUS
<1>2. DOMAIN a = 1..(Len(s) + 1)
    OBVIOUS
<1>3. \A i \in 1..Len(s) : a[i] = s[i]
    OBVIOUS
<1>4. a[Len(s) + 1] = e
    OBVIOUS
<1> HIDE DEF a
<1>5. \A i \in DOMAIN a : i \in DOMAIN s \/ i = Len(s) + 1
    BY <1>1, <1>2
<1>6. \A i \in DOMAIN s : i \in DOMAIN a /\ a[i] = s[i]
    BY <1>1, <1>2, <1>3
<1>7. Len(s) + 1 \in DOMAIN a
    BY <1>1, <1>2
<1>8. KeysOf(a, e.text) = KeysOf(s, e.text) \cup {e.key}
    <2>1. \A k \in KeysOf(a, e.text) : k \in KeysOf(s, e.text) \cup {e.key}
        BY <1>4, <1>5, <1>6 DEF KeysOf
    <2>2. \A k \in KeysOf(s, e.text) : k \in KeysOf(a, e.text)
        BY <1>6 DEF KeysOf
    <2>3. e.key \in KeysOf(a, e.text)
        BY <1>4, <1>7 DEF KeysOf
    <2> QED BY <2>1, <2>2, <2>3
<1>9. ASSUME NEW text, text # e.text
      PROVE  KeysOf(a, text) = KeysOf(s, text)
    <2>1. \A k \in KeysOf(a, text) : k \in KeysOf(s, text)
        BY <1>4, <1>5, <1>6, <1>9 DEF KeysOf
    <2>2. \A k \in KeysOf(s, text) : k \in KeysOf(a, text)
        BY <1>6 DEF KeysOf
    <2> QED BY <2>1, <2>2
<1> QED BY <1>8, <1>9 DEF a

LEMMA InitKInv == Init => KInv
<1> SUFFICES ASSUME Init PROVE KInv
    OBVIOUS
<1>0. saved = <<>> /\ DOMAIN saved = {}
    BY DEF Init
<1>1. \A text : KeysOf(saved, text) = {}
    BY <1>0 DEF KeysOf
<1>2. KeysOK
    <2>1. Created = {} /\ posts = {} /\ dialog.key = NoKey
        BY DEF Init, Created, NoDialog
    <2>2. Saved = {}
        BY <1>0 DEF Saved
    <2> QED BY <2>1, <2>2 DEF KeysOK
<1>3. CountOK
    <2>1. again \in [Texts -> Nat] /\ \A text \in Texts : again[text] = 0
        BY DEF Init
    <2>2. \A text : Cardinality(KeysOf(saved, text)) = 0
        BY <1>1, FS_EmptySet
    <2> QED BY <2>1, <2>2 DEF CountOK
<1> QED BY <1>2, <1>3, InitInv DEF KInv

\* What leaves the saved keys alone and creates, posts and opens nothing new.
LEMMA KeptKeys ==
    ASSUME TypeOK, KeysOK, CountOK, UNCHANGED <<saved, tasks, again>>, posts' \subseteq posts,
           dialog' \in {dialog, NoDialog}
    PROVE  KeysOK' /\ CountOK'
<1>1. CountOK'
    BY DEF CountOK
<1>2. \A k \in Created' : k \in KeysOf(saved', tasks'[k].text)
    BY DEF KeysOK, Created
<1>3. \A p \in posts' : p.key \in KeysOf(saved', p.text)
    BY DEF KeysOK
<1>4. Saved' = Saved
    BY DEF Saved
<1>5. NoKey \notin Saved
    BY KeysOfType, NoKeyUnknown
<1>6. CASE dialog' = dialog
    BY <1>1, <1>2, <1>3, <1>4, <1>6 DEF KeysOK
<1>7. CASE dialog' = NoDialog
    <2>1. dialog'.key = NoKey
        BY <1>7 DEF NoDialog
    <2>2. dialog'.key \notin Saved' /\ dialog'.key \in Saved' \cup {NoKey}
        BY <1>4, <1>5, <2>1
    <2> QED BY <1>1, <1>2, <1>3, <2>2 DEF KeysOK
<1> QED BY <1>6, <1>7

\* The key of a submission is the one its text is saved with, or a new one: then the
\* text has none, or the send is a deliberate new one.
LEMMA SubmitKey ==
    ASSUME TypeOK, KeysOK, NEW drawn \in Keys,
           LET key == IF PriorKey # NoKey THEN PriorKey ELSE Listed
           IN  /\ key # NoKey \/ Keys \ Drawn # {}
               /\ drawn = IF key # NoKey THEN key ELSE NewKey
    PROVE  /\ dialog.key # NoKey => drawn = dialog.key
           /\ \/ drawn \in Saved /\ drawn \in KeysOf(saved, dialog.text)
              \/ /\ drawn \notin Saved
                 /\ dialog.again \/ KeysOf(saved, dialog.text) = {}
<1> DEFINE key == IF PriorKey # NoKey THEN PriorKey ELSE Listed
<1>0. /\ key # NoKey \/ Keys \ Drawn # {}
      /\ drawn = IF key # NoKey THEN key ELSE NewKey
    OBVIOUS
<1>k. KeysOf(saved, dialog.text) \subseteq Saved
    BY KeysOfType
<1>1. CASE dialog.key # NoKey
    <2>1. PriorKey = dialog.key
        BY <1>1 DEF PriorKey
    <2>2. drawn = dialog.key
        BY <1>0, <1>1, <2>1
    <2>3. CASE drawn \in Saved
        BY <2>2, <2>3 DEF KeysOK
    <2>4. CASE drawn \notin Saved
        BY <1>1, <2>2, <2>4 DEF KeysOK
    <2> QED BY <2>2, <2>3, <2>4
<1>2. CASE dialog.key = NoKey /\ KeysOf(saved, dialog.text) # {}
    <2> DEFINE same == {i \in DOMAIN saved : saved[i].text = dialog.text}
               last == CHOOSE i \in same : \A j \in same : j <= i
    <2>1. saved \in Seq(Entry) /\ Len(saved) \in Nat /\ same \subseteq 1..Len(saved)
        BY DEF TypeOK
    <2>2. same # {}
        BY <1>2 DEF KeysOf
    <2>3. last \in same
        <3>1. \E i \in same : \A j \in same : j <= i
            BY <2>1, <2>2, GreatestIndex
        <3> QED BY <3>1
    <2>4. PriorKey = saved[last].key
        BY <1>2, <2>2 DEF PriorKey
    <2> HIDE DEF last
    <2>5. PriorKey \in KeysOf(saved, dialog.text)
        BY <2>3, <2>4 DEF KeysOf
    <2>6. PriorKey \in Keys
        BY <2>5, KeysOfType
    <2>7. drawn = PriorKey
        BY <1>0, <2>6, NoKeyUnknown
    <2> QED BY <1>2, <1>k, <2>5, <2>7
<1>3. CASE dialog.key = NoKey /\ KeysOf(saved, dialog.text) = {}
    <2>1. {i \in DOMAIN saved : saved[i].text = dialog.text} = {}
        BY <1>3 DEF KeysOf
    <2>2. PriorKey = NoKey
        BY <1>3, <2>1 DEF PriorKey
    <2>3. {k \in Created : tasks[k].text = dialog.text} = {}
        BY <1>3 DEF KeysOK
    <2>4. Listed = NoKey
        BY <2>3 DEF Listed
    <2>5. drawn = NewKey /\ Keys \ Drawn # {}
        BY <1>0, <2>2, <2>4
    <2>6. drawn \notin Drawn
        BY <2>5, NewKeyType
    <2> QED BY <1>3, <2>6 DEF Drawn
<1> QED BY <1>1, <1>2, <1>3

\* A key that is drawn for a text makes it one submission more, and that one is the
\* first or a deliberate new send.
LEMMA CountKeeps ==
    ASSUME TypeOK, CountOK, dialog.text \in SomeText, NEW drawn \in Keys,
           saved' = Append(saved, [key |-> drawn, text |-> dialog.text]),
           again' = IF dialog.again THEN [again EXCEPT ![dialog.text] = @ + 1] ELSE again,
           dialog.again \/ KeysOf(saved, dialog.text) = {}
    PROVE  CountOK'
<1> DEFINE t == dialog.text
           entry == [key |-> drawn, text |-> t]
<1>1. /\ again \in [Texts -> Nat]
      /\ \A text \in Texts : Cardinality(KeysOf(saved, text)) <= 1 + again[text]
    BY DEF CountOK
<1>2. again' \in [Texts -> Nat]
    <2>1. [again EXCEPT ![t] = @ + 1] \in [Texts -> Nat]
        <3> HIDE DEF t
        <3>1. again \in [Texts -> Nat]
            BY <1>1
        <3>2. t \in Texts => again[t] + 1 \in Nat
            BY <3>1
        <3> QED BY <3>1, <3>2
    <2> QED BY <1>1, <2>1
<1>3. saved \in Seq(Entry) /\ entry \in Entry /\ entry.text = t /\ entry.key = drawn
    BY DEF TypeOK, Entry
<1>4. /\ KeysOf(saved', t) = KeysOf(saved, t) \cup {drawn}
      /\ \A text : text # t => KeysOf(saved', text) = KeysOf(saved, text)
    <2> HIDE DEF t, entry
    <2>1. saved' = Append(saved, entry)
        BY DEF entry, t
    <2> QED BY <1>3, <2>1, AppendKeys
<1>5. IsFiniteSet(KeysOf(saved, t))
    BY KeysOfType, FS_Subset, SuggestionsAssumption
<1>6. /\ Cardinality(KeysOf(saved, t)) \in Nat
      /\ Cardinality(KeysOf(saved', t)) <= Cardinality(KeysOf(saved, t)) + 1
    <2> DEFINE n == Cardinality(KeysOf(saved, t))
               m == Cardinality(KeysOf(saved', t))
    <2>1. n \in Nat
        BY <1>5, FS_CardinalityType
    <2>2. m = n \/ m = n + 1
        <3> DEFINE S == KeysOf(saved, t)
        <3>1. KeysOf(saved', t) = S \cup {drawn}
            BY <1>4
        <3>2. IsFiniteSet(S)
            BY <1>5
        <3>3. m = Cardinality(S \cup {drawn}) /\ n = Cardinality(S)
            BY <3>1
        <3> HIDE DEF S, m, n
        <3> QED BY <3>2, <3>3, FS_AddElement
    <2> HIDE DEF n, m
    <2>3. n \in Nat /\ m <= n + 1
        BY <2>1, <2>2
    <2> QED BY <2>3 DEF n, m
<1>7. KeysOf(saved, t) = {} => Cardinality(KeysOf(saved', t)) = 1
    <2>1. KeysOf(saved, t) = {} => KeysOf(saved', t) = {drawn}
        BY <1>4
    <2> QED BY <2>1, FS_Singleton
<1>8. Cardinality(KeysOf(saved', t)) \in Nat
    <2>1. IsFiniteSet(KeysOf(saved', t))
        BY <1>4, <1>5, FS_AddElement
    <2> QED BY <2>1, FS_CardinalityType
<1>9. ASSUME NEW text \in Texts
      PROVE  Cardinality(KeysOf(saved', text)) <= 1 + again'[text]
    <2>1. CASE text # t
        <3>1. again'[text] = again[text]
            BY <1>1, <1>9, <2>1
        <3> QED BY <1>1, <1>4, <1>9, <2>1, <3>1
    <2>2. CASE text = t /\ dialog.again
        <3>1. again'[text] = again[text] + 1
            BY <1>1, <1>9, <2>2
        <3>2. again[text] \in Nat /\ Cardinality(KeysOf(saved, text)) <= 1 + again[text]
            BY <1>1, <1>9
        <3> HIDE DEF t
        <3> QED BY <1>6, <1>8, <2>2, <3>1, <3>2
    <2>3. CASE text = t /\ ~dialog.again
        <3>1. again'[text] \in Nat /\ Cardinality(KeysOf(saved', t)) = 1
            BY <1>2, <1>7, <1>9, <2>3
        <3> HIDE DEF t
        <3> QED BY <2>3, <3>1
    <2> QED BY <2>1, <2>2, <2>3
<1> QED BY <1>2, <1>9 DEF CountOK

LEMMA StepKInv == KInv /\ [Next]_vars => KInv'
<1> SUFFICES ASSUME KInv, [Next]_vars PROVE KInv'
    OBVIOUS
<1>0. Inv /\ TypeOK /\ KeysOK /\ CountOK
    BY DEF KInv, Inv
<1>i. Inv'
    BY <1>0, StepInv
<1> SUFFICES KeysOK' /\ CountOK'
    BY <1>i DEF KInv
<1>k. Saved \subseteq Keys /\ NoKey \notin Saved /\ Saved = {saved[i].key : i \in DOMAIN saved}
    BY <1>0, KeysOfType, NoKeyUnknown DEF Saved
<1>1. CASE \/ UNCHANGED <<saved, tasks, again, posts, dialog>>
           \/ UNCHANGED <<saved, tasks, again, posts>> /\ dialog' = NoDialog
    BY <1>0, <1>1, KeptKeys
<1>2. ASSUME UNCHANGED <<saved, tasks, again, posts>>,
             dialog'.key \in Saved => dialog'.key \in KeysOf(saved, dialog'.text),
             dialog'.key \notin Saved \cup {NoKey} => dialog'.again
      PROVE  KeysOK' /\ CountOK'
    <2>1. CountOK'
        BY <1>0, <1>2 DEF CountOK
    <2>2. Saved' = Saved /\ Created' = Created
        BY <1>2 DEF Saved, Created
    <2>3. KeysOK'
        BY <1>0, <1>2, <2>2 DEF KeysOK
    <2> QED BY <2>1, <2>3
<1>3. CASE Suggest \/ InsertSuggestion \/ SetDraft \/ CloseSubmission \/ Reload
    <2>1. UNCHANGED <<saved, tasks, again, posts>> /\ dialog' \in {dialog, NoDialog}
        BY <1>3 DEF Suggest, InsertSuggestion, SetDraft, CloseSubmission, Reload
    <2> QED BY <1>1, <2>1
<1>4. CASE OpenSubmission
    <2>1. UNCHANGED <<saved, tasks, again, posts>> /\ dialog'.key = NoKey
        BY <1>4 DEF OpenSubmission, NoDialog
    <2> QED BY <1>2, <1>k, <2>1
<1>5. CASE OpenNewSend
    <2>1. PICK k \in Created :
            dialog' = [NoDialog EXCEPT !.text = tasks[k].text, !.key = NewKey, !.again = TRUE]
        BY <1>5 DEF OpenNewSend
    <2>2. UNCHANGED <<saved, tasks, again, posts>> /\ NewKey \notin Drawn
        BY <1>5, NewKeyType DEF OpenNewSend
    <2>3. dialog'.key = NewKey /\ dialog'.again
        BY <2>1 DEF NoDialog
    <2>4. NewKey \notin Saved
        BY <2>2 DEF Drawn
    <2> QED BY <1>2, <2>2, <2>3, <2>4
<1>6. CASE OpenRecovery
    <2>1. PICK i \in DOMAIN saved :
            dialog' = [NoDialog EXCEPT !.text = saved[i].text, !.key = saved[i].key]
        BY <1>6 DEF OpenRecovery
    <2>2. UNCHANGED <<saved, tasks, again, posts>>
        BY <1>6 DEF OpenRecovery
    <2>3. dialog'.key = saved[i].key /\ dialog'.text = saved[i].text
        BY <2>1 DEF NoDialog
    <2>4. dialog'.key \in Saved /\ dialog'.key \in KeysOf(saved, dialog'.text)
        BY <1>k, <2>3 DEF KeysOf
    <2> QED BY <1>2, <2>2, <2>4
<1>7. CASE Submit
    <2> DEFINE key == IF PriorKey # NoKey THEN PriorKey ELSE Listed
               drawn == IF key # NoKey THEN key ELSE NewKey
               entry == [key |-> drawn, text |-> dialog.text]
    <2>1. /\ key # NoKey \/ Keys \ Drawn # {}
          /\ saved' = PersistIntents(drawn, dialog.text)
          /\ again' = IF dialog.again /\ drawn \notin Saved
                      THEN [again EXCEPT ![dialog.text] = @ + 1] ELSE again
          /\ dialog' \in {dialog, NoDialog}
          /\ \A p \in posts' : p \in posts \/ (p.key = drawn /\ p.text = dialog.text)
          /\ tasks' = tasks
        BY <1>7 DEF Submit
    <2>2. drawn \in Keys
        BY <1>0, <2>1, PriorKeyType, ListedType, NewKeyType DEF SomeKey
    <2>3. PICK d \in Keys : d = drawn
        BY <2>2
    <2>4. /\ dialog.key # NoKey => d = dialog.key
          /\ \/ d \in Saved /\ d \in KeysOf(saved, dialog.text)
             \/ /\ d \notin Saved
                /\ dialog.again \/ KeysOf(saved, dialog.text) = {}
        BY <1>0, <2>1, <2>3, SubmitKey
    <2> HIDE DEF drawn, key
    <2>5. CASE d \in Saved /\ d \in KeysOf(saved, dialog.text)
        <3>1. saved' = saved /\ again' = again
            BY <2>1, <2>3, <2>5 DEF PersistIntents
        <3>2. CountOK'
            BY <1>0, <3>1 DEF CountOK
        <3>3. Saved' = Saved /\ Created' = Created
            BY <2>1, <3>1 DEF Saved, Created
        <3>4. \A p \in posts' : p.key \in KeysOf(saved', p.text)
            BY <1>0, <2>1, <2>3, <2>5, <3>1 DEF KeysOK
        <3>5. NoDialog.key = NoKey
            BY DEF NoDialog
        <3>6. /\ dialog'.key \in Saved' => dialog'.key \in KeysOf(saved', dialog'.text)
              /\ dialog'.key \notin Saved' \cup {NoKey} => dialog'.again
            BY <1>0, <1>k, <2>1, <3>1, <3>3, <3>5 DEF KeysOK
        <3>7. \A k \in Created' : k \in KeysOf(saved', tasks'[k].text)
            BY <1>0, <2>1, <3>1, <3>3 DEF KeysOK
        <3> QED BY <3>2, <3>4, <3>6, <3>7 DEF KeysOK
    <2>6. CASE d \notin Saved /\ (dialog.again \/ KeysOf(saved, dialog.text) = {})
        <3>0. dialog.text \in SomeText /\ saved \in Seq(Entry)
            BY <1>0 DEF TypeOK
        <3>1. saved' = Append(saved, [key |-> d, text |-> dialog.text])
            BY <2>1, <2>3, <2>6 DEF PersistIntents
        <3>2. again' = IF dialog.again THEN [again EXCEPT ![dialog.text] = @ + 1] ELSE again
            BY <2>1, <2>3, <2>6
        <3>3. CountOK'
            BY <1>0, <2>6, <3>0, <3>1, <3>2, CountKeeps
        <3>4. PICK e \in Entry : e = [key |-> d, text |-> dialog.text]
            BY <3>0 DEF Entry
        <3>5. e.key = d /\ e.text = dialog.text /\ saved' = Append(saved, e)
            BY <3>1, <3>4
        <3>6. /\ \A text : KeysOf(saved, text) \subseteq KeysOf(saved', text)
              /\ d \in KeysOf(saved', dialog.text)
            BY <3>0, <3>5, AppendKeys
        <3>7. Saved' = Saved \cup {d}
            <4>1. DOMAIN saved = 1..Len(saved) /\ Len(saved) \in Nat
                  /\ DOMAIN saved' = 1..(Len(saved) + 1)
                BY <3>0, <3>5
            <4>2. /\ \A i \in 1..Len(saved) : saved'[i] = saved[i]
                  /\ saved'[Len(saved) + 1] = e
                BY <3>0, <3>5
            <4>3. \A x \in Saved' : x \in Saved \cup {d}
                <5>1. \A i \in DOMAIN saved' : i \in DOMAIN saved \/ i = Len(saved) + 1
                    BY <4>1
                <5> QED BY <3>5, <4>1, <4>2, <5>1 DEF Saved
            <4>4. \A x \in Saved \cup {d} : x \in Saved'
                <5>1. \A i \in DOMAIN saved : i \in DOMAIN saved' /\ saved'[i] = saved[i]
                    BY <4>1, <4>2
                <5>2. Len(saved) + 1 \in DOMAIN saved'
                    BY <4>1
                <5> QED BY <3>5, <4>2, <5>1, <5>2 DEF Saved
            <4> QED BY <4>3, <4>4
        <3>8. Created' = Created
            BY <2>1 DEF Created
        <3>9. \A p \in posts' : p.key \in KeysOf(saved', p.text)
            BY <1>0, <2>1, <2>3, <3>6 DEF KeysOK
        <3>10. NoDialog.key = NoKey
            BY DEF NoDialog
        <3>11. NoKey # d /\ NoKey \notin Saved'
            BY <1>k, <3>7, NoKeyUnknown
        <3>12. /\ dialog'.key \in Saved' => dialog'.key \in KeysOf(saved', dialog'.text)
               /\ dialog'.key \notin Saved' \cup {NoKey} => dialog'.again
            <4>1. CASE dialog' = NoDialog
                BY <3>10, <3>11, <4>1
            <4>2. CASE dialog' = dialog /\ dialog.key = NoKey
                BY <3>11, <4>2
            <4>3. CASE dialog' = dialog /\ dialog.key # NoKey
                BY <2>4, <3>6, <3>7, <4>3
            <4> QED BY <2>1, <4>1, <4>2, <4>3
        <3>13. \A k \in Created' : k \in KeysOf(saved', tasks'[k].text)
            BY <1>0, <2>1, <3>6, <3>8 DEF KeysOK
        <3> QED BY <3>3, <3>9, <3>12, <3>13 DEF KeysOK
    <2> QED BY <2>4, <2>5, <2>6
<1>8. CASE GiveUp
    <2>1. posts' \subseteq posts /\ UNCHANGED <<saved, tasks, again, dialog>>
        BY <1>8 DEF GiveUp
    <2> QED BY <1>0, <2>1, KeptKeys
<1>9. ASSUME NEW p \in posts, SendMessage(p) PROVE KeysOK' /\ CountOK'
    <2>1. UNCHANGED <<saved, again>> /\ \E closes \in BOOLEAN : Answer(p, closes)
        BY <1>9 DEF SendMessage
    <2>2. posts' \subseteq posts /\ dialog' \in {dialog, NoDialog}
        BY <1>0, <2>1, AnswerKeeps DEF Inv
    <2>3. CASE tasks' = tasks
        BY <1>0, <2>1, <2>2, <2>3, KeptKeys
    <2>4. CASE tasks[p.key] = NoTask /\ tasks' = CreateTask(p)
        <3>1. /\ tasks' = [tasks EXCEPT ![p.key] = [text |-> p.text, intent |-> p.intent]]
              /\ tasks \in [Keys -> Task]
            BY <1>0, <2>4 DEF CreateTask, TypeOK
        <3>2. \A k \in Keys : k # p.key => tasks'[k] = tasks[k]
            BY <3>1
        <3>3. p.key \in Keys => tasks'[p.key].text = p.text
            BY <3>1
        <3>4. \A k \in Created' : k \in KeysOf(saved', tasks'[k].text)
            <4>1. TAKE k \in Created'
            <4>2. k \in Keys
                BY DEF Created
            <4>3. CASE k = p.key
                BY <1>0, <2>1, <3>3, <4>2, <4>3 DEF KeysOK
            <4>4. CASE k # p.key
                <5>1. tasks'[k] = tasks[k] /\ k \in Created
                    BY <3>2, <4>2, <4>4 DEF Created
                <5> QED BY <1>0, <2>1, <5>1 DEF KeysOK
            <4> QED BY <4>3, <4>4
        <3>5. CountOK'
            BY <1>0, <2>1 DEF CountOK
        <3>6. Saved' = Saved
            BY <2>1 DEF Saved
        <3>7. \A q \in posts' : q.key \in KeysOf(saved', q.text)
            BY <1>0, <2>1, <2>2 DEF KeysOK
        <3>8. NoDialog.key = NoKey
            BY DEF NoDialog
        <3>9. /\ dialog'.key \in Saved' => dialog'.key \in KeysOf(saved', dialog'.text)
              /\ dialog'.key \notin Saved' \cup {NoKey} => dialog'.again
            BY <1>0, <1>k, <2>1, <2>2, <3>6, <3>8 DEF KeysOK
        <3> QED BY <3>4, <3>5, <3>7, <3>9 DEF KeysOK
    <2> QED BY <1>9, <2>3, <2>4 DEF SendMessage, CreateTask
<1>10. CASE UNCHANGED vars
    BY <1>1, <1>10 DEF vars
<1> QED BY <1>3, <1>4, <1>5, <1>6, <1>7, <1>8, <1>9, <1>10 DEF Next

--------------------------------------------------------------------------------
(* The theorems *)

\* At most one reply of a batch is accepted, its task exists and the rest of the
\* batch is discarded, whatever requests are lost, late or repeated
\* (intent_store.py transition, conversations.py send_message).
THEOREM OneAcceptedReply == Spec => []OneOfBatch
<1>1. Inv => OneOfBatch
    BY DEF Inv
<1> QED BY <1>1, InitInv, StepInv, PTL DEF Spec

\* A text is sent once and once more for each deliberate new send, whatever requests
\* are lost, late, given up or recovered and however often the page is reloaded
\* (useOutbox.ts submit, outbox_store.py create).
THEOREM SentAtMostOnce == Spec => []SentOnce
<1>1. KInv => SentOnce
    <2> SUFFICES ASSUME KInv, NEW text \in Texts
                 PROVE  Cardinality({k \in Created : tasks[k].text = text}) <= 1 + again[text]
        BY DEF SentOnce
    <2> DEFINE sent == {k \in Created : tasks[k].text = text}
    <2>1. sent \subseteq KeysOf(saved, text)
        BY DEF KInv, KeysOK
    <2>2. IsFiniteSet(KeysOf(saved, text))
        BY KeysOfType, FS_Subset, SuggestionsAssumption DEF KInv, Inv
    <2>3. Cardinality(sent) <= Cardinality(KeysOf(saved, text)) /\ IsFiniteSet(sent)
        BY <2>1, <2>2, FS_Subset
    <2>4. Cardinality(sent) \in Nat /\ Cardinality(KeysOf(saved, text)) \in Nat
        BY <2>2, <2>3, FS_CardinalityType
    <2>5. again[text] \in Nat /\ Cardinality(KeysOf(saved, text)) <= 1 + again[text]
        BY DEF KInv, CountOK
    <2> HIDE DEF sent
    <2>6. Cardinality(sent) <= 1 + again[text]
        BY <2>3, <2>4, <2>5
    <2> QED BY <2>6 DEF sent
<1> QED BY <1>1, InitKInv, StepKInv, PTL DEF Spec

--------------------------------------------------------------------------------
(* Agents and their sessions *)

Version == Edits \cup A!Builtins \cup {A!Empty}

Pin == {A!NoPin} \cup [kind : {"preset", "draft"}, version : Version]

SessionTurn == [role : {"user", "assistant"}, by : Version \cup {A!Absent}]

Session == [agent : A!Agents, owner : Accounts \cup {A!NoOwner}, pin : Pin,
            turns : Seq(SessionTurn), type : {"none", "test", "fork"}]

AgentsType ==
    /\ selected \in Accounts
    /\ preset \in [A!Agents -> [version : Version \cup {A!Absent}, enabled : BOOLEAN]]
    /\ recorded \in A!Builtins \cup {A!Absent}
    /\ shipped \in A!Builtins
    /\ up \in BOOLEAN /\ torn \in BOOLEAN
    /\ mine \in Edits \cup {A!Empty, A!Absent}
    /\ sessions \in [Sessions -> Session]

\* The row of the system agent: what the user saved, or a default that this release
\* delivered, or the one that the fingerprint tells to be replaced.
DefaultsOK ==
    LET row == preset["system"].version IN
    /\ mine # A!Absent => row = mine
    /\ mine = A!Absent /\ ~torn => row \in {A!Absent, shipped} \/ recorded = row
    /\ mine = A!Absent /\ ~torn /\ up => row = shipped

\* The answers of a session are of the version it is pinned to.
Pinned(session) ==
    session.pin \notin {A!NoPin, [kind |-> "preset", version |-> A!Empty]} =>
        \A i \in DOMAIN session.turns :
            session.turns[i].role = "assistant" => session.turns[i].by = session.pin.version

SessionsPinned == \A s \in Sessions : Pinned(sessions[s])

AgentsInv == AgentsType /\ DefaultsOK /\ SessionsPinned

--------------------------------------------------------------------------------
LEMMA VersionsDiffer ==
    /\ A!Absent \notin Version /\ A!Empty \notin A!Builtins /\ A!Absent \notin A!Builtins
    /\ Edits \cap (A!Builtins \cup {A!Empty, A!Absent}) = {} /\ 1 \in A!Builtins
BY WorkbenchAssumption DEF Version, A!Absent, A!Empty, A!Builtins

LEMMA AgentsBegin == A!Init => AgentsInv
<1> SUFFICES ASSUME A!Init PROVE AgentsInv
    OBVIOUS
<1>1. selected \in Accounts
    BY WorkbenchAssumption DEF A!Init
<1>2. A!Question \in SessionTurn /\ A!Answer(shipped) \in SessionTurn
    BY VersionsDiffer DEF A!Init, SessionTurn, A!Question, A!Answer, Version
<1>3. A!NoSession \in Session /\ Pinned(A!NoSession)
    BY VersionsDiffer DEF A!NoSession, Session, A!Agents, Pin, Pinned
<1>4. ASSUME NEW s \in Sessions PROVE sessions[s] \in Session /\ Pinned(sessions[s])
    <2> DEFINE old == [A!NoSession EXCEPT !.agent = "system", !.type = "test",
                                          !.turns = <<A!Question, A!Answer(shipped)>>]
    <2>1. sessions[s] \in {A!NoSession, old}
        BY DEF A!Init
    <2>3. <<A!Question, A!Answer(shipped)>> \in Seq(SessionTurn)
        BY <1>2
    <2>4. old \in Session /\ old.pin = A!NoPin
        BY <2>3, <1>3 DEF Session, A!NoSession, A!Agents
    <2> QED BY <2>1, <2>4, <1>3 DEF Pinned
<1>5. AgentsType
    <2>1. sessions \in [Sessions -> Session]
        BY <1>4 DEF A!Init
    <2>2. preset \in [A!Agents -> [version : Version \cup {A!Absent}, enabled : BOOLEAN]]
        BY VersionsDiffer DEF A!Init, Version
    <2> QED BY <1>1, <2>1, <2>2, VersionsDiffer DEF A!Init, AgentsType
<1>6. DefaultsOK
    BY VersionsDiffer DEF A!Init, DefaultsOK, A!Agents
<1> QED BY <1>4, <1>5, <1>6 DEF AgentsInv, SessionsPinned

\* What a request does to the presets is right if the rest of the state stays.
LEMMA SessionsKept ==
    ASSUME AgentsInv, UNCHANGED sessions
    PROVE  sessions' \in [Sessions -> Session] /\ SessionsPinned'
BY DEF AgentsInv, AgentsType, SessionsPinned

LEMMA PresetsKept ==
    ASSUME AgentsInv, UNCHANGED <<preset, recorded, shipped, up, torn, mine>>,
           selected' \in Accounts
    PROVE  DefaultsOK' /\ (sessions' \in [Sessions -> Session] => AgentsType')
BY DEF AgentsInv, AgentsType, DefaultsOK

LEMMA SystemWritten ==
    ASSUME AgentsInv, NEW v \in Version, NEW on \in BOOLEAN, NEW agent \in A!Agents,
           preset' = [preset EXCEPT ![agent] = [version |-> v, enabled |-> on]]
    PROVE  /\ preset' \in [A!Agents -> [version : Version \cup {A!Absent}, enabled : BOOLEAN]]
           /\ preset'["system"].version = IF agent = "system" THEN v ELSE preset["system"].version
BY DEF AgentsInv, AgentsType, A!Agents

LEMMA StartupKeeps == AgentsInv /\ A!Startup => AgentsInv'
<1> SUFFICES ASSUME AgentsInv, A!Startup PROVE AgentsInv'
    OBVIOUS
<1> USE VersionsDiffer
<1>1. UNCHANGED <<selected, shipped, sessions, mine, torn>>
    BY DEF A!Startup
<1>2. shipped \in Version /\ shipped # A!Absent
    BY DEF AgentsInv, AgentsType, Version
<1>3. CASE A!NeedsDefault /\ A!WriteDefault /\ up' = TRUE
    <2>1. preset' = [preset EXCEPT !["system"] = [version |-> shipped, enabled |-> TRUE]]
        BY <1>3 DEF A!WriteDefault
    <2>2. /\ preset' \in [A!Agents -> [version : Version \cup {A!Absent}, enabled : BOOLEAN]]
          /\ preset'["system"].version = shipped
        BY <2>1, <1>2, SystemWritten, "system" \in A!Agents DEF A!Agents
    <2>3. mine = A!Absent
        BY <1>2, <1>3 DEF AgentsInv, AgentsType, DefaultsOK, A!NeedsDefault
    <2> QED BY <1>1, <1>3, <2>2, <2>3, SessionsKept
            DEF A!WriteDefault, AgentsInv, AgentsType, DefaultsOK
<1>4. CASE A!NeedsDefault /\ A!WriteDefaultTorn /\ up' = FALSE
    <2>1. preset' = [preset EXCEPT !["system"] = [version |-> shipped, enabled |-> TRUE]]
        BY <1>4 DEF A!WriteDefaultTorn
    <2>2. /\ preset' \in [A!Agents -> [version : Version \cup {A!Absent}, enabled : BOOLEAN]]
          /\ preset'["system"].version = shipped
        BY <2>1, <1>2, SystemWritten, "system" \in A!Agents DEF A!Agents
    <2>3. mine = A!Absent
        BY <1>2, <1>4 DEF AgentsInv, AgentsType, DefaultsOK, A!NeedsDefault
    <2> QED BY <1>1, <1>4, <2>2, <2>3, SessionsKept
            DEF A!WriteDefaultTorn, AgentsInv, AgentsType, DefaultsOK
<1>5. CASE /\ ~A!NeedsDefault
           /\ recorded' = IF preset["system"].version = shipped THEN shipped ELSE recorded
           /\ up' = TRUE /\ UNCHANGED preset
    <2>1. mine = A!Absent /\ ~torn => preset["system"].version = shipped
        BY <1>5 DEF AgentsInv, AgentsType, DefaultsOK, A!NeedsDefault
    <2> QED BY <1>1, <1>5, <2>1, SessionsKept DEF AgentsInv, AgentsType, DefaultsOK
<1> QED BY <1>3, <1>4, <1>5 DEF A!Startup

LEMMA UpgradeKeeps == AgentsInv /\ A!Upgrade => AgentsInv'
<1> SUFFICES ASSUME AgentsInv, A!Upgrade PROVE AgentsInv'
    OBVIOUS
<1>1. /\ UNCHANGED <<selected, preset, recorded, sessions, mine>>
      /\ up' = FALSE /\ shipped' \in A!Builtins
      /\ torn' = (torn \/ (shipped' # shipped /\ preset["system"].version = shipped
                                              /\ recorded # shipped))
    BY DEF A!Upgrade, AgentsInv, AgentsType
<1>2. AgentsType'
    BY <1>1, SessionsKept DEF AgentsInv, AgentsType
<1>3. DefaultsOK'
    BY <1>1 DEF AgentsInv, AgentsType, DefaultsOK
<1> QED BY <1>1, <1>2, <1>3, SessionsKept DEF AgentsInv

LEMMA SavePresetKeeps ==
    ASSUME AgentsInv, NEW agent \in A!Agents, A!SavePreset(agent)
    PROVE  AgentsInv'
<1> USE VersionsDiffer
<1>1. PICK version \in Edits \cup {A!Empty}, enabled \in BOOLEAN :
        /\ preset' = [preset EXCEPT ![agent] =
                        [version |-> version, enabled |-> enabled \/ agent = "system"]]
        /\ mine' = IF agent = "system" THEN version ELSE mine
    BY DEF A!SavePreset
<1>2. UNCHANGED <<selected, recorded, sessions, shipped, up, torn>>
    BY DEF A!SavePreset, A!Request
<1>3. /\ preset' \in [A!Agents -> [version : Version \cup {A!Absent}, enabled : BOOLEAN]]
      /\ preset'["system"].version =
            IF agent = "system" THEN version ELSE preset["system"].version
    BY <1>1, SystemWritten, version \in Version, (enabled \/ agent = "system") \in BOOLEAN
       DEF Version
<1>4. AgentsType'
    <2>1. mine' \in Edits \cup {A!Empty, A!Absent}
        BY <1>1 DEF AgentsInv, AgentsType
    <2> QED BY <1>2, <1>3, <2>1, SessionsKept DEF AgentsInv, AgentsType
<1>5. DefaultsOK'
    <2>1. CASE agent = "system"
        BY <1>1, <1>2, <1>3, <2>1, version # A!Absent DEF DefaultsOK, Version
    <2>2. CASE agent # "system"
        BY <1>1, <1>2, <1>3, <2>2 DEF AgentsInv, DefaultsOK
    <2> QED BY <2>1, <2>2
<1> QED BY <1>2, <1>4, <1>5, SessionsKept DEF AgentsInv

LEMMA DeletePresetKeeps == AgentsInv /\ A!DeletePreset => AgentsInv'
<1> SUFFICES ASSUME AgentsInv, A!DeletePreset PROVE AgentsInv'
    OBVIOUS
<1>1. UNCHANGED <<selected, recorded, sessions, shipped, up, torn, mine>>
    BY DEF A!DeletePreset, A!Request
<1>2. preset' = [preset EXCEPT !["regular"].version = A!Absent]
    BY DEF A!DeletePreset
<1>3. /\ preset' \in [A!Agents -> [version : Version \cup {A!Absent}, enabled : BOOLEAN]]
      /\ preset'["system"] = preset["system"]
    BY <1>2 DEF AgentsInv, AgentsType, A!Agents
<1>4. AgentsType' /\ DefaultsOK'
    BY <1>1, <1>3, SessionsKept DEF AgentsInv, AgentsType, DefaultsOK
<1> QED BY <1>1, <1>4, SessionsKept DEF AgentsInv

LEMMA RestoreKeeps == AgentsInv /\ A!RestoreSystemAgent => AgentsInv'
<1> SUFFICES ASSUME AgentsInv, A!RestoreSystemAgent PROVE AgentsInv'
    OBVIOUS
<1>1. UNCHANGED <<selected, sessions, shipped, up, torn>> /\ mine' = A!Absent
    BY DEF A!RestoreSystemAgent, A!Request
<1>2. /\ preset' = [preset EXCEPT !["system"] = [version |-> shipped, enabled |-> TRUE]]
      /\ recorded' \in {recorded, shipped}
    BY DEF A!RestoreSystemAgent, A!WriteDefault, A!WriteDefaultTorn
<1>3. shipped \in Version
    BY DEF AgentsInv, AgentsType, Version
<1>4. /\ preset' \in [A!Agents -> [version : Version \cup {A!Absent}, enabled : BOOLEAN]]
      /\ preset'["system"].version = shipped
    BY <1>2, <1>3, SystemWritten, "system" \in A!Agents DEF A!Agents
<1>5. AgentsType' /\ DefaultsOK'
    BY <1>1, <1>2, <1>4, SessionsKept DEF AgentsInv, AgentsType, DefaultsOK
<1> QED BY <1>1, <1>5, SessionsKept DEF AgentsInv

\* The version of a turn is the pinned one, if one is pinned.
LEMMA OverrideOfPin ==
    ASSUME AgentsInv, NEW agent \in A!Agents, NEW pin \in Pin, A!RequireRunnable(agent)
    PROVE  /\ A!Override(agent, pin) \in Version
           /\ pin \notin {A!NoPin, [kind |-> "preset", version |-> A!Empty]}
                => A!Override(agent, pin) = pin.version
<1>1. preset[agent].version \in Version
    BY DEF AgentsInv, AgentsType, A!RequireRunnable
<1>2. CASE pin = A!NoPin
    BY <1>1, <1>2 DEF A!NoPin, A!Override
<1>3. CASE pin \in [kind : {"preset", "draft"}, version : Version]
    <2>1. pin = [kind |-> pin.kind, version |-> pin.version] /\ pin.version \in Version
          /\ pin.kind \in {"preset", "draft"}
        BY <1>3
    <2>2. CASE pin.kind = "draft"
        BY <2>1, <2>2 DEF A!Override
    <2>3. CASE pin.kind = "preset" /\ pin.version # A!Empty
        BY <2>1, <2>3 DEF A!Override
    <2>4. CASE pin.kind = "preset" /\ pin.version = A!Empty
        BY <1>1, <2>1, <2>4 DEF A!Override
    <2> QED BY <2>1, <2>2, <2>3, <2>4
<1> QED BY <1>2, <1>3 DEF Pin

\* A request that writes one session and nothing else.
LEMMA OneSession ==
    ASSUME AgentsInv, NEW s \in Sessions, NEW x \in Session, Pinned(x),
           A!Write(s, x), A!Request, A!KeepPresets, UNCHANGED selected
    PROVE  AgentsInv'
<1>1. sessions' = [sessions EXCEPT ![s] = x]
    BY DEF A!Write
<1>2. sessions' \in [Sessions -> Session] /\ SessionsPinned'
    BY <1>1 DEF AgentsInv, AgentsType, SessionsPinned
<1>3. UNCHANGED <<preset, recorded, shipped, up, torn, mine>> /\ selected' \in Accounts
    BY DEF A!Request, A!KeepPresets, AgentsInv, AgentsType
<1> QED BY <1>2, <1>3, PresetsKept DEF AgentsInv

\* A session with other turns of its own version.
LEMMA OtherTurns ==
    ASSUME AgentsInv, NEW s \in Sessions, NEW owner \in Accounts \cup {A!NoOwner},
           NEW turns \in Seq(SessionTurn),
           \A i \in DOMAIN turns :
               \/ \E j \in DOMAIN sessions[s].turns : turns[i] = sessions[s].turns[j]
               \/ turns[i] = A!Question
               \/ /\ A!RequireRunnable(sessions[s].agent)
                  /\ turns[i] = A!Answer(A!Override(sessions[s].agent, sessions[s].pin))
    PROVE  /\ [sessions[s] EXCEPT !.turns = turns, !.owner = owner] \in Session
           /\ Pinned([sessions[s] EXCEPT !.turns = turns, !.owner = owner])
<1> DEFINE old == sessions[s]
           x == [old EXCEPT !.turns = turns, !.owner = owner]
<1>1. old \in Session /\ Pinned(old)
    BY DEF AgentsInv, AgentsType, SessionsPinned
<1>2. x \in Session /\ x.pin = old.pin /\ x.turns = turns
    BY <1>1 DEF Session
<1>3. Pinned(x)
    <2> SUFFICES ASSUME old.pin \notin {A!NoPin, [kind |-> "preset", version |-> A!Empty]},
                        NEW i \in DOMAIN turns, turns[i].role = "assistant"
                 PROVE  turns[i].by = old.pin.version
        BY <1>2 DEF Pinned
    <2>1. CASE \E j \in DOMAIN old.turns : turns[i] = old.turns[j]
        BY <2>1, <1>1 DEF Pinned
    <2>2. CASE turns[i] = A!Question
        BY <2>2 DEF A!Question
    <2>3. CASE /\ A!RequireRunnable(old.agent)
               /\ turns[i] = A!Answer(A!Override(old.agent, old.pin))
        <3>1. old.agent \in A!Agents /\ old.pin \in Pin
            BY <1>1 DEF Session
        <3>2. A!Override(old.agent, old.pin) = old.pin.version
            BY <2>3, <3>1, OverrideOfPin
        <3> QED BY <2>3, <3>2 DEF A!Answer
    <2> QED BY <2>1, <2>2, <2>3
<1> QED BY <1>2, <1>3

LEMMA TurnOfAnswer ==
    ASSUME AgentsInv, NEW s \in Sessions, A!RequireRunnable(sessions[s].agent)
    PROVE  A!Answer(A!Override(sessions[s].agent, sessions[s].pin)) \in SessionTurn
<1>1. sessions[s].agent \in A!Agents /\ sessions[s].pin \in Pin
    BY DEF AgentsInv, AgentsType, Session
<1>2. A!Override(sessions[s].agent, sessions[s].pin) \in Version
    BY <1>1, OverrideOfPin
<1> QED BY <1>2 DEF SessionTurn, A!Answer

LEMMA FirstTestKeeps ==
    ASSUME AgentsInv, NEW s \in Sessions, A!RunFirstTest(s)
    PROVE  AgentsInv'
<1>1. PICK agent \in A!Agents, kind \in {"preset", "draft"},
           version \in Edits \cup A!Builtins \cup {A!Empty} :
        /\ A!RequireRunnable(agent)
        /\ LET pin == A!PinOf(agent, kind, version) IN
            A!Write(s, [agent |-> agent, owner |-> selected, pin |-> pin, type |-> "test",
                        turns |-> <<A!Question, A!Answer(A!Override(agent, pin))>>])
    BY DEF A!RunFirstTest
<1> DEFINE pin == A!PinOf(agent, kind, version)
           answer == A!Answer(A!Override(agent, pin))
           x == [agent |-> agent, owner |-> selected, pin |-> pin, type |-> "test",
                 turns |-> <<A!Question, answer>>]
<1>2. pin \in Pin
    BY DEF A!PinOf, Pin, Version
<1>3. /\ A!Override(agent, pin) \in Version
      /\ pin \notin {A!NoPin, [kind |-> "preset", version |-> A!Empty]}
                => A!Override(agent, pin) = pin.version
    BY <1>1, <1>2, OverrideOfPin
<1>4. A!Question \in SessionTurn /\ answer \in SessionTurn
    BY <1>3 DEF SessionTurn, A!Question, A!Answer
<1>5. x \in Session
    <2> HIDE DEF pin, answer
    <2>1. <<A!Question, answer>> \in Seq(SessionTurn)
        BY <1>4
    <2> QED BY <1>2, <2>1 DEF Session, AgentsInv, AgentsType
<1>6. Pinned(x)
    BY <1>3 DEF Pinned, A!Question, A!Answer
<1>7. A!Write(s, x) /\ A!Request /\ A!KeepPresets /\ UNCHANGED selected
    BY <1>1 DEF A!RunFirstTest
<1> HIDE DEF x
<1> QED BY <1>5, <1>6, <1>7, OneSession

LEMMA TestKeeps ==
    ASSUME AgentsInv, NEW s \in Sessions, A!RunTest(s)
    PROVE  AgentsInv'
<1> DEFINE old == sessions[s]
           answer == A!Answer(A!Override(old.agent, old.pin))
           owner == IF old.owner = A!NoOwner THEN selected ELSE old.owner
<1>1. PICK asked \in {<<>>, <<A!Question>>} :
        A!Write(s, [A!AdoptScope(old) EXCEPT !.turns =
            @ \o Append(asked, A!Answer(A!Override(A!AdoptScope(old).agent,
                                                   A!AdoptScope(old).pin)))])
    BY DEF A!RunTest
<1>2. old \in Session
    BY DEF AgentsInv, AgentsType
<1>3. /\ A!AdoptScope(old) \in Session /\ A!AdoptScope(old).agent = old.agent
      /\ A!AdoptScope(old).pin = old.pin /\ A!AdoptScope(old).turns = old.turns
      /\ A!AdoptScope(old) = [old EXCEPT !.owner = owner]
    BY <1>2 DEF A!AdoptScope, Session, AgentsInv, AgentsType
<1>4. answer \in SessionTurn /\ A!Question \in SessionTurn /\ A!RequireRunnable(old.agent)
    BY TurnOfAnswer DEF A!RunTest, SessionTurn, A!Question
<1> DEFINE turns == old.turns \o Append(asked, answer)
<1>5. turns \in Seq(SessionTurn)
      /\ \A i \in DOMAIN turns :
            (\E j \in DOMAIN old.turns : turns[i] = old.turns[j])
            \/ turns[i] \in {A!Question, answer}
    <2> HIDE DEF answer
    <2>1. old.turns \in Seq(SessionTurn)
        BY <1>2 DEF Session
    <2>2. CASE asked = <<>>
        <3>1. Append(asked, answer) = <<answer>>
            BY <2>2
        <3> QED BY <2>1, <3>1, <1>4
    <2>3. CASE asked = <<A!Question>>
        <3>1. turns = Append(Append(old.turns, A!Question), answer)
            <4>1. old.turns \o Append(<<A!Question>>, answer)
                    = Append(Append(old.turns, A!Question), answer)
                <5>1. ASSUME NEW seq \in Seq(SessionTurn), NEW a \in SessionTurn,
                             NEW b \in SessionTurn
                      PROVE  seq \o Append(<<a>>, b) = Append(Append(seq, a), b)
                    OBVIOUS
                <5> QED BY <2>1, <1>4, <5>1
            <4> QED BY <4>1, <2>3
        <3>2. Append(old.turns, A!Question) \in Seq(SessionTurn)
              /\ \A i \in DOMAIN Append(old.turns, A!Question) :
                    (\E j \in DOMAIN old.turns : Append(old.turns, A!Question)[i] = old.turns[j])
                    \/ Append(old.turns, A!Question)[i] = A!Question
            BY <2>1, <1>4
        <3> QED BY <3>1, <3>2, <1>4
    <2> QED BY <2>2, <2>3
<1>6. [A!AdoptScope(old) EXCEPT !.turns = turns] = [old EXCEPT !.turns = turns, !.owner = owner]
    BY <1>2, <1>3 DEF Session
<1>7. owner \in Accounts \cup {A!NoOwner}
    BY <1>2 DEF Session, AgentsInv, AgentsType
<1>8. /\ [old EXCEPT !.turns = turns, !.owner = owner] \in Session
      /\ Pinned([old EXCEPT !.turns = turns, !.owner = owner])
    <2> HIDE DEF turns, owner
    <2> QED BY <1>4, <1>5, <1>7, OtherTurns
<1>9. A!Write(s, [old EXCEPT !.turns = turns, !.owner = owner])
      /\ A!Request /\ A!KeepPresets /\ UNCHANGED selected
    BY <1>1, <1>3, <1>6 DEF A!RunTest
<1> HIDE DEF turns, owner
<1> QED BY <1>8, <1>9, OneSession

\* Every session keeps its owner in the requests that change its turns only.
LEMMA SameOwner ==
    ASSUME AgentsInv, NEW s \in Sessions, NEW turns
    PROVE  /\ sessions[s].owner \in Accounts \cup {A!NoOwner}
           /\ [sessions[s] EXCEPT !.turns = turns]
                = [sessions[s] EXCEPT !.turns = turns, !.owner = sessions[s].owner]
BY DEF AgentsInv, AgentsType, Session

LEMMA PrefixTurns ==
    ASSUME AgentsInv, NEW s \in Sessions, NEW n \in 0..Len(sessions[s].turns)
    PROVE  LET turns == SubSeq(sessions[s].turns, 1, n) IN
           /\ turns \in Seq(SessionTurn) /\ Len(turns) = n
           /\ \A i \in DOMAIN turns :
                 i \in DOMAIN sessions[s].turns /\ turns[i] = sessions[s].turns[i]
<1>1. sessions[s].turns \in Seq(SessionTurn)
    BY DEF AgentsInv, AgentsType, Session
<1> QED BY <1>1

LEMMA UndoKeeps ==
    ASSUME AgentsInv, NEW s \in Sessions, A!Undo(s)
    PROVE  AgentsInv'
<1> DEFINE old == sessions[s]
           turns == SubSeq(old.turns, 1, Len(old.turns) - 2)
<1>1. /\ A!Write(s, [old EXCEPT !.turns = turns]) /\ Len(old.turns) >= 2
      /\ A!Request /\ A!KeepPresets /\ UNCHANGED selected
    BY DEF A!Undo
<1>2. old.turns \in Seq(SessionTurn)
    BY DEF AgentsInv, AgentsType, Session
<1>3. Len(old.turns) - 2 \in 0..Len(old.turns)
    BY <1>1, <1>2
<1>4. /\ turns \in Seq(SessionTurn)
      /\ \A i \in DOMAIN turns : i \in DOMAIN old.turns /\ turns[i] = old.turns[i]
    BY <1>3, PrefixTurns
<1> HIDE DEF turns
<1>5. /\ [old EXCEPT !.turns = turns, !.owner = old.owner] \in Session
      /\ Pinned([old EXCEPT !.turns = turns, !.owner = old.owner])
    BY <1>4, OtherTurns, SameOwner
<1> QED BY <1>1, <1>5, OneSession, SameOwner

LEMMA PrefixOfPrefix ==
    ASSUME NEW S, NEW seq \in Seq(S), NEW m \in 0..Len(seq), NEW n \in 0..m
    PROVE  SubSeq(SubSeq(seq, 1, m), 1, n) = SubSeq(seq, 1, n)
OBVIOUS

LEMMA RegenerateKeeps ==
    ASSUME AgentsInv, NEW s \in Sessions, A!Regenerate(s)
    PROVE  AgentsInv'
<1> DEFINE old == sessions[s]
           answer == A!Answer(A!Override(old.agent, old.pin))
           turns == Append(A!Base(old.turns), answer)
<1>1. /\ A!Write(s, [old EXCEPT !.turns = turns]) /\ old.turns # <<>>
      /\ A!Request /\ A!KeepPresets /\ UNCHANGED selected
      /\ A!RequireRunnable(old.agent)
    BY DEF A!Regenerate
<1>2. old.turns \in Seq(SessionTurn)
    BY DEF AgentsInv, AgentsType, Session
<1>3. answer \in SessionTurn
    BY <1>1, TurnOfAnswer
<1>4. PICK n \in 0..Len(old.turns) : A!Base(old.turns) = SubSeq(old.turns, 1, n)
    <2>1. A!Front(old.turns) = SubSeq(old.turns, 1, Len(old.turns) - 1)
        BY DEF A!Front
    <2>2. Len(old.turns) \in Nat /\ Len(old.turns) # 0
        BY <1>1, <1>2
    <2>3. Len(old.turns) - 1 \in 0..Len(old.turns)
        BY <2>2
    <2>4. CASE A!Base(old.turns) = A!Front(old.turns)
        BY <2>1, <2>3, <2>4
    <2>5. CASE A!Front(old.turns) # <<>> /\ A!Base(old.turns) = A!Front(A!Front(old.turns))
        <3>1. A!Front(old.turns) \in Seq(SessionTurn) /\ Len(A!Front(old.turns)) = Len(old.turns) - 1
            BY <1>2, <2>1, <2>2
        <3>2. Len(old.turns) - 1 # 0
            BY <2>5, <3>1, EmptySeq
        <3>3. A!Front(A!Front(old.turns)) = SubSeq(A!Front(old.turns), 1, Len(old.turns) - 2)
            BY <3>1, <2>2 DEF A!Front
        <3>5. /\ Len(old.turns) - 2 \in 0..Len(old.turns)
              /\ Len(old.turns) - 1 \in 0..Len(old.turns)
              /\ Len(old.turns) - 2 \in 0..(Len(old.turns) - 1)
            <4>1. ASSUME NEW n \in Nat, n # 0, n - 1 # 0
                  PROVE  n - 2 \in 0..n /\ n - 1 \in 0..n /\ n - 2 \in 0..(n - 1)
                BY <4>1
            <4> QED BY <2>2, <3>2, <4>1
        <3>4. A!Front(A!Front(old.turns)) = SubSeq(old.turns, 1, Len(old.turns) - 2)
            BY <1>2, <2>1, <3>3, <3>5, PrefixOfPrefix
        <3> QED BY <2>5, <3>4, <3>5
    <2>6. A!Base(old.turns) = A!Front(old.turns)
            \/ (A!Front(old.turns) # <<>> /\ A!Base(old.turns) = A!Front(A!Front(old.turns)))
        BY DEF A!Base
    <2> QED BY <2>4, <2>5, <2>6
<1>5. /\ A!Base(old.turns) \in Seq(SessionTurn)
      /\ \A i \in DOMAIN A!Base(old.turns) :
            i \in DOMAIN old.turns /\ A!Base(old.turns)[i] = old.turns[i]
    BY <1>4, PrefixTurns
<1>6. turns \in Seq(SessionTurn)
      /\ \A i \in DOMAIN turns :
            (\E j \in DOMAIN old.turns : turns[i] = old.turns[j]) \/ turns[i] = answer
    <2> HIDE DEF answer
    <2> QED BY <1>3, <1>5
<1>7. /\ [old EXCEPT !.turns = turns, !.owner = old.owner] \in Session
      /\ Pinned([old EXCEPT !.turns = turns, !.owner = old.owner])
    <2> HIDE DEF turns
    <2> QED BY <1>1, <1>6, OtherTurns, SameOwner
<1> HIDE DEF turns
<1> QED BY <1>1, <1>7, OneSession, SameOwner

LEMMA BranchKeeps ==
    ASSUME AgentsInv, NEW s \in Sessions, NEW t \in Sessions, A!Branch(s, t)
    PROVE  AgentsInv'
<1> DEFINE old == sessions[s]
<1>1. PICK n \in 0..Len(old.turns) :
        A!Write(t, [old EXCEPT !.turns = SubSeq(@, 1, n), !.owner = selected])
    BY DEF A!Branch
<1> DEFINE turns == SubSeq(old.turns, 1, n)
<1>2. /\ turns \in Seq(SessionTurn)
      /\ \A i \in DOMAIN turns : i \in DOMAIN old.turns /\ turns[i] = old.turns[i]
    BY PrefixTurns
<1>3. A!Write(t, [old EXCEPT !.turns = turns, !.owner = selected])
      /\ A!Request /\ A!KeepPresets /\ UNCHANGED selected
    BY <1>1 DEF A!Branch
<1>4. selected \in Accounts \cup {A!NoOwner}
    BY DEF AgentsInv, AgentsType
<1> HIDE DEF turns
<1>5. /\ [old EXCEPT !.turns = turns, !.owner = selected] \in Session
      /\ Pinned([old EXCEPT !.turns = turns, !.owner = selected])
    BY <1>2, <1>4, OtherTurns
<1> QED BY <1>3, <1>5, OneSession

LEMMA ForkKeeps ==
    ASSUME AgentsInv, NEW s \in Sessions, A!Fork(s)
    PROVE  AgentsInv'
<1>1. PICK agent \in A!Agents, kind \in {"preset", "draft"},
           version \in Edits \cup A!Builtins \cup {A!Empty} :
        A!Write(s, [agent |-> agent, owner |-> selected, type |-> "fork", turns |-> <<>>,
                    pin |-> [kind |-> kind, version |-> version]])
    BY DEF A!Fork
<1> DEFINE x == [agent |-> agent, owner |-> selected, type |-> "fork", turns |-> <<>>,
                 pin |-> [kind |-> kind, version |-> version]]
<1>2. x \in Session /\ Pinned(x)
    BY DEF Session, Pinned, Pin, Version, AgentsInv, AgentsType
<1>3. A!Write(s, x) /\ A!Request /\ A!KeepPresets /\ UNCHANGED selected
    BY <1>1 DEF A!Fork
<1> HIDE DEF x
<1> QED BY <1>2, <1>3, OneSession

LEMMA DeleteSessionKeeps ==
    ASSUME AgentsInv, NEW s \in Sessions, A!DeleteSession(s)
    PROVE  AgentsInv'
<1>1. A!NoSession \in Session /\ Pinned(A!NoSession)
    BY DEF A!NoSession, Session, A!Agents, Pin, Pinned
<1> QED BY <1>1, OneSession DEF A!DeleteSession

LEMMA AgentsKeep == AgentsInv /\ [A!Next]_(A!vars) => AgentsInv'
<1> SUFFICES ASSUME AgentsInv, [A!Next]_(A!vars) PROVE AgentsInv'
    OBVIOUS
<1>1. CASE A!SelectAccount
    <2>1. /\ UNCHANGED <<preset, recorded, shipped, up, torn, mine, sessions>>
          /\ selected' \in Accounts
        BY <1>1 DEF A!SelectAccount, A!Request, A!KeepPresets
    <2> QED BY <2>1, PresetsKept, SessionsKept DEF AgentsInv
<1>2. CASE UNCHANGED A!vars
    BY <1>2 DEF A!vars, AgentsInv, AgentsType, DefaultsOK, SessionsPinned
<1> QED BY <1>1, <1>2, StartupKeeps, UpgradeKeeps, DeletePresetKeeps, RestoreKeeps,
           SavePresetKeeps, FirstTestKeeps, TestKeeps, UndoKeeps, RegenerateKeeps,
           DeleteSessionKeeps, ForkKeeps, BranchKeeps
        DEF A!Next

\* A user's system prompt survives every startup, upgrade and interrupted delivery, and an
\* untouched one is the default of the running release (system_presets.py,
\* ensure_system_agents_seeded).
THEOREM DefaultsAreDelivered == A!Spec => []DefaultsDelivered
<1>1. AgentsInv => DefaultsDelivered
    BY VersionsDiffer DEF AgentsInv, DefaultsOK, DefaultsDelivered, A!DefaultsDelivered
<1> QED BY <1>1, AgentsBegin, AgentsKeep, PTL DEF A!Spec

\* However presets are edited, deleted and restored, a session goes on with the version it
\* is pinned to (agent.py, versions.py).
THEOREM AnswersArePinned == A!Spec => []AnswersPinned
<1>1. AgentsInv => AnswersPinned
    BY DEF AgentsInv, SessionsPinned, Pinned, AnswersPinned, A!AnswersPinned, A!Used
<1> QED BY <1>1, AgentsBegin, AgentsKeep, PTL DEF A!Spec

--------------------------------------------------------------------------------
(* Sublists *)

\* The positions up to i.
UpTo(at, i) == {j \in at : j <= i}

LEMMA PositionsFinite ==
    ASSUME NEW n \in Nat, NEW at \in SUBSET (1..n), NEW i
    PROVE  /\ IsFiniteSet(at) /\ Cardinality(at) \in Nat
           /\ IsFiniteSet(UpTo(at, i)) /\ Cardinality(UpTo(at, i)) \in Nat
           /\ Cardinality(UpTo(at, i)) <= Cardinality(at)
           /\ \A j \in at : j \in Nat /\ 1 <= j /\ j <= n
<1>1. IsFiniteSet(1..n)
    BY FS_Interval
<1>2. IsFiniteSet(at) /\ Cardinality(at) \in Nat
    BY <1>1, FS_Subset, FS_CardinalityType
<1>3. UpTo(at, i) \in SUBSET at
    BY DEF UpTo
<1>4. IsFiniteSet(UpTo(at, i)) /\ Cardinality(UpTo(at, i)) <= Cardinality(at)
    BY <1>2, <1>3, FS_Subset
<1>5. Cardinality(UpTo(at, i)) \in Nat
    BY <1>4, FS_CardinalityType
<1>6. \A j \in at : j \in Nat /\ 1 <= j /\ j <= n
    OBVIOUS
<1> QED BY <1>2, <1>4, <1>5, <1>6

\* Every number up to that of the positions is the rank of one.
LEMMA NthExists ==
    ASSUME NEW n \in Nat, NEW at \in SUBSET (1..n), NEW k \in 1..Cardinality(at)
    PROVE  Nth(at, k) \in at /\ Cardinality(UpTo(at, Nth(at, k))) = k
<1>0. /\ IsFiniteSet(at) /\ Cardinality(at) \in Nat
      /\ \A i : /\ IsFiniteSet(UpTo(at, i)) /\ Cardinality(UpTo(at, i)) \in Nat
                /\ Cardinality(UpTo(at, i)) <= Cardinality(at)
      /\ \A j \in at : j \in Nat /\ 1 <= j /\ j <= n
    BY PositionsFinite
<1> DEFINE D == {i \in 0..n : Cardinality(UpTo(at, i)) >= k}
<1>1. n \in D
    <2>1. UpTo(at, n) = at
        BY <1>0 DEF UpTo
    <2> QED BY <2>1
<1>2. PICK i \in D : \A m \in D : i <= m
    <2>1. D \in SUBSET Nat /\ D # {}
        BY <1>1
    <2> HIDE DEF D
    <2> QED BY <2>1, LeastNumber
<1>3. i # 0
    <2>1. UpTo(at, 0) = {}
        <3>1. \A j \in at : ~(j <= 0)
            BY <1>0
        <3> QED BY <3>1 DEF UpTo
    <2> QED BY <2>1, FS_EmptySet
<1>4. i - 1 \in 0..n /\ i \in 1..n
    BY <1>2, <1>3
<1>5. Cardinality(UpTo(at, i - 1)) < k
    <2>1. i - 1 \notin D
        <3> HIDE DEF D
        <3>1. ~(i <= i - 1)
            BY <1>4
        <3> QED BY <1>2, <3>1
    <2> QED BY <1>0, <1>4, <2>1
<1>6. i \in at
    <2> SUFFICES ASSUME i \notin at PROVE FALSE
        OBVIOUS
    <2>1. ASSUME NEW j \in at PROVE j <= i <=> j <= i - 1
        <3>1. j \in Nat /\ i \in Nat /\ j # i
            BY <1>0, <1>4
        <3> QED BY <3>1
    <2>2. UpTo(at, i) = UpTo(at, i - 1)
        BY <2>1 DEF UpTo
    <2> QED BY <1>0, <1>2, <1>5, <2>2
<1>7. Cardinality(UpTo(at, i)) = k
    <2>1. ASSUME NEW j \in at PROVE /\ j <= i <=> j <= i - 1 \/ j = i
                                    /\ ~(i <= i - 1)
        <3>1. j \in Nat /\ i \in Nat
            BY <1>0, <1>4
        <3> QED BY <3>1
    <2>2. UpTo(at, i) = UpTo(at, i - 1) \cup {i} /\ i \notin UpTo(at, i - 1)
        BY <1>6, <2>1 DEF UpTo
    <2>3. Cardinality(UpTo(at, i)) = Cardinality(UpTo(at, i - 1)) + 1
        BY <1>0, <2>2, FS_AddElement
    <2> QED BY <1>0, <1>2, <1>5, <2>3
<1>8. \E j \in at : Cardinality({m \in at : m <= j}) = k
    BY <1>6, <1>7 DEF UpTo
<1> QED BY <1>8 DEF Nth, UpTo

LEMMA RanksDiffer ==
    ASSUME NEW n \in Nat, NEW at \in SUBSET (1..n), NEW i \in at, NEW j \in at,
           Cardinality(UpTo(at, i)) = Cardinality(UpTo(at, j))
    PROVE  i = j
<1>0. /\ IsFiniteSet(at) /\ Cardinality(at) \in Nat
      /\ \A m : /\ IsFiniteSet(UpTo(at, m)) /\ Cardinality(UpTo(at, m)) \in Nat
                /\ Cardinality(UpTo(at, m)) <= Cardinality(at)
      /\ \A m \in at : m \in Nat /\ 1 <= m /\ m <= n
    BY PositionsFinite
<1>1. ASSUME NEW a \in at, NEW b \in at, a <= b,
             Cardinality(UpTo(at, a)) = Cardinality(UpTo(at, b))
      PROVE  a = b
    <2>1. \A m \in at : m <= a => m <= b
        BY <1>0, <1>1
    <2>2. UpTo(at, a) \in SUBSET UpTo(at, b)
        BY <2>1 DEF UpTo
    <2>3. UpTo(at, a) = UpTo(at, b)
        BY <1>0, <1>1, <2>2, FS_Subset
    <2>4. b <= a
        BY <1>0, <2>3 DEF UpTo
    <2> QED BY <1>0, <1>1, <2>4
<1>2. i <= j \/ j <= i
    BY <1>0
<1> QED BY <1>1, <1>2

\* A sublist holds what is at its positions, each once.
LEMMA SublistFacts ==
    ASSUME NEW S, NEW seq \in Seq(S), NEW at \in SUBSET DOMAIN seq
    PROVE  /\ IsFiniteSet(at)
           /\ Sublist(seq, at) \in Seq(S) /\ Len(Sublist(seq, at)) = Cardinality(at)
           /\ \A k \in 1..Cardinality(at) :
                 /\ Nth(at, k) \in at /\ Sublist(seq, at)[k] = seq[Nth(at, k)]
                 /\ \A l \in 1..Cardinality(at) : Nth(at, k) = Nth(at, l) => k = l
           /\ \A i \in at : \E k \in 1..Cardinality(at) : Nth(at, k) = i
<1>1. /\ Len(seq) \in Nat /\ at \in SUBSET (1..Len(seq))
    OBVIOUS
<1>2. IsFiniteSet(at) /\ Cardinality(at) \in Nat
    BY <1>1, PositionsFinite
<1>3. ASSUME NEW k \in 1..Cardinality(at)
      PROVE  Nth(at, k) \in at /\ Cardinality(UpTo(at, Nth(at, k))) = k
    BY <1>1, NthExists
<1>4. Sublist(seq, at) \in [1..Cardinality(at) -> S]
    BY <1>1, <1>3 DEF Sublist
<1>5. Sublist(seq, at) \in Seq(S) /\ Len(Sublist(seq, at)) = Cardinality(at)
    BY <1>2, <1>4
<1>6. ASSUME NEW i \in at PROVE \E k \in 1..Cardinality(at) : Nth(at, k) = i
    <2> DEFINE k == Cardinality(UpTo(at, i))
    <2>1. k \in 1..Cardinality(at)
        <3>1. i \in UpTo(at, i)
            BY <1>1 DEF UpTo
        <3>2. IsFiniteSet(UpTo(at, i)) /\ k \in Nat /\ k <= Cardinality(at)
            BY <1>1, PositionsFinite
        <3>3. k # 0
            BY <3>1, <3>2, FS_EmptySet
        <3> QED BY <1>2, <3>2, <3>3
    <2>2. Nth(at, k) \in at /\ Cardinality(UpTo(at, Nth(at, k))) = k
        BY <1>3, <2>1
    <2>3. Nth(at, k) = i
        BY <1>1, <2>2, RanksDiffer
    <2> QED BY <2>1, <2>3
<1>7. \A k \in 1..Cardinality(at) : Sublist(seq, at)[k] = seq[Nth(at, k)]
    BY DEF Sublist
<1> QED BY <1>2, <1>3, <1>5, <1>6, <1>7

--------------------------------------------------------------------------------
(* Translations *)

Statuses == {"unused", "pending", "running", "succeeded", "failed"}

\* No text twice.
Distinct(seq) == \A i, j \in DOMAIN seq : seq[i] = seq[j] => i = j

In(text, seq) == \E i \in DOMAIN seq : seq[i] = text

Hashes == {<<>>} \cup UNION {[D -> T!ShortHashes] : D \in SUBSET Cleaned}

Request == [status : Statuses, texts : Seq(Cleaned), force : BOOLEAN, epoch : Int]

Worker == [id : Jobs \cup {0}, pc : {"idle", "check", "context", "chunks"},
           rest : Seq(Cleaned), hash : Hashes, failed : Nat]

TranslationsType ==
    /\ epoch \in Int
    /\ job \in [Jobs -> Request]
    /\ queue \in Seq(Jobs)
    /\ running \in Worker
    /\ cache \in [Cleaned -> SUBSET (Cleaned \cup {T!NoNeed})]
    /\ running.pc # "idle" => running.id \in Jobs
    /\ \A j \in Jobs : Distinct(job[j].texts)

OwnCache == \A text \in Cleaned : cache[text] \subseteq {text, T!NoNeed}

\* No two texts that are still to be sent have one hash.
HashesDiffer ==
    running.pc = "chunks" =>
        /\ running.hash \in [DOMAIN running.hash -> T!ShortHashes]
        /\ DOMAIN running.hash \subseteq Cleaned
        /\ \A s, t \in DOMAIN running.hash : running.hash[s] = running.hash[t] => s = t
        /\ running.rest # <<>>
        /\ \A i \in DOMAIN running.rest : running.rest[i] \in DOMAIN running.hash

Done(text) == cache[text] # {} \/ text \in abnormal

\* Every text of the job is still to be sent, is done, or has failed.
NothingForgotten ==
    running.pc = "chunks" =>
        \A text \in Cleaned : In(text, job[running.id].texts) =>
            In(text, running.rest) \/ Done(text) \/ running.failed > 0

TranslationsInv == TranslationsType /\ OwnCache /\ HashesDiffer /\ NothingForgotten

--------------------------------------------------------------------------------
LEMMA ToSetIn == ASSUME NEW text, NEW seq PROVE text \in T!ToSet(seq) <=> In(text, seq)
BY DEF T!ToSet, In

LEMMA TCardinality == ASSUME NEW S PROVE T!Cardinality(S) = Cardinality(S)
BY Zenon DEF Cardinality, T!Cardinality

LEMMA TSublist == ASSUME NEW seq, NEW at PROVE T!Sublist(seq, at) = Sublist(seq, at)
<1>1. ASSUME NEW k PROVE T!Nth(at, k) = Nth(at, k)
    BY TCardinality DEF T!Nth, Nth
<1> QED BY <1>1, TCardinality DEF T!Sublist, Sublist

LEMMA SequenceOfSet ==
    ASSUME NEW texts \in SUBSET Cleaned
    PROVE  T!SetToSeq(texts) \in Seq(Cleaned) /\ Distinct(T!SetToSeq(texts))
<1> DEFINE n == Cardinality(texts)
<1>1. n \in Nat /\ ExistsBijection(1..n, texts)
    BY FS_Subset, FS_CardinalityType, WorkbenchAssumption
<1>2. T!SetToSeq(texts) = CHOOSE f \in [1..n -> texts] : T!IsInjective(f)
    BY TCardinality DEF T!SetToSeq
<1>3. \E f \in [1..n -> texts] : T!IsInjective(f)
    <2>1. PICK f \in Bijection(1..n, texts) : TRUE
        BY <1>1 DEF ExistsBijection
    <2> QED BY <2>1 DEF Bijection, Injection, T!IsInjective, IsInjective
<1> HIDE DEF n
<1>4. T!SetToSeq(texts) \in [1..n -> texts] /\ T!IsInjective(T!SetToSeq(texts))
    BY <1>2, <1>3
<1> QED BY <1>1, <1>4 DEF T!IsInjective, Distinct

\* What is to be translated of some texts.
LEMMA TargetsFacts ==
    ASSUME TranslationsType, NEW texts \in Seq(Cleaned), NEW force \in BOOLEAN
    PROVE  LET items == T!Targets(texts, force) IN
           /\ items \in Seq(Cleaned)
           /\ \A text : In(text, items) => In(text, texts)
           /\ \A text : In(text, texts) => In(text, items) \/ cache[text] # {}
           /\ Distinct(texts) => Distinct(items)
<1> DEFINE at == {i \in DOMAIN texts : force \/ ~T!Cached(texts[i])}
           items == T!Targets(texts, force)
<1>1. items = Sublist(texts, at) /\ at \in SUBSET DOMAIN texts
    BY TSublist DEF T!Targets
<1>2. \A i \in DOMAIN texts : i \notin at => cache[texts[i]] # {}
    BY DEF T!Cached, T!Nothing
<1> HIDE DEF at, items
<1>3. /\ items \in Seq(Cleaned) /\ Len(items) = Cardinality(at)
      /\ \A k \in 1..Cardinality(at) :
            /\ Nth(at, k) \in at /\ items[k] = texts[Nth(at, k)]
            /\ \A l \in 1..Cardinality(at) : Nth(at, k) = Nth(at, l) => k = l
      /\ \A i \in at : \E k \in 1..Cardinality(at) : Nth(at, k) = i
    BY <1>1, SublistFacts
<1>4. DOMAIN items = 1..Cardinality(at)
    BY <1>3
<1>5. \A text : In(text, items) => In(text, texts)
    BY <1>1, <1>3, <1>4 DEF In
<1>6. \A text : In(text, texts) => In(text, items) \/ cache[text] # {}
    BY <1>2, <1>3, <1>4 DEF In
<1>7. Distinct(texts) => Distinct(items)
    BY <1>1, <1>3, <1>4 DEF Distinct
<1> QED BY <1>3, <1>5, <1>6, <1>7 DEF items

--------------------------------------------------------------------------------
\* A salted hash is not among those it is to differ from, and there is one if they are
\* fewer than the texts.
LEMMA FreshHash ==
    ASSUME NEW text \in Cleaned, NEW used \in SUBSET T!ShortHashes,
           Cardinality(used) < Cardinality(Cleaned)
    PROVE  T!FreshShortHash(text, used) \notin used
<1> DEFINE free == {salt \in 0..MaxSalt : Hash(text, salt) \notin used}
<1>1. free \in SUBSET Nat /\ free # {}
    BY WorkbenchAssumption
<1>2. PICK salt \in free : \A s \in free : salt <= s
    <2> HIDE DEF free
    <2> QED BY <1>1, LeastNumber
<1>3. /\ salt \in 0..MaxSalt /\ Hash(text, salt) \notin used
      /\ \A s \in 0..(salt - 1) : Hash(text, s) \in used
    <2>1. ASSUME NEW s \in 0..(salt - 1) PROVE Hash(text, s) \in used
        <3>1. s \in 0..MaxSalt /\ ~(salt <= s)
            BY WorkbenchAssumption
        <3> QED BY <1>2, <3>1
    <2> QED BY <2>1
<1> QED BY <1>3 DEF T!FreshShortHash

\* The hashes of the texts before one are fewer than the texts.
LEMMA FewHashes ==
    ASSUME NEW texts \in Seq(Cleaned), Distinct(texts),
           NEW hash \in [T!ToSet(texts) -> T!ShortHashes], NEW i \in DOMAIN texts
    PROVE  LET used == {hash[texts[j]] : j \in 1..(i - 1)} IN
           used \in SUBSET T!ShortHashes /\ Cardinality(used) < Cardinality(Cleaned)
<1> DEFINE before == {texts[j] : j \in 1..(i - 1)}
           used == {hash[texts[j]] : j \in 1..(i - 1)}
           f == [t \in before |-> hash[t]]
<1>1. \A j \in 1..(i - 1) : j \in DOMAIN texts /\ j # i
    OBVIOUS
<1>2. before \in SUBSET (Cleaned \ {texts[i]}) /\ texts[i] \in Cleaned
    BY <1>1 DEF Distinct
<1>3. /\ IsFiniteSet(Cleaned) /\ IsFiniteSet(Cleaned \ {texts[i]})
      /\ Cardinality(Cleaned) \in Nat
      /\ Cardinality(Cleaned \ {texts[i]}) = Cardinality(Cleaned) - 1
    BY <1>2, WorkbenchAssumption, FS_RemoveElement, FS_CardinalityType
<1>4. IsFiniteSet(before) /\ Cardinality(before) <= Cardinality(Cleaned) - 1
      /\ Cardinality(before) \in Nat
    BY <1>2, <1>3, FS_Subset, FS_CardinalityType
<1>5. f \in Surjection(before, used)
    BY DEF Surjection
<1>6. IsFiniteSet(used) /\ Cardinality(used) <= Cardinality(before)
    <2> HIDE DEF f, before, used
    <2> QED BY <1>4, <1>5, FS_Surjection
<1>7. Cardinality(used) \in Nat
    <2> HIDE DEF used
    <2> QED BY <1>6, FS_CardinalityType
<1>8. used \in SUBSET T!ShortHashes
    BY <1>1 DEF T!ToSet
<1> HIDE DEF used, before
<1>9. Cardinality(used) < Cardinality(Cleaned)
    BY <1>3, <1>4, <1>6, <1>7
<1> QED BY <1>8, <1>9 DEF used

LEMMA AssignedHashesDiffer ==
    ASSUME NEW texts \in Seq(Cleaned), Distinct(texts),
           NEW hash \in [T!ToSet(texts) -> T!ShortHashes], T!AssignsShortHashes(hash, texts)
    PROVE  \A s, t \in T!ToSet(texts) : hash[s] = hash[t] => s = t
<1>1. ASSUME NEW i \in DOMAIN texts, NEW j \in DOMAIN texts, i < j
      PROVE  hash[texts[i]] # hash[texts[j]]
    <2> DEFINE used == {hash[texts[k]] : k \in 1..(j - 1)}
    <2>1. hash[texts[j]] = T!FreshShortHash(texts[j], used)
        BY DEF T!AssignsShortHashes
    <2>2. used \in SUBSET T!ShortHashes /\ Cardinality(used) < Cardinality(Cleaned)
        BY FewHashes
    <2>3. hash[texts[i]] \in used
        <3>1. i \in 1..(j - 1)
            BY <1>1
        <3> QED BY <3>1
    <2>4. texts[j] \in Cleaned
        OBVIOUS
    <2> HIDE DEF used
    <2> QED BY <2>1, <2>2, <2>3, <2>4, FreshHash
<1>2. ASSUME NEW i \in DOMAIN texts, NEW j \in DOMAIN texts, hash[texts[i]] = hash[texts[j]]
      PROVE  texts[i] = texts[j]
    <2>1. i \in Nat /\ j \in Nat
        OBVIOUS
    <2>2. ~(i < j) /\ ~(j < i)
        BY <1>1, <1>2
    <2> QED BY <2>1, <2>2
<1> QED BY <1>2 DEF T!ToSet

--------------------------------------------------------------------------------
LEMMA NothingRuns ==
    /\ T!NotRunning \in Worker /\ T!NotRunning.pc = "idle"
    /\ \A status \in Statuses :
          /\ [T!NoJob EXCEPT !.status = status] \in Request
          /\ [T!NoJob EXCEPT !.status = status].status = status
          /\ Distinct([T!NoJob EXCEPT !.status = status].texts)
    /\ T!NoJob \in Request /\ T!NoJob.status = "unused" /\ Distinct(T!NoJob.texts)
<1>1. <<>> \in Hashes /\ <<>> \in Seq(Cleaned) /\ Distinct(<<>>)
    BY DEF Hashes, Distinct
<1>2. T!NotRunning \in Worker /\ T!NotRunning.pc = "idle"
    BY <1>1 DEF T!NotRunning, Worker
<1>3. T!NoJob \in Request /\ T!NoJob.status = "unused" /\ T!NoJob.texts = <<>>
    BY <1>1 DEF T!NoJob, T!NoEpoch, Request, Statuses
<1>4. ASSUME NEW status \in Statuses
      PROVE  /\ [T!NoJob EXCEPT !.status = status] \in Request
             /\ [T!NoJob EXCEPT !.status = status].status = status
             /\ [T!NoJob EXCEPT !.status = status].texts = <<>>
    BY <1>3 DEF Request
<1> QED BY <1>1, <1>2, <1>3, <1>4

LEMMA TranslationsBegin == T!Init => TranslationsInv
<1> SUFFICES ASSUME T!Init PROVE TranslationsInv
    OBVIOUS
<1>1. TranslationsType
    BY NothingRuns DEF T!Init, TranslationsType, T!Nothing
<1>2. OwnCache
    BY DEF T!Init, OwnCache, T!Nothing
<1>3. running.pc = "idle"
    BY DEF T!Init, T!NotRunning
<1> QED BY <1>1, <1>2, <1>3 DEF TranslationsInv, HashesDiffer, NothingForgotten

\* A chunk and what is left make up what was to be sent.
LEMMA ChunkFacts ==
    ASSUME NEW seq \in Seq(Cleaned), seq # <<>>, seq = running.rest
    PROVE  LET rest == SubSeq(running.rest, Len(T!Chunk) + 1, Len(running.rest)) IN
           /\ T!Chunk \in Seq(Cleaned) /\ Len(T!Chunk) \in Nat \ {0}
           /\ rest \in Seq(Cleaned)
           /\ \A text : In(text, T!Chunk) => In(text, running.rest)
           /\ \A text : In(text, rest) => In(text, running.rest)
           /\ \A text : In(text, running.rest) => In(text, T!Chunk) \/ In(text, rest)
<1> DEFINE n == IF Len(seq) <= ChunkSize THEN Len(seq) ELSE ChunkSize
           chunk == SubSeq(seq, 1, n)
           rest == SubSeq(seq, n + 1, Len(seq))
<1>1. ChunkSize \in Nat \ {0} /\ Len(seq) \in Nat \ {0} /\ n \in 1..Len(seq)
    BY WorkbenchAssumption
<1>2. chunk \in Seq(Cleaned) /\ Len(chunk) = n /\ \A i \in 1..n : chunk[i] = seq[i]
    BY <1>1
<1>3. /\ rest \in Seq(Cleaned) /\ Len(rest) = Len(seq) - n
      /\ \A i \in 1..(Len(seq) - n) : rest[i] = seq[i + n]
    <2> HIDE DEF n
    <2>1. n \in Nat /\ n <= Len(seq) /\ Len(seq) \in Nat
        BY <1>1
    <2>2. rest = [i \in 1..(Len(seq) - n) |-> seq[i + n]]
        BY <2>1
    <2>3. \A i \in 1..(Len(seq) - n) : i + n \in 1..Len(seq)
        BY <2>1
    <2>4. rest \in Seq(Cleaned)
        BY <2>1
    <2> QED BY <2>1, <2>2, <2>4
<1>4. T!Chunk = chunk
    BY <1>1, <1>2 DEF T!Chunk
<1> HIDE DEF n, chunk, rest
<1>5. /\ DOMAIN seq = 1..Len(seq) /\ DOMAIN chunk = 1..n /\ DOMAIN rest = 1..(Len(seq) - n)
      /\ n \in Nat /\ Len(seq) \in Nat
    BY <1>1, <1>2, <1>3
<1>6. ASSUME NEW i \in 1..n PROVE i \in 1..Len(seq)
    BY <1>1
<1>7. ASSUME NEW i \in 1..(Len(seq) - n) PROVE i + n \in 1..Len(seq)
    BY <1>1
<1>8. ASSUME NEW i \in 1..Len(seq) PROVE i \in 1..n \/ (i - n \in 1..(Len(seq) - n) /\ i = (i - n) + n)
    BY <1>1
<1>9. \A text : In(text, chunk) => In(text, seq)
    BY <1>2, <1>5, <1>6 DEF In
<1>10. \A text : In(text, rest) => In(text, seq)
    BY <1>3, <1>5, <1>7 DEF In
<1>11. ASSUME NEW text, In(text, seq) PROVE In(text, chunk) \/ In(text, rest)
    <2>1. PICK i \in 1..Len(seq) : seq[i] = text
        BY <1>5, <1>11 DEF In
    <2>2. CASE i \in 1..n
        BY <1>2, <1>5, <2>1, <2>2 DEF In
    <2>3. CASE i - n \in 1..(Len(seq) - n) /\ i = (i - n) + n
        BY <1>3, <1>5, <2>1, <2>3 DEF In
    <2> QED BY <1>8, <2>2, <2>3
<1>12. /\ Len(chunk) = n
       /\ SubSeq(running.rest, Len(chunk) + 1, Len(running.rest)) = rest
    BY <1>2 DEF rest
<1>13. Len(T!Chunk) \in Nat \ {0}
    BY <1>1, <1>4, <1>12
<1> QED BY <1>2, <1>3, <1>4, <1>9, <1>10, <1>11, <1>12, <1>13

\* The worker ends its job.
LEMMA CompleteKeeps ==
    ASSUME TranslationsType, running.id \in Jobs, NEW status \in Statuses, T!Complete(status),
           epoch' = epoch, queue' = queue,
           cache' \in [Cleaned -> SUBSET (Cleaned \cup {T!NoNeed})]
    PROVE  /\ TranslationsType' /\ HashesDiffer' /\ NothingForgotten'
           /\ job'[running.id].status = status
           /\ \A j \in Jobs : j # running.id => job'[j] = job[j]
<1>1. /\ job' = [job EXCEPT ![running.id] = [T!NoJob EXCEPT !.status = status]]
      /\ running' = T!NotRunning
    BY DEF T!Complete
<1>2. /\ job' \in [Jobs -> Request]
      /\ job'[running.id] = [T!NoJob EXCEPT !.status = status]
      /\ \A j \in Jobs : j # running.id => job'[j] = job[j]
    BY <1>1, NothingRuns DEF TranslationsType
<1>3. TranslationsType'
    BY <1>1, <1>2, NothingRuns DEF TranslationsType
<1>4. HashesDiffer' /\ NothingForgotten'
    BY <1>1, NothingRuns DEF HashesDiffer, NothingForgotten
<1> QED BY <1>2, <1>3, <1>4, NothingRuns

\* The chunks are cut from what is left, and every text of the job is seen to.
LEMMA AdvanceKeeps ==
    ASSUME TranslationsInv, running.pc = "chunks", NEW failed \in Nat, T!Advance(failed),
           \A text \in Cleaned : In(text, T!Chunk) => Done(text)' \/ failed > 0,
           \A text \in Cleaned : Done(text) => Done(text)',
           epoch' = epoch, queue' = queue, OwnCache',
           cache' \in [Cleaned -> SUBSET (Cleaned \cup {T!NoNeed})]
    PROVE  /\ TranslationsInv'
           /\ \A j \in Jobs : job[j].status = "running" /\ job'[j].status = "succeeded"
                 => \A text \in Cleaned : In(text, job[j].texts) => Done(text)'
<1> DEFINE rest == SubSeq(running.rest, Len(T!Chunk) + 1, Len(running.rest))
           id == running.id
<1>1. /\ TranslationsType /\ HashesDiffer /\ NothingForgotten
      /\ running.rest \in Seq(Cleaned) /\ running.rest # <<>> /\ id \in Jobs
      /\ running.failed \in Nat
    BY DEF TranslationsInv, TranslationsType, HashesDiffer, Worker
<1>2. /\ rest \in Seq(Cleaned)
      /\ \A text : In(text, rest) => In(text, running.rest)
      /\ \A text : In(text, running.rest) => In(text, T!Chunk) \/ In(text, rest)
    BY <1>1, ChunkFacts
<1> HIDE DEF rest
<1>3. ASSUME NEW text \in Cleaned, In(text, job[id].texts)
      PROVE  In(text, rest) \/ Done(text)' \/ running.failed + failed > 0
    <2>1. In(text, running.rest) \/ Done(text) \/ running.failed > 0
        BY <1>1, <1>3 DEF NothingForgotten
    <2>2. running.failed > 0 \/ failed > 0 => running.failed + failed > 0
        BY <1>1
    <2> QED BY <1>2, <2>1, <2>2
<1>4. CASE rest # <<>>
    <2>1. /\ running' = [running EXCEPT !.rest = rest, !.failed = @ + failed]
          /\ UNCHANGED job
        BY <1>4 DEF T!Advance, rest
    <2>2. TranslationsType'
        <3>1. running \in Worker /\ running.failed + failed \in Nat
            BY <1>1 DEF TranslationsType
        <3>2. running' = [id |-> running.id, pc |-> running.pc, rest |-> rest,
                          hash |-> running.hash, failed |-> running.failed + failed]
            BY <2>1, <3>1 DEF Worker
        <3>3. /\ running' \in Worker /\ running'.id = running.id /\ running'.pc = "chunks"
            BY <1>2, <3>1, <3>2 DEF Worker
        <3> QED BY <1>1, <2>1, <3>3 DEF TranslationsType
    <2>3. HashesDiffer'
        <3>1. \A i \in DOMAIN rest : rest[i] \in DOMAIN running.hash
            BY <1>1, <1>2 DEF HashesDiffer, In
        <3>2. running'.rest = rest /\ running'.hash = running.hash
            BY <1>1, <2>1 DEF TranslationsType, Worker
        <3> QED BY <1>1, <1>4, <3>1, <3>2 DEF HashesDiffer
    <2>4. NothingForgotten'
        <3>1. /\ running'.rest = rest /\ running'.failed = running.failed + failed
              /\ running'.id = id
            BY <1>1, <2>1 DEF TranslationsType, Worker
        <3> QED BY <1>3, <2>1, <3>1 DEF NothingForgotten
    <2> QED BY <2>1, <2>2, <2>3, <2>4 DEF TranslationsInv
<1>5. CASE rest = <<>>
    <2> DEFINE status == IF running.failed + failed > 0 THEN "failed" ELSE "succeeded"
    <2>1. T!Complete(status)
        BY <1>5 DEF T!Advance, rest
    <2>2. status \in Statuses
        BY DEF Statuses
    <2> HIDE DEF status
    <2>3. /\ TranslationsType' /\ HashesDiffer' /\ NothingForgotten'
          /\ job'[id].status = status
          /\ \A j \in Jobs : j # id => job'[j] = job[j]
        BY <1>1, <2>1, <2>2, CompleteKeeps
    <2>4. ASSUME NEW j \in Jobs, job[j].status = "running", job'[j].status = "succeeded"
          PROVE  \A text \in Cleaned : In(text, job[j].texts) => Done(text)'
        <3>1. j = id
            BY <2>3, <2>4
        <3>2. status = "succeeded"
            BY <2>3, <2>4, <3>1
        <3>3. ~(running.failed + failed > 0)
            BY <3>2 DEF status
        <3>4. \A text : ~In(text, rest)
            BY <1>5 DEF In
        <3> QED BY <1>3, <3>1, <3>3, <3>4
    <2> QED BY <2>3, <2>4 DEF TranslationsInv
<1> QED BY <1>4, <1>5

--------------------------------------------------------------------------------
Succeeds ==
    \A j \in Jobs : job[j].status = "running" /\ job'[j].status = "succeeded"
        => \A text \in Cleaned : In(text, job[j].texts) => Done(text)'

LEMMA SubmitKeeps == TranslationsInv /\ T!SubmitTranslationJob => TranslationsInv' /\ Succeeds
<1> SUFFICES ASSUME TranslationsInv, T!SubmitTranslationJob PROVE TranslationsInv' /\ Succeeds
    OBVIOUS
<1>1. TranslationsType /\ OwnCache /\ HashesDiffer /\ NothingForgotten
    BY DEF TranslationsInv
<1>2. PICK j \in Jobs, texts \in (SUBSET Cleaned) \ {{}}, force \in BOOLEAN,
           expected \in {T!NoEpoch, epoch} :
        /\ T!Free(j)
        /\ T!Accept(j, [T!NoJob EXCEPT !.texts = T!SetToSeq(texts), !.force = force,
                                       !.epoch = expected])
    BY Zenon DEF T!SubmitTranslationJob
<1>3. UNCHANGED <<epoch, cache, running, closing, failures, abnormal>>
    BY DEF T!SubmitTranslationJob
<1>4. T!SetToSeq(texts) \in Seq(Cleaned) /\ Distinct(T!SetToSeq(texts))
    BY SequenceOfSet
<1> DEFINE new == [[T!NoJob EXCEPT !.texts = T!SetToSeq(texts), !.force = force,
                                   !.epoch = expected] EXCEPT !.status = "pending"]
<1>5. job' = [job EXCEPT ![j] = new] /\ queue' = Append(queue, j)
    BY <1>2 DEF T!Accept
<1>6. new \in Request /\ new.status = "pending" /\ new.texts = T!SetToSeq(texts)
    <2>1. epoch \in Int /\ T!NoEpoch \in Int /\ "pending" \in Statuses
        BY <1>1 DEF TranslationsType, T!NoEpoch, Statuses
    <2> QED BY <1>4, <2>1, NothingRuns DEF Request
<1>7. new.status = "pending" /\ Distinct(new.texts)
    BY <1>4, <1>6
<1> HIDE DEF new
<1>8. TranslationsType'
    <2>1. /\ job' \in [Jobs -> Request]
          /\ \A k \in Jobs : Distinct(job'[k].texts)
        BY <1>1, <1>5, <1>6, <1>7 DEF TranslationsType
    <2> QED BY <1>1, <1>3, <1>5, <2>1 DEF TranslationsType
<1>9. OwnCache' /\ HashesDiffer'
    BY <1>1, <1>3 DEF OwnCache, HashesDiffer
<1>10. NothingForgotten'
    <2>1. running.pc = "chunks" => job'[running.id] = job[running.id]
        BY <1>1, <1>2, <1>5 DEF T!Free, TranslationsType
    <2> QED BY <1>1, <1>3, <2>1 DEF NothingForgotten, Done
<1>11. Succeeds
    BY <1>1, <1>5, <1>7 DEF Succeeds, TranslationsType
<1> QED BY <1>8, <1>9, <1>10, <1>11 DEF TranslationsInv

LEMMA TakeKeeps == TranslationsInv /\ T!Take => TranslationsInv' /\ Succeeds
<1> SUFFICES ASSUME TranslationsInv, T!Take PROVE TranslationsInv' /\ Succeeds
    OBVIOUS
<1>1. TranslationsType /\ OwnCache
    BY DEF TranslationsInv
<1>2. /\ Head(queue) \in Jobs /\ Tail(queue) \in Seq(Jobs)
    BY <1>1 DEF T!Take, TranslationsType
<1>3. /\ job' = [job EXCEPT ![Head(queue)].status = "running"]
      /\ queue' = Tail(queue) /\ epoch' = epoch /\ cache' = cache
      /\ running' = [id |-> Head(queue), pc |-> "check", rest |-> <<>>, hash |-> <<>>, failed |-> 0]
    BY DEF T!Take, T!NotRunning
<1>4. /\ running' \in Worker /\ running'.id \in Jobs /\ running'.pc = "check"
    BY <1>2, <1>3 DEF Hashes, Worker
<1>5. /\ job' \in [Jobs -> Request]
      /\ \A k \in Jobs : job'[k].texts = job[k].texts
      /\ \A k \in Jobs : job[k].status = "running" => job'[k].status = "running"
    <2>1. job \in [Jobs -> Request]
        BY <1>1 DEF TranslationsType
    <2>2. ASSUME NEW k \in Jobs
          PROVE  /\ job'[k] \in Request /\ job'[k].texts = job[k].texts
                 /\ job[k].status = "running" => job'[k].status = "running"
        <3>1. job'[k] \in {job[k], [job[k] EXCEPT !.status = "running"]}
            BY <1>2, <1>3, <2>1
        <3> QED BY <2>1, <3>1 DEF Request, Statuses
    <2>3. job' = [k \in Jobs |-> job'[k]]
        BY <1>3, <2>1
    <2> QED BY <2>2, <2>3
<1>6. TranslationsType'
    BY <1>1, <1>2, <1>3, <1>4, <1>5 DEF TranslationsType
<1>7. OwnCache' /\ HashesDiffer' /\ NothingForgotten'
    BY <1>1, <1>3, <1>4 DEF OwnCache, HashesDiffer, NothingForgotten
<1>8. Succeeds
    BY <1>5 DEF Succeeds
<1> QED BY <1>6, <1>7, <1>8 DEF TranslationsInv

LEMMA CheckEpochKeeps == TranslationsInv /\ T!CheckEpoch => TranslationsInv' /\ Succeeds
<1> SUFFICES ASSUME TranslationsInv, T!CheckEpoch PROVE TranslationsInv' /\ Succeeds
    OBVIOUS
<1>1. TranslationsType /\ OwnCache /\ running.id \in Jobs
    BY DEF TranslationsInv, TranslationsType, T!CheckEpoch
<1>2. UNCHANGED <<epoch, cache, queue>>
    BY DEF T!CheckEpoch
<1>3. CASE running' = [running EXCEPT !.pc = "context"] /\ UNCHANGED job
    <2>1. /\ running' \in Worker /\ running'.id = running.id /\ running'.pc = "context"
        BY <1>1, <1>3 DEF TranslationsType, Worker
    <2> QED BY <1>1, <1>2, <1>3, <2>1 DEF TranslationsInv, TranslationsType, OwnCache,
               HashesDiffer, NothingForgotten, Succeeds
<1>4. CASE T!Complete("failed")
    <2>1. "failed" \in Statuses /\ cache' \in [Cleaned -> SUBSET (Cleaned \cup {T!NoNeed})]
        BY <1>1, <1>2 DEF Statuses, TranslationsType
    <2>2. /\ TranslationsType' /\ HashesDiffer' /\ NothingForgotten'
          /\ job'[running.id].status = "failed"
          /\ \A j \in Jobs : j # running.id => job'[j] = job[j]
        BY <1>1, <1>2, <1>4, <2>1, CompleteKeeps
    <2>3. OwnCache' /\ Succeeds
        BY <1>1, <1>2, <2>2 DEF OwnCache, Succeeds
    <2> QED BY <2>2, <2>3 DEF TranslationsInv
<1> QED BY <1>3, <1>4 DEF T!CheckEpoch

LEMMA PrepareKeeps == TranslationsInv /\ T!Prepare => TranslationsInv' /\ Succeeds
<1> SUFFICES ASSUME TranslationsInv, T!Prepare PROVE TranslationsInv' /\ Succeeds
    OBVIOUS
<1> DEFINE id == running.id
           pending == T!Targets(job[id].texts, job[id].force)
<1>1. TranslationsType /\ OwnCache /\ id \in Jobs
    BY DEF TranslationsInv, TranslationsType, T!Prepare
<1>2. UNCHANGED <<epoch, cache, queue, abnormal>>
    BY DEF T!Prepare
<1>3. job[id].texts \in Seq(Cleaned) /\ job[id].force \in BOOLEAN /\ Distinct(job[id].texts)
    BY <1>1 DEF TranslationsType, Request
<1>4. /\ pending \in Seq(Cleaned) /\ Distinct(pending)
      /\ \A text : In(text, job[id].texts) => In(text, pending) \/ cache[text] # {}
    BY <1>1, <1>3, TargetsFacts
<1>5. CASE pending = <<>> /\ T!Complete("succeeded")
    <2>1. "succeeded" \in Statuses /\ cache' \in [Cleaned -> SUBSET (Cleaned \cup {T!NoNeed})]
        BY <1>1, <1>2 DEF Statuses, TranslationsType
    <2>2. /\ TranslationsType' /\ HashesDiffer' /\ NothingForgotten'
          /\ \A j \in Jobs : j # id => job'[j] = job[j]
        BY <1>1, <1>2, <1>5, <2>1, CompleteKeeps
    <2>3. OwnCache'
        BY <1>1, <1>2 DEF OwnCache
    <2>4. ASSUME NEW j \in Jobs, job[j].status = "running", job'[j].status = "succeeded"
          PROVE  \A text \in Cleaned : In(text, job[j].texts) => Done(text)'
        <3>1. j = id
            BY <2>2, <2>4
        <3>2. \A text : ~In(text, pending)
            <4> HIDE DEF pending
            <4> QED BY <1>5 DEF In
        <3> HIDE DEF pending
        <3> QED BY <1>2, <1>4, <3>1, <3>2 DEF Done
    <2> QED BY <2>2, <2>3, <2>4 DEF TranslationsInv, Succeeds
<1>6. ASSUME pending # <<>>, NEW hash \in [T!ToSet(pending) -> T!ShortHashes],
             T!AssignsShortHashes(hash, pending), UNCHANGED job,
             running' = [running EXCEPT !.pc = "chunks", !.rest = pending, !.hash = hash]
      PROVE  TranslationsInv' /\ Succeeds
    <2> HIDE DEF pending
    <2>1. /\ T!ToSet(pending) \in SUBSET Cleaned
          /\ \A i \in DOMAIN pending : pending[i] \in T!ToSet(pending)
        BY <1>4 DEF T!ToSet
    <2>2. hash \in Hashes
        BY <1>6, <2>1 DEF Hashes
    <2>3. /\ running'.rest = pending /\ running'.hash = hash /\ running'.id = id
          /\ running' \in Worker
        BY <1>1, <1>4, <1>6, <2>2 DEF TranslationsType, Worker
    <2>4. TranslationsType'
        BY <1>1, <1>2, <1>6, <2>3 DEF TranslationsType
    <2>5. \A s, t \in T!ToSet(pending) : hash[s] = hash[t] => s = t
        BY <1>4, <1>6, AssignedHashesDiffer
    <2>6. DOMAIN hash = T!ToSet(pending)
        BY <1>6
    <2>7. HashesDiffer'
        BY <1>6, <2>1, <2>3, <2>5, <2>6 DEF HashesDiffer
    <2>8. NothingForgotten'
        BY <1>2, <1>4, <1>6, <2>3 DEF NothingForgotten, Done
    <2>9. OwnCache' /\ Succeeds
        BY <1>1, <1>2, <1>6 DEF OwnCache, Succeeds
    <2> QED BY <2>4, <2>7, <2>8, <2>9 DEF TranslationsInv
<1>7. \/ pending = <<>> /\ T!Complete("succeeded")
      \/ /\ pending # <<>>
         /\ \E hash \in [T!ToSet(pending) -> T!ShortHashes] :
               /\ T!AssignsShortHashes(hash, pending)
               /\ running' = [running EXCEPT !.pc = "chunks", !.rest = pending, !.hash = hash]
         /\ UNCHANGED job
    BY DEF T!Prepare
<1> HIDE DEF pending
<1> QED BY <1>5, <1>6, <1>7

--------------------------------------------------------------------------------
\* What an answer for some texts leaves in the cache.
LEMMA StoreKeeps ==
    ASSUME TranslationsType, OwnCache, NEW items \in Seq(Cleaned),
           NEW answer \in [T!ToSet(items) -> Cleaned \cup {T!NoNeed, T!Abnormal, T!Omitted}],
           NEW part, \A text : In(text, part) => In(text, items),
           \A text \in T!ToSet(items) :
                answer[text] \in {text, T!NoNeed, T!Abnormal, T!Omitted},
           T!Store(part, answer)
    PROVE  /\ OwnCache' /\ cache' \in [Cleaned -> SUBSET (Cleaned \cup {T!NoNeed})]
           /\ \A text \in Cleaned : cache[text] # {} => cache'[text] # {}
           /\ \A text \in Cleaned :
                 In(text, part) /\ answer[text] \notin {T!Abnormal, T!Omitted}
                     => cache'[text] # {}
<1>1. \A text : text \in T!ToSet(part) <=> In(text, part)
    BY ToSetIn
<1>2. \A text : In(text, part) => text \in T!ToSet(items)
    BY ToSetIn
<1>3. cache' = [text \in Cleaned |->
                  IF text \in T!ToSet(part) /\ answer[text] \notin {T!Abnormal, T!Omitted}
                  THEN {answer[text]} ELSE cache[text]]
    BY DEF T!Store
<1>4. ASSUME NEW text \in Cleaned
      PROVE  /\ cache'[text] \subseteq {text, T!NoNeed}
             /\ cache[text] # {} => cache'[text] # {}
             /\ In(text, part) /\ answer[text] \notin {T!Abnormal, T!Omitted}
                    => cache'[text] # {}
    <2>1. CASE text \in T!ToSet(part) /\ answer[text] \notin {T!Abnormal, T!Omitted}
        <3>1. answer[text] \in {text, T!NoNeed}
            BY <1>1, <1>2, <2>1
        <3>2. cache'[text] = {answer[text]}
            BY <1>3, <2>1
        <3> QED BY <3>1, <3>2
    <2>2. CASE ~(text \in T!ToSet(part) /\ answer[text] \notin {T!Abnormal, T!Omitted})
        <3>1. cache'[text] = cache[text]
            BY <1>3, <2>2
        <3> QED BY <1>1, <2>2, <3>1 DEF OwnCache
    <2> QED BY <2>1, <2>2
<1>5. cache' \in [Cleaned -> SUBSET (Cleaned \cup {T!NoNeed})]
    <2>1. DOMAIN cache' = Cleaned /\ cache' = [text \in Cleaned |-> cache'[text]]
        BY <1>3
    <2>2. \A text \in Cleaned : cache'[text] \in SUBSET (Cleaned \cup {T!NoNeed})
        BY <1>4
    <2> QED BY <2>1, <2>2
<1> QED BY <1>4, <1>5 DEF OwnCache

\* The texts of a chunk that are sent.
LEMMA ChunkTargets ==
    ASSUME TranslationsInv, running.pc = "chunks"
    PROVE  LET items == T!Targets(T!Chunk, job[running.id].force) IN
           /\ items \in Seq(Cleaned)
           /\ \A text : In(text, items) => In(text, T!Chunk) /\ text \in DOMAIN running.hash
           /\ \A text : In(text, T!Chunk) => In(text, items) \/ cache[text] # {}
<1>1. /\ TranslationsType /\ HashesDiffer /\ running.rest \in Seq(Cleaned)
      /\ running.rest # <<>> /\ running.id \in Jobs /\ job[running.id].force \in BOOLEAN
    BY DEF TranslationsInv, TranslationsType, HashesDiffer, Request, Worker
<1>2. /\ T!Chunk \in Seq(Cleaned)
      /\ \A text : In(text, T!Chunk) => In(text, running.rest)
    BY <1>1, ChunkFacts
<1>3. \A text : In(text, running.rest) => text \in DOMAIN running.hash
    BY <1>1 DEF HashesDiffer, In
<1> QED BY <1>1, <1>2, <1>3, TargetsFacts

LEMMA TranslateKeeps == TranslationsInv /\ T!TranslateChunk => TranslationsInv' /\ Succeeds
<1> SUFFICES ASSUME TranslationsInv, T!TranslateChunk PROVE TranslationsInv' /\ Succeeds
    OBVIOUS
<1> DEFINE items == T!Targets(T!Chunk, job[running.id].force)
<1>1. TranslationsType /\ OwnCache /\ HashesDiffer /\ running.pc = "chunks"
    BY DEF TranslationsInv, T!TranslateChunk
<1>2. UNCHANGED <<epoch, queue>>
    BY DEF T!TranslateChunk
<1>3. /\ items \in Seq(Cleaned)
      /\ \A text : In(text, items) => In(text, T!Chunk) /\ text \in DOMAIN running.hash
      /\ \A text : In(text, T!Chunk) => In(text, items) \/ cache[text] # {}
    BY <1>1, ChunkTargets
<1>4. PICK answer \in T!Answers(items) :
        /\ T!Store(items, answer)
        /\ abnormal' = abnormal \cup {text \in T!ToSet(items) : answer[text] = T!Abnormal}
        /\ T!Advance(T!MissingFrom(items, answer))
    BY DEF T!TranslateChunk
<1> HIDE DEF items
<1>5. /\ answer \in [T!ToSet(items) ->
                       DOMAIN running.hash \cup {T!NoNeed, T!Abnormal, T!Omitted}]
      /\ \A text \in T!ToSet(items) :
            answer[text] \in Cleaned => running.hash[answer[text]] = running.hash[text]
    BY <1>4 DEF T!Answers
<1>6. /\ DOMAIN running.hash \subseteq Cleaned
      /\ \A s, t \in DOMAIN running.hash : running.hash[s] = running.hash[t] => s = t
    BY <1>1 DEF HashesDiffer
<1>7. ASSUME NEW text \in T!ToSet(items)
      PROVE  answer[text] \in {text, T!NoNeed, T!Abnormal, T!Omitted}
    <2>1. text \in DOMAIN running.hash
        BY <1>3, ToSetIn
    <2>2. CASE answer[text] \in DOMAIN running.hash
        BY <1>5, <1>6, <2>1, <2>2
    <2> QED BY <1>5, <2>2
<1>8. answer \in [T!ToSet(items) -> Cleaned \cup {T!NoNeed, T!Abnormal, T!Omitted}]
    BY <1>5, <1>6
<1>9. /\ OwnCache' /\ cache' \in [Cleaned -> SUBSET (Cleaned \cup {T!NoNeed})]
      /\ \A text \in Cleaned : cache[text] # {} => cache'[text] # {}
      /\ \A text \in Cleaned :
            In(text, items) /\ answer[text] \notin {T!Abnormal, T!Omitted} => cache'[text] # {}
    BY <1>1, <1>3, <1>4, <1>7, <1>8, StoreKeeps
<1> DEFINE omitted == {i \in DOMAIN items : answer[items[i]] = T!Omitted}
           missing == T!MissingFrom(items, answer)
<1>10. /\ missing \in Nat /\ (omitted # {} => missing > 0)
    <2>1. missing = Cardinality(omitted)
        BY TCardinality DEF T!MissingFrom
    <2>2. omitted \in SUBSET (1..Len(items)) /\ Len(items) \in Nat
        BY <1>3
    <2> HIDE DEF omitted, missing
    <2>3. IsFiniteSet(1..Len(items))
        BY <2>2, FS_Interval
    <2>4. IsFiniteSet(omitted)
        BY <2>2, <2>3, FS_Subset
    <2>5. Cardinality(omitted) \in Nat /\ (Cardinality(omitted) = 0 <=> omitted = {})
        BY <2>4, FS_CardinalityType, FS_EmptySet
    <2> QED BY <2>1, <2>5
<1>11. ASSUME NEW text \in Cleaned PROVE Done(text) => Done(text)'
    BY <1>4, <1>9 DEF Done
<1>12. ASSUME NEW text \in Cleaned, In(text, T!Chunk) PROVE Done(text)' \/ missing > 0
    <2>1. CASE cache[text] # {}
        BY <1>9, <2>1 DEF Done
    <2>2. CASE In(text, items)
        <3>1. text \in T!ToSet(items)
            BY <2>2, ToSetIn
        <3>2. CASE answer[text] = T!Abnormal
            BY <1>4, <3>1, <3>2 DEF Done
        <3>3. CASE answer[text] = T!Omitted
            <4>1. omitted # {}
                BY <2>2, <3>3 DEF In
            <4> QED BY <1>10, <4>1
        <3>4. CASE answer[text] \notin {T!Abnormal, T!Omitted}
            BY <1>9, <2>2, <3>4 DEF Done
        <3> QED BY <3>2, <3>3, <3>4
    <2> QED BY <1>3, <1>12, <2>1, <2>2
<1> HIDE DEF missing, omitted
<1>13. T!Advance(missing)
    BY <1>4 DEF missing
<1> QED BY <1>1, <1>2, <1>9, <1>10, <1>11, <1>12, <1>13, AdvanceKeeps DEF Succeeds

LEMMA ChunkFailsKeeps == TranslationsInv /\ T!ChunkFails => TranslationsInv' /\ Succeeds
<1> SUFFICES ASSUME TranslationsInv, T!ChunkFails PROVE TranslationsInv' /\ Succeeds
    OBVIOUS
<1> DEFINE items == T!Targets(T!Chunk, job[running.id].force)
           answer == [text \in T!ToSet(items) |-> text]
<1>1. TranslationsType /\ OwnCache /\ HashesDiffer /\ running.pc = "chunks"
    BY DEF TranslationsInv, T!ChunkFails
<1>2. UNCHANGED <<epoch, queue, abnormal>>
    BY DEF T!ChunkFails
<1>3. items \in Seq(Cleaned)
    BY <1>1, ChunkTargets
<1>4. PICK n \in 0..(Len(items) - 1) : T!Store(SubSeq(items, 1, n), answer)
    BY DEF T!ChunkFails
<1>5. T!Advance(Len(T!Chunk))
    BY DEF T!ChunkFails
<1> HIDE DEF items
<1>6. T!ToSet(items) \in SUBSET Cleaned
    BY <1>3 DEF T!ToSet
<1>7. answer \in [T!ToSet(items) -> Cleaned \cup {T!NoNeed, T!Abnormal, T!Omitted}]
    BY <1>6
<1>8. ASSUME NEW text, In(text, SubSeq(items, 1, n)) PROVE In(text, items)
    <2>1. \A i \in DOMAIN SubSeq(items, 1, n) :
            i \in DOMAIN items /\ SubSeq(items, 1, n)[i] = items[i]
        BY <1>3
    <2> QED BY <1>8, <2>1 DEF In
<1>9. /\ OwnCache' /\ cache' \in [Cleaned -> SUBSET (Cleaned \cup {T!NoNeed})]
      /\ \A text \in Cleaned : cache[text] # {} => cache'[text] # {}
    <2>1. \A text \in T!ToSet(items) :
            answer[text] \in {text, T!NoNeed, T!Abnormal, T!Omitted}
        OBVIOUS
    <2> HIDE DEF answer
    <2> QED BY <1>1, <1>3, <1>4, <1>7, <1>8, <2>1, StoreKeeps
<1>10. Len(T!Chunk) \in Nat /\ Len(T!Chunk) > 0
    <2>1. running.rest \in Seq(Cleaned) /\ running.rest # <<>>
        BY <1>1 DEF TranslationsType, HashesDiffer, Worker
    <2> QED BY <2>1, ChunkFacts
<1>11. \A text \in Cleaned : Done(text) => Done(text)'
    BY <1>2, <1>9 DEF Done
<1> QED BY <1>1, <1>2, <1>5, <1>9, <1>10, <1>11, AdvanceKeeps DEF Succeeds

LEMMA RestartKeeps == TranslationsInv /\ T!Restart => TranslationsInv' /\ Succeeds
<1> SUFFICES ASSUME TranslationsInv, T!Restart PROVE TranslationsInv' /\ Succeeds
    OBVIOUS
<1>1. /\ job' = [j \in Jobs |-> T!NoJob] /\ queue' = <<>> /\ running' = T!NotRunning
      /\ UNCHANGED <<epoch, cache>>
    BY DEF T!Restart
<1>2. TranslationsType'
    BY <1>1, NothingRuns DEF TranslationsInv, TranslationsType
<1>3. OwnCache' /\ HashesDiffer' /\ NothingForgotten' /\ Succeeds
    BY <1>1, NothingRuns DEF TranslationsInv, OwnCache, HashesDiffer, NothingForgotten, Succeeds
<1> QED BY <1>2, <1>3 DEF TranslationsInv

LEMMA TranslationsKeep == TranslationsInv /\ [T!Next]_(T!vars) => TranslationsInv' /\ Succeeds
<1> SUFFICES ASSUME TranslationsInv, [T!Next]_(T!vars) PROVE TranslationsInv' /\ Succeeds
    OBVIOUS
<1>1. CASE UNCHANGED <<cache, job, queue, running, abnormal>> /\ epoch' \in {epoch, epoch + 1}
    BY <1>1 DEF TranslationsInv, TranslationsType, OwnCache, HashesDiffer, NothingForgotten,
       Done, Succeeds
<1>2. T!SelectAccount \/ T!Shutdown \/ UNCHANGED T!vars
         => UNCHANGED <<cache, job, queue, running, abnormal>> /\ epoch' \in {epoch, epoch + 1}
    BY DEF T!SelectAccount, T!Shutdown, T!vars
<1> QED BY <1>1, <1>2, SubmitKeeps, TakeKeeps, CheckEpochKeeps, PrepareKeeps, TranslateKeeps,
           ChunkFailsKeeps, RestartKeeps DEF T!Next

\* A text is cached with its own translation or as needing none, whatever short hashes
\* collide (translation.py:36-43).
THEOREM CacheIsOwn == T!Spec => []OwnTranslation
<1>1. TranslationsInv => OwnTranslation
    BY DEF TranslationsInv, OwnCache, OwnTranslation, T!OwnTranslation
<1>2. T!Init => TranslationsInv
    BY TranslationsBegin
<1>3. TranslationsInv /\ [T!Next]_(T!vars) => TranslationsInv'
    BY TranslationsKeep
<1> QED BY <1>1, <1>2, <1>3, PTL DEF T!Spec

\* A job that reports success leaves no text without a translation but those that the
\* agent called abnormal (translation_jobs.py:66).
THEOREM SuccessesAreComplete == T!Spec => SuccessIsComplete
<1> DEFINE Complete ==
        \A j \in Jobs : job[j].status = "running" /\ job'[j].status = "succeeded"
            => \A text \in T!ToSet(job[j].texts) : cache'[text] # T!Nothing \/ text \in abnormal'
<1>1. TranslationsInv /\ [T!Next]_(T!vars) => Complete
    <2> SUFFICES ASSUME TranslationsInv, [T!Next]_(T!vars) PROVE Complete
        OBVIOUS
    <2>1. Succeeds
        BY TranslationsKeep
    <2>2. \A j \in Jobs : T!ToSet(job[j].texts) \in SUBSET Cleaned
        BY DEF TranslationsInv, TranslationsType, Request, T!ToSet
    <2> QED BY <2>1, <2>2, ToSetIn DEF Succeeds, Done, T!Nothing
<1>2. T!Init => TranslationsInv
    BY TranslationsBegin
<1>3. TranslationsInv /\ [T!Next]_(T!vars) => TranslationsInv'
    BY TranslationsKeep
<1> QED BY <1>1, <1>2, <1>3, PTL DEF T!Spec, SuccessIsComplete, T!SuccessIsComplete

--------------------------------------------------------------------------------
(* Experiments *)

Modes == {"buyer", "agent"}

Message == [role : {"user", "assistant"}, step : Int]

Rows == [state : {"unused", "attached", "deleted"}, turns : Seq(Message)]

Record == [done : SUBSET Variants, before : [Variants -> Int]]

Document == [exists : BOOLEAN, owner : Accounts \cup {E!NoOwner}, steps : Seq(Modes), edits : Int,
             runs : [E!Steps -> Record]]

Progress == {"absent", "queued", "running", "completed", "failed", "cancelled"}

Places == {"idle", "ready", "turn", "written"}

RunRecord == [status : Progress \cup {"unused", "forgotten"}, step : Nat,
              owner : Accounts \cup {E!NoOwner}, cancelled : BOOLEAN, loaded : BOOLEAN,
              copy : Document, variants : [Variants -> Progress], at : [Variants -> Places],
              turns : [Variants -> Seq(Message)]]

\* The copies that requests and runs have read or written.
RequestOK ==
    /\ request.op \in {"none", "append", "edit", "add", "run"}
    /\ request.op # "none" => request.copy \in Document /\ request.copy.exists /\ doc.exists
    /\ request.op = "append" => request.mode \in Modes
    /\ request.op = "run" => request.step \in E!Steps

ExperimentsType ==
    /\ account \in Accounts
    /\ doc \in Document
    /\ hist \in [Variants -> Rows]
    /\ run \in [Runs -> RunRecord]
    /\ RequestOK
    /\ \A v \in Variants : hist[v].state = "attached" => doc.exists
    /\ \A v \in Variants : hist[v].state # "attached" => hist[v].turns = <<>>
    /\ \A r \in Runs : E!Active(r) => run[r].step \in E!Steps
    /\ given \in [Variants -> Nat]

Undisturbed == Variants \ (disturbed \cup outrun)

Known(d, s, v) == d.runs[s].before[v] # E!Unknown

\* A checkpoint is one of a step that the document has and of a variant that was created.
Checkpoints(d, rows) ==
    \A s \in E!Steps, v \in Variants : Known(d, s, v) =>
        s < Len(d.steps) /\ d.runs[s].before[v] >= -1 /\ rows[v].state # "unused"

\* What a copy knows of some variants is what the document says.
Agrees(copy, d, vs) ==
    d.exists => \A s \in E!Steps, v \in vs : Known(copy, s, v) =>
        /\ copy.runs[s].before[v] = d.runs[s].before[v]
        /\ s < Len(d.steps) /\ copy.steps[s + 1] = d.steps[s + 1]

CopyOK(copy, d, rows, vs) == Checkpoints(copy, rows) /\ Agrees(copy, d, vs)

CopiesOK ==
    /\ Checkpoints(doc, hist)
    /\ request.op # "none" => CopyOK(request.copy, doc, hist, Undisturbed)
    /\ \A r \in Runs : CopyOK(run[r].copy, doc, hist, Undisturbed)

Before(x, v) == x.copy.runs[x.step].before[v]

Mode(x) == x.copy.steps[x.step + 1]

\* A run that works on a variant has a copy of its own, whose checkpoint before its own
\* step is the document's.
Works(x, v, d, rows, vs) ==
    x.at[v] # "idle" =>
        /\ x.status = "running" /\ x.loaded /\ rows[v].state # "unused"
        /\ x.step < Len(x.copy.steps) /\ x.copy.exists
        /\ d.exists /\ v \in vs => Before(x, v) = d.runs[x.step].before[v]
        /\ x.at[v] = "written" => x.turns[v] # <<>>

WorksOK == \A r \in Runs, v \in Variants : Works(run[r], v, doc, hist, Undisturbed)

Busy(x, v) == x.at[v] \in {"turn", "written"}

Alone == \A q, r \in Runs, v \in Undisturbed : q # r => ~(Busy(run[q], v) /\ Busy(run[r], v))

OneRun == \A q, r \in Runs : q # r /\ E!Active(q) /\ E!Active(r) => run[q].step # run[r].step

\* What is left of the turns from which a step is run (again).
Kept(turns, before) ==
    IF before # E!Unknown /\ before <= Len(turns) THEN E!Cut(turns, before) ELSE turns

Asking(turns, before, s, mode) ==
    IF mode = "buyer" THEN Append(Kept(turns, before), E!User(s)) ELSE Kept(turns, before)

RecordedBefore(x, v) ==
    IF Before(x, v) # E!Unknown THEN Before(x, v) ELSE Len(x.turns[v]) - 2

\* Every turn of the buyer for a step, after the first g turns, comes after its checkpoint.
After(turns, s, before, g) ==
    \A i \in DOMAIN turns : i > g /\ turns[i] = E!User(s) => before >= 0 /\ i > before

AtMostOnce(turns, s, g) ==
    \A i, j \in DOMAIN turns :
        i > g /\ j > g /\ turns[i] = E!User(s) /\ turns[j] = E!User(s) => i = j

Never(turns, s, g) == \A i \in DOMAIN turns : i > g => turns[i] # E!User(s)

Turns(x, v, row, g) ==
    row.state = "attached" =>
        /\ x.at[v] = "turn" =>
            /\ Before(x, v) <= Len(row.turns)
            /\ x.turns[v] = Asking(row.turns, Before(x, v), x.step, Mode(x))
        /\ x.at[v] = "written" =>
            /\ x.turns[v] = row.turns
            /\ After(row.turns, x.step, RecordedBefore(x, v), g)
            /\ RecordedBefore(x, v) = -1 => Mode(x) = "agent"

TurnsOK == \A r \in Runs, v \in Undisturbed : Turns(run[r], v, hist[v], given[v])

\* The steps whose turns are in a transcript and will be recorded.
Writing(v) == {run[r].step : r \in {q \in Runs : run[q].at[v] = "written"}}

Transcript(row, v, d, writing, g) ==
    row.state = "attached" => \A s \in E!Steps :
        /\ AtMostOnce(row.turns, s, g)
        /\ ~Known(d, s, v) => Never(row.turns, s, g) \/ s \in writing
        /\ Known(d, s, v) =>
            /\ After(row.turns, s, d.runs[s].before[v], g)
            /\ d.runs[s].before[v] = -1 => d.steps[s + 1] = "agent"

TranscriptsOK == \A v \in Undisturbed : Transcript(hist[v], v, doc, Writing(v), given[v])

ExperimentsInv ==
    ExperimentsType /\ CopiesOK /\ WorksOK /\ OneRun /\ Alone /\ TurnsOK /\ TranscriptsOK

--------------------------------------------------------------------------------
LEMMA Numbers == E!Unknown = -2 /\ E!Steps \in SUBSET Nat /\ E!Unknown \notin E!Steps
BY WorkbenchAssumption DEF E!Unknown, E!Steps

LEMMA Messages ==
    ASSUME NEW s \in Int, NEW t \in Int
    PROVE  /\ E!User(s) \in Message /\ E!Assistant(s) \in Message
           /\ E!Assistant(s) # E!User(t) /\ (E!User(s) = E!User(t) => s = t)
BY DEF E!User, E!Assistant, Message

LEMMA NewDocument ==
    /\ E!NoDocument \in Document /\ ~E!NoDocument.exists
    /\ \A s \in E!Steps, v \in Variants : ~Known(E!NoDocument, s, v)
<1>1. E!NoRecord \in Record /\ \A v \in Variants : E!NoRecord.before[v] = E!Unknown
    BY Numbers DEF E!NoRecord, Record
<1>2. <<>> \in Seq(Modes)
    OBVIOUS
<1>3. [s \in E!Steps |-> E!NoRecord] \in [E!Steps -> Record]
    BY <1>1
<1>4. E!NoDocument \in Document /\ ~E!NoDocument.exists
    BY <1>2, <1>3 DEF E!NoDocument, Document
<1>5. E!NoDocument.runs = [s \in E!Steps |-> E!NoRecord]
    BY DEF E!NoDocument
<1> QED BY <1>1, <1>4, <1>5 DEF Known

LEMMA NewRun ==
    /\ E!NoRun \in RunRecord /\ E!NoRun.status = "unused" /\ E!NoRun.copy = E!NoDocument
    /\ ~E!NoRun.loaded /\ \A v \in Variants : E!NoRun.at[v] = "idle"
<1>1. E!NoRun.variants = [v \in Variants |-> "absent"]
    BY DEF E!NoRun
<1>2. E!NoRun.at = [v \in Variants |-> "idle"]
    BY DEF E!NoRun
<1>3. E!NoRun.copy = E!NoDocument /\ E!NoRun.status = "unused" /\ ~E!NoRun.loaded
    BY DEF E!NoRun
<1>4. /\ [v \in Variants |-> "absent"] \in [Variants -> Progress]
      /\ [v \in Variants |-> "idle"] \in [Variants -> Places]
      /\ [v \in Variants |-> <<>>] \in [Variants -> Seq(Message)]
    BY DEF Progress, Places
<1>5. E!NoRun \in RunRecord
    BY <1>4, NewDocument DEF E!NoRun, RunRecord
<1> QED BY <1>2, <1>3, <1>5

LEMMA NewCopy ==
    ASSUME NEW d, NEW rows, NEW vs \in SUBSET Variants
    PROVE  CopyOK(E!NoDocument, d, rows, vs)
BY NewDocument DEF CopyOK, Checkpoints, Agrees

\* A variant that is not disturbed by now was not before.
LEMMA FewerUndisturbed ==
    ASSUME disturbed \subseteq disturbed', outrun \subseteq outrun'
    PROVE  Undisturbed' \in SUBSET Undisturbed /\ Undisturbed \in SUBSET Variants
BY DEF Undisturbed

LEMMA ExperimentsBegin == E!Init => ExperimentsInv
<1> SUFFICES ASSUME E!Init PROVE ExperimentsInv
    OBVIOUS
<1>1. account \in Accounts
    BY WorkbenchAssumption DEF E!Init
<1>2. /\ run = [r \in Runs |-> E!NoRun] /\ request = E!NoRequest
    BY DEF E!Init
<1>3. E!NoRow \in Rows /\ E!NoRow.state = "unused" /\ E!NoRow.turns = <<>>
    BY DEF E!NoRow, Rows
<1>4. E!NewVariant(<<>>) \in Rows /\ E!NewVariant(<<>>).turns = <<>>
    BY DEF E!NewVariant, Rows
<1>5. /\ hist \in [Variants -> Rows] /\ \A v \in Variants : hist[v].turns = <<>>
      /\ \A v \in Variants : hist[v].state = "attached" => doc.exists
      /\ doc \in {E!NoDocument, [E!NoDocument EXCEPT !.exists = TRUE]}
    <2>1. CASE doc = E!NoDocument /\ hist = [v \in Variants |-> E!NoRow]
        BY <1>3, <2>1
    <2>2. ASSUME NEW v \in Variants, doc = [E!NoDocument EXCEPT !.exists = TRUE],
                 hist = [w \in Variants |-> IF w = v THEN E!NewVariant(<<>>) ELSE E!NoRow]
          PROVE  /\ hist \in [Variants -> Rows] /\ \A w \in Variants : hist[w].turns = <<>>
                 /\ doc.exists
        <3>1. hist \in [Variants -> Rows] /\ \A w \in Variants : hist[w].turns = <<>>
            BY <1>3, <1>4, <2>2
        <3>2. doc.exists
            BY <2>2, NewDocument DEF Document
        <3> QED BY <3>1, <3>2
    <2> QED BY <2>1, <2>2 DEF E!Init
<1>6. doc \in Document /\ doc.runs = E!NoDocument.runs
    BY <1>5, NewDocument DEF Document
<1>7. ExperimentsType
    <2>1. given \in [Variants -> Nat]
        BY DEF E!Init
    <2> QED BY <1>1, <1>2, <1>5, <1>6, <2>1, NewRun
            DEF ExperimentsType, RequestOK, E!NoRequest, E!Active
<1>8. \A s \in E!Steps, v \in Variants : ~Known(doc, s, v)
    BY <1>6, NewDocument DEF Known
<1>9. Undisturbed \in SUBSET Variants
    BY DEF Undisturbed
<1>10. CopiesOK
    BY <1>2, <1>8, <1>9, NewRun, NewCopy DEF CopiesOK, E!NoRequest, Checkpoints
<1>11. WorksOK /\ OneRun /\ Alone /\ TurnsOK
    <2>1. \A r \in Runs : run[r].status = "unused" /\ \A v \in Variants : run[r].at[v] = "idle"
        BY <1>2, NewRun
    <2> QED BY <1>9, <2>1 DEF WorksOK, Works, Alone, OneRun, E!Active, Busy, TurnsOK, Turns
<1>12. TranscriptsOK
    BY <1>5, <1>8, <1>9 DEF TranscriptsOK, Transcript, AtMostOnce, Never
<1> QED BY <1>7, <1>10, <1>11, <1>12 DEF ExperimentsInv

--------------------------------------------------------------------------------
\* What the invariant sees of a run at work on a variant is the same.
Unmoved(x, y, v) ==
    /\ y.status = x.status /\ y.step = x.step /\ y.loaded = x.loaded /\ y.copy = x.copy
    /\ y.at[v] = x.at[v] /\ y.turns[v] = x.turns[v]

LEMMA UnmovedWorks ==
    ASSUME NEW x, NEW y, NEW v, Unmoved(x, y, v), NEW d, NEW rows, NEW vs, NEW fewer \in SUBSET vs
    PROVE  /\ Works(x, v, d, rows, vs) => Works(y, v, d, rows, fewer)
           /\ \A row, g : Turns(x, v, row, g) => Turns(y, v, row, g)
           /\ Busy(y, v) <=> Busy(x, v)
BY DEF Unmoved, Works, Turns, Before, Mode, RecordedBefore, Busy

LEMMA CopyOfFewer ==
    ASSUME NEW copy, NEW d, NEW rows, NEW vs \in SUBSET Variants, NEW fewer \in SUBSET vs
    PROVE  /\ CopyOK(copy, d, rows, vs) => CopyOK(copy, d, rows, fewer)
           /\ Checkpoints(d, rows) => CopyOK(d, d, rows, fewer)
BY DEF CopyOK, Checkpoints, Agrees

\* A step that leaves document and transcripts alone, and what the runs do with them.
LEMMA Steady ==
    ASSUME ExperimentsInv, ExperimentsType', OneRun', doc' = doc, hist' = hist,
           disturbed \subseteq disturbed', outrun \subseteq outrun', given' = given,
           \/ request' = request \/ request'.op = "none" \/ request'.copy = doc,
           \A r \in Runs : run'[r].copy \in {run[r].copy, E!NoDocument, doc},
           \A r \in Runs, v \in Variants :
              \/ run'[r].at[v] = "idle"
              \/ run'[r].at[v] = "ready" /\ Works(run'[r], v, doc, hist, Undisturbed')
              \/ Unmoved(run[r], run'[r], v),
           \A r \in Runs, v \in Undisturbed' :
              run[r].at[v] = "written" => Unmoved(run[r], run'[r], v)
    PROVE  ExperimentsInv'
<1>1. Undisturbed' \in SUBSET Undisturbed /\ Undisturbed \in SUBSET Variants
    BY FewerUndisturbed
<1>2. CopiesOK'
    <2>1. Checkpoints(doc, hist)
        BY DEF ExperimentsInv, CopiesOK
    <2>2. request.op # "none" => CopyOK(request.copy, doc, hist, Undisturbed)
        BY DEF ExperimentsInv, CopiesOK
    <2>3. request'.op # "none" => CopyOK(request'.copy, doc, hist, Undisturbed')
        BY <1>1, <2>1, <2>2, CopyOfFewer
    <2>4. ASSUME NEW r \in Runs PROVE CopyOK(run'[r].copy, doc, hist, Undisturbed')
        <3>1. CopyOK(run[r].copy, doc, hist, Undisturbed)
            BY DEF ExperimentsInv, CopiesOK
        <3>2. Undisturbed' \in SUBSET Variants
            BY <1>1
        <3> QED BY <1>1, <2>1, <3>1, <3>2, CopyOfFewer, NewCopy
    <2> QED BY <2>1, <2>3, <2>4 DEF CopiesOK
<1>3. WorksOK'
    <2> SUFFICES ASSUME NEW r \in Runs, NEW v \in Variants
                 PROVE  Works(run'[r], v, doc, hist, Undisturbed')
        BY DEF WorksOK
    <2>1. Works(run[r], v, doc, hist, Undisturbed)
        BY DEF ExperimentsInv, WorksOK
    <2>2. CASE run'[r].at[v] = "idle"
        BY <2>2 DEF Works
    <2> QED BY <1>1, <2>1, <2>2, UnmovedWorks
<1>4. Alone'
    <2>1. ASSUME NEW r \in Runs, NEW v \in Variants, Busy(run'[r], v) PROVE Busy(run[r], v)
        <3>1. Unmoved(run[r], run'[r], v)
            BY <2>1 DEF Busy
        <3> QED BY <2>1, <3>1 DEF Unmoved, Busy
    <2> QED BY <1>1, <2>1 DEF ExperimentsInv, Alone
<1>5. TurnsOK'
    <2> SUFFICES ASSUME NEW r \in Runs, NEW v \in Undisturbed'
                 PROVE  Turns(run'[r], v, hist[v], given[v])
        BY DEF TurnsOK
    <2>1. v \in Variants /\ Turns(run[r], v, hist[v], given[v])
        BY <1>1 DEF ExperimentsInv, TurnsOK
    <2>2. CASE run'[r].at[v] \in {"idle", "ready"}
        BY <2>2 DEF Turns
    <2> QED BY <2>1, <2>2, UnmovedWorks
<1>6. TranscriptsOK'
    <2> SUFFICES ASSUME NEW v \in Undisturbed'
                 PROVE  Transcript(hist[v], v, doc, Writing(v)', given[v])
        BY DEF TranscriptsOK
    <2>1. Transcript(hist[v], v, doc, Writing(v), given[v])
        BY <1>1 DEF ExperimentsInv, TranscriptsOK
    <2>2. Writing(v) \subseteq Writing(v)'
        BY DEF Writing, Unmoved
    <2> QED BY <2>1, <2>2 DEF Transcript
<1> QED BY <1>2, <1>3, <1>4, <1>5, <1>6 DEF ExperimentsInv

\* The same, if the runs are not touched.
LEMMA SteadyRuns ==
    ASSUME ExperimentsInv, doc' = doc, hist' = hist, run' = run, account' \in Accounts,
           disturbed \subseteq disturbed', outrun \subseteq outrun', given' = given, RequestOK',
           \/ request' = request \/ request'.op = "none" \/ request'.copy = doc
    PROVE  ExperimentsInv'
<1>1. ExperimentsType' /\ OneRun'
    BY DEF ExperimentsInv, ExperimentsType, OneRun, E!Active
<1>2. \A r \in Runs, v \in Variants : Unmoved(run[r], run'[r], v)
    BY DEF Unmoved
<1>3. Undisturbed' \subseteq Variants
    BY DEF Undisturbed
<1> QED BY <1>1, <1>2, <1>3, Steady

LEMMA BeginKeeps ==
    ASSUME ExperimentsInv, E!BeginAppend \/ E!BeginEdit \/ E!BeginAdd \/ E!BeginRun
    PROVE  ExperimentsInv'
<1>1. ExperimentsType /\ doc \in Document /\ account \in Accounts
    BY DEF ExperimentsInv, ExperimentsType
<1> DEFINE Begins == /\ UNCHANGED <<account, doc, hist, run, disturbed, outrun, given>>
                     /\ request'.copy = doc /\ doc.exists
<1>2. CASE E!BeginAppend
    <2>1. PICK m \in Modes :
            E!Begin([op |-> "append", mode |-> m, copy |-> E!NoDocument])
        BY <1>2 DEF E!BeginAppend, Modes
    <2>2. Begins /\ request'.op = "append" /\ request'.mode = m
        BY <2>1 DEF E!Begin
    <2> QED BY <1>1, <2>2, SteadyRuns DEF RequestOK
<1>3. CASE E!BeginEdit
    <2>1. Begins /\ request'.op = "edit"
        BY <1>3 DEF E!BeginEdit, E!Begin
    <2> QED BY <1>1, <2>1, SteadyRuns DEF RequestOK
<1>4. CASE E!BeginAdd
    <2>1. Begins /\ request'.op = "add"
        BY <1>4 DEF E!BeginAdd, E!Begin
    <2> QED BY <1>1, <2>1, SteadyRuns DEF RequestOK
<1>5. CASE E!BeginRun
    <2>1. PICK s \in E!Steps, f \in BOOLEAN :
            E!Begin([op |-> "run", step |-> s, force |-> f, copy |-> E!NoDocument])
        BY <1>5 DEF E!BeginRun
    <2>2. Begins /\ request'.op = "run" /\ request'.step = s
        BY <2>1 DEF E!Begin
    <2> QED BY <1>1, <2>2, SteadyRuns DEF RequestOK
<1> QED BY <1>2, <1>3, <1>4, <1>5

\* A run that is replaced by one that is not at work.
LEMMA RunReplaced ==
    ASSUME ExperimentsInv, NEW r \in Runs, NEW x \in RunRecord, run' = [run EXCEPT ![r] = x],
           x.copy = E!NoDocument, \A v \in Variants : x.at[v] = "idle",
           \A v \in Variants : run[r].at[v] # "written",
           x.status = "running" => x.step \in E!Steps /\ ~E!Conflict(x.step),
           UNCHANGED <<account, doc, hist, disturbed, outrun, given>>,
           request' = request \/ request' = E!NoRequest
    PROVE  ExperimentsInv'
<1>1. ExperimentsType /\ run \in [Runs -> RunRecord] /\ OneRun
    BY DEF ExperimentsInv, ExperimentsType
<1>2. /\ run' \in [Runs -> RunRecord] /\ run'[r] = x
      /\ \A q \in Runs : q # r => run'[q] = run[q]
    BY <1>1
<1>3. ExperimentsType'
    BY <1>1, <1>2 DEF ExperimentsType, RequestOK, E!NoRequest, E!Active
<1>4. OneRun'
    <2> SUFFICES ASSUME NEW q \in Runs, NEW p \in Runs, q # p, run'[q].status = "running",
                        run'[p].status = "running"
                 PROVE  run'[q].step # run'[p].step
        BY DEF OneRun, E!Active
    <2>1. ASSUME NEW o \in Runs, o # r, run'[o].status = "running", x.status = "running"
          PROVE  run'[o].step # x.step
        BY <1>2, <2>1 DEF E!Conflict, E!Active
    <2> QED BY <1>1, <1>2, <2>1 DEF OneRun, E!Active
<1>5. \A q \in Runs, v \in Variants : q # r => Unmoved(run[q], run'[q], v)
    BY <1>2 DEF Unmoved
<1>6. \A q \in Runs : run'[q].copy \in {run[q].copy, E!NoDocument, doc}
    BY <1>2
<1>7. \A q \in Runs, v \in Variants :
        \/ run'[q].at[v] = "idle" \/ Unmoved(run[q], run'[q], v)
    BY <1>2, <1>5
<1>8. Undisturbed' \subseteq Variants
    BY DEF Undisturbed
<1>9. \A q \in Runs, v \in Undisturbed' : run[q].at[v] = "written" => Unmoved(run[q], run'[q], v)
    BY <1>5, <1>8
<1> QED BY <1>3, <1>4, <1>6, <1>7, <1>9, Steady DEF E!NoRequest

LEMMA StartRunKeeps == ExperimentsInv /\ E!StartRun => ExperimentsInv'
<1> SUFFICES ASSUME ExperimentsInv, E!StartRun PROVE ExperimentsInv'
    OBVIOUS
<1> DEFINE pending == E!GuardStepRun(request.copy, request.step, E!Attached, request.force)
           queued == [v \in Variants |-> IF v \in pending THEN "queued" ELSE "absent"]
           x == [E!NoRun EXCEPT !.status = "running", !.step = request.step, !.owner = account,
                                !.variants = queued]
<1>1. ExperimentsType /\ RequestOK /\ account \in Accounts /\ request.step \in E!Steps
    BY DEF ExperimentsInv, ExperimentsType, RequestOK, E!StartRun
<1>2. /\ request' = E!NoRequest /\ UNCHANGED <<account, doc, hist, disturbed, outrun, given>>
      /\ \/ UNCHANGED run
         \/ /\ ~E!Conflict(request.step)
            /\ \E r \in Runs : run[r].status = "unused" /\ run' = [run EXCEPT ![r] = x]
    BY Zenon DEF E!StartRun
<1>3. CASE UNCHANGED run
    <2>1. RequestOK' /\ request'.op = "none"
        BY <1>2 DEF RequestOK, E!NoRequest
    <2> QED BY <1>1, <1>2, <1>3, <2>1, SteadyRuns
<1>4. ASSUME ~E!Conflict(request.step), NEW r \in Runs, run[r].status = "unused",
             run' = [run EXCEPT ![r] = x]
      PROVE  ExperimentsInv'
    <2>1. queued \in [Variants -> Progress]
        BY DEF Progress
    <2>2. x \in RunRecord /\ x.copy = E!NoDocument /\ x.step = request.step /\ x.at = E!NoRun.at
        <3> HIDE DEF queued
        <3>1. "running" \in Progress /\ request.step \in Nat
            BY <1>1, Numbers DEF Progress
        <3> QED BY <1>1, <2>1, <3>1, NewRun DEF RunRecord
    <2>3. \A v \in Variants : run[r].at[v] = "idle"
        BY <1>4 DEF ExperimentsInv, WorksOK, Works
    <2> HIDE DEF x
    <2>4. /\ \A v \in Variants : x.at[v] = "idle"
          /\ x.step \in E!Steps /\ ~E!Conflict(x.step)
        BY <1>1, <1>4, <2>2, NewRun
    <2>5. \A v \in Variants : run[r].at[v] # "written"
        BY <2>3
    <2>6. run' = [run EXCEPT ![r] = x]
        BY <1>4
    <2> QED BY <1>2, <2>2, <2>4, <2>5, <2>6, RunReplaced
<1> QED BY <1>2, <1>3, <1>4

LEMMA GetRunKeeps == ASSUME ExperimentsInv, NEW r \in Runs, E!GetRun(r) PROVE ExperimentsInv'
<1> DEFINE x == [E!NoRun EXCEPT !.status = "forgotten"]
<1>1. x \in RunRecord /\ x.copy = E!NoDocument /\ x.status = "forgotten" /\ x.at = E!NoRun.at
    BY NewRun DEF RunRecord
<1>2. \A v \in Variants : run[r].at[v] = "idle"
    BY DEF E!GetRun, E!Active, ExperimentsInv, WorksOK, Works
<1>3. /\ run' = [run EXCEPT ![r] = x]
      /\ UNCHANGED <<account, doc, hist, request, disturbed, outrun, given>>
    BY DEF E!GetRun
<1> HIDE DEF x
<1> QED BY <1>1, <1>2, <1>3, NewRun, RunReplaced

LEMMA FinishKeeps == ASSUME ExperimentsInv, NEW r \in Runs, E!Finish(r) PROVE ExperimentsInv'
<1>1. PICK status \in {"cancelled", "failed", "completed"} :
        run' = [run EXCEPT ![r] = [E!NoRun EXCEPT !.status = status, !.owner = run[r].owner]]
    BY DEF E!Finish, E!Outcome
<1> DEFINE x == [E!NoRun EXCEPT !.status = status, !.owner = run[r].owner]
<1>2. run[r] \in RunRecord
    BY DEF ExperimentsInv, ExperimentsType
<1>3. x \in RunRecord /\ x.copy = E!NoDocument /\ x.status = status /\ x.at = E!NoRun.at
    BY <1>2, NewRun DEF RunRecord, Progress
<1>4. \A v \in Variants : run[r].at[v] # "written"
    BY DEF E!Finish
<1>5. UNCHANGED <<account, doc, hist, request, disturbed, outrun, given>>
    BY DEF E!Finish
<1> HIDE DEF x
<1>6. run' = [run EXCEPT ![r] = x] /\ x.status # "running"
    BY <1>1, <1>3 DEF x
<1> QED BY <1>3, <1>4, <1>5, <1>6, NewRun, RunReplaced

LEMMA CancelRunKeeps ==
    ASSUME ExperimentsInv, NEW r \in Runs, E!CancelRun(r) PROVE ExperimentsInv'
<1>1. ExperimentsType /\ run \in [Runs -> RunRecord] /\ OneRun
    BY DEF ExperimentsInv, ExperimentsType
<1>2. /\ run' = [run EXCEPT ![r].cancelled = TRUE]
      /\ UNCHANGED <<account, doc, hist, request, disturbed, outrun, given>>
    BY DEF E!CancelRun
<1>3. ASSUME NEW q \in Runs
      PROVE  /\ run'[q] \in RunRecord /\ run'[q].status = run[q].status
             /\ run'[q].step = run[q].step /\ run'[q].copy = run[q].copy
             /\ \A v \in Variants : Unmoved(run[q], run'[q], v)
    <2>1. run'[q] \in {run[q], [run[q] EXCEPT !.cancelled = TRUE]}
        BY <1>1, <1>2
    <2>2. run[q] \in RunRecord
        BY <1>1
    <2> QED BY <2>1, <2>2 DEF RunRecord, Unmoved
<1>4. run' \in [Runs -> RunRecord]
    <2>1. run' = [q \in Runs |-> run'[q]]
        BY <1>1, <1>2
    <2> QED BY <1>3, <2>1
<1>5. ExperimentsType' /\ OneRun'
    <2>1. ExperimentsType'
        BY <1>1, <1>2, <1>3, <1>4 DEF ExperimentsType, RequestOK, E!Active
    <2>2. OneRun'
        BY <1>1, <1>3 DEF OneRun, E!Active
    <2> QED BY <2>1, <2>2
<1>6. Undisturbed' \subseteq Variants
    BY DEF Undisturbed
<1>7. /\ \A q \in Runs : run'[q].copy \in {run[q].copy, E!NoDocument, doc}
      /\ \A q \in Runs, v \in Variants : Unmoved(run[q], run'[q], v)
    BY <1>3
<1> QED BY <1>2, <1>5, <1>6, <1>7, Steady

LEMMA CrashKeeps == ExperimentsInv /\ E!Crash => ExperimentsInv'
<1> SUFFICES ASSUME ExperimentsInv, E!Crash PROVE ExperimentsInv'
    OBVIOUS
<1> DEFINE gone == [E!NoRun EXCEPT !.status = "forgotten"]
<1>1. /\ gone \in RunRecord /\ gone.copy = E!NoDocument /\ gone.status = "forgotten"
      /\ gone.at = E!NoRun.at
    BY NewRun DEF RunRecord
<1>2. /\ run' = [r \in Runs |-> IF run[r].status = "unused" THEN E!NoRun ELSE gone]
      /\ disturbed' = disturbed \cup {v \in Variants : \E r \in Runs : run[r].at[v] = "written"}
      /\ request' = E!NoRequest
      /\ UNCHANGED <<account, doc, hist, outrun, given>>
    BY DEF E!Crash
<1> HIDE DEF gone
<1>3. ASSUME NEW r \in Runs
      PROVE  /\ run'[r] \in RunRecord /\ run'[r].copy = E!NoDocument
             /\ run'[r].status # "running" /\ \A v \in Variants : run'[r].at[v] = "idle"
    BY <1>1, <1>2, NewRun
<1>4. ExperimentsType' /\ OneRun'
    BY <1>2, <1>3 DEF ExperimentsInv, ExperimentsType, RequestOK, E!NoRequest, OneRun, E!Active
<1>5. \A r \in Runs, v \in Undisturbed' : run[r].at[v] # "written"
    BY <1>2 DEF Undisturbed
<1>6. request'.op = "none"
    BY <1>2 DEF E!NoRequest
<1>7. \A r \in Runs : run'[r].copy \in {run[r].copy, E!NoDocument, doc}
    BY <1>3
<1> QED BY <1>2, <1>3, <1>4, <1>5, <1>6, <1>7, Steady

\* The thread of a run loads the experiment, or finds that it cannot.
LEMMA ExecuteKeeps == ASSUME ExperimentsInv, NEW r \in Runs, E!Execute(r) PROVE ExperimentsInv'
<1>1. /\ ExperimentsType /\ run \in [Runs -> RunRecord] /\ OneRun /\ run[r] \in RunRecord
      /\ doc \in Document
    BY DEF ExperimentsInv, ExperimentsType
<1>2. UNCHANGED <<account, doc, hist, request, disturbed, outrun, given>>
    BY DEF E!Execute
<1>3. \A v \in Variants : run[r].at[v] = "idle"
    BY DEF E!Execute, ExperimentsInv, WorksOK, Works
<1>4. run[r].status = "running" /\ run[r].step \in E!Steps
    BY <1>1 DEF E!Execute, E!Active, ExperimentsType
<1> DEFINE places == [v \in Variants |->
                        IF v \in E!Targets(r) \cap E!Attached THEN "ready" ELSE "idle"]
           failed == [v \in Variants |-> IF v \in E!Targets(r) THEN "failed" ELSE "absent"]
<1>5. /\ \A q \in Runs : q # r => run'[q] = run[q]
      /\ run' \in [Runs -> RunRecord]
      /\ run'[r].status = run[r].status /\ run'[r].step = run[r].step
      /\ \/ run'[r].copy = run[r].copy /\ run'[r].at = run[r].at
         \/ E!Loadable(r) /\ run'[r].copy = doc /\ run'[r].at = places /\ run'[r].loaded
    <2>1. CASE run' = E!FailAll(r)
        <3>1. failed \in [Variants -> Progress]
            BY DEF Progress
        <3>2. run' = [run EXCEPT ![r].loaded = TRUE, ![r].variants = failed]
            BY <2>1 DEF E!FailAll
        <3> HIDE DEF failed
        <3>3. run'[r] = [run[r] EXCEPT !.loaded = TRUE, !.variants = failed]
            BY <1>1, <3>2
        <3>4. /\ run'[r] \in RunRecord /\ run'[r].status = run[r].status
              /\ run'[r].step = run[r].step /\ run'[r].copy = run[r].copy
              /\ run'[r].at = run[r].at
            BY <1>1, <3>1, <3>3 DEF RunRecord
        <3>5. run' = [run EXCEPT ![r] = run'[r]]
            BY <1>1, <3>2
        <3> QED BY <1>1, <3>4, <3>5
    <2>2. CASE E!Loadable(r) /\ run' = [run EXCEPT ![r].loaded = TRUE, ![r].copy = doc,
                                                   ![r].at = places]
        <3>1. places \in [Variants -> Places]
            BY DEF Places
        <3> HIDE DEF places
        <3>2. run'[r] = [run[r] EXCEPT !.loaded = TRUE, !.copy = doc, !.at = places]
            BY <1>1, <2>2
        <3>3. /\ run'[r] \in RunRecord /\ run'[r].status = run[r].status
              /\ run'[r].step = run[r].step /\ run'[r].copy = doc
              /\ run'[r].at = places /\ run'[r].loaded
            BY <1>1, <3>1, <3>2 DEF RunRecord
        <3>4. run' = [run EXCEPT ![r] = run'[r]]
            BY <1>1, <2>2
        <3> QED BY <1>1, <2>2, <3>3, <3>4
    <2> QED BY <2>1, <2>2 DEF E!Execute
<1>6. ExperimentsType' /\ OneRun'
    BY <1>1, <1>2, <1>4, <1>5 DEF ExperimentsType, RequestOK, OneRun, E!Active
<1>7. ASSUME NEW v \in Variants
      PROVE  \/ run'[r].at[v] = "idle"
             \/ run'[r].at[v] = "ready" /\ Works(run'[r], v, doc, hist, Undisturbed')
    <2>1. CASE run'[r].at = run[r].at
        BY <1>3, <2>1
    <2>2. CASE E!Loadable(r) /\ run'[r].copy = doc /\ run'[r].at = places /\ run'[r].loaded
        <3>1. CASE v \in E!Attached
            <4>1. /\ hist[v].state # "unused" /\ doc.exists /\ run[r].step < Len(doc.steps)
                BY <2>2, <3>1 DEF E!Attached, E!Loadable
            <4> QED BY <1>4, <1>5, <2>2, <4>1 DEF Works, Before
        <3>2. CASE v \notin E!Attached
            BY <2>2, <3>2
        <3> QED BY <3>1, <3>2
    <2> QED BY <1>5, <2>1, <2>2
<1>8. \A q \in Runs, v \in Variants : q # r => Unmoved(run[q], run'[q], v)
    BY <1>5 DEF Unmoved
<1>9. \A q \in Runs, v \in Variants :
        \/ run'[q].at[v] = "idle"
        \/ run'[q].at[v] = "ready" /\ Works(run'[q], v, doc, hist, Undisturbed')
        \/ Unmoved(run[q], run'[q], v)
    BY <1>7, <1>8
<1>10. \A q \in Runs : run'[q].copy \in {run[q].copy, E!NoDocument, doc}
    BY <1>5
<1>11. Undisturbed' \subseteq Variants
    BY DEF Undisturbed
<1>12. \A q \in Runs, v \in Undisturbed' : run[q].at[v] = "written" => Unmoved(run[q], run'[q], v)
    BY <1>3, <1>8, <1>11
<1> QED BY <1>2, <1>6, <1>9, <1>10, <1>12, Steady

--------------------------------------------------------------------------------
(* The threads of the variants *)

Moves(r, v, status, place, turns) ==
    run' = [run EXCEPT ![r].variants[v] = status, ![r].at[v] = place, ![r].turns[v] = turns]

LEMMA PlaceChanged ==
    ASSUME run \in [Runs -> RunRecord], NEW r \in Runs, NEW v \in Variants,
           NEW status \in Progress, NEW place \in Places, NEW turns \in Seq(Message),
           Moves(r, v, status, place, turns)
    PROVE  /\ run' \in [Runs -> RunRecord]
           /\ \A q \in Runs : /\ run'[q].status = run[q].status /\ run'[q].step = run[q].step
                              /\ run'[q].copy = run[q].copy /\ run'[q].loaded = run[q].loaded
           /\ run'[r].at[v] = place /\ run'[r].turns[v] = turns
           /\ \A q \in Runs, w \in Variants : q # r \/ w # v => Unmoved(run[q], run'[q], w)
<1> DEFINE variants == [run[r].variants EXCEPT ![v] = status]
           at == [run[r].at EXCEPT ![v] = place]
           all == [run[r].turns EXCEPT ![v] = turns]
<1>1. run[r] \in RunRecord
    OBVIOUS
<1>2. /\ variants \in [Variants -> Progress] /\ at \in [Variants -> Places]
      /\ all \in [Variants -> Seq(Message)]
      /\ at[v] = place /\ all[v] = turns
      /\ \A w \in Variants : w # v => at[w] = run[r].at[w] /\ all[w] = run[r].turns[w]
    BY <1>1 DEF RunRecord
<1>3. /\ run' = [run EXCEPT ![r] = run'[r]]
      /\ run'[r] = [run[r] EXCEPT !.variants = variants, !.at = at, !.turns = all]
    <2>1. run'[r] = [run[r] EXCEPT !.variants[v] = status, !.at[v] = place, !.turns[v] = turns]
        BY DEF Moves
    <2>2. run' = [run EXCEPT ![r] = run'[r]]
        BY <2>1 DEF Moves
    <2>3. run'[r] = [run[r] EXCEPT !.variants = variants, !.at = at, !.turns = all]
        BY <1>1, <2>1 DEF RunRecord
    <2> QED BY <2>2, <2>3
<1> HIDE DEF variants, at, all
<1>4. /\ run'[r] \in RunRecord /\ run'[r].at = at /\ run'[r].turns = all
      /\ run'[r].status = run[r].status /\ run'[r].step = run[r].step
      /\ run'[r].copy = run[r].copy /\ run'[r].loaded = run[r].loaded
    BY <1>1, <1>2, <1>3 DEF RunRecord
<1>5. run' \in [Runs -> RunRecord] /\ \A q \in Runs : q # r => run'[q] = run[q]
    BY <1>3, <1>4
<1>6. \A q \in Runs, w \in Variants : q # r \/ w # v => Unmoved(run[q], run'[q], w)
    BY <1>2, <1>4, <1>5 DEF Unmoved
<1> QED BY <1>2, <1>4, <1>5, <1>6

LEMMA SettleKeeps ==
    ASSUME ExperimentsInv, NEW r \in Runs, NEW v \in Variants, NEW status \in Progress,
           run[r].at[v] # "written", E!Settle(r, v, status),
           UNCHANGED <<account, doc, hist, request, disturbed, outrun, given>>
    PROVE  ExperimentsInv'
<1>1. ExperimentsType /\ run \in [Runs -> RunRecord] /\ OneRun
    BY DEF ExperimentsInv, ExperimentsType
<1>2. "idle" \in Places /\ <<>> \in Seq(Message)
    BY DEF Places
<1>3. PICK place \in Places, turns \in Seq(Message) :
        place = "idle" /\ Moves(r, v, status, place, turns)
    BY <1>2 DEF E!Settle, Moves
<1>4. /\ run' \in [Runs -> RunRecord]
      /\ \A q \in Runs : /\ run'[q].status = run[q].status /\ run'[q].step = run[q].step
                         /\ run'[q].copy = run[q].copy /\ run'[q].loaded = run[q].loaded
      /\ run'[r].at[v] = place
      /\ \A q \in Runs, w \in Variants : q # r \/ w # v => Unmoved(run[q], run'[q], w)
    BY <1>1, <1>2, <1>3, PlaceChanged
<1>5. ExperimentsType' /\ OneRun'
    <2>1. \A q \in Runs : run'[q].status = run[q].status /\ run'[q].step = run[q].step
        BY <1>4
    <2>2. ExperimentsType'
        BY <1>1, <1>4, <2>1 DEF ExperimentsType, RequestOK, E!Active
    <2>3. OneRun'
        BY <1>1, <2>1 DEF OneRun, E!Active
    <2> QED BY <2>2, <2>3
<1>6. Undisturbed' \subseteq Variants
    BY DEF Undisturbed
<1>7. /\ \A q \in Runs : run'[q].copy \in {run[q].copy, E!NoDocument, doc}
      /\ \A q \in Runs, w \in Variants :
            run'[q].at[w] = "idle" \/ Unmoved(run[q], run'[q], w)
      /\ \A q \in Runs, w \in Undisturbed' :
            run[q].at[w] = "written" => Unmoved(run[q], run'[q], w)
    BY <1>3, <1>4, <1>6
<1> QED BY <1>5, <1>7, Steady

LEMMA TurnFailsKeeps ==
    ASSUME ExperimentsInv, NEW r \in Runs, NEW v \in Variants, E!TurnFails(r, v)
    PROVE  ExperimentsInv'
<1>1. PICK status \in Progress : E!Settle(r, v, status)
    BY DEF E!TurnFails, Progress
<1>2. /\ run[r].at[v] # "written"
      /\ UNCHANGED <<account, doc, hist, request, disturbed, outrun, given>>
    BY DEF E!TurnFails
<1> QED BY <1>1, <1>2, SettleKeeps

\* A run moves on with one variant, whose transcript it may write.
LEMMA MovesKeep ==
    ASSUME ExperimentsInv, NEW r \in Runs, NEW v \in Variants,
           run' \in [Runs -> RunRecord], hist' \in [Variants -> Rows],
           \A q \in Runs : /\ run'[q].status = run[q].status /\ run'[q].step = run[q].step
                           /\ run'[q].copy = run[q].copy /\ run'[q].loaded = run[q].loaded,
           \A q \in Runs, w \in Variants : q # r \/ w # v => Unmoved(run[q], run'[q], w),
           \A w \in Variants : w # v => hist'[w] = hist[w],
           hist'[v].state = hist[v].state,
           hist'[v].state # "attached" => hist'[v] = hist[v],
           UNCHANGED <<account, doc, request, given>>,
           disturbed \subseteq disturbed', outrun \subseteq outrun',
           Works(run'[r], v, doc, hist, Undisturbed'),
           v \in Undisturbed' =>
              /\ \A q \in Runs : q # r => ~Busy(run[q], v)
              /\ Turns(run'[r], v, hist'[v], given[v])
              /\ Transcript(hist'[v], v, doc, Writing(v)', given[v])
    PROVE  ExperimentsInv'
<1>1. Undisturbed' \in SUBSET Undisturbed /\ Undisturbed \in SUBSET Variants
    BY FewerUndisturbed
<1>2. /\ ExperimentsType /\ CopiesOK /\ WorksOK /\ OneRun /\ Alone /\ TurnsOK
      /\ TranscriptsOK
    BY DEF ExperimentsInv
<1>3. ExperimentsType'
    BY <1>2 DEF ExperimentsType, RequestOK, E!Active
<1>4. OneRun'
    BY <1>2 DEF OneRun, E!Active
<1>5. \A w \in Variants : hist'[w].state = hist[w].state
    OBVIOUS
<1>6. ASSUME NEW copy, CopyOK(copy, doc, hist, Undisturbed)
      PROVE  CopyOK(copy, doc, hist', Undisturbed')
    BY <1>1, <1>5, <1>6 DEF CopyOK, Checkpoints, Agrees
<1>7. CopiesOK'
    <2>1. Checkpoints(doc, hist')
        BY <1>2, <1>5 DEF CopiesOK, Checkpoints
    <2>2. request.op # "none" => CopyOK(request.copy, doc, hist', Undisturbed')
        BY <1>2, <1>6 DEF CopiesOK
    <2>3. \A q \in Runs : CopyOK(run'[q].copy, doc, hist', Undisturbed')
        BY <1>2, <1>6 DEF CopiesOK
    <2> QED BY <2>1, <2>2, <2>3 DEF CopiesOK
<1>8. WorksOK'
    <2> SUFFICES ASSUME NEW q \in Runs, NEW w \in Variants
                 PROVE  Works(run'[q], w, doc, hist', Undisturbed')
        BY DEF WorksOK
    <2>1. Works(run[q], w, doc, hist, Undisturbed)
        BY <1>2 DEF WorksOK
    <2>2. Works(run'[q], w, doc, hist, Undisturbed')
        BY <1>1, <2>1, UnmovedWorks
    <2> QED BY <1>5, <2>2 DEF Works
<1>9. Alone'
    <2>1. \A q \in Runs, w \in Variants : q # r \/ w # v => (Busy(run'[q], w) <=> Busy(run[q], w))
        BY DEF Unmoved, Busy
    <2> QED BY <1>1, <1>2, <2>1 DEF Alone
<1>10. TurnsOK'
    <2> SUFFICES ASSUME NEW q \in Runs, NEW w \in Undisturbed'
                 PROVE  Turns(run'[q], w, hist'[w], given[w])
        BY DEF TurnsOK
    <2>1. w \in Variants /\ Turns(run[q], w, hist[w], given[w])
        BY <1>1, <1>2 DEF TurnsOK
    <2>2. CASE w # v
        BY <2>1, <2>2, UnmovedWorks
    <2>3. CASE w = v /\ q # r
        <3>1. ~Busy(run'[q], w)
            BY <2>1, <2>3, UnmovedWorks
        <3> QED BY <3>1 DEF Busy, Turns
    <2> QED BY <2>2, <2>3
<1>11. TranscriptsOK'
    <2> SUFFICES ASSUME NEW w \in Undisturbed', w # v
                 PROVE  Transcript(hist'[w], w, doc, Writing(w)', given[w])
        BY DEF TranscriptsOK
    <2>1. w \in Variants /\ Transcript(hist[w], w, doc, Writing(w), given[w])
        BY <1>1, <1>2 DEF TranscriptsOK
    <2>2. Writing(w) \subseteq Writing(w)'
        BY <2>1 DEF Writing, Unmoved
    <2>3. hist'[w] = hist[w]
        BY <2>1
    <2> QED BY <2>1, <2>2, <2>3 DEF Transcript
<1> QED BY <1>3, <1>4, <1>7, <1>8, <1>9, <1>10, <1>11 DEF ExperimentsInv

--------------------------------------------------------------------------------
\* What a turn is run with.
LEMMA KeptFacts ==
    ASSUME NEW turns \in Seq(Message), NEW before \in Int,
           before = E!Unknown \/ before >= -1
    PROVE  /\ Kept(turns, before) \in Seq(Message)
           /\ Len(Kept(turns, before)) <= Len(turns)
           /\ \A i \in 1..Len(Kept(turns, before)) : Kept(turns, before)[i] = turns[i]
           /\ before = E!Unknown => Kept(turns, before) = turns
           /\ before >= 0 /\ before <= Len(turns) => Len(Kept(turns, before)) = before
<1> DEFINE n == IF before >= 0 THEN before ELSE Len(turns) + before
<1>1. CASE before # E!Unknown /\ before <= Len(turns)
    <2>1. Kept(turns, before) = SubSeq(turns, 1, n)
        BY <1>1 DEF Kept, E!Cut
    <2>2. n \in -1..Len(turns) /\ Len(turns) \in Nat
        BY <1>1
    <2>3. before >= 0 => n = before
        OBVIOUS
    <2> HIDE DEF n
    <2>4. CASE n \in Nat
        <3>1. /\ SubSeq(turns, 1, n) \in Seq(Message) /\ Len(SubSeq(turns, 1, n)) = n
              /\ \A i \in 1..n : SubSeq(turns, 1, n)[i] = turns[i]
            BY <2>2, <2>4
        <3> QED BY <1>1, <2>1, <2>2, <2>3, <3>1
    <2>5. CASE n = -1
        <3>1. SubSeq(turns, 1, n) = <<>>
            BY <2>5
        <3> QED BY <1>1, <2>1, <2>2, <2>3, <2>5, <3>1
    <2> QED BY <2>2, <2>4, <2>5
<1>2. CASE ~(before # E!Unknown /\ before <= Len(turns))
    <2>1. Kept(turns, before) = turns
        BY <1>2 DEF Kept
    <2> QED BY <1>2, <2>1, Numbers
<1> QED BY <1>1, <1>2

\* The transcript that a turn leaves: the buyer's message of its step is in it once at
\* most, after the checkpoint, and of the other steps nothing is new.
LEMMA AskedOnce ==
    ASSUME NEW turns \in Seq(Message), NEW s \in E!Steps, NEW before \in Int, NEW mode \in Modes,
           NEW g \in Nat,
           before = E!Unknown \/ before >= -1, before <= Len(turns),
           before = E!Unknown => Never(turns, s, g),
           before # E!Unknown => After(turns, s, before, g) /\ (before = -1 => mode = "agent")
    PROVE  LET new == Append(Asking(turns, before, s, mode), E!Assistant(s))
               b == IF before # E!Unknown THEN before ELSE Len(new) - 2
           IN  /\ new \in Seq(Message) /\ new # <<>>
               /\ AtMostOnce(new, s, g) /\ After(new, s, b, g) /\ (b = -1 => mode = "agent")
               /\ \A t \in E!Steps : t # s => \A i \in DOMAIN new :
                     new[i] = E!User(t) => i \in DOMAIN turns /\ turns[i] = E!User(t)
<1> DEFINE kept == Kept(turns, before)
           asking == Asking(turns, before, s, mode)
           new == Append(asking, E!Assistant(s))
           b == IF before # E!Unknown THEN before ELSE Len(new) - 2
           n == Len(kept)
<1>1. /\ kept \in Seq(Message) /\ n <= Len(turns) /\ \A i \in 1..n : kept[i] = turns[i]
      /\ before = E!Unknown => kept = turns
      /\ before >= 0 => n = before
      /\ n \in Nat /\ Len(turns) \in Nat
    <2>1. /\ kept \in Seq(Message) /\ n <= Len(turns) /\ \A i \in 1..n : kept[i] = turns[i]
          /\ before = E!Unknown => kept = turns
          /\ before >= 0 /\ before <= Len(turns) => n = before
        BY KeptFacts
    <2> HIDE DEF kept
    <2> QED BY <2>1
<1>2. s \in Nat /\ E!Unknown = -2
    BY Numbers
<1>3. E!User(s) \in Message /\ E!Assistant(s) \in Message
    BY <1>2, Messages
<1>4. asking = IF mode = "buyer" THEN Append(kept, E!User(s)) ELSE kept
    BY DEF Asking
<1> HIDE DEF kept, asking
<1>5. \A i \in 1..n : i \in DOMAIN turns
    BY <1>1
<1>6. \A i \in 1..n : i > g => kept[i] # E!User(s)
    <2> SUFFICES ASSUME NEW i \in 1..n, i > g, turns[i] = E!User(s) PROVE FALSE
        BY <1>1
    <2>1. i \in DOMAIN turns
        BY <1>5
    <2>2. before # E!Unknown /\ before >= 0 /\ i > before
        BY <2>1 DEF Never, After
    <2> QED BY <1>1, <2>2
<1>7. \A t \in E!Steps : E!Assistant(s) # E!User(t) /\ (E!User(s) = E!User(t) => s = t)
    BY <1>2, Messages, Numbers
<1>8. CASE mode = "buyer"
    <2>1. asking \in Seq(Message) /\ Len(asking) = n + 1
          /\ asking[n + 1] = E!User(s) /\ \A i \in 1..n : asking[i] = kept[i]
        BY <1>1, <1>3, <1>4, <1>8
    <2>2. /\ new \in Seq(Message) /\ Len(new) = n + 2 /\ DOMAIN new = 1..(n + 2)
          /\ new[n + 2] = E!Assistant(s) /\ new[n + 1] = E!User(s)
          /\ \A i \in 1..n : new[i] = kept[i]
        BY <1>1, <1>3, <2>1
    <2>3. \A i \in 1..(n + 2) : i \in 1..n \/ i = n + 1 \/ i = n + 2
        BY <1>1
    <2> HIDE DEF new
    <2>4. \A i \in DOMAIN new : i > g /\ new[i] = E!User(s) => i = n + 1
        BY <1>6, <1>7, <2>2, <2>3
    <2>5. AtMostOnce(new, s, g)
        BY <2>4 DEF AtMostOnce
    <2>6. b >= 0 /\ n + 1 > b
        BY <1>1, <1>2, <1>8, <2>2 DEF Modes
    <2>7. After(new, s, b, g) /\ (b = -1 => mode = "agent")
        <3> HIDE DEF b
        <3> QED BY <2>4, <2>6 DEF After
    <2>8. ASSUME NEW t \in E!Steps, t # s, NEW i \in DOMAIN new, new[i] = E!User(t)
          PROVE  i \in DOMAIN turns /\ turns[i] = E!User(t)
        BY <1>1, <1>5, <1>7, <2>2, <2>3, <2>8
    <2>9. new # <<>>
        BY <1>1, <2>2
    <2> QED BY <2>2, <2>5, <2>7, <2>8, <2>9 DEF new, asking
<1>9. CASE mode = "agent"
    <2>1. asking = kept
        BY <1>4, <1>9
    <2>2. /\ new \in Seq(Message) /\ Len(new) = n + 1 /\ DOMAIN new = 1..(n + 1)
          /\ new[n + 1] = E!Assistant(s)
          /\ \A i \in 1..n : new[i] = kept[i]
        BY <1>1, <1>3, <2>1
    <2>3. \A i \in 1..(n + 1) : i \in 1..n \/ i = n + 1
        BY <1>1
    <2> HIDE DEF new
    <2>4. Never(new, s, g)
        BY <1>6, <1>7, <2>2, <2>3 DEF Never
    <2>5. AtMostOnce(new, s, g) /\ After(new, s, b, g)
        BY <2>4 DEF AtMostOnce, After, Never
    <2>6. ASSUME NEW t \in E!Steps, t # s, NEW i \in DOMAIN new, new[i] = E!User(t)
          PROVE  i \in DOMAIN turns /\ turns[i] = E!User(t)
        BY <1>1, <1>5, <1>7, <2>2, <2>3, <2>6
    <2>7. new # <<>>
        BY <1>1, <2>2
    <2> QED BY <1>9, <2>2, <2>5, <2>6, <2>7 DEF new, asking
<1> QED BY <1>8, <1>9 DEF Modes

LEMMA StartVariantKeeps ==
    ASSUME ExperimentsInv, NEW r \in Runs, NEW v \in Variants, E!StartVariant(r, v)
    PROVE  ExperimentsInv'
<1>1. /\ ExperimentsType /\ run \in [Runs -> RunRecord] /\ run[r] \in RunRecord
      /\ hist \in [Variants -> Rows] /\ hist[v] \in Rows /\ run[r].at[v] = "ready"
    BY DEF ExperimentsInv, ExperimentsType, E!StartVariant
<1>2. UNCHANGED <<account, doc, hist, request, given>>
    BY DEF E!StartVariant
<1>3. CASE E!Settle(r, v, "failed") /\ UNCHANGED <<disturbed, outrun>>
    <2>1. "failed" \in Progress /\ run[r].at[v] # "written"
        BY <1>1 DEF Progress
    <2> QED BY <1>2, <1>3, <2>1, SettleKeeps
<1> DEFINE s == run[r].step
           before == Before(run[r], v)
           turns == hist[v].turns
           mode == Mode(run[r])
<1>4. CASE /\ Moves(r, v, "running", "turn", E!Replayed(r, v))
           /\ disturbed' = (IF E!Shared(r, v) THEN disturbed \cup {v} ELSE disturbed)
           /\ outrun' = (IF E!Checkpoint(r, v) > Len(hist[v].turns)
                         THEN outrun \cup {v} ELSE outrun)
    <2>1. /\ Works(run[r], v, doc, hist, Undisturbed) /\ Checkpoints(run[r].copy, hist)
        BY DEF ExperimentsInv, WorksOK, CopiesOK, CopyOK
    <2>2. /\ run[r].status = "running" /\ s \in E!Steps /\ s < Len(run[r].copy.steps)
          /\ s \in Nat
        BY <1>1, <2>1, Numbers DEF Works, ExperimentsType, E!Active
    <2>3. /\ before \in Int /\ mode \in Modes /\ turns \in Seq(Message)
          /\ before = E!Unknown \/ before >= -1
        <3>1. run[r].copy \in Document /\ run[r].copy.steps \in Seq(Modes)
            BY <1>1 DEF RunRecord, Document
        <3>2. run[r].copy.runs[s] \in Record
            BY <2>2, <3>1 DEF Document
        <3>3. before \in Int
            BY <3>2 DEF Before, Record
        <3>4. s + 1 \in 1..Len(run[r].copy.steps)
            BY <2>2, <3>1
        <3>5. mode \in Modes
            BY <3>1, <3>4 DEF Mode
        <3>6. before = E!Unknown \/ before >= -1
            BY <2>1, <2>2 DEF Checkpoints, Known, Before
        <3> QED BY <1>1, <3>3, <3>5, <3>6 DEF Rows
    <2>4. E!Replayed(r, v) = Asking(turns, before, s, mode)
        BY DEF E!Replayed, Asking, Kept, Before, Mode, E!Checkpoint, E!StepCheckpoint
    <2>5. E!Checkpoint(r, v) = before
        BY DEF Before, E!Checkpoint, E!StepCheckpoint
    <2> DEFINE new == Asking(turns, before, s, mode)
    <2>6. new \in Seq(Message)
        <3> HIDE DEF s, before, turns, mode
        <3>1. Kept(turns, before) \in Seq(Message) /\ E!User(s) \in Message
            BY <2>2, <2>3, KeptFacts, Messages
        <3> QED BY <3>1 DEF Asking
    <2> HIDE DEF s, before, turns, mode, new
    <2>7. PICK status \in Progress, place \in Places :
            place = "turn" /\ Moves(r, v, status, place, new)
        BY <1>4, <2>4 DEF Progress, Places, new
    <2>8. /\ run' \in [Runs -> RunRecord]
          /\ \A q \in Runs : /\ run'[q].status = run[q].status /\ run'[q].step = run[q].step
                             /\ run'[q].copy = run[q].copy /\ run'[q].loaded = run[q].loaded
          /\ run'[r].at[v] = place /\ run'[r].turns[v] = new
          /\ \A q \in Runs, w \in Variants : q # r \/ w # v => Unmoved(run[q], run'[q], w)
        BY <1>1, <2>6, <2>7, PlaceChanged
    <2>9. disturbed \subseteq disturbed' /\ outrun \subseteq outrun'
        BY <1>4
    <2>10. Undisturbed' \in SUBSET Undisturbed
        BY <2>9, FewerUndisturbed
    <2>11. Works(run'[r], v, doc, hist, Undisturbed')
        BY <1>1, <2>1, <2>7, <2>8, <2>10 DEF Works, Before
    <2>12. ASSUME v \in Undisturbed'
           PROVE  /\ \A q \in Runs : q # r => ~Busy(run[q], v)
                  /\ Turns(run'[r], v, hist[v], given[v])
                  /\ Transcript(hist[v], v, doc, Writing(v)', given[v])
        <3>1. ~E!Shared(r, v) /\ ~(before > Len(hist[v].turns))
            BY <1>4, <2>5, <2>12 DEF Undisturbed
        <3>2. \A q \in Runs : q # r => ~Busy(run[q], v)
            BY <3>1 DEF E!Shared, Busy
        <3>3. Turns(run'[r], v, hist[v], given[v])
            <4>1. before <= Len(hist[v].turns)
                BY <2>3, <3>1 DEF turns
            <4>2. Before(run'[r], v) = before /\ Mode(run'[r]) = mode /\ run'[r].step = s
                BY <2>8 DEF Before, Mode, before, mode, s
            <4> QED BY <2>7, <2>8, <4>1, <4>2 DEF Turns, new, turns
        <3>4. Writing(v) \subseteq Writing(v)'
            BY <1>1, <2>8 DEF Writing, Unmoved
        <3>5. Transcript(hist[v], v, doc, Writing(v), given[v])
            BY <2>10, <2>12 DEF ExperimentsInv, TranscriptsOK
        <3> QED BY <3>2, <3>3, <3>4, <3>5 DEF Transcript
    <2> QED BY <1>1, <1>2, <2>8, <2>9, <2>11, <2>12, MovesKeep
<1>5. \/ E!Settle(r, v, "failed") /\ UNCHANGED <<disturbed, outrun>>
      \/ /\ Moves(r, v, "running", "turn", E!Replayed(r, v))
         /\ disturbed' = (IF E!Shared(r, v) THEN disturbed \cup {v} ELSE disturbed)
         /\ outrun' = (IF E!Checkpoint(r, v) > Len(hist[v].turns)
                       THEN outrun \cup {v} ELSE outrun)
    BY DEF E!StartVariant, Moves
<1> QED BY <1>3, <1>4, <1>5

\* What a run knows of its own step.
LEMMA OwnStep ==
    ASSUME ExperimentsInv, NEW r \in Runs, NEW v \in Variants, run[r].at[v] # "idle"
    PROVE  LET s == run[r].step
               before == Before(run[r], v)
           IN  /\ s \in E!Steps /\ s \in Nat /\ run[r].copy \in Document /\ run[r].copy.exists
               /\ s < Len(run[r].copy.steps) /\ Mode(run[r]) \in Modes
               /\ before \in Int /\ (before = E!Unknown \/ before >= -1)
               /\ run[r].status = "running" /\ hist[v].state # "unused"
<1> DEFINE s == run[r].step
<1>1. /\ ExperimentsType /\ run \in [Runs -> RunRecord] /\ run[r] \in RunRecord
      /\ Works(run[r], v, doc, hist, Undisturbed) /\ Checkpoints(run[r].copy, hist)
    BY DEF ExperimentsInv, ExperimentsType, WorksOK, CopiesOK, CopyOK
<1>2. /\ run[r].status = "running" /\ s \in E!Steps /\ s < Len(run[r].copy.steps)
      /\ s \in Nat /\ run[r].copy.exists /\ hist[v].state # "unused"
    BY <1>1, Numbers DEF Works, ExperimentsType, E!Active
<1>3. run[r].copy \in Document /\ run[r].copy.steps \in Seq(Modes)
    BY <1>1 DEF RunRecord, Document
<1>4. run[r].copy.runs[s] \in Record
    BY <1>2, <1>3 DEF Document
<1>5. Before(run[r], v) \in Int
    BY <1>4 DEF Before, Record
<1>6. s + 1 \in 1..Len(run[r].copy.steps)
    BY <1>2, <1>3
<1>7. Mode(run[r]) \in Modes
    BY <1>3, <1>6 DEF Mode
<1>8. Before(run[r], v) = E!Unknown \/ Before(run[r], v) >= -1
    BY <1>1, <1>2 DEF Checkpoints, Known, Before
<1> QED BY <1>2, <1>3, <1>5, <1>7, <1>8

LEMMA WriteTurnKeeps ==
    ASSUME ExperimentsInv, NEW r \in Runs, NEW v \in Variants, E!WriteTurn(r, v)
    PROVE  ExperimentsInv'
<1> DEFINE s == run[r].step
           before == Before(run[r], v)
           mode == Mode(run[r])
           new == Append(run[r].turns[v], E!Assistant(s))
<1>1. /\ ExperimentsType /\ run \in [Runs -> RunRecord] /\ run[r] \in RunRecord
      /\ hist \in [Variants -> Rows] /\ hist[v] \in Rows /\ run[r].at[v] = "turn"
      /\ Works(run[r], v, doc, hist, Undisturbed)
    BY DEF ExperimentsInv, ExperimentsType, WorksOK, E!WriteTurn
<1>2. /\ s \in E!Steps /\ s \in Nat /\ mode \in Modes
      /\ before \in Int /\ (before = E!Unknown \/ before >= -1)
    BY <1>1, OwnStep
<1>3. UNCHANGED <<account, doc, request, disturbed, outrun, given>>
    BY DEF E!WriteTurn
<1>4. /\ hist' = IF hist[v].state = "attached" THEN [hist EXCEPT ![v].turns = new] ELSE hist
      /\ run' = [run EXCEPT ![r].at[v] = "written", ![r].turns[v] = new]
    BY DEF E!WriteTurn
<1>5. new \in Seq(Message) /\ new # <<>>
    <2>1. run[r].turns[v] \in Seq(Message) /\ E!Assistant(s) \in Message
        BY <1>1, <1>2, Messages DEF RunRecord
    <2> HIDE DEF s
    <2> QED BY <2>1
<1> HIDE DEF s, before, mode, new
<1>6. /\ hist' \in [Variants -> Rows] /\ hist'[v].state = hist[v].state
      /\ \A w \in Variants : w # v => hist'[w] = hist[w]
      /\ hist[v].state = "attached" => hist'[v].turns = new
      /\ hist[v].state # "attached" => hist'[v] = hist[v]
    BY <1>1, <1>4, <1>5 DEF Rows
<1>7. /\ run' \in [Runs -> RunRecord]
      /\ \A q \in Runs : /\ run'[q].status = run[q].status /\ run'[q].step = run[q].step
                         /\ run'[q].copy = run[q].copy /\ run'[q].loaded = run[q].loaded
      /\ run'[r].at[v] = "written" /\ run'[r].turns[v] = new
      /\ \A q \in Runs, w \in Variants : q # r \/ w # v => Unmoved(run[q], run'[q], w)
    <2> DEFINE at == [run[r].at EXCEPT ![v] = "written"]
               all == [run[r].turns EXCEPT ![v] = new]
    <2>1. /\ at \in [Variants -> Places] /\ all \in [Variants -> Seq(Message)]
          /\ at[v] = "written" /\ all[v] = new
          /\ \A w \in Variants : w # v => at[w] = run[r].at[w] /\ all[w] = run[r].turns[w]
        BY <1>1, <1>5 DEF RunRecord, Places
    <2>2. /\ run' = [run EXCEPT ![r] = run'[r]]
          /\ run'[r] = [run[r] EXCEPT !.at = at, !.turns = all]
        BY <1>1, <1>4 DEF RunRecord
    <2> HIDE DEF at, all
    <2>3. /\ run'[r] \in RunRecord /\ run'[r].at = at /\ run'[r].turns = all
          /\ run'[r].status = run[r].status /\ run'[r].step = run[r].step
          /\ run'[r].copy = run[r].copy /\ run'[r].loaded = run[r].loaded
        BY <1>1, <2>1, <2>2 DEF RunRecord
    <2>4. run' \in [Runs -> RunRecord] /\ \A q \in Runs : q # r => run'[q] = run[q]
        BY <1>1, <2>2, <2>3
    <2>5. \A q \in Runs, w \in Variants : q # r \/ w # v => Unmoved(run[q], run'[q], w)
        BY <2>1, <2>3, <2>4 DEF Unmoved
    <2> QED BY <2>1, <2>3, <2>4, <2>5
<1>8. Before(run'[r], v) = before /\ Mode(run'[r]) = mode /\ run'[r].step = s
    BY <1>7 DEF Before, Mode, before, mode, s
<1>9. Works(run'[r], v, doc, hist, Undisturbed')
    BY <1>1, <1>3, <1>5, <1>7 DEF Works, Before, Undisturbed
<1>10. ASSUME v \in Undisturbed'
       PROVE  /\ \A q \in Runs : q # r => ~Busy(run[q], v)
              /\ Turns(run'[r], v, hist'[v], given[v])
              /\ Transcript(hist'[v], v, doc, Writing(v)', given[v])
    <2>1. v \in Undisturbed
        BY <1>3, <1>10 DEF Undisturbed
    <2>2. \A q \in Runs : q # r => ~Busy(run[q], v)
        BY <1>1, <2>1 DEF ExperimentsInv, Alone, Busy
    <2>3. Writing(v) = {}
        BY <1>1, <2>2 DEF Writing, Busy
    <2>4. s \in Writing(v)'
        BY <1>7, <1>8 DEF Writing
    <2>5. CASE hist[v].state # "attached"
        BY <1>6, <2>2, <2>5 DEF Turns, Transcript
    <2>6. CASE hist[v].state = "attached"
        <3> DEFINE turns == hist[v].turns
        <3>1. turns \in Seq(Message) /\ doc.exists
            BY <1>1, <2>6 DEF Rows, ExperimentsType
        <3>2. Transcript(hist[v], v, doc, {}, given[v])
            BY <2>1, <2>3 DEF ExperimentsInv, TranscriptsOK
        <3>3. before <= Len(turns) /\ run[r].turns[v] = Asking(turns, before, s, mode)
            BY <1>1, <2>1, <2>6 DEF ExperimentsInv, TurnsOK, Turns, before, s, mode
        <3>4. before = doc.runs[s].before[v]
            BY <1>1, <2>1, <3>1 DEF Works, before, s
        <3>5. before = E!Unknown => Never(turns, s, given[v])
            BY <1>2, <2>6, <3>2, <3>4 DEF Transcript, Known
        <3>6. before # E!Unknown =>
                After(turns, s, before, given[v]) /\ (before = -1 => mode = "agent")
            <4>1. Agrees(run[r].copy, doc, Undisturbed)
                BY DEF ExperimentsInv, CopiesOK, CopyOK
            <4>2. before # E!Unknown => mode = doc.steps[s + 1]
                BY <1>2, <2>1, <3>1, <4>1 DEF Agrees, Known, Mode, mode, before, Before, s
            <4> QED BY <1>2, <2>6, <3>2, <3>4, <4>2 DEF Transcript, Known
        <3> DEFINE b == IF before # E!Unknown THEN before ELSE Len(new) - 2
        <3>7. /\ AtMostOnce(new, s, given[v]) /\ After(new, s, b, given[v])
              /\ b = -1 => mode = "agent"
              /\ \A t \in E!Steps : t # s => \A i \in DOMAIN new :
                    new[i] = E!User(t) => i \in DOMAIN turns /\ turns[i] = E!User(t)
            <4> HIDE DEF turns
            <4>1. new = Append(Asking(turns, before, s, mode), E!Assistant(s))
                BY <3>3 DEF new
            <4>2. given[v] \in Nat
                BY <1>1 DEF ExperimentsType
            <4> DEFINE g == given[v]
            <4> HIDE DEF g
            <4>3. /\ g \in Nat
                  /\ before = E!Unknown => Never(turns, s, g)
                  /\ before # E!Unknown => After(turns, s, before, g)
                  /\ before # E!Unknown => (before = -1 => mode = "agent")
                BY <3>5, <3>6, <4>2 DEF g
            <4>4. /\ AtMostOnce(new, s, g) /\ After(new, s, b, g) /\ (b = -1 => mode = "agent")
                  /\ \A t \in E!Steps : t # s => \A i \in DOMAIN new :
                        new[i] = E!User(t) => i \in DOMAIN turns /\ turns[i] = E!User(t)
                BY <1>2, <3>1, <3>3, <4>1, <4>3, AskedOnce
            <4> QED BY <4>4 DEF g
        <3>8. RecordedBefore(run'[r], v) = b
            BY <1>7, <1>8 DEF RecordedBefore
        <3> HIDE DEF b
        <3>9. hist'[v].turns = new /\ hist'[v].state = "attached"
            BY <1>6, <2>6
        <3>10. Turns(run'[r], v, hist'[v], given[v])
            BY <1>7, <1>8, <3>7, <3>8, <3>9 DEF Turns
        <3>11. ASSUME NEW t \in E!Steps
               PROVE  /\ AtMostOnce(new, t, given[v])
                      /\ ~Known(doc, t, v) => Never(new, t, given[v]) \/ t \in Writing(v)'
                      /\ Known(doc, t, v) =>
                          /\ After(new, t, doc.runs[t].before[v], given[v])
                          /\ doc.runs[t].before[v] = -1 => doc.steps[t + 1] = "agent"
            <4>1. /\ AtMostOnce(turns, t, given[v])
                  /\ ~Known(doc, t, v) => Never(turns, t, given[v])
                  /\ Known(doc, t, v) =>
                      /\ After(turns, t, doc.runs[t].before[v], given[v])
                      /\ doc.runs[t].before[v] = -1 => doc.steps[t + 1] = "agent"
                BY <2>6, <3>2 DEF Transcript
            <4>2. CASE t = s
                <5>1. Known(doc, t, v) => b = doc.runs[t].before[v]
                    BY <3>4, <4>2 DEF Known, b
                <5> QED BY <2>4, <3>7, <4>1, <4>2, <5>1
            <4>3. CASE t # s
                <5>1. \A i \in DOMAIN new :
                        new[i] = E!User(t) => i \in DOMAIN turns /\ turns[i] = E!User(t)
                    BY <3>7, <4>3
                <5> QED BY <4>1, <5>1 DEF AtMostOnce, Never, After
            <4> QED BY <4>2, <4>3
        <3>12. Transcript(hist'[v], v, doc, Writing(v)', given[v])
            BY <3>9, <3>11 DEF Transcript
        <3> QED BY <2>2, <3>10, <3>12
    <2> QED BY <2>5, <2>6
<1>11. /\ disturbed \subseteq disturbed' /\ outrun \subseteq outrun'
       /\ UNCHANGED <<account, doc, request, given>>
    BY <1>3
<1>12. hist'[v].state # "attached" => hist'[v] = hist[v]
    BY <1>6
<1> QED BY <1>6, <1>7, <1>9, <1>10, <1>11, <1>12, MovesKeep

--------------------------------------------------------------------------------
(* Writing the document *)

\* A document keeps what another says of some variants, and adds only what is fresh.
Follows(new, old, fresh, vs) ==
    old.exists => \A s \in E!Steps, v \in vs :
        /\ Known(old, s, v) =>
            /\ new.runs[s].before[v] = old.runs[s].before[v]
            /\ s < Len(new.steps) /\ new.steps[s + 1] = old.steps[s + 1]
        /\ ~Known(old, s, v) /\ <<s, v>> \notin fresh => ~Known(new, s, v)

LEMMA CopiesFollow ==
    ASSUME NEW copy, NEW new, NEW old, NEW fresh, NEW rows, NEW vs \in SUBSET Variants,
           NEW fewer \in SUBSET vs, Follows(new, old, fresh, fewer), new.exists = old.exists,
           CopyOK(copy, old, rows, vs)
    PROVE  CopyOK(copy, new, rows, fewer)
<1> SUFFICES ASSUME new.exists, NEW s \in E!Steps, NEW v \in fewer, Known(copy, s, v)
             PROVE  /\ copy.runs[s].before[v] = new.runs[s].before[v]
                    /\ s < Len(new.steps) /\ copy.steps[s + 1] = new.steps[s + 1]
    BY DEF CopyOK, Agrees
<1>1. /\ copy.runs[s].before[v] = old.runs[s].before[v]
      /\ copy.steps[s + 1] = old.steps[s + 1]
    BY DEF CopyOK, Agrees
<1>2. Known(old, s, v)
    BY <1>1 DEF Known
<1> QED BY <1>1, <1>2 DEF Follows

LEMMA WorkFollows ==
    ASSUME NEW x, NEW v, NEW new, NEW old, NEW fresh, NEW rows, NEW vs,
           NEW fewer \in SUBSET vs, Follows(new, old, fresh, fewer), new.exists = old.exists,
           Works(x, v, old, rows, vs),
           x.at[v] # "idle" => x.step \in E!Steps /\ <<x.step, v>> \notin fresh
    PROVE  Works(x, v, new, rows, fewer)
<1> SUFFICES ASSUME x.at[v] # "idle", new.exists, v \in fewer
             PROVE  Before(x, v) = new.runs[x.step].before[v]
    BY DEF Works
<1>1. Before(x, v) = old.runs[x.step].before[v]
    BY DEF Works
<1> QED BY <1>1 DEF Follows, Known

LEMMA TranscriptFollows ==
    ASSUME NEW row, NEW v, NEW new, NEW old, NEW fresh, NEW vs, v \in vs, NEW g,
           Follows(new, old, fresh, vs), old.exists, NEW writing, NEW more,
           Transcript(row, v, old, writing, g),
           \A s \in E!Steps : <<s, v>> \notin fresh => (s \in writing => s \in more),
           \A s \in E!Steps : <<s, v>> \in fresh /\ ~Known(old, s, v) /\ row.state = "attached" =>
              /\ ~Known(new, s, v) => Never(row.turns, s, g) \/ s \in more
              /\ Known(new, s, v) =>
                  /\ After(row.turns, s, new.runs[s].before[v], g)
                  /\ new.runs[s].before[v] = -1 => new.steps[s + 1] = "agent"
    PROVE  Transcript(row, v, new, more, g)
<1> SUFFICES ASSUME row.state = "attached", NEW s \in E!Steps
             PROVE  /\ AtMostOnce(row.turns, s, g)
                    /\ ~Known(new, s, v) => Never(row.turns, s, g) \/ s \in more
                    /\ Known(new, s, v) =>
                        /\ After(row.turns, s, new.runs[s].before[v], g)
                        /\ new.runs[s].before[v] = -1 => new.steps[s + 1] = "agent"
    BY DEF Transcript
<1>1. /\ AtMostOnce(row.turns, s, g)
      /\ ~Known(old, s, v) => Never(row.turns, s, g) \/ s \in writing
      /\ Known(old, s, v) =>
          /\ After(row.turns, s, old.runs[s].before[v], g)
          /\ old.runs[s].before[v] = -1 => old.steps[s + 1] = "agent"
    BY DEF Transcript
<1>2. CASE Known(old, s, v)
    <2>1. /\ new.runs[s].before[v] = old.runs[s].before[v]
          /\ new.steps[s + 1] = old.steps[s + 1]
        BY <1>2 DEF Follows
    <2> QED BY <1>1, <1>2, <2>1 DEF Known
<1>3. CASE ~Known(old, s, v) /\ <<s, v>> \notin fresh
    <2>1. ~Known(new, s, v)
        BY <1>3 DEF Follows
    <2> QED BY <1>1, <1>3, <2>1
<1>4. CASE ~Known(old, s, v) /\ <<s, v>> \in fresh
    BY <1>1, <1>4
<1> QED BY <1>2, <1>3, <1>4

\* A request writes the whole document that it read.
LEMMA SaveKeeps ==
    ASSUME ExperimentsInv, request.op # "none", NEW d \in Document, d.exists,
           d.runs = request.copy.runs,
           \A s \in E!Steps : s < Len(request.copy.steps)
              => s < Len(d.steps) /\ d.steps[s + 1] = request.copy.steps[s + 1],
           E!Save(d)
    PROVE  ExperimentsInv'
<1>1. /\ ExperimentsType /\ CopiesOK /\ WorksOK /\ OneRun /\ Alone /\ TurnsOK /\ TranscriptsOK
      /\ doc \in Document /\ account \in Accounts
      /\ CopyOK(request.copy, doc, hist, Undisturbed)
    BY DEF ExperimentsInv, ExperimentsType, CopiesOK
<1> DEFINE new == E!AdoptOwner(d, account)
<1>2. /\ new \in Document /\ new.exists /\ new.runs = d.runs /\ new.steps = d.steps
    <2>1. new \in {d, [d EXCEPT !.owner = account]}
        BY DEF E!AdoptOwner, E!WithOwner
    <2> QED BY <1>1, <2>1 DEF Document
<1> HIDE DEF new
<1>3. /\ doc' = (IF doc.exists THEN new ELSE doc)
      /\ disturbed' = disturbed \cup E!Forgotten(d) /\ request' = E!NoRequest
      /\ UNCHANGED <<account, hist, run, outrun, given>>
    BY DEF E!Save, E!EditExperiment, new
<1>4. Undisturbed' \in SUBSET Undisturbed /\ Undisturbed \in SUBSET Variants
    BY <1>3, FewerUndisturbed
<1>5. doc'.exists = doc.exists /\ doc' \in Document
    <2>1. doc.exists \in BOOLEAN
        BY <1>1 DEF Document
    <2> QED BY <1>1, <1>2, <1>3, <2>1
<1>6. Checkpoints(doc', hist)
    <2>1. CASE ~doc.exists
        BY <1>1, <1>3, <2>1 DEF CopiesOK
    <2>2. CASE doc.exists
        <3>1. doc'.runs = request.copy.runs /\ doc'.steps = d.steps
            BY <1>2, <1>3, <2>2
        <3> QED BY <1>1, <3>1 DEF CopyOK, Checkpoints, Known
    <2> QED BY <2>1, <2>2
<1>7. Follows(doc', doc, {}, Undisturbed')
    <2> SUFFICES ASSUME doc.exists, NEW s \in E!Steps, NEW v \in Undisturbed'
                 PROVE  /\ Known(doc, s, v) =>
                            /\ doc'.runs[s].before[v] = doc.runs[s].before[v]
                            /\ s < Len(doc'.steps) /\ doc'.steps[s + 1] = doc.steps[s + 1]
                        /\ ~Known(doc, s, v) => ~Known(doc', s, v)
        BY DEF Follows
    <2>1. doc'.runs = request.copy.runs /\ doc'.steps = d.steps
        BY <1>2, <1>3
    <2>2. v \notin E!Forgotten(d) /\ v \in Undisturbed /\ v \in Variants
        BY <1>3, <1>4 DEF Undisturbed
    <2>3. Known(doc, s, v) => Known(request.copy, s, v)
        BY <2>2 DEF E!Forgotten, Known
    <2>4. Known(request.copy, s, v) =>
            /\ request.copy.runs[s].before[v] = doc.runs[s].before[v]
            /\ s < Len(request.copy.steps)
            /\ request.copy.steps[s + 1] = doc.steps[s + 1]
        BY <1>1, <2>2 DEF CopyOK, Agrees, Checkpoints
    <2> QED BY <2>1, <2>3, <2>4 DEF Known
<1>8. ExperimentsType'
    BY <1>1, <1>3, <1>5 DEF ExperimentsType, RequestOK, E!NoRequest, E!Active
<1>9. CopiesOK'
    <2>1. \A r \in Runs : CopyOK(run[r].copy, doc', hist, Undisturbed')
        BY <1>1, <1>4, <1>5, <1>7, CopiesFollow DEF CopiesOK
    <2> QED BY <1>3, <1>6, <2>1 DEF CopiesOK, E!NoRequest
<1>10. WorksOK'
    <2> SUFFICES ASSUME NEW r \in Runs, NEW v \in Variants
                 PROVE  Works(run[r], v, doc', hist, Undisturbed')
        BY <1>3 DEF WorksOK
    <2>1. Works(run[r], v, doc, hist, Undisturbed)
        BY <1>1 DEF WorksOK
    <2>2. run[r].at[v] # "idle" => run[r].step \in E!Steps
        BY OwnStep
    <2> QED BY <1>4, <1>5, <1>7, <2>1, <2>2, WorkFollows
<1>11. OneRun' /\ Alone' /\ TurnsOK'
    BY <1>1, <1>3, <1>4 DEF OneRun, E!Active, Alone, TurnsOK
<1>12. TranscriptsOK'
    <2> SUFFICES ASSUME NEW v \in Undisturbed'
                 PROVE  Transcript(hist[v], v, doc', Writing(v), given[v])
        BY <1>3 DEF TranscriptsOK, Writing
    <2>1. Transcript(hist[v], v, doc, Writing(v), given[v]) /\ v \in Variants
        BY <1>1, <1>4 DEF TranscriptsOK
    <2>2. CASE doc.exists
        BY <1>7, <2>1, <2>2, TranscriptFollows
    <2>3. CASE ~doc.exists
        BY <1>1, <2>1, <2>3 DEF ExperimentsType, Transcript
    <2> QED BY <2>2, <2>3
<1> QED BY <1>8, <1>9, <1>10, <1>11, <1>12 DEF ExperimentsInv

LEMMA AppendStepKeeps == ExperimentsInv /\ E!AppendStep => ExperimentsInv'
<1> SUFFICES ASSUME ExperimentsInv, E!AppendStep PROVE ExperimentsInv'
    OBVIOUS
<1> DEFINE copy == request.copy
           steps == Append(copy.steps, request.mode)
           d == [copy EXCEPT !.steps = steps]
<1>1. request.op # "none" /\ copy \in Document /\ copy.exists /\ request.mode \in Modes
    BY DEF ExperimentsInv, ExperimentsType, RequestOK, E!AppendStep
<1>2. copy.steps \in Seq(Modes)
    BY <1>1 DEF Document
<1>3. E!Save(d)
    BY <1>1 DEF E!AppendStep, Document
<1> HIDE DEF copy
<1>4. /\ steps \in Seq(Modes)
      /\ \A s \in E!Steps : s < Len(copy.steps)
            => s < Len(steps) /\ steps[s + 1] = copy.steps[s + 1]
    BY <1>1, <1>2, Numbers
<1> HIDE DEF steps
<1>5. d \in Document /\ d.exists /\ d.runs = copy.runs /\ d.steps = steps
    BY <1>1, <1>4 DEF Document
<1> HIDE DEF d
<1> QED BY <1>1, <1>3, <1>4, <1>5, SaveKeeps DEF copy

LEMMA UpdateExperimentKeeps == ExperimentsInv /\ E!UpdateExperiment => ExperimentsInv'
<1> SUFFICES ASSUME ExperimentsInv, E!UpdateExperiment PROVE ExperimentsInv'
    OBVIOUS
<1> DEFINE copy == request.copy
           d == [copy EXCEPT !.edits = @ + 1]
<1>1. request.op # "none" /\ copy \in Document /\ copy.exists
    BY DEF ExperimentsInv, ExperimentsType, RequestOK, E!UpdateExperiment
<1>2. E!Save(d)
    BY DEF E!UpdateExperiment
<1>3. d \in Document /\ d.exists /\ d.runs = copy.runs /\ d.steps = copy.steps
    BY <1>1 DEF Document
<1> HIDE DEF d
<1> QED BY <1>1, <1>2, <1>3, SaveKeeps
--------------------------------------------------------------------------------
(* Recording progress *)

LEMMA RecordedFacts ==
    ASSUME NEW copy \in Document, NEW s \in E!Steps, NEW v \in Variants, NEW before \in Int
    PROVE  LET d == E!Recorded(copy, s, v, before)
           IN  /\ d \in Document /\ d.exists = copy.exists /\ d.steps = copy.steps
               /\ \A t \in E!Steps, w \in Variants : t # s \/ w # v =>
                     d.runs[t].before[w] = copy.runs[t].before[w]
               /\ d.runs[s].before[v] = IF Known(copy, s, v) THEN copy.runs[s].before[v] ELSE before
<1> DEFINE record == copy.runs[s]
           done == record.done \cup {v}
           least == IF record.before[v] = E!Unknown THEN before ELSE record.before[v]
           all == [record.before EXCEPT ![v] = least]
           new == [record EXCEPT !.done = done, !.before = all]
           runs == [copy.runs EXCEPT ![s] = new]
           d == E!Recorded(copy, s, v, before)
<1>1. record \in Record
    BY DEF Document
<1>2. /\ done \in SUBSET Variants /\ all \in [Variants -> Int] /\ all[v] = least
      /\ \A w \in Variants : w # v => all[w] = record.before[w]
    BY <1>1 DEF Record
<1>3. d = [copy EXCEPT !.runs = runs]
    BY <1>1 DEF E!Recorded, Record, Document
<1>4. least = IF Known(copy, s, v) THEN record.before[v] ELSE before
    BY DEF Known
<1> HIDE DEF done, all, least
<1>5. new \in Record /\ new.before = all
    BY <1>1, <1>2 DEF Record
<1> HIDE DEF new
<1>6. /\ runs \in [E!Steps -> Record] /\ runs[s] = new
      /\ \A t \in E!Steps : t # s => runs[t] = copy.runs[t]
    BY <1>5 DEF Document
<1> HIDE DEF runs
<1>7. /\ d \in Document /\ d.exists = copy.exists /\ d.steps = copy.steps /\ d.runs = runs
    BY <1>3, <1>6 DEF Document
<1> HIDE DEF d
<1>8. \A t \in E!Steps, w \in Variants : t # s \/ w # v =>
        d.runs[t].before[w] = copy.runs[t].before[w]
    BY <1>2, <1>5, <1>6, <1>7
<1>9. d.runs[s].before[v] = IF Known(copy, s, v) THEN copy.runs[s].before[v] ELSE before
    BY <1>2, <1>4, <1>5, <1>6, <1>7
<1> QED BY <1>7, <1>8, <1>9 DEF d

Recording(r, v, d, status) ==
    run' = [run EXCEPT ![r].copy = d, ![r].variants[v] = status,
                       ![r].at[v] = "idle", ![r].turns[v] = <<>>]

LEMMA CopyChanged ==
    ASSUME run \in [Runs -> RunRecord], NEW r \in Runs, NEW v \in Variants,
           NEW d \in Document, NEW status \in Progress, Recording(r, v, d, status)
    PROVE  /\ run' \in [Runs -> RunRecord]
           /\ run'[r].status = run[r].status /\ run'[r].step = run[r].step
           /\ run'[r].loaded = run[r].loaded /\ run'[r].copy = d /\ run'[r].at[v] = "idle"
           /\ \A w \in Variants : w # v =>
                 run'[r].at[w] = run[r].at[w] /\ run'[r].turns[w] = run[r].turns[w]
           /\ \A q \in Runs : q # r => run'[q] = run[q]
<1> DEFINE variants == [run[r].variants EXCEPT ![v] = status]
           at == [run[r].at EXCEPT ![v] = "idle"]
           all == [run[r].turns EXCEPT ![v] = <<>>]
<1>1. run[r] \in RunRecord
    OBVIOUS
<1>2. <<>> \in Seq(Message) /\ "idle" \in Places
    BY DEF Places
<1>3. /\ variants \in [Variants -> Progress] /\ at \in [Variants -> Places]
      /\ all \in [Variants -> Seq(Message)] /\ at[v] = "idle"
      /\ \A w \in Variants : w # v => at[w] = run[r].at[w] /\ all[w] = run[r].turns[w]
    BY <1>1, <1>2 DEF RunRecord
<1>4. /\ run' = [run EXCEPT ![r] = run'[r]]
      /\ run'[r] = [run[r] EXCEPT !.copy = d, !.variants = variants, !.at = at, !.turns = all]
    <2>1. run'[r] = [run[r] EXCEPT !.copy = d, !.variants[v] = status, !.at[v] = "idle",
                                   !.turns[v] = <<>>]
        BY DEF Recording
    <2>2. run' = [run EXCEPT ![r] = run'[r]]
        BY <2>1 DEF Recording
    <2>3. run'[r] = [run[r] EXCEPT !.copy = d, !.variants = variants, !.at = at, !.turns = all]
        BY <1>1, <2>1 DEF RunRecord
    <2> QED BY <2>2, <2>3
<1> HIDE DEF variants, at, all
<1>5. /\ run'[r] \in RunRecord /\ run'[r].at = at /\ run'[r].turns = all
      /\ run'[r].status = run[r].status /\ run'[r].step = run[r].step
      /\ run'[r].copy = d /\ run'[r].loaded = run[r].loaded
    <2> DEFINE x == run[r]
               y == [x EXCEPT !.copy = d, !.variants = variants, !.at = at, !.turns = all]
    <2>1. x \in RunRecord /\ run'[r] = y
        BY <1>1, <1>4
    <2> HIDE DEF x
    <2>2. /\ y \in RunRecord /\ y.at = at /\ y.turns = all /\ y.status = x.status
          /\ y.step = x.step /\ y.copy = d /\ y.loaded = x.loaded
        BY <1>3, <2>1 DEF RunRecord
    <2> QED BY <2>1, <2>2 DEF x
<1>6. run' \in [Runs -> RunRecord] /\ \A q \in Runs : q # r => run'[q] = run[q]
    BY <1>4, <1>5
<1> QED BY <1>3, <1>5, <1>6

LEMMA RecordProgressKeeps ==
    ASSUME ExperimentsInv, NEW r \in Runs, NEW v \in Variants, E!RecordProgress(r, v)
    PROVE  ExperimentsInv'
<1> DEFINE s == run[r].step
           copy == run[r].copy
           b == RecordedBefore(run[r], v)
           d == E!Recorded(copy, s, v, b)
           fresh == {<<s, v>>}
<1>1. /\ ExperimentsType /\ CopiesOK /\ WorksOK /\ OneRun /\ Alone /\ TurnsOK /\ TranscriptsOK
      /\ run \in [Runs -> RunRecord] /\ run[r] \in RunRecord /\ doc \in Document
      /\ hist \in [Variants -> Rows] /\ run[r].at[v] = "written"
      /\ Works(run[r], v, doc, hist, Undisturbed) /\ CopyOK(copy, doc, hist, Undisturbed)
    BY DEF ExperimentsInv, ExperimentsType, WorksOK, CopiesOK, E!RecordProgress
<1>2. /\ s \in E!Steps /\ s \in Nat /\ copy \in Document /\ copy.exists
      /\ s < Len(copy.steps) /\ run[r].status = "running" /\ hist[v].state # "unused"
      /\ Before(run[r], v) \in Int
      /\ (Before(run[r], v) = E!Unknown \/ Before(run[r], v) >= -1)
    BY <1>1, OwnStep
<1>3. /\ Known(copy, s, v) => b = copy.runs[s].before[v]
      /\ b \in Int /\ b >= -1
    <2>1. run[r].turns[v] \in Seq(Message) /\ run[r].turns[v] # <<>>
        BY <1>1 DEF RunRecord, Works
    <2>2. Len(run[r].turns[v]) \in Nat /\ Len(run[r].turns[v]) >= 1
        BY <2>1
    <2>3. Known(copy, s, v) <=> Before(run[r], v) # E!Unknown
        BY DEF Known, Before
    <2>4. Before(run[r], v) = copy.runs[s].before[v]
        BY DEF Before
    <2> DEFINE n == Len(run[r].turns[v])
               before == Before(run[r], v)
    <2>5. b = IF before # E!Unknown THEN before ELSE n - 2
        BY DEF RecordedBefore
    <2> HIDE DEF b, n, before
    <2>6. /\ n \in Nat /\ n >= 1 /\ before \in Int
          /\ before = E!Unknown \/ before >= -1
        BY <1>2, <2>2 DEF n, before
    <2>7. b \in Int /\ b >= -1
        BY <2>5, <2>6
    <2>8. Known(copy, s, v) => b = copy.runs[s].before[v]
        BY <2>3, <2>4, <2>5 DEF before
    <2> QED BY <2>7, <2>8
<1>4. E!BeforeOf(r, v) = b
    BY DEF E!BeforeOf, E!Checkpoint, E!StepCheckpoint, RecordedBefore, Before
<1>5. PICK status \in Progress :
        /\ Recording(r, v, d, status)
        /\ \/ /\ doc' = IF doc.exists THEN d ELSE doc
              /\ disturbed' = disturbed \cup E!Forgotten(d)
           \/ doc' = doc /\ disturbed' = disturbed \cup {v}
    <2> HIDE DEF b
    <2> USE <1>4 DEF E!RecordProgress, E!EditExperiment, Recording, Progress
    <2> QED OBVIOUS
<1>6. UNCHANGED <<account, hist, request, outrun, given>>
    BY DEF E!RecordProgress
<1>7. /\ d \in Document /\ d.exists /\ d.steps = copy.steps
      /\ \A t \in E!Steps, w \in Variants : t # s \/ w # v =>
            d.runs[t].before[w] = copy.runs[t].before[w]
      /\ d.runs[s].before[v] = b
    <2>1. s \in E!Steps /\ copy \in Document /\ copy.exists /\ b \in Int
          /\ (Known(copy, s, v) => b = copy.runs[s].before[v])
        BY <1>2, <1>3
    <2> HIDE DEF b, s, copy
    <2> QED BY <2>1, RecordedFacts
<1>8. /\ run' \in [Runs -> RunRecord]
      /\ run'[r].status = run[r].status /\ run'[r].step = run[r].step
      /\ run'[r].loaded = run[r].loaded /\ run'[r].copy = d /\ run'[r].at[v] = "idle"
      /\ \A w \in Variants : w # v =>
            run'[r].at[w] = run[r].at[w] /\ run'[r].turns[w] = run[r].turns[w]
      /\ \A q \in Runs : q # r => run'[q] = run[q]
    <2> HIDE DEF d
    <2> QED BY <1>1, <1>5, <1>7, CopyChanged
<1> HIDE DEF d, b
<1>9. Undisturbed' \in SUBSET Undisturbed /\ Undisturbed \in SUBSET Variants
    BY <1>5, <1>6, FewerUndisturbed
<1>10. doc' \in Document /\ doc'.exists = doc.exists
    <2>1. doc.exists \in BOOLEAN
        BY <1>1 DEF Document
    <2> QED BY <1>1, <1>5, <1>7, <2>1
<1>11. Checkpoints(d, hist)
    <2> SUFFICES ASSUME NEW t \in E!Steps, NEW w \in Variants, Known(d, t, w)
                 PROVE  /\ t < Len(d.steps) /\ d.runs[t].before[w] >= -1
                        /\ hist[w].state # "unused"
        BY DEF Checkpoints
    <2>1. CASE t = s /\ w = v
        BY <1>2, <1>3, <1>7, <2>1
    <2>2. CASE t # s \/ w # v
        <3>1. d.runs[t].before[w] = copy.runs[t].before[w]
            BY <1>7, <2>2
        <3> QED BY <1>1, <1>7, <3>1 DEF CopyOK, Checkpoints, Known
    <2> QED BY <2>1, <2>2
<1>12. Checkpoints(doc', hist)
    BY <1>1, <1>5, <1>11 DEF CopiesOK
\* What the copy that is written knows is the document's, or this step's.
<1>13. ASSUME doc.exists, NEW t \in E!Steps, NEW w \in Undisturbed, t # s \/ w # v
       PROVE  /\ Known(d, t, w) =>
                    /\ Known(doc, t, w) /\ d.runs[t].before[w] = doc.runs[t].before[w]
                    /\ t < Len(doc.steps) /\ t < Len(d.steps)
                    /\ d.steps[t + 1] = doc.steps[t + 1]
    <2>1. w \in Variants /\ d.runs[t].before[w] = copy.runs[t].before[w]
        BY <1>7, <1>9, <1>13
    <2>2. Known(copy, t, w) =>
            /\ copy.runs[t].before[w] = doc.runs[t].before[w]
            /\ t < Len(doc.steps) /\ t < Len(copy.steps)
            /\ copy.steps[t + 1] = doc.steps[t + 1]
        BY <1>1, <1>13, <2>1 DEF CopyOK, Agrees, Checkpoints
    <2> QED BY <1>7, <2>1, <2>2 DEF Known
<1>14. ASSUME doc.exists, v \in Undisturbed, Known(doc, s, v)
       PROVE  /\ d.runs[s].before[v] = doc.runs[s].before[v]
              /\ s < Len(d.steps) /\ d.steps[s + 1] = doc.steps[s + 1]
    <2>1. copy.runs[s].before[v] = doc.runs[s].before[v]
        BY <1>1, <1>14 DEF Works, Before
    <2>2. Known(copy, s, v)
        BY <1>14, <2>1 DEF Known
    <2>3. copy.steps[s + 1] = doc.steps[s + 1]
        BY <1>1, <1>2, <1>14, <2>2 DEF CopyOK, Agrees
    <2> QED BY <1>2, <1>3, <1>7, <2>1, <2>2, <2>3
<1>15. Follows(doc', doc, fresh, Undisturbed')
    <2> SUFFICES ASSUME doc.exists, NEW t \in E!Steps, NEW w \in Undisturbed'
                 PROVE  /\ Known(doc, t, w) =>
                            /\ doc'.runs[t].before[w] = doc.runs[t].before[w]
                            /\ t < Len(doc'.steps) /\ doc'.steps[t + 1] = doc.steps[t + 1]
                        /\ ~Known(doc, t, w) /\ <<t, w>> \notin fresh => ~Known(doc', t, w)
        BY DEF Follows
    <2>1. w \in Undisturbed /\ w \in Variants
        BY <1>9
    <2>2. CASE doc' = doc
        BY <1>1, <2>1, <2>2 DEF CopiesOK, Checkpoints
    <2>3. CASE doc' = d /\ disturbed' = disturbed \cup E!Forgotten(d)
        <3>1. Known(doc, t, w) => Known(d, t, w)
            BY <2>1, <2>3 DEF E!Forgotten, Known, Undisturbed
        <3>2. CASE t = s /\ w = v
            BY <1>14, <2>1, <2>3, <3>2
        <3>3. CASE t # s \/ w # v
            BY <1>13, <2>1, <2>3, <3>1, <3>3
        <3> QED BY <3>2, <3>3
    <2> QED BY <1>5, <2>2, <2>3
<1>16. CopyOK(d, doc', hist, Undisturbed')
    <2> SUFFICES ASSUME doc'.exists, NEW t \in E!Steps, NEW w \in Undisturbed', Known(d, t, w)
                 PROVE  /\ d.runs[t].before[w] = doc'.runs[t].before[w]
                        /\ t < Len(doc'.steps) /\ d.steps[t + 1] = doc'.steps[t + 1]
        BY <1>11 DEF CopyOK, Agrees
    <2>1. w \in Undisturbed /\ w \in Variants
        BY <1>9
    <2>2. CASE doc' = d
        BY <1>11, <2>1, <2>2 DEF Checkpoints
    <2>3. CASE doc' = doc /\ disturbed' = disturbed \cup {v}
        <3>1. w # v
            BY <2>3 DEF Undisturbed
        <3> QED BY <1>10, <1>13, <2>1, <2>3, <3>1
    <2> QED BY <1>5, <1>10, <2>2, <2>3
<1>17. ExperimentsType'
    <2>1. \A q \in Runs : run'[q].status = run[q].status /\ run'[q].step = run[q].step
        BY <1>8
    <2> QED BY <1>1, <1>6, <1>8, <1>10, <2>1 DEF ExperimentsType, RequestOK, E!Active
<1>18. OneRun'
    BY <1>1, <1>8 DEF OneRun, E!Active
<1>19. CopiesOK'
    <2>1. request.op # "none" => CopyOK(request.copy, doc', hist, Undisturbed')
        BY <1>1, <1>9, <1>10, <1>15, CopiesFollow DEF CopiesOK
    <2>2. ASSUME NEW q \in Runs PROVE CopyOK(run'[q].copy, doc', hist, Undisturbed')
        <3>1. CASE q = r
            BY <1>8, <1>16, <3>1
        <3>2. CASE q # r
            <4>1. CopyOK(run[q].copy, doc, hist, Undisturbed) /\ run'[q] = run[q]
                BY <1>1, <1>8, <3>2 DEF CopiesOK
            <4> QED BY <1>9, <1>10, <1>15, <4>1, CopiesFollow
        <3> QED BY <3>1, <3>2
    <2> QED BY <1>6, <1>12, <2>1, <2>2 DEF CopiesOK
<1>20. ASSUME NEW w \in Variants, w # v
       PROVE  Before(run'[r], w) = Before(run[r], w) /\ Mode(run'[r]) = Mode(run[r])
    <2>1. run'[r].copy = d /\ run'[r].step = s /\ d.steps = copy.steps
        BY <1>7, <1>8
    <2>2. d.runs[s].before[w] = copy.runs[s].before[w]
        BY <1>2, <1>7, <1>20
    <2> QED BY <2>1, <2>2 DEF Before, Mode
<1>21. WorksOK'
    <2> SUFFICES ASSUME NEW q \in Runs, NEW w \in Variants
                 PROVE  Works(run'[q], w, doc', hist, Undisturbed')
        BY <1>6 DEF WorksOK
    <2>1. CASE q = r /\ w = v
        BY <1>8, <2>1 DEF Works
    <2>2. CASE q # r \/ w # v
        <3>1. Works(run[q], w, doc, hist, Undisturbed)
            BY <1>1 DEF WorksOK
        <3>2. Works(run'[q], w, doc, hist, Undisturbed)
            <4>1. CASE q = r
                <5>1. /\ run'[r].at[w] = run[r].at[w] /\ run'[r].turns[w] = run[r].turns[w]
                      /\ Before(run'[r], w) = Before(run[r], w)
                      /\ run'[r].copy.steps = run[r].copy.steps /\ run'[r].copy.exists
                    BY <1>7, <1>8, <1>20, <2>2, <4>1
                <5> QED BY <1>8, <3>1, <4>1, <5>1 DEF Works
            <4> QED BY <1>8, <3>1, <4>1
        <3>3. ASSUME run'[q].at[w] # "idle"
              PROVE  run'[q].step \in E!Steps /\ <<run'[q].step, w>> \notin fresh
            <4>1. CASE q = r
                BY <1>2, <1>8, <2>2, <4>1
            <4>2. CASE q # r
                <5>1. run[q].status = "running" /\ run[q].step \in E!Steps
                    BY <1>8, <3>3, <4>2, OwnStep
                <5>2. run[q].step # s
                    BY <1>1, <1>2, <4>2, <5>1 DEF OneRun, E!Active
                <5> QED BY <1>8, <4>2, <5>1, <5>2
            <4> QED BY <4>1, <4>2
        <3> QED BY <1>9, <1>10, <1>15, <3>2, <3>3, WorkFollows
    <2> QED BY <2>1, <2>2
<1>22. Alone'
    <2>1. \A q \in Runs, w \in Variants : Busy(run'[q], w) => Busy(run[q], w)
        BY <1>8 DEF Busy
    <2> QED BY <1>1, <1>9, <2>1 DEF Alone
<1>23. TurnsOK'
    <2> SUFFICES ASSUME NEW q \in Runs, NEW w \in Undisturbed'
                 PROVE  Turns(run'[q], w, hist[w], given[w])
        BY <1>6 DEF TurnsOK
    <2>1. w \in Variants /\ Turns(run[q], w, hist[w], given[w])
        BY <1>1, <1>9 DEF TurnsOK
    <2>2. CASE q = r /\ w = v
        BY <1>8, <2>2 DEF Turns
    <2>3. CASE q = r /\ w # v
        <3>1. /\ run'[r].at[w] = run[r].at[w] /\ run'[r].turns[w] = run[r].turns[w]
              /\ Before(run'[r], w) = Before(run[r], w) /\ Mode(run'[r]) = Mode(run[r])
              /\ run'[r].step = run[r].step
            BY <1>8, <1>20, <2>1, <2>3
        <3> QED BY <2>1, <2>3, <3>1 DEF Turns, RecordedBefore
    <2> QED BY <1>8, <2>1, <2>2, <2>3
<1>24. TranscriptsOK'
    <2> SUFFICES ASSUME NEW w \in Undisturbed'
                 PROVE  Transcript(hist[w], w, doc', Writing(w)', given[w])
        BY <1>6 DEF TranscriptsOK
    <2>1. w \in Variants /\ w \in Undisturbed /\ Transcript(hist[w], w, doc, Writing(w), given[w])
        BY <1>1, <1>9 DEF TranscriptsOK
    <2>2. \A t \in E!Steps : <<t, w>> \notin fresh => (t \in Writing(w) => t \in Writing(w)')
        <3> SUFFICES ASSUME NEW q \in Runs, run[q].at[w] = "written", <<run[q].step, w>> \notin fresh
                     PROVE  run'[q].at[w] = "written" /\ run'[q].step = run[q].step
            BY DEF Writing
        <3>1. q # r \/ w # v
            OBVIOUS
        <3> QED BY <1>8, <2>1, <3>1
    <2>3. ASSUME NEW t \in E!Steps, <<t, w>> \in fresh, ~Known(doc, t, w),
                 hist[w].state = "attached", doc.exists
          PROVE  /\ ~Known(doc', t, w) => Never(hist[w].turns, t, given[w]) \/ t \in Writing(w)'
                 /\ Known(doc', t, w) =>
                     /\ After(hist[w].turns, t, doc'.runs[t].before[w], given[w])
                     /\ doc'.runs[t].before[w] = -1 => doc'.steps[t + 1] = "agent"
        <3>1. t = s /\ w = v
            BY <2>3
        <3>2. doc' = d
            BY <1>5, <2>3, <3>1 DEF Undisturbed
        <3>3. Known(d, s, v)
            <4>1. b # E!Unknown
                BY <1>3, Numbers
            <4> QED BY <1>7, <4>1 DEF Known
        <3>4. After(hist[v].turns, s, b, given[v]) /\ (b = -1 => Mode(run[r]) = "agent")
            BY <1>1, <2>1, <2>3, <3>1 DEF TurnsOK, Turns, b
        <3>5. Mode(run[r]) = d.steps[s + 1]
            BY <1>7 DEF Mode
        <3> QED BY <1>7, <3>1, <3>2, <3>3, <3>4, <3>5
    <2>4. CASE doc.exists
        BY <1>15, <2>1, <2>2, <2>3, <2>4, TranscriptFollows
    <2>5. CASE ~doc.exists
        BY <1>1, <2>1, <2>5 DEF ExperimentsType, Transcript
    <2> QED BY <2>4, <2>5
<1> QED BY <1>17, <1>18, <1>19, <1>21, <1>22, <1>23, <1>24 DEF ExperimentsInv

--------------------------------------------------------------------------------
(* Variants come and go *)

LEMMA RowChanged ==
    ASSUME ExperimentsInv, NEW v \in Variants, hist' \in [Variants -> Rows],
           \A w \in Variants : w # v => hist'[w] = hist[w],
           hist'[v].state # "unused", hist'[v].state # "attached" => hist'[v].turns = <<>>,
           UNCHANGED <<account, doc, run>>, request' = request \/ request' = E!NoRequest,
           disturbed \subseteq disturbed', outrun \subseteq outrun',
           given' \in [Variants -> Nat], \A w \in Variants : w # v => given'[w] = given[w],
           hist'[v].state = "attached" =>
              /\ doc.exists /\ \A r \in Runs : run[r].at[v] = "idle"
              /\ \A s \in E!Steps :
                    ~Known(doc, s, v) /\ (v \in Undisturbed' => Never(hist'[v].turns, s, given'[v]))
    PROVE  ExperimentsInv'
<1>1. /\ ExperimentsType /\ CopiesOK /\ WorksOK /\ OneRun /\ Alone /\ TurnsOK /\ TranscriptsOK
    BY DEF ExperimentsInv
<1>2. Undisturbed' \in SUBSET Undisturbed /\ Undisturbed \in SUBSET Variants
    BY FewerUndisturbed
<1>3. \A w \in Variants : hist[w].state # "unused" => hist'[w].state # "unused"
    OBVIOUS
<1>4. ExperimentsType'
    <2>1. \A w \in Variants : /\ hist'[w].state = "attached" => doc.exists
                              /\ hist'[w].state # "attached" => hist'[w].turns = <<>>
        BY <1>1 DEF ExperimentsType
    <2> QED BY <1>1, <2>1 DEF ExperimentsType, RequestOK, E!NoRequest, E!Active
<1>5. OneRun' /\ Alone'
    BY <1>1, <1>2 DEF OneRun, Alone, E!Active
<1>6. CopiesOK'
    <2>1. ASSUME NEW copy, CopyOK(copy, doc, hist, Undisturbed)
          PROVE  CopyOK(copy, doc, hist', Undisturbed')
        BY <1>2, <1>3, <2>1 DEF CopyOK, Checkpoints, Agrees
    <2>2. Checkpoints(doc, hist')
        BY <1>1, <1>3 DEF CopiesOK, Checkpoints
    <2>3. request'.op # "none" => CopyOK(request'.copy, doc, hist', Undisturbed')
        BY <1>1, <2>1 DEF CopiesOK, E!NoRequest
    <2>4. \A r \in Runs : CopyOK(run[r].copy, doc, hist', Undisturbed')
        BY <1>1, <2>1 DEF CopiesOK
    <2> QED BY <2>2, <2>3, <2>4 DEF CopiesOK
<1>7. WorksOK'
    BY <1>1, <1>2, <1>3 DEF WorksOK, Works
<1>8. TurnsOK'
    <2> SUFFICES ASSUME NEW r \in Runs, NEW w \in Undisturbed' 
                 PROVE  Turns(run[r], w, hist'[w], given'[w])
        BY DEF TurnsOK
    <2>1. Turns(run[r], w, hist[w], given[w]) /\ w \in Variants
        BY <1>1, <1>2 DEF TurnsOK
    <2>2. CASE w = v
        BY <2>2 DEF Turns
    <2> QED BY <2>1, <2>2
<1>9. TranscriptsOK'
    <2> SUFFICES ASSUME NEW w \in Undisturbed'
                 PROVE  Transcript(hist'[w], w, doc, Writing(w), given'[w])
        BY DEF TranscriptsOK, Writing
    <2>1. Transcript(hist[w], w, doc, Writing(w), given[w]) /\ w \in Variants
        BY <1>1, <1>2 DEF TranscriptsOK
    <2>2. CASE w = v
        BY <2>2 DEF Transcript, Never, AtMostOnce
    <2> QED BY <2>1, <2>2
<1> QED BY <1>4, <1>5, <1>6, <1>7, <1>8, <1>9 DEF ExperimentsInv

LEMMA ECardinality == ASSUME NEW S PROVE E!Cardinality(S) = Cardinality(S)
BY Zenon DEF Cardinality, E!Cardinality

\* The turns that a newcomer is given are of another transcript.
LEMMA LineageIsMessages ==
    ASSUME hist \in [Variants -> Rows] PROVE E!Lineage(E!Attached) \in Seq(Message)
<1>1. CASE E!Attached = {}
    BY <1>1 DEF E!Lineage
<1>2. CASE E!Attached # {}
    <2> DEFINE first == hist[CHOOSE v \in E!Attached : TRUE].turns
               shared == {i \in DOMAIN first : /\ first[i].role = "user"
                            /\ \A v \in E!Attached :
                                  E!IsPrefix(SubSeq(first, 1, i), hist[v].turns)}
    <2>1. (CHOOSE v \in E!Attached : TRUE) \in Variants
        BY <1>2 DEF E!Attached
    <2>2. first \in Seq(Message)
        BY <2>1 DEF Rows
    <2>3. E!Lineage(E!Attached) = E!Sublist(first, shared)
        BY <1>2 DEF E!Lineage
    <2>4. shared \in SUBSET DOMAIN first
        OBVIOUS
    <2> HIDE DEF first, shared
    <2>5. ASSUME NEW k PROVE E!Nth(shared, k) = Nth(shared, k)
        BY ECardinality DEF E!Nth, Nth
    <2>6. E!Sublist(first, shared) = Sublist(first, shared)
        BY <2>5, ECardinality DEF E!Sublist, Sublist
    <2> QED BY <2>2, <2>3, <2>4, <2>6, SublistFacts
<1> QED BY <1>1, <1>2

LEMMA AddVariantKeeps == ExperimentsInv /\ E!AddVariant => ExperimentsInv'
<1> SUFFICES ASSUME ExperimentsInv, E!AddVariant PROVE ExperimentsInv'
    OBVIOUS
<1>1. /\ ExperimentsType /\ CopiesOK /\ WorksOK /\ hist \in [Variants -> Rows]
      /\ account \in Accounts /\ doc.exists /\ given \in [Variants -> Nat]
    BY DEF ExperimentsInv, ExperimentsType, RequestOK, E!AddVariant
<1> DEFINE turns == E!Lineage(E!Attached)
<1>2. /\ request' = E!NoRequest /\ UNCHANGED <<account, doc, run, disturbed, outrun>>
      /\ \/ UNCHANGED <<hist, given>>
         \/ \E v \in Variants :
              /\ hist[v].state = "unused"
              /\ hist' = [hist EXCEPT ![v] = E!NewVariant(turns)]
              /\ given' = [given EXCEPT ![v] = Len(turns)]
    BY DEF E!AddVariant
<1>3. CASE UNCHANGED <<hist, given>>
    <2>1. RequestOK' /\ request'.op = "none"
        BY <1>2 DEF RequestOK, E!NoRequest
    <2> QED BY <1>1, <1>2, <1>3, <2>1, SteadyRuns
<1>4. ASSUME NEW v \in Variants, hist[v].state = "unused",
             hist' = [hist EXCEPT ![v] = E!NewVariant(turns)],
             given' = [given EXCEPT ![v] = Len(turns)]
      PROVE  ExperimentsInv'
    <2>1. turns \in Seq(Message)
        BY <1>1, LineageIsMessages
    <2> HIDE DEF turns
    <2>2. E!NewVariant(turns) \in Rows /\ E!NewVariant(turns).state = "attached"
          /\ E!NewVariant(turns).turns = turns
        BY <2>1 DEF E!NewVariant, Rows
    <2>3. /\ hist' \in [Variants -> Rows] /\ \A w \in Variants : w # v => hist'[w] = hist[w]
          /\ hist'[v].state = "attached" /\ hist'[v].turns = turns
        BY <1>1, <1>4, <2>2
    <2>4. \A r \in Runs : run[r].at[v] = "idle"
        BY <1>1, <1>4 DEF WorksOK, Works
    <2>5. \A s \in E!Steps : ~Known(doc, s, v)
        BY <1>1, <1>4 DEF CopiesOK, Checkpoints
    <2>6. /\ given' \in [Variants -> Nat] /\ \A w \in Variants : w # v => given'[w] = given[w]
          /\ given'[v] = Len(turns)
        BY <1>1, <1>4, <2>1
    <2>7. \A s \in E!Steps : Never(turns, s, given'[v])
        BY <2>1, <2>6 DEF Never
    <2> QED BY <1>1, <1>2, <2>3, <2>4, <2>5, <2>6, <2>7, RowChanged
<1> QED BY <1>2, <1>3, <1>4

LEMMA DeleteVariantKeeps == ExperimentsInv /\ E!DeleteVariant => ExperimentsInv'
<1> SUFFICES ASSUME ExperimentsInv, E!DeleteVariant PROVE ExperimentsInv'
    OBVIOUS
<1> DEFINE row == [state |-> "deleted", turns |-> <<>>]
<1>1. hist \in [Variants -> Rows]
    BY DEF ExperimentsInv, ExperimentsType
<1>2. PICK v \in Variants : hist' = [hist EXCEPT ![v] = row]
    BY DEF E!DeleteVariant, E!Attached
<1>3. UNCHANGED <<account, doc, request, run, disturbed, outrun, given>>
    BY DEF E!DeleteVariant
<1>4. row \in Rows /\ row.state = "deleted" /\ row.turns = <<>>
    BY DEF Rows
<1> HIDE DEF row
<1>5. /\ hist' \in [Variants -> Rows] /\ \A w \in Variants : w # v => hist'[w] = hist[w]
      /\ hist'[v] = row
    BY <1>1, <1>2, <1>4
<1>6. /\ hist'[v].state # "unused" /\ hist'[v].state # "attached" /\ hist'[v].turns = <<>>
    BY <1>4, <1>5
<1>7. given' \in [Variants -> Nat] /\ given' = given
    BY <1>3 DEF ExperimentsInv, ExperimentsType
<1> QED BY <1>3, <1>5, <1>6, <1>7, RowChanged

\* Nothing is known of the variants of a new document.
LEMMA CreateExperimentKeeps == ExperimentsInv /\ E!Create => ExperimentsInv'
<1> SUFFICES ASSUME ExperimentsInv, E!Create PROVE ExperimentsInv'
    OBVIOUS
<1>1. /\ ExperimentsType /\ CopiesOK /\ WorksOK /\ OneRun /\ hist \in [Variants -> Rows]
      /\ account \in Accounts /\ ~doc.exists /\ request.op = "none"
      /\ \A v \in Variants : hist[v].state = "unused"
    BY DEF ExperimentsInv, ExperimentsType, E!Create, E!Idle
<1>2. UNCHANGED <<account, request, run, disturbed, outrun, given>>
    BY DEF E!Create
<1>3. PICK kind \in {"text", "session"}, vs \in SUBSET Variants :
        E!NewExperiment(vs, E!SourceTurns(kind))
    BY DEF E!Create
<1> DEFINE turns == E!SourceTurns(kind)
<1>4. turns \in Seq(Message) /\ \A s \in E!Steps, g \in Nat : Never(turns, s, g)
    <2>1. CASE kind = "session"
        <3> DEFINE m == E!User(E!Unknown)
                   n == E!Assistant(E!Unknown)
        <3>1. turns = <<m, n>>
            BY <2>1 DEF E!SourceTurns
        <3>2. E!Unknown \in Int
            BY Numbers
        <3>3. m \in Message /\ n \in Message
            BY <3>2, Messages
        <3>4. \A s \in E!Steps : m # E!User(s) /\ n # E!User(s)
            BY <3>2, Numbers, Messages
        <3> HIDE DEF m, n, turns
        <3> QED BY <3>1, <3>3, <3>4 DEF Never
    <2>2. CASE kind # "session"
        BY <2>2 DEF E!SourceTurns, Never
    <2> QED BY <2>1, <2>2
<1> HIDE DEF turns
<1>5. E!NewVariant(turns) \in Rows /\ E!NewVariant(turns).turns = turns
      /\ E!NewVariant(turns).state = "attached"
    BY <1>4 DEF E!NewVariant, Rows
<1>6. hist' = [v \in Variants |-> IF v \in vs THEN E!NewVariant(turns) ELSE hist[v]]
    BY <1>3 DEF E!NewExperiment, turns
<1>7. /\ hist' \in [Variants -> Rows]
      /\ \A v \in Variants :
            \/ hist'[v].state = "attached" /\ hist'[v].turns = turns
            \/ hist'[v] = hist[v]
    BY <1>1, <1>5, <1>6
<1>8. doc' \in Document /\ doc'.exists /\ doc'.runs = E!NoDocument.runs
    <2> DEFINE d == [E!NoDocument EXCEPT !.exists = TRUE]
    <2>1. doc' = [d EXCEPT !.owner = account]
        BY <1>3 DEF E!NewExperiment, E!WithOwner
    <2>2. d \in Document /\ d.exists /\ d.runs = E!NoDocument.runs
        BY NewDocument DEF Document
    <2> HIDE DEF d
    <2> QED BY <1>1, <2>1, <2>2 DEF Document
<1>9. \A s \in E!Steps, v \in Variants : ~Known(doc', s, v)
    BY <1>8, NewDocument DEF Known
<1>10. Undisturbed' = Undisturbed /\ Undisturbed \in SUBSET Variants
    BY <1>2 DEF Undisturbed
<1>11. ExperimentsType'
    <2>1. \A v \in Variants : hist'[v].state # "attached" => hist'[v].turns = <<>>
        BY <1>1, <1>7 DEF ExperimentsType
    <2> QED BY <1>1, <1>2, <1>7, <1>8, <2>1 DEF ExperimentsType, RequestOK, E!Active
<1>12. CopiesOK'
    <2>1. ASSUME NEW r \in Runs PROVE CopyOK(run[r].copy, doc', hist', Undisturbed)
        <3>1. \A s \in E!Steps, v \in Variants : ~Known(run[r].copy, s, v)
            BY <1>1 DEF CopiesOK, CopyOK, Checkpoints
        <3> QED BY <1>10, <3>1 DEF CopyOK, Checkpoints, Agrees
    <2> QED BY <1>1, <1>2, <1>9, <1>10, <2>1 DEF CopiesOK, Checkpoints
<1>13. \A r \in Runs, v \in Variants : run[r].at[v] = "idle"
    BY <1>1 DEF WorksOK, Works
<1>14. WorksOK' /\ OneRun' /\ Alone' /\ TurnsOK'
    BY <1>1, <1>2, <1>10, <1>13 DEF WorksOK, Works, OneRun, E!Active, Alone, Busy, TurnsOK, Turns
<1>15. TranscriptsOK'
    <2> SUFFICES ASSUME NEW v \in Undisturbed
                 PROVE  Transcript(hist'[v], v, doc', Writing(v)', given[v])
        BY <1>2, <1>10 DEF TranscriptsOK
    <2>1. v \in Variants
        BY <1>10
    <2>2. CASE hist'[v] = hist[v]
        BY <1>1, <2>1, <2>2 DEF Transcript
    <2>3. CASE hist'[v].turns = turns
        <3>1. given[v] \in Nat
            BY <1>1, <2>1 DEF ExperimentsType
        <3>2. \A s \in E!Steps : Never(hist'[v].turns, s, given[v])
            BY <1>4, <2>3, <3>1
        <3> QED BY <1>9, <2>1, <3>2 DEF Transcript, Never, AtMostOnce
    <2> QED BY <1>7, <2>1, <2>2, <2>3
<1> QED BY <1>11, <1>12, <1>14, <1>15 DEF ExperimentsInv

\* Without the document there is no transcript.
LEMMA DeleteExperimentKeeps == ExperimentsInv /\ E!DeleteExperiment => ExperimentsInv'
<1> SUFFICES ASSUME ExperimentsInv, E!DeleteExperiment PROVE ExperimentsInv'
    OBVIOUS
<1> DEFINE row == [state |-> "deleted", turns |-> <<>>]
<1>1. /\ ExperimentsType /\ CopiesOK /\ WorksOK /\ OneRun /\ Alone /\ hist \in [Variants -> Rows]
      /\ request.op = "none"
    BY DEF ExperimentsInv, ExperimentsType, E!DeleteExperiment, E!Admit, E!Idle
<1>2. /\ doc' = E!NoDocument /\ UNCHANGED <<account, request, run, disturbed, outrun, given>>
      /\ hist' = [v \in Variants |-> IF v \in E!Attached THEN row ELSE hist[v]]
    BY DEF E!DeleteExperiment
<1>3. row \in Rows /\ row.state = "deleted" /\ row.turns = <<>>
    BY DEF Rows
<1> HIDE DEF row
<1>4. /\ hist' \in [Variants -> Rows]
      /\ \A v \in Variants : /\ hist[v].state # "unused" => hist'[v].state # "unused"
                             /\ hist'[v].state # "attached" /\ hist'[v].turns = <<>>
    BY <1>1, <1>2, <1>3 DEF E!Attached, ExperimentsType
<1>5. Undisturbed' = Undisturbed /\ Undisturbed \in SUBSET Variants
    BY <1>2 DEF Undisturbed
<1>6. ExperimentsType'
    BY <1>1, <1>2, <1>4, NewDocument DEF ExperimentsType, RequestOK, E!Active
<1>7. CopiesOK'
    <2>1. \A r \in Runs : CopyOK(run[r].copy, doc', hist', Undisturbed)
        BY <1>1, <1>2, <1>4, NewDocument DEF CopiesOK, CopyOK, Checkpoints, Agrees
    <2>2. Checkpoints(doc', hist')
        BY <1>2, NewDocument DEF Checkpoints
    <2> QED BY <1>1, <1>2, <1>5, <2>1, <2>2 DEF CopiesOK
<1>8. WorksOK' /\ OneRun' /\ Alone'
    BY <1>1, <1>2, <1>4, <1>5, NewDocument DEF WorksOK, Works, OneRun, E!Active, Alone
<1>9. TurnsOK' /\ TranscriptsOK'
    BY <1>4, <1>5 DEF TurnsOK, Turns, TranscriptsOK, Transcript
<1> QED BY <1>6, <1>7, <1>8, <1>9 DEF ExperimentsInv

--------------------------------------------------------------------------------
LEMMA ExperimentsKeep == ExperimentsInv /\ [E!Next]_(E!vars) => ExperimentsInv'
<1> SUFFICES ASSUME ExperimentsInv, [E!Next]_(E!vars) PROVE ExperimentsInv'
    OBVIOUS
<1>1. ExperimentsType /\ RequestOK /\ account \in Accounts
    BY DEF ExperimentsInv, ExperimentsType
<1>2. CASE UNCHANGED E!vars
    <2>1. UNCHANGED <<account, doc, hist, request, run, disturbed, outrun, given>>
        BY <1>2 DEF E!vars
    <2>2. RequestOK'
        BY <1>1, <2>1 DEF RequestOK
    <2> QED BY <1>1, <2>1, <2>2, SteadyRuns
<1>3. CASE E!SwitchAccount
    <2>1. UNCHANGED <<doc, hist, request, run, disturbed, outrun, given>> /\ account' \in Accounts
        BY <1>3 DEF E!SwitchAccount
    <2>2. RequestOK'
        BY <1>1, <2>1 DEF RequestOK
    <2> QED BY <2>1, <2>2, SteadyRuns
<1>4. ASSUME NEW r \in Runs, E!CancelRun(r) \/ E!GetRun(r) \/ E!Execute(r) \/ E!Finish(r)
      PROVE  ExperimentsInv'
    BY <1>4, CancelRunKeeps, GetRunKeeps, ExecuteKeeps, FinishKeeps
<1>5. ASSUME NEW r \in Runs, NEW v \in Variants,
             \/ E!StartVariant(r, v) \/ E!TurnFails(r, v)
             \/ E!WriteTurn(r, v) \/ E!RecordProgress(r, v)
      PROVE  ExperimentsInv'
    BY <1>5, StartVariantKeeps, TurnFailsKeeps, WriteTurnKeeps, RecordProgressKeeps
<1>6. CASE \/ E!BeginAppend \/ E!BeginEdit \/ E!BeginAdd \/ E!BeginRun
    BY <1>6, BeginKeeps
<1>7. CASE \/ E!Create \/ E!AppendStep \/ E!UpdateExperiment \/ E!AddVariant \/ E!StartRun
           \/ E!DeleteVariant \/ E!DeleteExperiment \/ E!Crash
    BY <1>7, CreateExperimentKeeps, AppendStepKeeps, UpdateExperimentKeeps, AddVariantKeeps,
       StartRunKeeps, DeleteVariantKeeps, DeleteExperimentKeeps, CrashKeeps
<1> QED BY <1>2, <1>3, <1>4, <1>5, <1>6, <1>7 DEF E!Next, E!Thread

LEMMA ExperimentsInvAsked == ExperimentsInv => RetriesTruncate
<1> DEFINE Own(v, s) == {i \in E!Asked(v, s) : i > given[v]}
<1> SUFFICES ASSUME ExperimentsInv, NEW v \in Undisturbed, NEW s \in E!Steps
             PROVE  E!Cardinality(Own(v, s)) <= 1
    BY DEF RetriesTruncate, E!RetriesTruncate, Undisturbed
<1>1. v \in Variants /\ hist[v] \in Rows /\ Transcript(hist[v], v, doc, Writing(v), given[v])
      /\ (hist[v].state # "attached" => hist[v].turns = <<>>)
    BY DEF ExperimentsInv, ExperimentsType, TranscriptsOK, Undisturbed
<1>2. AtMostOnce(hist[v].turns, s, given[v])
    BY <1>1 DEF Transcript, AtMostOnce
<1>3. \A i, j \in Own(v, s) : i = j
    BY <1>2 DEF E!Asked, AtMostOnce
<1> HIDE DEF Own
<1>4. CASE Own(v, s) = {}
    BY <1>4, FS_EmptySet, ECardinality
<1>5. CASE Own(v, s) # {}
    <2>1. PICK i \in Own(v, s) : TRUE
        BY <1>5
    <2>2. Own(v, s) = {i}
        BY <1>3, <2>1
    <2>3. Cardinality({i}) = 1
        BY FS_Singleton
    <2> QED BY <2>2, <2>3, ECardinality
<1> QED BY <1>4, <1>5

\* A retry or a rerun cuts the transcript at the checkpoint of its step, so that the buyer's
\* message of a step comes once at most after the turns that the variant was given when it
\* was added, whatever runs, requests, cancellations and crashes come between, for every
\* variant whose checkpoint was neither lost nor raced nor left behind by its turns
\* (api/routers/experiments.py:679, :686; for what is given, experiments.py:299-318).
THEOREM AskedAtMostOnce == E!Spec => []RetriesTruncate
<1>1. ExperimentsInv => RetriesTruncate
    BY ExperimentsInvAsked
<1>2. E!Spec => []ExperimentsInv
    BY ExperimentsBegin, ExperimentsKeep, PTL DEF E!Spec
<1> QED BY <1>1, <1>2, PTL

--------------------------------------------------------------------------------
(* The workbench *)

\* Each part of the workbench behaves as its own module says: the others share no variable
\* with it.
LEMMA PartsOfWorkbench == WorkbenchSpec => Spec /\ A!Spec /\ T!Spec /\ E!Spec
<1>1. WorkbenchInit => Init /\ A!Init /\ T!Init /\ E!Init
    BY DEF WorkbenchInit
<1>2. [WorkbenchNext]_workbench => [Next]_vars
    BY DEF WorkbenchNext, workbench, suggestions, vars
<1>3. [WorkbenchNext]_workbench => [A!Next]_(A!vars)
    BY DEF WorkbenchNext, workbench, agents, A!vars
<1>4. [WorkbenchNext]_workbench => [T!Next]_(T!vars)
    BY DEF WorkbenchNext, workbench, translations, T!vars
<1>5. [WorkbenchNext]_workbench => [E!Next]_(E!vars)
    BY DEF WorkbenchNext, workbench, experiments, E!vars
<1> QED BY <1>1, <1>2, <1>3, <1>4, <1>5, PTL
        DEF WorkbenchSpec, Spec, A!Spec, T!Spec, E!Spec

\* The invariants and the action property of the run of Workbench hold together, over
\* everything its four parts can do.
THEOREM WorkbenchIsSafe ==
    WorkbenchSpec =>
        /\ [](/\ OneOfBatch /\ SentOnce /\ DefaultsDelivered /\ AnswersPinned
              /\ OwnTranslation /\ RetriesTruncate)
        /\ SuccessIsComplete
BY PartsOfWorkbench, OneAcceptedReply, SentAtMostOnce, DefaultsAreDelivered, AnswersArePinned,
   CacheIsOwn, AskedAtMostOnce, SuccessesAreComplete, PTL
================================================================================
