----------------------------- MODULE Suggestions -----------------------------
(***************************************************************************)
(* From a suggested reply to an outbox task.  The suggestion agent records *)
(* a batch of intents (suggestions.py, runner.py, effect_dispatch.py,      *)
(* intent_store.py); the page inserts one into the draft and submits it    *)
(* under an idempotency key it keeps in the browser (useOutbox.ts,         *)
(* OutboxWorkspace.tsx); the server creates the task and then, in a second *)
(* transaction, marks the intent (conversations.py, send_message).         *)
(*                                                                         *)
(* Requests may be lost, late or answered after the page was reloaded; the *)
(* server may fail between two of its writes.  Writes of the server hold   *)
(* the account lock, so one request is one action.                         *)
(***************************************************************************)
EXTENDS Integers, Sequences, SequencesExt, FiniteSets

CONSTANTS
    Intents,     \* ids of intents; the reply of an intent is its text
    Keys,        \* idempotency keys, in the order the page draws them
    MaxRequests, \* bound: actions of the user
    MaxFaults    \* bound: lost or late messages, failing writes

NoText == 0
NoIntent == 0
NoKey == 0

ASSUME SuggestionsAssumption ==
    NoIntent \notin Intents /\ IsFiniteSet(Keys) /\ Keys \subseteq 1..Cardinality(Keys)

Texts == Intents

VARIABLES
    intents,     \* app_agent_intent
    tasks,       \* app_outbox
    shown,       \* the suggestions the page shows
    draft,       \* the reply box with the intent it came from
    saved,       \* maa:outbox-intents in localStorage
    dialog,      \* the submission that is being confirmed
    waiting,     \* the key the page waits for
    posts,       \* POST requests under way
    left,        \* user actions left
    faults,      \* faults left
    again        \* history: deliberate new sends of a text

vars == <<intents, tasks, shown, draft, saved, dialog, waiting, posts, left, faults, again>>

NoRow == [status |-> "absent", batch |-> 0]
NoTask == [text |-> NoText, intent |-> NoIntent]
NoDialog == [text |-> NoText, intent |-> NoIntent, key |-> NoKey, again |-> FALSE]

Created == {k \in Keys : tasks[k] # NoTask}
Saved == {saved[i].key : i \in DOMAIN saved}
Drawn == Saved \cup Created \cup {p.key : p \in posts} \cup {dialog.key}
NewKey == CHOOSE k \in Keys \ Drawn : \A j \in Keys \ Drawn : k <= j

User == left > 0 /\ left' = left - 1
Fault == faults > 0 /\ faults' = faults - 1

----------------------------------------------------------------------------
(* The suggestion agent *)

Requested(batch) == [status |-> "requested", batch |-> batch]

\* A run of the agent has a batch of its own.
Batches == {intents[i].batch : i \in Intents}
Batch == Cardinality(Batches)

\* The replies that a run may make; a run without any is an error.
Replies == (SUBSET {i \in Intents : intents[i] = NoRow}) \ {{}}

\* IntentDispatcher.dispatch: one transaction for each reply.  Simulated runs record
\* nothing, and a reply without a scope is no intent.
Dispatched(replies) ==
    [i \in Intents |-> IF i \in replies THEN Requested(Batch) ELSE intents[i]]

\* The intents are recorded before the answer to the page.
Suggest ==
    /\ User
    /\ \E replies \in Replies :
        /\ intents' = Dispatched(replies)
        /\ \/ shown' = replies /\ UNCHANGED faults
           \/ Fault /\ UNCHANGED shown       \* a failure or a lost answer
    /\ UNCHANGED <<tasks, draft, saved, dialog, waiting, posts, again>>

----------------------------------------------------------------------------
(* The page *)

InsertSuggestion ==
    /\ User /\ dialog = NoDialog
    /\ \E i \in shown : draft' = [text |-> i, intent |-> i]
    /\ UNCHANGED <<intents, tasks, shown, saved, dialog, waiting, posts, faults, again>>

\* Editing detaches the text from its intent.
SetDraft ==
    /\ User /\ dialog = NoDialog
    /\ \E text \in Texts \ {draft.text} : draft' = [text |-> text, intent |-> NoIntent]
    /\ UNCHANGED <<intents, tasks, shown, saved, dialog, waiting, posts, faults, again>>

\* The composer's send button: takePendingIntent reads and clears the intent.
OpenSubmission ==
    /\ User /\ dialog = NoDialog /\ draft.text # NoText
    /\ dialog' = [NoDialog EXCEPT !.text = draft.text, !.intent = draft.intent]
    /\ draft' = [draft EXCEPT !.intent = NoIntent]
    /\ UNCHANGED <<intents, tasks, shown, saved, waiting, posts, faults, again>>

\* "New send" of a task that is over.
OpenNewSend ==
    /\ User /\ dialog = NoDialog /\ Keys \ Drawn # {}
    /\ \E k \in Created :
        dialog' = [NoDialog EXCEPT !.text = tasks[k].text, !.key = NewKey, !.again = TRUE]
    /\ UNCHANGED <<intents, tasks, shown, draft, saved, waiting, posts, faults, again>>

\* "Recover" of a saved submission that no task answers to.
OpenRecovery ==
    /\ User /\ dialog = NoDialog
    /\ \E i \in DOMAIN saved :
        /\ saved[i].key \notin Created
        /\ dialog' = [NoDialog EXCEPT !.text = saved[i].text, !.key = saved[i].key]
    /\ UNCHANGED <<intents, tasks, shown, draft, saved, waiting, posts, faults, again>>

CloseSubmission ==
    /\ dialog # NoDialog
    /\ dialog' = NoDialog
    /\ UNCHANGED <<intents, tasks, shown, draft, saved, waiting, posts, left, faults, again>>

PersistIntents(key, text) ==
    IF key \in Saved THEN saved ELSE Append(saved, [key |-> key, text |-> text])

\* Mutant of PriorKey: what is not among the tasks is taken for never submitted.
PriorKeyListed ==
    IF dialog.key # NoKey THEN dialog.key
    ELSE LET same == {i \in DOMAIN saved : saved[i].text = dialog.text /\ saved[i].key \in Created}
         IN  IF same = {} THEN NoKey ELSE saved[CHOOSE i \in same : \A j \in same : j <= i].key

\* The key of the submission this one continues: its own, or the latest saved one
\* of the same text.
PriorKey ==
    IF dialog.key # NoKey THEN dialog.key
    ELSE LET same == {i \in DOMAIN saved : saved[i].text = dialog.text}
         IN  IF same = {} THEN NoKey ELSE saved[CHOOSE i \in same : \A j \in same : j <= i].key

\* With no saved key, a listed task of the same text is continued.
Listed ==
    LET same == {k \in Created : tasks[k].text = dialog.text}
    IN  IF same = {} THEN NoKey ELSE CHOOSE k \in same : \A j \in same : j <= k

\* submit: reconcile with the list of tasks, save the key, and post.
Submit ==
    /\ dialog # NoDialog /\ waiting = NoKey
    /\ LET key == IF PriorKey # NoKey THEN PriorKey ELSE Listed
           drawn == IF key # NoKey THEN key ELSE NewKey
       IN  /\ key # NoKey \/ Keys \ Drawn # {}
           /\ saved' = PersistIntents(drawn, dialog.text)
           /\ again' = IF dialog.again /\ drawn \notin Saved
                       THEN [again EXCEPT ![dialog.text] = @ + 1] ELSE again
           /\ IF drawn \in Created
              THEN dialog' = NoDialog /\ UNCHANGED <<waiting, posts>>
              ELSE /\ waiting' = drawn
                   /\ posts' = posts \cup {[key |-> drawn, text |-> dialog.text,
                                            intent |-> dialog.intent]}
                   /\ UNCHANGED dialog
    /\ UNCHANGED <<intents, tasks, shown, draft, left, faults>>

\* A timeout or a broken connection: the key stays saved, the result is unknown.
GiveUp ==
    /\ waiting # NoKey /\ Fault
    /\ waiting' = NoKey
    /\ \/ UNCHANGED posts                                   \* the request is late
       \/ posts' = {p \in posts : p.key # waiting}          \* or lost
    /\ UNCHANGED <<intents, tasks, shown, draft, saved, dialog, left, again>>

\* The storage and the text of the draft survive.
Reload ==
    /\ User
    /\ shown' = {} /\ dialog' = NoDialog /\ waiting' = NoKey
    /\ draft' = [draft EXCEPT !.intent = NoIntent]
    /\ UNCHANGED <<intents, tasks, saved, posts, faults, again>>

----------------------------------------------------------------------------
(* The server *)

\* _accepted_intent: what a submission may accept.
AcceptedIntent(i) == i \in Intents => intents[i].status = "requested"

\* Mutant of Accept: the rest of the batch is left alone.
AcceptAlone(i) == [intents EXCEPT ![i].status = "accepted"]

\* IntentStore.transition to accepted: the rest of the batch is discarded.
Accept(i) ==
    [j \in Intents |->
        IF j = i THEN [intents[j] EXCEPT !.status = "accepted"]
        ELSE IF intents[j].batch = intents[i].batch /\ intents[j].status = "requested"
        THEN [intents[j] EXCEPT !.status = "discarded"] ELSE intents[j]]

\* OutboxStore.create: the row of the key, or none of that text.
CreateTask(p) ==
    IF tasks[p.key] = NoTask
    THEN [tasks EXCEPT ![p.key] = [text |-> p.text, intent |-> p.intent]] ELSE tasks

Answer(p, closes) ==
    /\ posts' = posts \ {p}
    /\ waiting' = IF waiting = p.key THEN NoKey ELSE waiting
    /\ dialog' = IF waiting = p.key /\ closes THEN NoDialog ELSE dialog

SendMessage(p) ==
    /\ \/ /\ ~AcceptedIntent(p.intent)                      \* 409
          /\ Answer(p, FALSE)
          /\ UNCHANGED <<intents, tasks, faults>>
       \/ /\ AcceptedIntent(p.intent)
          /\ tasks[p.key] \in {NoTask} \cup [text : {p.text}, intent : Intents \cup {NoIntent}]
          /\ tasks' = CreateTask(p)
          /\ \/ /\ intents' = IF p.intent = NoIntent THEN intents ELSE Accept(p.intent)
                /\ Answer(p, TRUE)
                /\ UNCHANGED faults
             \/ /\ p.intent # NoIntent /\ Fault             \* the mark fails, or a crash before it
                /\ \E closes \in BOOLEAN : Answer(p, closes)
                /\ UNCHANGED intents
    /\ UNCHANGED <<shown, draft, saved, left, again>>

----------------------------------------------------------------------------
Init ==
    /\ intents = [i \in Intents |-> NoRow]
    /\ tasks = [k \in Keys |-> NoTask]
    /\ shown = {}
    /\ draft = [text |-> NoText, intent |-> NoIntent]
    /\ saved = <<>>
    /\ dialog = NoDialog
    /\ waiting = NoKey
    /\ posts = {}
    /\ left = MaxRequests
    /\ faults = MaxFaults
    /\ again = [text \in Texts |-> 0]

Next ==
    \/ Suggest \/ InsertSuggestion \/ SetDraft \/ OpenSubmission \/ OpenNewSend \/ OpenRecovery
    \/ CloseSubmission \/ Submit \/ GiveUp \/ Reload
    \/ \E p \in posts : SendMessage(p)

Spec == Init /\ [][Next]_vars

----------------------------------------------------------------------------
\* A text is sent once, and once more for each deliberate new send: lost and late
\* requests, reloads and recoveries continue the submission they belong to
\* (stage3-outbox-contract.md:29-31).
SentOnce ==
    \A text \in Texts :
        Cardinality({k \in Created : tasks[k].text = text}) <= 1 + again[text]

\* One reply of a batch is accepted at most, its task exists, and the rest of the
\* batch is no longer offered (README.md:87).
OneOfBatch ==
    \A i \in Intents : intents[i].status = "accepted" =>
        /\ \E k \in Created : tasks[k].text = i
        /\ \A j \in Intents \ {i} : intents[j].batch = intents[i].batch
                => intents[j].status = "discarded"
=============================================================================
