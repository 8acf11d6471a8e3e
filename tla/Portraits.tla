----------------------------- MODULE Portraits ------------------------------
(***************************************************************************)
(* Customer portraits of one workspace (crm/customer_portrait_store.py,    *)
(* api/routers/portraits.py): a stage, the details of a loss and tags for  *)
(* each customer, changed in batches that name the customer and version a  *)
(* page has shown.  A batch is one transaction.  Requests may be late and  *)
(* may be delivered twice; meanwhile other pages write, tags are archived, *)
(* and a sync shows sessions or resolves their contact anew.               *)
(***************************************************************************)
EXTENDS Integers, FiniteSets, FiniteSetsExt, Functions

CONSTANTS
    Sids,           \* conversations
    Cids,           \* customers
    Tags,           \* ids of tags
    Names,          \* normalized names of tags
    Requests,       \* request ids, in the order the pages draw them
    Stages,         \* PORTRAIT_STAGES
    Reasons,        \* LOST_REASONS
    MaxEdits,       \* bound: operations on tags, steps of syncs
    MaxFaults       \* bound: requests delivered twice

NoCid == 0
NoTime == 0
Unset == "unset"
None == "none"

VARIABLES
    contact,        \* what resolve_contact_cid says of each session
    visible,        \* sessions in the ledger of the workspace
    portrait,       \* app_customer_portrait with the tag relations
    tag,            \* app_portrait_tag
    revision,       \* [portrait, tag]: the two revisions a page polls
    operation,      \* app_portrait_operation
    sent,           \* requests under way
    edits,          \* edits left
    faults          \* faults left

vars == <<contact, visible, portrait, tag, revision, operation, sent, edits, faults>>

DefaultRecord == [stage |-> "unknown", reason |-> None, lostAt |-> NoTime, tags |-> {}, version |-> 0]
NoOperation == [payload |-> None]
NoTag == [name |-> None, archived |-> FALSE]

Committed == {r \in Requests : operation[r] # NoOperation}
Now == Cardinality(Committed) + 1

----------------------------------------------------------------------------
(* A page *)

\* _normalize_changes: a batch that changes nothing, or adds and removes one tag,
\* is refused.  A page offers the tags of the catalog.
Changes ==
    {c \in [stage : Stages \cup {Unset}, reason : Reasons \cup {Unset},
            add : SUBSET {t \in Tags : tag[t] # NoTag /\ ~tag[t].archived},
            remove : SUBSET {t \in Tags : tag[t] # NoTag}] :
        /\ c.add \cap c.remove = {}
        /\ c.stage # Unset \/ c.reason # Unset \/ c.add # {} \/ c.remove # {}}

\* resolve_scope_contacts: the customer of each session of the ledger that has one.
Contacts == [s \in {t \in visible : contact[t] # NoCid} |-> contact[s]]

\* The sessions a page shows with a customer.
Editable == DOMAIN Contacts

\* A request for some of them, with what the page shows now.
Compose ==
    \E sids \in (SUBSET Editable) \ {{}}, changes \in Changes :
        LET unused == Requests \ (Committed \cup {q.id : q \in sent})
            r == Min(unused)
            targets == [s \in sids |-> [cid |-> contact[s], version |-> portrait[contact[s]].version]]
        IN  /\ unused # {}
            /\ sent' = sent \cup {[id |-> r, targets |-> targets, changes |-> changes,
                                   view |-> [c \in {contact[s] : s \in sids} |-> portrait[c]]]}
    /\ UNCHANGED <<contact, visible, portrait, tag, revision, operation, edits, faults>>

----------------------------------------------------------------------------
(* CustomerPortraitStore.apply *)

Payload(q) == [targets |-> q.targets, changes |-> q.changes]

CidsOf(q) == {q.targets[s].cid : s \in DOMAIN q.targets}

\* Every target is visible and still of its customer, at the version shown.
Matches(q) ==
    \A s \in DOMAIN q.targets :
        /\ s \in DOMAIN Contacts
        /\ Contacts[s] = q.targets[s].cid
        /\ q.targets[s].version = portrait[Contacts[s]].version

StageOf(record, changes) == IF changes.stage = Unset THEN record.stage ELSE changes.stage

\* The details of a loss are kept for lost customers only.
Maintainable(q) ==
    q.changes.reason = Unset \/ \A c \in CidsOf(q) : StageOf(portrait[c], q.changes) = "lost"

TagsUsable(changes) ==
    /\ \A t \in changes.add : tag[t] # NoTag /\ ~tag[t].archived
    /\ \A t \in changes.remove : tag[t] # NoTag

\* The record after the changes, its version apart.
Edited(record, changes) ==
    LET stage == StageOf(record, changes)
        lost == stage = "lost"
    IN  [record EXCEPT !.stage = stage,
            !.reason = IF ~lost THEN None ELSE IF changes.reason = Unset THEN @ ELSE changes.reason,
            !.lostAt = IF ~lost THEN NoTime
                       ELSE IF record.stage = "lost" /\ @ # NoTime THEN @ ELSE Now,
            !.tags = (@ \cup changes.add) \ changes.remove]

\* Mutant of Written: the version counts changes of the stage and its details only.
WrittenStage(record, changes) ==
    LET edited == Edited(record, changes) IN
    IF [edited EXCEPT !.tags = record.tags] = record THEN edited
    ELSE [edited EXCEPT !.version = @ + 1]

Written(record, changes) ==
    LET edited == Edited(record, changes) IN
    IF edited = record THEN record ELSE [edited EXCEPT !.version = @ + 1]

\* Mutant of Before: the snapshot is taken after the write.
BeforeAfter(q) == [c \in CidsOf(q) |-> Written(portrait[c], q.changes)]

\* The snapshot in the audit record.
Before(q) == [c \in CidsOf(q) |-> portrait[c]]

Commit(q) ==
    LET changed == {c \in CidsOf(q) : Written(portrait[c], q.changes) # portrait[c]} IN
    /\ portrait' = [c \in Cids |-> IF c \in CidsOf(q) THEN Written(portrait[c], q.changes)
                                   ELSE portrait[c]]
    /\ revision' = IF changed = {} THEN revision ELSE [revision EXCEPT !.portrait = @ + 1]
    /\ operation' = [operation EXCEPT ![q.id] =
          [payload |-> Payload(q), before |-> Before(q), view |-> q.view,
           version |-> [c \in changed |-> portrait[c].version + 1]]]

\* One delivery.  A request that is answered with the stored receipt, conflicts or
\* is invalid changes nothing.
Apply(q) ==
    /\ \/ sent' = sent \ {q} /\ UNCHANGED faults
       \/ faults > 0 /\ faults' = faults - 1 /\ UNCHANGED sent      \* and comes again
    /\ \/ /\ operation[q.id] = NoOperation
          /\ Matches(q) /\ Maintainable(q) /\ TagsUsable(q.changes)
          /\ Commit(q)
       \/ /\ \/ operation[q.id] # NoOperation
             \/ ~Matches(q) \/ ~Maintainable(q) \/ ~TagsUsable(q.changes)
          /\ UNCHANGED <<portrait, revision, operation>>
    /\ UNCHANGED <<contact, visible, tag, edits>>

----------------------------------------------------------------------------
(* Tags *)

Taken(name) == \E t \in Tags : tag[t].name = name

EditTag ==
    /\ edits > 0 /\ edits' = edits - 1
    /\ UNCHANGED <<contact, visible, portrait, operation, sent, faults>>

CreateTag ==
    /\ EditTag
    /\ \E t \in Tags, name \in Names :
        /\ tag[t] = NoTag /\ ~Taken(name)
        /\ tag' = [tag EXCEPT ![t] = [name |-> name, archived |-> FALSE]]
    /\ revision' = [revision EXCEPT !.tag = @ + 1]

BumpTags(t) ==
    revision' = IF tag'[t] = tag[t] THEN revision ELSE [revision EXCEPT !.tag = @ + 1]

UpdateTag ==
    /\ EditTag
    /\ \E t \in Tags :
        /\ tag[t] # NoTag
        /\ \E name \in {n \in Names : ~Taken(n)} \cup {tag[t].name}, archived \in BOOLEAN :
            tag' = [tag EXCEPT ![t] = [name |-> name, archived |-> archived]]
        /\ BumpTags(t)

----------------------------------------------------------------------------
(* What a sync does to the sessions *)

Sync ==
    /\ edits > 0 /\ edits' = edits - 1
    /\ \E s \in Sids :
        \/ visible' = visible \cup {s} /\ UNCHANGED contact
        \/ \E c \in Cids \cup {NoCid} : contact' = [contact EXCEPT ![s] = c] /\ UNCHANGED visible
    /\ UNCHANGED <<portrait, tag, revision, operation, sent, faults>>

Init ==
    /\ contact \in [Sids -> Cids]
    /\ visible = {Min(Sids)}
    /\ portrait = [c \in Cids |-> DefaultRecord]
    /\ tag = [t \in Tags |-> NoTag]
    /\ revision = [portrait |-> 0, tag |-> 0]
    /\ operation = [r \in Requests |-> NoOperation]
    /\ sent = {}
    /\ edits = MaxEdits
    /\ faults = MaxFaults

Next ==
    \/ Compose \/ CreateTag \/ UpdateTag \/ Sync
    \/ \E q \in sent : Apply(q)

Spec == Init /\ [][Next]_vars

----------------------------------------------------------------------------
\* A batch only overwrites what its page has shown: a customer another page changed
\* since, in stage, details or tags, rejects the whole batch
\* (customer_portrait_store.py:491).
StaleRefused ==
    [][\A c \in Cids : portrait'[c] # portrait[c] =>
        \E q \in sent : c \in DOMAIN q.view /\ q.view[c] = portrait[c]]_vars

\* The operations explain every portrait: each version was made by one operation,
\* whose snapshot is the version before with nothing in between.
AuditExplains ==
    \A c \in Cids : \A n \in 1..portrait[c].version :
        LET makers(k) == {r \in Committed : /\ c \in DOMAIN operation[r].version
                                            /\ operation[r].version[c] = k}
        IN  /\ Cardinality(makers(n)) = 1
            /\ \A r \in makers(n) :
                LET after == IF n = portrait[c].version THEN portrait[c]
                             ELSE operation[CHOOSE q \in makers(n + 1) : TRUE].before[c]
                IN  /\ operation[r].before[c].version = n - 1
                    /\ after.tags = (operation[r].before[c].tags
                          \cup operation[r].payload.changes.add) \ operation[r].payload.changes.remove
                    /\ after.stage = StageOf(operation[r].before[c], operation[r].payload.changes)
=============================================================================
