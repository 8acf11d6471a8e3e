----------------------------- MODULE Identities -----------------------------
(***************************************************************************)
(* Who is who: the people seen in captured traffic (mitm/proxy.py,         *)
(* shared/mitm/parsers.py), the pool of their profiles                     *)
(* (shared/mitm/pool.py) and the accounts, aliases and sessions of the CRM *)
(* (shared/crm/sync.py).                                                   *)
(*                                                                         *)
(* A person is known by three aliases, which the services deliver one or   *)
(* two at a time, in any order, and sometimes wrongly combined.  The pool  *)
(* is written by the receiver's threads at once, the CRM by one executor   *)
(* thread in the order of the submissions.                                 *)
(***************************************************************************)
EXTENDS Integers, Sequences, SequencesExt, FiniteSets

CONSTANTS
    Buyers,
    Seller,         \* the selected seller
    MaxRequests,    \* bound: captures, resets of the pool
    MaxQueue,       \* bound: jobs of the executor that wait
    MaxFaults       \* bound: crashes inside the write of a seller's profile

VARIABLES
    pool,       \* UserInfoPool: the profile stored under each key
    index,      \* _login_id_index
    queue,      \* what _SYNC_EXECUTOR has yet to do
    crm,        \* [marked, alias, contact]: see NoAccounts
    synced,     \* whether a snapshot of the seller was ever committed
    left,       \* requests left
    faults      \* faults left

vars == <<pool, index, queue, crm, synced, left, faults>>

----------------------------------------------------------------------------
(* Captured profiles *)

People == Buyers \cup {Seller}

\* A login never looks like an ali_id, which is a number.
Ali(p) == <<"ali", p>>
Login(p) == <<"login", p>>
Encrypted(p) == <<"encrypted", p>>
None == <<>>

Info(ali, login, encrypted) == [ali |-> ali, login |-> login, encrypted |-> encrypted]

\* parse_query_customer_info: never an ali_id, and either of the others may be missing.
CustomerInfos ==
    {Info(None, l, e) : l \in {Login(p) : p \in People} \cup {None},
                        e \in {Encrypted(p) : p \in People} \cup {None}}
        \ {Info(None, None, None)}

\* parse_get_user_info_by_params and parse_im_id_get: the login may be missing.
AliInfos == {Info(Ali(p), l, None) : p \in People, l \in {Login(q) : q \in People} \cup {None}}

\* parse_contact_extinfo_get: complete, though an alias may have changed hands.
ContactInfos == {Info(Ali(p), Login(q), Encrypted(p)) : p, q \in People}

Aliases(i) == {i.ali, i.login, i.encrypted} \ {None}

----------------------------------------------------------------------------
(* The pool *)

IsReal(ali) == ali # None /\ ali[1] = "ali"

\* _merge_user_info: what is known stays, but for the temporary ali_id.
Merged(old, new) ==
    Info(IF new.ali # None /\ ~IsReal(old.ali) THEN new.ali ELSE old.ali,
         IF old.login = None THEN new.login ELSE old.login,
         IF old.encrypted = None THEN new.encrypted ELSE old.encrypted)

KnownAt(login) == IF login \in DOMAIN index THEN index[login] ELSE None

\* The key under which the person is already stored, if any.
OldKey(i) == IF i.ali \in DOMAIN pool THEN i.ali ELSE KnownAt(i.login)

\* put: found under the login only, a record moves to its real key.
Put(i) ==
    LET old == OldKey(i)
        new == CASE old # None -> Merged(pool[old], i)
                 [] i.ali # None -> i
                 [] OTHER -> [i EXCEPT !.ali = i.login]
        keys == (DOMAIN pool \ {old}) \cup {new.ali}
    IN  IF i.ali = None /\ i.login = None THEN UNCHANGED <<pool, index>>
        ELSE /\ pool' = [k \in keys |-> IF k = new.ali THEN new ELSE pool[k]]
             /\ index' = IF new.login = None THEN index
                         ELSE [l \in DOMAIN index \cup {new.login} |->
                                   IF l = new.login THEN new.ali ELSE index[l]]

----------------------------------------------------------------------------
(* The CRM *)

\* marked: is_self of each account.  alias: the account of each mapping.  contact:
\* the account that the seller's session with a buyer belongs to.
NoAccounts == [marked |-> <<>>, alias |-> <<>>, contact |-> <<>>]

\* _mapping_hits
Hits(c, i) == {c.alias[x] : x \in Aliases(i) \cap DOMAIN c.alias}

\* Mutant of Conflicted: a mapped ali_id decides.
ConflictedWithoutAli(c, i) == Cardinality(Hits(c, i)) > 1 /\ i.ali \notin DOMAIN c.alias

Conflicted(c, i) == Cardinality(Hits(c, i)) > 1

\* The account that holds the aliases, or a new one.
AccountOf(c, i) == IF Hits(c, i) = {} THEN Len(c.marked) + 1 ELSE CHOOSE a \in Hits(c, i) : TRUE

\* _upsert_account without a conflict, with the mappings written so far, which may
\* replace others.
UpsertAliases(c, i, isSelf, written) ==
    LET aid == AccountOf(c, i) IN
    [c EXCEPT !.marked = IF aid > Len(@) THEN Append(@, isSelf) ELSE [@ EXCEPT ![aid] = isSelf],
              !.alias = [x \in DOMAIN @ \cup written |-> IF x \in written THEN aid ELSE @[x]]]

Upsert(c, i, isSelf) == UpsertAliases(c, i, isSelf, Aliases(i))

\* _sync_user_infos_now: a profile in dispute is skipped.
Enriched(c, i) == IF Conflicted(c, i) THEN c ELSE Upsert(c, i, FALSE)

----------------------------------------------------------------------------
(* A snapshot *)

Found(buyer) ==
    IF Ali(buyer) \in DOMAIN pool THEN pool[Ali(buyer)] ELSE Info(Ali(buyer), None, None)

Exact(c, buyer) == IF Ali(buyer) \in DOMAIN c.alias THEN {c.alias[Ali(buyer)]} ELSE {}

\* The committed contact of the session, unless that is a seller's account.
Prior(c, buyer) ==
    IF buyer \in DOMAIN c.contact THEN {a \in {c.contact[buyer]} : ~c.marked[a]} ELSE {}

\* Mutant of Kept: another alias of the profile decides.
KeptByAlias(c, buyer) == Hits(c, Found(buyer)) \ Exact(c, buyer)

\* _resolve_conflicted_contact: no account when the two disagree or neither is known.
Kept(c, buyer) ==
    CASE Prior(c, buyer) = {} -> Exact(c, buyer)
      [] Exact(c, buyer) \in {{}, Prior(c, buyer)} -> Prior(c, buyer)
      [] OTHER -> {}

\* One conversation: nothing is left of the snapshot without an account for it.
WithChat(c, buyer) ==
    LET i == Found(buyer)
        aids == IF Conflicted(c, i) THEN Kept(c, buyer) ELSE {AccountOf(c, i)}
        known == IF Conflicted(c, i) THEN c ELSE Upsert(c, i, FALSE)
    IN  IF c = NoAccounts \/ aids = {} THEN NoAccounts
        ELSE [known EXCEPT !.contact = [b \in DOMAIN @ \cup {buyer} |->
                  IF b = buyer THEN CHOOSE a \in aids : TRUE ELSE @[b]]]

\* sync_conversations for the conversations of the source.  The seller is known by
\* one alias, which is never in dispute.
Snapshot(c, chats) ==
    LET order == SetToSeq(chats)
        known[n \in 0..Len(order)] ==
            IF n = 0 THEN Upsert(c, Info(Ali(Seller), None, None), TRUE)
            ELSE WithChat(known[n - 1], order[n])
    IN  known[Len(order)]

----------------------------------------------------------------------------
(* Actions *)

Request == left > 0 /\ left' = left - 1

Submitted(kind, info) == [kind |-> kind, info |-> info]

\* A receiver thread; contact.extinfo also submits the profile of the seller, first.
Capture(i, submitted) ==
    /\ Request /\ Len(queue) < MaxQueue
    /\ Put(i)
    /\ queue' = queue \o submitted
    /\ UNCHANGED <<crm, synced, faults>>

QueryCustomerInfo == \E i \in CustomerInfos : Capture(i, <<Submitted("user", i)>>)

ImIdGet == \E i \in AliInfos : Capture(i, <<Submitted("user", i)>>)

ContactExtinfoGet ==
    \E i \in ContactInfos : Capture(i,
        (IF i.ali = Ali(Seller) THEN <<Submitted("self", i)>> ELSE <<>>) \o <<Submitted("user", i)>>)

\* The coordinator has one transfer under way.
RequestSnapshot ==
    /\ Len(queue) < MaxQueue /\ \A k \in DOMAIN queue : queue[k].kind # "snapshot"
    /\ queue' = Append(queue, Submitted("snapshot", Info(None, None, None)))
    /\ UNCHANGED <<pool, index, crm, synced, left, faults>>

\* The executor's next job.  A conversation is never lost from the source.
Execute ==
    /\ queue # <<>>
    /\ queue' = Tail(queue)
    /\ LET i == Head(queue).info IN
        \/ /\ Head(queue).kind = "user"
           /\ crm' = Enriched(crm, i)
           /\ UNCHANGED synced
        \/ /\ Head(queue).kind = "self"
           /\ crm' = IF Conflicted(crm, i) THEN crm ELSE Upsert(crm, i, TRUE)
           /\ UNCHANGED synced
        \/ /\ Head(queue).kind = "snapshot"
           /\ \E chats \in SUBSET Buyers :
               LET result == Snapshot(crm, chats) IN
               /\ DOMAIN crm.contact \subseteq chats
               /\ IF result = NoAccounts THEN UNCHANGED <<crm, synced>>
                  ELSE crm' = result /\ synced' = TRUE
    /\ UNCHANGED <<pool, index, left, faults>>

\* The index is built again in the order of the rows.
Loaded == {f \in [{pool[k].login : k \in DOMAIN pool} \ {None} -> DOMAIN pool] :
               \A l \in DOMAIN f : pool[f[l]].login = l}

\* The process ends, inside a profile of the seller with a part of the aliases, which
\* are committed one by one.
Crash ==
    /\ faults > 0 /\ faults' = faults - 1
    /\ queue' = <<>>
    /\ index' \in Loaded
    /\ \/ UNCHANGED crm
       \/ /\ queue # <<>> /\ Head(queue).kind = "self"
          /\ LET i == Head(queue).info IN
              /\ ~Conflicted(crm, i)
              /\ \E written \in {{}, {i.ali}, {i.ali, i.login}} :
                  crm' = UpsertAliases(crm, i, TRUE, written)
    /\ UNCHANGED <<pool, synced, left>>

\* POST /api/cache/reset
ResetCache ==
    /\ Request
    /\ pool' = <<>> /\ index' = <<>>
    /\ UNCHANGED <<queue, crm, synced, faults>>

Init ==
    /\ pool = <<>> /\ index = <<>> /\ queue = <<>>
    /\ crm = NoAccounts /\ synced = FALSE
    /\ left = MaxRequests
    /\ faults = MaxFaults

Next ==
    \/ QueryCustomerInfo \/ ImIdGet \/ ContactExtinfoGet \/ RequestSnapshot
    \/ Execute \/ Crash \/ ResetCache

Spec == Init /\ [][Next]_vars

----------------------------------------------------------------------------
\* An alias that was mapped once belongs to the same account for ever, whatever the
\* services combine later and in whatever order: what disagrees is refused
\* (sync.py:209, and the docstring of IdentityConflictError).  The customer that a
\* conversation belongs to never changes either, although its profile is completed in
\* the pool by captures that may name another person (sync.py:357).
NeverRedirected ==
    [][/\ \A x \in DOMAIN crm.alias :
            x \in DOMAIN crm'.alias /\ crm'.alias[x] = crm.alias[x]
       /\ \A b \in DOMAIN crm.contact :
            b \in DOMAIN crm'.contact /\ crm'.contact[b] = crm.contact[b]]_crm
=============================================================================
