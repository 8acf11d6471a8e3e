------------------------------ MODULE InboxProofs ------------------------------
(***************************************************************************)
(* Theorems about Inbox, for every finite set of messages and all sets of  *)
(* conversations and directories, and every bound.  WriteFacts says what   *)
(* one write of a ledger does; the invariant and the refinement use it for *)
(* both of its callers.                                                    *)
(***************************************************************************)
EXTENDS Inbox, FiniteSetTheorems, TLAPS

\* The rows of a conversation up to a watermark.
UpTo(d, s, q) == {m \in Rows(d, s) : seq[d][m] <= q}

LedgerOK ==
  \A d \in Dirs :
    /\ Recorded(d) \subseteq archive
    /\ d \notin opened => Recorded(d) = {}
    /\ \A m \in Mids : seq[d][m] <= last[d]
    /\ \A m, n \in Recorded(d) : seq[d][m] = seq[d][n] => m = n
    /\ history[d] \subseteq Recorded(d)
    /\ \A s \in Sids : read[d][s] <= last[d]

\* A loaded page holds every row up to its watermark, whatever was committed since.
PageOK ==
  page # NoPage => /\ page.seq <= last[dir]
                   /\ page.loaded => UpTo(dir, page.sid, page.seq) \subseteq page.msgs

TokensOK ==
  \A token \in tokens :
    /\ token.epoch <= epoch
    /\ token.seq <= last[token.dir]
    /\ token.dir = dir /\ token.epoch = epoch => UpTo(dir, token.sid, token.seq) \subseteq shown

ShownOK == shown \subseteq Recorded(dir)

\* Only what adopted an archive is opened before its first sync.
VisitedOK == \A d \in opened \ synced : history[d] # {}

UpgradeOK ==
  /\ upgrade.first = NoDir => /\ opened = {}
                              /\ archive = upgrade.archive /\ synced = upgrade.synced
  /\ upgrade.first # NoDir => upgrade.first \in opened

Inv == /\ TypeOK /\ LedgerOK /\ PageOK /\ TokensOK /\ ShownOK
       /\ VisitedOK /\ UpgradeOK /\ UpgradeKeepsHistory

--------------------------------------------------------------------------------
(* One write of a ledger *)

\* What a write to the ledger of d over a payload does: rows are only added, above
\* all numbers given out, and other directories are left alone.
Written(d, payload) ==
  /\ seq' \in [Dirs -> [Mids -> Nat]] /\ last' \in [Dirs -> Nat]
  /\ history' \in [Dirs -> SUBSET Mids] /\ revision' \in [Dirs -> Nat]
  /\ read' = read /\ opened' = opened \cup {d}
  /\ \A e \in Dirs \ {d} :
       seq'[e] = seq[e] /\ last'[e] = last[e] /\ history'[e] = history[e]
  /\ last'[d] >= last[d]
  /\ \A m \in Mids :
       /\ seq[d][m] > 0 \/ m \notin payload => seq'[d][m] = seq[d][m]
       /\ seq[d][m] = 0 /\ m \in payload => seq'[d][m] > last[d] /\ seq'[d][m] <= last'[d]
  /\ \A m, n \in Mids :
       /\ seq[d][m] = 0 /\ seq[d][n] = 0 /\ seq'[d][m] > 0
       /\ seq'[d][m] = seq'[d][n]
       => m = n
  /\ history[d] \subseteq history'[d]
  /\ history'[d] \ history[d] \subseteq payload \ Recorded(d)

LEMMA WriteFacts ==
  ASSUME TypeOK, NEW d \in Dirs, NEW payload \in SUBSET Mids,
         NEW asHistory \in BOOLEAN, NEW edited \in BOOLEAN,
         WriteInbox(d, payload, asHistory, edited)
  PROVE  /\ Written(d, payload)
         /\ history'[d] = history[d] \cup (IF asHistory THEN payload \ Recorded(d)
                                           ELSE (payload \ Recorded(d)) \cap Adopted(d))
         /\ upgrade' = [upgrade EXCEPT !.first = IF @ = NoDir THEN d ELSE @]
         /\ \A e \in Dirs : revision'[e] >= revision[e]
         /\ \/ revision'[d] > revision[d]
            \/ seq'[d] = seq[d] /\ history'[d] = history[d] /\ d \in opened
<1> DEFINE new == payload \ Recorded(d)
           n == Cardinality(new)
<1>1. IsFiniteSet(new) /\ n \in Nat
  BY InboxAssumption, FS_Subset, FS_CardinalityType DEF Recorded
<1>2. PICK o \in Orders(new, Adopted(d)) :
        seq' = [seq EXCEPT ![d] = [m \in Mids |-> IF m \in new THEN last[d] + o[m] ELSE @[m]]]
  BY DEF WriteInbox
<1>3. /\ o \in [new -> 1..n]
      /\ \A i, j \in new : o[i] = o[j] => i = j
  BY DEF Orders
<1>4. new = {m \in payload : seq[d][m] = 0} /\ new \subseteq Mids
  BY DEF Recorded, TypeOK
<1>5. /\ \A e \in Dirs \ {d} : seq'[e] = seq[e]
      /\ \A m \in Mids : seq'[d][m] = IF m \in new THEN last[d] + o[m] ELSE seq[d][m]
  BY <1>2 DEF TypeOK
<1>6. seq' \in [Dirs -> [Mids -> Nat]]
  <2>1. \A m \in new : last[d] + o[m] \in Nat
    BY <1>1, <1>3 DEF TypeOK
  <2>2. [m \in Mids |-> IF m \in new THEN last[d] + o[m] ELSE seq[d][m]] \in [Mids -> Nat]
    BY <2>1 DEF TypeOK
  <2> QED BY <1>2, <2>2 DEF TypeOK
<1>7. /\ last' \in [Dirs -> Nat] /\ last'[d] = last[d] + n
      /\ \A e \in Dirs \ {d} : last'[e] = last[e]
  BY <1>1 DEF WriteInbox, TypeOK
<1>8. history' = [history EXCEPT ![d] = @ \cup (IF asHistory THEN new ELSE new \cap Adopted(d))]
  BY DEF WriteInbox
<1>9. /\ history' \in [Dirs -> SUBSET Mids]
      /\ history'[d] = history[d] \cup (IF asHistory THEN new ELSE new \cap Adopted(d))
      /\ \A e \in Dirs \ {d} : history'[e] = history[e]
  BY <1>4, <1>8 DEF TypeOK
<1>10. revision' \in [Dirs -> Nat]
  BY DEF WriteInbox, TypeOK
<1>11. \A m \in Mids :
         /\ seq[d][m] > 0 \/ m \notin payload => seq'[d][m] = seq[d][m]
         /\ seq[d][m] = 0 /\ m \in payload => seq'[d][m] > last[d] /\ seq'[d][m] <= last'[d]
  <2>1. \A m \in new : o[m] >= 1 /\ o[m] <= n /\ o[m] \in Nat
    BY <1>1, <1>3
  <2>2. last[d] \in Nat /\ \A m \in Mids : seq[d][m] \in Nat
    BY DEF TypeOK
  <2> HIDE DEF n, new
  <2>3. \A m \in new : seq'[d][m] > last[d] /\ seq'[d][m] <= last'[d]
    BY <1>1, <1>4, <1>5, <1>7, <2>1, <2>2
  <2>4. \A m \in Mids \ new : seq'[d][m] = seq[d][m]
    BY <1>5
  <2> QED BY <1>4, <2>2, <2>3, <2>4
<1>12. ASSUME NEW i \in Mids, NEW j \in Mids, seq[d][i] = 0, seq[d][j] = 0,
              seq'[d][i] > 0, seq'[d][i] = seq'[d][j]
       PROVE  i = j
  <2>1. i \in new /\ j \in new
    BY <1>5, <1>12
  <2>2. o[i] \in Nat /\ o[j] \in Nat /\ last[d] \in Nat
    BY <1>1, <1>3, <2>1 DEF TypeOK
  <2>3. last[d] + o[i] = last[d] + o[j]
    BY <1>5, <1>12, <2>1
  <2> QED BY <1>3, <2>1, <2>2, <2>3
<1>13. last'[d] >= last[d]
  BY <1>1, <1>7 DEF TypeOK
<1>14. read' = read /\ opened' = opened \cup {d}
       /\ upgrade' = [upgrade EXCEPT !.first = IF @ = NoDir THEN d ELSE @]
  BY DEF WriteInbox
<1>15. /\ history[d] \subseteq history'[d]
       /\ history'[d] \ history[d] \subseteq payload \ Recorded(d)
  BY <1>9
<1>16. /\ \A e \in Dirs : revision'[e] >= revision[e]
       /\ revision'[d] > revision[d] \/ (new = {} /\ d \in opened)
  BY DEF WriteInbox, TypeOK
<1>17. new = {} => seq'[d] = seq[d] /\ history'[d] = history[d]
  <2> SUFFICES ASSUME new = {} PROVE seq'[d] = seq[d] /\ history'[d] = history[d]
    OBVIOUS
  <2>1. seq'[d] \in [Mids -> Nat] /\ seq[d] \in [Mids -> Nat]
    BY <1>6 DEF TypeOK
  <2>2. \A m \in Mids : seq'[d][m] = seq[d][m]
    BY <1>5
  <2> QED BY <1>9, <2>1, <2>2
<1> QED BY <1>5, <1>6, <1>7, <1>9, <1>10, <1>11, <1>12, <1>13, <1>14, <1>15, <1>16, <1>17
        DEF Written

\* A write leaves rows and what lies below a known watermark as they are.
LEMMA WriteKeeps ==
  ASSUME TypeOK, LedgerOK, NEW d \in Dirs, NEW payload \in SUBSET Mids, Written(d, payload)
  PROVE  /\ \A e \in Dirs : Recorded(e) \subseteq Recorded(e)'
         /\ \A e \in Dirs : last[e] <= last'[e]
         /\ \A e \in Dirs, s \in Sids, q \in Nat :
              q <= last[e] => UpTo(e, s, q)' = UpTo(e, s, q)
<1>1. \A e \in Dirs, m \in Mids :
        /\ seq[e][m] \in Nat /\ seq'[e][m] \in Nat /\ last[e] \in Nat
        /\ seq[e][m] <= last[e]
        /\ seq'[e][m] = seq[e][m] \/ (seq[e][m] = 0 /\ seq'[e][m] > last[e])
  <2> SUFFICES ASSUME NEW e \in Dirs, NEW m \in Mids
               PROVE  /\ seq[e][m] \in Nat /\ seq'[e][m] \in Nat /\ last[e] \in Nat
                      /\ seq[e][m] <= last[e]
                      /\ seq'[e][m] = seq[e][m] \/ (seq[e][m] = 0 /\ seq'[e][m] > last[e])
    OBVIOUS
  <2>1. /\ seq[e][m] \in Nat /\ seq'[e][m] \in Nat /\ last[e] \in Nat
        /\ seq[e][m] <= last[e]
    BY DEF TypeOK, LedgerOK, Written
  <2>2. CASE e = d
    BY <2>1, <2>2 DEF Written
  <2>3. CASE e # d
    BY <2>1, <2>3 DEF Written
  <2> QED BY <2>1, <2>2, <2>3
<1>2. \A e \in Dirs : Recorded(e) \subseteq Recorded(e)'
  BY <1>1 DEF Recorded
<1>3. ASSUME NEW e \in Dirs PROVE last[e] <= last'[e]
  <2>1. last[e] \in Nat /\ last'[e] \in Nat
    BY DEF TypeOK, Written
  <2>2. CASE e = d
    BY <2>1, <2>2 DEF Written
  <2>3. CASE e # d
    BY <2>1, <2>3 DEF Written
  <2> QED BY <2>2, <2>3
<1>4. ASSUME NEW e \in Dirs, NEW s \in Sids, NEW q \in Nat, q <= last[e]
      PROVE  UpTo(e, s, q)' = UpTo(e, s, q)
  BY <1>1, <1>4 DEF UpTo, Rows, InConversation, Recorded
<1> QED BY <1>2, <1>3, <1>4

\* A write whose messages are in the archive preserves all but the history of upgrades.
LEMMA WriteInvariant ==
  ASSUME Inv, NEW d \in Dirs, NEW payload \in SUBSET Mids, Written(d, payload), TypeOK',
         archive \subseteq archive', payload \subseteq archive',
         UNCHANGED <<dir, epoch, page, tokens, shown>>
  PROVE  LedgerOK' /\ PageOK' /\ TokensOK' /\ ShownOK'
<1> USE DEF Inv
<1>0. /\ \A e \in Dirs : Recorded(e) \subseteq Recorded(e)'
      /\ \A e \in Dirs : last[e] <= last'[e]
      /\ \A e \in Dirs, s \in Sids, q \in Nat :
           q <= last[e] => UpTo(e, s, q)' = UpTo(e, s, q)
  BY WriteKeeps
<1>1. LedgerOK'
  <2> SUFFICES ASSUME NEW e \in Dirs
               PROVE  (/\ Recorded(e) \subseteq archive
                       /\ e \notin opened => Recorded(e) = {}
                       /\ \A m \in Mids : seq[e][m] <= last[e]
                       /\ \A m, n \in Recorded(e) : seq[e][m] = seq[e][n] => m = n
                       /\ history[e] \subseteq Recorded(e)
                       /\ \A s \in Sids : read[e][s] <= last[e])'
    BY DEF LedgerOK
  <2>1. CASE e # d
    BY <2>1 DEF Written, LedgerOK, Recorded
  <2>2. CASE e = d
    <3>1. \A m \in Mids : /\ seq[d][m] \in Nat /\ seq'[d][m] \in Nat
                          /\ last[d] \in Nat /\ last'[d] \in Nat
                          /\ seq[d][m] <= last[d] /\ last[d] <= last'[d]
      BY DEF TypeOK, LedgerOK, Written
    <3>2. \A m \in Mids : \/ seq'[d][m] = seq[d][m]
                          \/ seq[d][m] = 0 /\ m \in payload
                             /\ seq'[d][m] > last[d] /\ seq'[d][m] <= last'[d]
      BY <3>1 DEF Written
    <3>3. Recorded(d)' \subseteq archive'
      BY <3>1, <3>2 DEF LedgerOK, Recorded
    <3>4. \A m \in Mids : seq'[d][m] <= last'[d]
      BY <3>1, <3>2
    <3>5. ASSUME NEW m \in Recorded(d)', NEW n \in Recorded(d)', seq'[d][m] = seq'[d][n]
          PROVE  m = n
      <4>1. m \in Mids /\ n \in Mids /\ seq'[d][m] > 0 /\ seq'[d][n] > 0
        BY DEF Recorded
      <4>2. CASE seq[d][m] = 0 /\ seq[d][n] = 0
        BY <3>5, <4>1, <4>2 DEF Written
      <4>3. CASE seq[d][m] # 0 /\ seq[d][n] # 0
        <5>1. seq'[d][m] = seq[d][m] /\ seq'[d][n] = seq[d][n]
          BY <3>1, <3>2, <4>1, <4>3
        <5>2. m \in Recorded(d) /\ n \in Recorded(d)
          BY <3>1, <4>1, <4>3 DEF Recorded
        <5> QED BY <3>5, <5>1, <5>2 DEF LedgerOK
      <4>4. CASE seq[d][m] = 0 /\ seq[d][n] # 0
        BY <3>1, <3>2, <3>5, <4>1, <4>4
      <4>5. CASE seq[d][m] # 0 /\ seq[d][n] = 0
        BY <3>1, <3>2, <3>5, <4>1, <4>5
      <4> QED BY <4>2, <4>3, <4>4, <4>5
    <3>6. history'[d] \subseteq Recorded(d)'
      <4>1. payload \ Recorded(d) \subseteq Recorded(d)'
        BY <3>1 DEF Written, Recorded
      <4> QED BY <1>0, <4>1 DEF Written, LedgerOK
    <3>7. \A s \in Sids : read'[d][s] <= last'[d]
      BY <3>1 DEF Written, LedgerOK, TypeOK
    <3> QED BY <2>2, <3>3, <3>4, <3>5, <3>6, <3>7 DEF Written
  <2> QED BY <2>1, <2>2
<1>2. PageOK'
  <2> SUFFICES ASSUME page # NoPage
               PROVE  /\ page.seq <= last'[dir]
                      /\ page.loaded => UpTo(dir, page.sid, page.seq)' \subseteq page.msgs
    BY DEF PageOK
  <2>1. page \in Page /\ dir \in Dirs /\ page.seq <= last[dir]
    BY DEF TypeOK, PageOK
  <2>2. page.sid \in Sids /\ page.seq \in Nat
    BY <2>1 DEF Page
  <2>3. UpTo(dir, page.sid, page.seq)' = UpTo(dir, page.sid, page.seq)
    BY <1>0, <2>1, <2>2
  <2>4. last[dir] \in Nat /\ last'[dir] \in Nat /\ last[dir] <= last'[dir]
    BY <1>0, <2>1 DEF TypeOK, Written
  <2> QED BY <2>1, <2>2, <2>3, <2>4 DEF PageOK
<1>3. TokensOK'
  <2> SUFFICES ASSUME NEW token \in tokens
               PROVE  /\ token.epoch <= epoch
                      /\ token.seq <= last'[token.dir]
                      /\ token.dir = dir /\ token.epoch = epoch =>
                           UpTo(dir, token.sid, token.seq)' \subseteq shown
    BY DEF TokensOK
  <2>1. token.dir \in Dirs /\ token.sid \in Sids /\ token.seq \in Nat
    BY DEF TypeOK, Token
  <2>2. token.seq <= last[token.dir] /\ last[token.dir] \in Nat /\ last'[token.dir] \in Nat
        /\ last[token.dir] <= last'[token.dir]
    BY <1>0, <2>1 DEF TokensOK, TypeOK, Written
  <2>3. UpTo(token.dir, token.sid, token.seq)' = UpTo(token.dir, token.sid, token.seq)
    BY <1>0, <2>1, <2>2
  <2> QED BY <2>1, <2>2, <2>3 DEF TokensOK
<1>4. ShownOK'
  BY <1>0 DEF ShownOK, TypeOK
<1> QED BY <1>1, <1>2, <1>3, <1>4

\* The first directory opened keeps what it adopted, and later writes add no history.
LEMMA WriteUpgrade ==
  ASSUME Inv, NEW d \in Dirs, NEW payload \in SUBSET Mids,
         NEW asHistory \in BOOLEAN, NEW edited \in BOOLEAN,
         WriteInbox(d, payload, asHistory, edited), Adopted(d) \subseteq payload,
         asHistory => d \notin opened /\ d \notin synced /\ Adopted(d) = {}
  PROVE  UpgradeOK' /\ UpgradeKeepsHistory'
<1>1. /\ Written(d, payload)
      /\ history'[d] = history[d] \cup (IF asHistory THEN payload \ Recorded(d)
                                        ELSE (payload \ Recorded(d)) \cap Adopted(d))
  BY WriteFacts DEF Inv
<1>2. /\ upgrade'.archive = upgrade.archive /\ upgrade'.synced = upgrade.synced
      /\ upgrade'.first = IF upgrade.first = NoDir THEN d ELSE upgrade.first
  BY DEF WriteInbox, Inv, TypeOK
<1>3. UpgradeOK'
  BY <1>1, <1>2, InboxAssumption DEF UpgradeOK, Inv, Written
<1>4. CASE upgrade.first = NoDir
  <2>1. /\ opened = {} /\ archive = upgrade.archive /\ synced = upgrade.synced
        /\ \A e \in Dirs : Recorded(e) = {} /\ history[e] = {}
    BY <1>4 DEF Inv, UpgradeOK, LedgerOK
  <2>2. d \in synced \/ synced = {} => Adopted(d) = archive
    BY <2>1 DEF Adopted, AdoptsArchive, Claimed
  <2>3. UpgradeKeepsHistory'
    <3> SUFFICES ASSUME d \in synced \/ synced = {}, archive # {} \/ d \in synced
                 PROVE  history'[d] = archive
      BY <1>2, <1>4, <2>1 DEF UpgradeKeepsHistory
    <3>1. Adopted(d) = archive /\ archive \subseteq payload
      BY <2>2
    <3>2. asHistory = FALSE
      BY <3>1
    <3>3. history'[d] = {} \cup ((payload \ {}) \cap archive)
      BY <1>1, <2>1, <3>1, <3>2
    <3> QED BY <3>1, <3>3
  <2> QED BY <1>3, <2>3
<1>5. CASE upgrade.first # NoDir
  <2>1. upgrade.first \in opened /\ upgrade.first \in Dirs
    BY <1>5 DEF Inv, UpgradeOK, TypeOK
  <2>2. history'[upgrade.first] = history[upgrade.first]
      <3>1. CASE upgrade.first # d
      BY <1>1, <2>1, <3>1 DEF Written
    <3>2. CASE upgrade.first = d
      <4>1. Adopted(d) = {}
        BY <2>1, <3>2 DEF Adopted, AdoptsArchive
      <4>2. asHistory = FALSE
        BY <2>1, <3>2
      <4> QED BY <1>1, <3>2, <4>1, <4>2
    <3> QED BY <3>1, <3>2
  <2>3. UpgradeKeepsHistory'
    BY <1>2, <1>5, <2>2 DEF UpgradeKeepsHistory, Inv
  <2> QED BY <1>3, <2>3
<1> QED BY <1>3, <1>4, <1>5

LEMMA CommitInv == Inv /\ CommitSync => Inv'
<1> SUFFICES ASSUME Inv, CommitSync PROVE Inv'
  OBVIOUS
<1>1. syncing \in Dirs
  BY DEF CommitSync, Inv, TypeOK
<1>2. PICK msgs \in SUBSET Mids, edited \in BOOLEAN, baseline \in BOOLEAN :
        /\ WriteInbox(syncing, msgs \cup Adopted(syncing), baseline, edited)
        /\ baseline => syncing \notin opened /\ syncing \notin synced /\ Adopted(syncing) = {}
        /\ synced' = synced \cup {syncing}
        /\ archive' = archive \cup msgs
  BY DEF CommitSync
<1> DEFINE payload == msgs \cup Adopted(syncing)
<1>3. Adopted(syncing) \subseteq archive /\ payload \in SUBSET Mids
  BY DEF Adopted, Inv, TypeOK
<1>4. /\ Written(syncing, payload)
      /\ upgrade' = [upgrade EXCEPT !.first = IF @ = NoDir THEN syncing ELSE @]
  BY <1>1, <1>2, <1>3, WriteFacts DEF Inv
<1>5. upgrade' \in [archive: SUBSET Mids, synced: SUBSET Dirs, first: Dirs \cup {NoDir}]
  <2>1. \A e \in Dirs \cup {NoDir} : [upgrade EXCEPT !.first = e] \in
          [archive: SUBSET Mids, synced: SUBSET Dirs, first: Dirs \cup {NoDir}]
    BY DEF Inv, TypeOK
  <2>2. PICK e \in Dirs \cup {NoDir} : e = IF upgrade.first = NoDir THEN syncing ELSE upgrade.first
    BY <1>1 DEF Inv, TypeOK
  <2> QED BY <1>4, <2>1, <2>2
<1>6. TypeOK'
  BY <1>1, <1>2, <1>4, <1>5 DEF Inv, TypeOK, Written, CommitSync
<1>7. LedgerOK' /\ PageOK' /\ TokensOK' /\ ShownOK'
  BY <1>1, <1>2, <1>3, <1>4, <1>6, WriteInvariant DEF CommitSync
<1>8. UpgradeOK' /\ UpgradeKeepsHistory'
  BY <1>1, <1>2, <1>3, WriteUpgrade
<1>9. VisitedOK'
  BY <1>2, <1>4 DEF VisitedOK, Inv, TypeOK, Written
<1> QED BY <1>6, <1>7, <1>8, <1>9 DEF Inv

LEMMA VisitInv == Inv /\ Visit => Inv'
<1> SUFFICES ASSUME Inv, Visit PROVE Inv'
  OBVIOUS
<1>1. /\ dir \in Dirs /\ Adopted(dir) \subseteq archive /\ Adopted(dir) \in SUBSET Mids
      /\ WriteInbox(dir, Adopted(dir), FALSE, FALSE)
  BY DEF Visit, Adopted, Inv, TypeOK
<1>2. /\ Written(dir, Adopted(dir))
      /\ upgrade' = [upgrade EXCEPT !.first = IF @ = NoDir THEN dir ELSE @]
  BY <1>1, WriteFacts DEF Inv
<1>3. upgrade' \in [archive: SUBSET Mids, synced: SUBSET Dirs, first: Dirs \cup {NoDir}]
  <2>1. \A e \in Dirs \cup {NoDir} : [upgrade EXCEPT !.first = e] \in
          [archive: SUBSET Mids, synced: SUBSET Dirs, first: Dirs \cup {NoDir}]
    BY DEF Inv, TypeOK
  <2>2. PICK e \in Dirs \cup {NoDir} : e = IF upgrade.first = NoDir THEN dir ELSE upgrade.first
    BY <1>1 DEF Inv, TypeOK
  <2> QED BY <1>2, <2>1, <2>2
<1>4. TypeOK'
  BY <1>1, <1>2, <1>3 DEF Inv, TypeOK, Written, Visit
<1>5. LedgerOK' /\ PageOK' /\ TokensOK' /\ ShownOK'
  BY <1>1, <1>2, <1>4, WriteInvariant DEF Visit
<1>6. UpgradeOK' /\ UpgradeKeepsHistory'
  BY <1>1, WriteUpgrade
<1>7. VisitedOK'
  <2>1. dir \in synced \/ history'[dir] # {}
    <3>1. history'[dir] = history[dir] \cup ((Adopted(dir) \ Recorded(dir)) \cap Adopted(dir))
      BY <1>1, WriteFacts DEF Inv
    <3>2. Recorded(dir) = {}
      BY <1>1 DEF Visit, Inv, LedgerOK
    <3> QED BY <3>1, <3>2 DEF Visit
  <2> QED BY <1>1, <1>2, <2>1 DEF VisitedOK, Inv, TypeOK, Written, Visit
<1> QED BY <1>4, <1>5, <1>6, <1>7 DEF Inv

--------------------------------------------------------------------------------
(* The other actions *)

\* Steps that leave the CRM alone keep what is said of it.
LEMMA CrmInv ==
  ASSUME Inv, UNCHANGED <<crm, upgrade>>
  PROVE  /\ LedgerOK' /\ VisitedOK' /\ UpgradeOK' /\ UpgradeKeepsHistory'
         /\ \A e, s, q : UpTo(e, s, q)' = UpTo(e, s, q)
         /\ \A e : Recorded(e)' = Recorded(e)
BY DEF Inv, crm, LedgerOK, VisitedOK, UpgradeOK, UpgradeKeepsHistory, Recorded, UpTo, Rows

LEMMA TakeSnapshotInv ==
  ASSUME Inv, NEW s \in Sids, TakeSnapshot(s)
  PROVE  Inv'
<1>1. PICK m \in Rows(dir, s) :
        page' = [sid |-> s, seq |-> seq[dir][m], loaded |-> FALSE, msgs |-> {}]
  BY DEF TakeSnapshot
<1>2. m \in Mids /\ dir \in Dirs /\ seq[dir][m] \in Nat /\ seq[dir][m] <= last[dir]
  BY DEF Rows, InConversation, Inv, TypeOK, LedgerOK
<1>3. TypeOK'
  BY <1>1, <1>2 DEF Inv, TypeOK, TakeSnapshot, crm, Page
<1>4. PageOK'
  BY <1>1, <1>2 DEF PageOK, TakeSnapshot, crm
<1>5. TokensOK' /\ ShownOK'
  BY CrmInv DEF Inv, TokensOK, ShownOK, TakeSnapshot, crm
<1> QED BY <1>3, <1>4, <1>5, CrmInv DEF Inv, TakeSnapshot

LEMMA LoadMessagesInv == Inv /\ LoadMessages => Inv'
<1> SUFFICES ASSUME Inv, LoadMessages PROVE Inv'
  OBVIOUS
<1>1. page \in Page /\ page.sid \in Sids /\ page.seq \in Nat
  BY DEF LoadMessages, Inv, TypeOK, Page
<1>2. /\ page'.sid = page.sid /\ page'.seq = page.seq
      /\ page'.msgs = archive \cap InConversation(page.sid)
      /\ page' \in Page
  BY <1>1 DEF LoadMessages, Page, Inv, TypeOK
<1>3. UpTo(dir, page.sid, page.seq) \subseteq archive \cap InConversation(page.sid)
  BY DEF UpTo, Rows, Inv, TypeOK, LedgerOK
<1>4. PageOK'
  BY <1>2, <1>3, CrmInv DEF PageOK, LoadMessages, crm, Inv
<1>5. TypeOK'
  BY <1>2 DEF Inv, TypeOK, LoadMessages, crm
<1>6. TokensOK' /\ ShownOK'
  BY CrmInv DEF Inv, TokensOK, ShownOK, LoadMessages, crm
<1> QED BY <1>4, <1>5, <1>6, CrmInv DEF Inv, LoadMessages

LEMMA RespondInv == Inv /\ Respond => Inv'
<1> SUFFICES ASSUME Inv, Respond PROVE Inv'
  OBVIOUS
<1> DEFINE msgs == page.msgs \cap Recorded(dir)
           new == [dir |-> dir, sid |-> page.sid, epoch |-> epoch, seq |-> page.seq]
<1>1. /\ page \in Page /\ dir \in Dirs /\ epoch \in Nat
      /\ page.sid \in Sids /\ page.seq \in Nat /\ page.seq <= last[dir]
      /\ UpTo(dir, page.sid, page.seq) \subseteq page.msgs
  BY DEF Respond, Inv, TypeOK, PageOK, Page
<1>2. new \in Token
  BY <1>1 DEF Token
<1>3. UpTo(dir, page.sid, page.seq) \subseteq msgs /\ msgs \subseteq Mids
  BY <1>1 DEF UpTo, Rows, Recorded
<1>4. \/ tokens' = tokens /\ shown' = shown
      \/ tokens' = tokens \cup {new} /\ shown' = shown \cup msgs
  BY DEF Respond
<1>5. page' = NoPage /\ UNCHANGED <<crm, upgrade, syncing, dir, epoch>>
  BY DEF Respond
<1>6. TypeOK'
  BY <1>2, <1>3, <1>4, <1>5 DEF Inv, TypeOK, crm
<1>7. PageOK'
  BY <1>5 DEF PageOK
<1>8. TokensOK'
  <2> SUFFICES ASSUME NEW token \in tokens'
               PROVE  /\ token.epoch <= epoch
                      /\ token.seq <= last[token.dir]
                      /\ token.dir = dir /\ token.epoch = epoch =>
                           UpTo(dir, token.sid, token.seq) \subseteq shown'
    BY <1>5, CrmInv DEF TokensOK, crm
  <2>1. CASE token \in tokens
    BY <1>4, <2>1 DEF Inv, TokensOK
  <2>2. CASE token = new /\ shown' = shown \cup msgs
    BY <1>1, <1>3, <2>2
  <2> QED BY <1>4, <2>1, <2>2
<1>9. ShownOK'
  BY <1>4, <1>5, CrmInv DEF Inv, ShownOK
<1> QED BY <1>5, <1>6, <1>7, <1>8, <1>9, CrmInv DEF Inv

LEMMA MarkReadInv ==
  ASSUME Inv, NEW token \in tokens, MarkRead(token)
  PROVE  Inv'
<1>1. token.sid \in Sids /\ token.seq \in Nat /\ token.dir = dir /\ dir \in Dirs
  BY DEF MarkRead, Accepted, Inv, TypeOK, Token
<1>2. token.seq <= last[dir]
  BY <1>1 DEF Inv, TokensOK
<1>3. read' = [read EXCEPT ![dir][token.sid] = token.seq]
      /\ revision' = [revision EXCEPT ![dir] = @ + 1]
      /\ UNCHANGED <<archive, synced, opened, last, seq, history,
                     syncing, dir, epoch, page, tokens, shown, upgrade>>
  BY DEF MarkRead
<1>4. read' \in [Dirs -> [Sids -> Nat]] /\ revision' \in [Dirs -> Nat]
  BY <1>1, <1>3 DEF Inv, TypeOK
<1>5. TypeOK'
  BY <1>3, <1>4 DEF Inv, TypeOK
<1>6. \A e \in Dirs, s \in Sids : read'[e][s] <= last[e]
  BY <1>1, <1>2, <1>3 DEF Inv, TypeOK, LedgerOK
<1>7. LedgerOK'
  BY <1>3, <1>6 DEF Inv, LedgerOK, Recorded
<1>8. PageOK' /\ TokensOK' /\ ShownOK' /\ VisitedOK' /\ UpgradeOK' /\ UpgradeKeepsHistory'
  BY <1>3 DEF Inv, PageOK, TokensOK, ShownOK, VisitedOK, UpgradeOK, UpgradeKeepsHistory, UpTo, Rows, Recorded
<1> QED BY <1>5, <1>7, <1>8 DEF Inv

\* A new epoch: every token is of an older one, and nothing has been shown yet.
LEMMA EpochInv ==
  ASSUME Inv, UNCHANGED <<crm, upgrade, tokens>>, dir' \in Dirs,
         syncing' \in {syncing, NoDir}, page' = NoPage, epoch' = epoch + 1, shown' = {}
  PROVE  Inv'
<1>1. TypeOK'
  BY DEF Inv, TypeOK, crm
<1>2. PageOK' /\ ShownOK'
  BY DEF PageOK, ShownOK
<1>3. TokensOK'
  <2> SUFFICES ASSUME NEW token \in tokens
               PROVE  /\ token.epoch <= epoch'
                      /\ token.seq <= last[token.dir]
                      /\ token.epoch # epoch'
    BY CrmInv DEF TokensOK, crm
  <2>1. token.epoch \in Nat /\ epoch \in Nat /\ token.epoch <= epoch
    BY DEF Inv, TypeOK, Token, TokensOK
  <2> QED BY <2>1 DEF Inv, TokensOK
<1> QED BY <1>1, <1>2, <1>3, CrmInv DEF Inv

LEMMA InvInductive == Inv /\ [Next]_vars => Inv'
<1> SUFFICES ASSUME Inv, [Next]_vars PROVE Inv'
  OBVIOUS
<1>1. CASE ReadSource \/ FailSync
  <2>1. /\ UNCHANGED <<crm, dir, epoch, page, tokens, shown, upgrade>>
        /\ syncing' \in Dirs \cup {NoDir}
    BY <1>1 DEF ReadSource, FailSync, Inv, TypeOK
  <2>2. TypeOK'
    BY <2>1 DEF Inv, TypeOK, crm
  <2>3. PageOK' /\ TokensOK' /\ ShownOK'
    BY <2>1, CrmInv DEF Inv, PageOK, TokensOK, ShownOK, crm
  <2> QED BY <2>1, <2>2, <2>3, CrmInv DEF Inv
<1>2. CASE CommitSync
  BY <1>2, CommitInv
<1>3. CASE Visit
  BY <1>3, VisitInv
<1>4. CASE LoadMessages
  BY <1>4, LoadMessagesInv
<1>5. CASE Respond
  BY <1>5, RespondInv
<1>6. CASE \E s \in Sids : TakeSnapshot(s)
  BY <1>6, TakeSnapshotInv
<1>7. CASE \E token \in tokens : MarkRead(token)
  BY <1>7, MarkReadInv
<1>8. CASE Select
  BY <1>8, EpochInv DEF Select, Idle
<1>9. CASE Restart
  BY <1>9, EpochInv DEF Restart, Inv, TypeOK
<1>10. CASE UNCHANGED vars
  BY <1>10 DEF vars, Inv, TypeOK, LedgerOK, PageOK, TokensOK, ShownOK, VisitedOK,
               UpgradeOK, UpgradeKeepsHistory, UpTo, Rows, Recorded
<1> QED BY <1>1, <1>2, <1>3, <1>4, <1>5, <1>6, <1>7, <1>8, <1>9, <1>10 DEF Next

LEMMA InvInitial == Init => Inv
<1> SUFFICES ASSUME Init PROVE Inv
  OBVIOUS
<1>1. TypeOK
  BY DEF Init, TypeOK
<1>2. \A d \in Dirs : Recorded(d) = {}
  BY DEF Init, Recorded
<1>3. LedgerOK
  BY <1>2 DEF Init, LedgerOK
<1>4. PageOK /\ TokensOK /\ ShownOK /\ VisitedOK /\ UpgradeOK /\ UpgradeKeepsHistory
  BY DEF Init, PageOK, TokensOK, ShownOK, VisitedOK, UpgradeOK, UpgradeKeepsHistory
<1> QED BY <1>1, <1>3, <1>4 DEF Inv

LEMMA InvCorrect == Spec => []Inv
BY InvInitial, InvInductive, PTL DEF Spec

--------------------------------------------------------------------------------
(* Invariants *)

\* Every variable of the inbox has its type.
THEOREM TypeCorrect == Spec => []TypeOK
BY InvCorrect, PTL DEF Inv

\* The ledger never runs ahead of the archive, and no cursor or token of it.
THEOREM LedgerAlwaysBacked == Spec => []LedgerBacked
<1>1. Inv => LedgerBacked
  BY DEF Inv, LedgerOK, TokensOK, LedgerBacked
<1> QED BY <1>1, InvCorrect, PTL

\* What can be marked read has been shown since the account was selected.
THEOREM ReadAlwaysShown == Spec => []ReadWasShown
<1>1. Inv => ReadWasShown
  BY DEF Inv, TokensOK, ReadWasShown, Accepted, UpTo
<1> QED BY <1>1, InvCorrect, PTL

\* An upgrade keeps exactly the old archive as history, in either order.
THEOREM UpgradeAlwaysKeepsHistory == Spec => []UpgradeKeepsHistory
BY InvCorrect, PTL DEF Inv

--------------------------------------------------------------------------------
(* Steps *)

\* Each step is one write of a ledger, a token accepted, or leaves the ledgers alone.
LEMMA StepKinds ==
  ASSUME Inv, [Next]_vars
  PROVE  \/ CommitSync \/ Visit
         \/ \E token \in tokens : MarkRead(token)
         \/ UNCHANGED crm
BY DEF Next, vars, crm, ReadSource, FailSync, LoadMessages, Respond, TakeSnapshot, Select, Restart

\* Every change of a directory's unread state raises its inbox_revision.
THEOREM ChangesAreAnnounced == Spec => ChangesAnnounced
<1>1. Inv /\ [Next]_vars =>
        \A d \in Dirs :
          /\ revision'[d] >= revision[d]
          /\ <<seq[d], history[d], read[d]>>' # <<seq[d], history[d], read[d]>>
               => revision'[d] > revision[d]
  <2> SUFFICES ASSUME Inv, [Next]_vars, NEW d \in Dirs
               PROVE  /\ revision'[d] >= revision[d]
                      /\ <<seq[d], history[d], read[d]>>' # <<seq[d], history[d], read[d]>>
                           => revision'[d] > revision[d]
    OBVIOUS
  <2>1. ASSUME NEW e \in Dirs, NEW payload \in SUBSET Mids, NEW asHistory \in BOOLEAN,
               NEW edited \in BOOLEAN, WriteInbox(e, payload, asHistory, edited)
        PROVE  /\ revision'[d] >= revision[d]
               /\ <<seq[d], history[d], read[d]>>' # <<seq[d], history[d], read[d]>>
                    => revision'[d] > revision[d]
    <3>1. /\ \A f \in Dirs : revision'[f] >= revision[f]
          /\ \/ revision'[e] > revision[e]
             \/ seq'[e] = seq[e] /\ history'[e] = history[e]
          /\ Written(e, payload)
      BY <2>1, WriteFacts DEF Inv
    <3>2. CASE d = e
      BY <3>1, <3>2 DEF Written
    <3>3. CASE d # e
      BY <3>1, <3>3 DEF Written
    <3> QED BY <3>2, <3>3
  <2>2. CASE CommitSync
    <3>1. PICK payload \in SUBSET Mids, asHistory \in BOOLEAN, edited \in BOOLEAN :
            syncing \in Dirs /\ WriteInbox(syncing, payload, asHistory, edited)
      <4>1. syncing \in Dirs /\ Adopted(syncing) \in SUBSET Mids
        BY <2>2 DEF CommitSync, Adopted, Inv, TypeOK
      <4> QED BY <2>2, <4>1 DEF CommitSync
    <3> QED BY <2>1, <3>1
  <2>3. CASE Visit
    <3>1. dir \in Dirs /\ Adopted(dir) \in SUBSET Mids
      BY DEF Adopted, Inv, TypeOK
    <3> QED BY <2>1, <2>3, <3>1 DEF Visit
  <2>4. CASE \E token \in tokens : MarkRead(token)
    <3>1. PICK token \in tokens : MarkRead(token)
      BY <2>4
    <3>2. token.sid \in Sids /\ token.seq \in Nat /\ dir \in Dirs
      BY DEF Inv, TypeOK, Token
    <3>3. CASE d = dir
      BY <3>1, <3>2, <3>3 DEF MarkRead, Inv, TypeOK
    <3>4. CASE d # dir
      BY <3>1, <3>2, <3>4 DEF MarkRead, Inv, TypeOK
    <3> QED BY <3>3, <3>4
  <2>5. CASE UNCHANGED crm
    BY <2>5 DEF crm, Inv, TypeOK
  <2> QED BY <2>2, <2>3, <2>4, <2>5, StepKinds
<1> QED BY <1>1, InvCorrect, PTL DEF Spec, ChangesAnnounced

\* Opening floods nothing, and a first import is unread only beside adopted history.
THEOREM OpeningIsQuiet == Spec => OpensQuietly
<1>1. ASSUME Inv, [Next]_vars, NEW d \in Dirs
      PROVE  /\ d \in opened' \ opened =>
                  ({m \in Mids : seq'[d][m] > 0} \ history'[d]) \cap archive \subseteq Claimed(d)
             /\ d \in synced' \ synced =>
                  {m \in Mids : seq'[d][m] > 0} \subseteq history'[d] \/ history'[d] # {}
  <2>1. CASE CommitSync
    <3> DEFINE baseline == syncing \notin opened /\ syncing \notin synced /\ Adopted(syncing) = {}
    <3>1. PICK msgs \in SUBSET Mids, edited \in BOOLEAN, b \in BOOLEAN :
            /\ WriteInbox(syncing, msgs \cup Adopted(syncing), b, edited)
            /\ b <=> baseline
            /\ synced' = synced \cup {syncing}
      BY <2>1 DEF CommitSync
    <3>2. syncing \in Dirs /\ Adopted(syncing) \in SUBSET Mids
      BY <1>1, <2>1 DEF CommitSync, Adopted, Inv, TypeOK
    <3> DEFINE payload == msgs \cup Adopted(syncing)
    <3>3. /\ Written(syncing, payload)
          /\ history'[syncing] = history[syncing] \cup
                (IF b THEN payload \ Recorded(syncing)
                 ELSE (payload \ Recorded(syncing)) \cap Adopted(syncing))
      BY <1>1, <3>1, <3>2, WriteFacts DEF Inv
    <3>4. CASE d # syncing
      BY <3>1, <3>3, <3>4 DEF Written
    <3>5. CASE d = syncing /\ d \in opened
      <4>1. d \notin synced => history'[d] # {}
        BY <1>1, <3>3, <3>5 DEF Inv, VisitedOK
      <4> QED BY <3>5, <4>1
    <3>6. CASE d = syncing /\ d \notin opened
      <4>1. \A m \in Mids : seq[d][m] = 0
        BY <1>1, <3>6 DEF Inv, LedgerOK, TypeOK, Recorded
      <4>2. {m \in Mids : seq'[d][m] > 0} \subseteq payload /\ Recorded(d) = {}
        BY <3>3, <3>6, <4>1 DEF Written, Recorded
      <4>3. CASE b
        BY <3>3, <3>6, <4>2, <4>3
      <4>4. CASE ~b
        <5>1. Adopted(d) \subseteq history'[d] /\ AdoptsArchive(d)
          BY <3>1, <3>3, <3>6, <4>2, <4>4 DEF Adopted, AdoptsArchive
        <5>2. Adopted(d) = archive \ Claimed(d)
          BY <5>1 DEF Adopted
        <5>3. d \notin synced => Adopted(d) # {}
          BY <3>1, <3>6, <4>4
        <5> QED BY <5>1, <5>2, <5>3
      <4> QED BY <4>3, <4>4
    <3> QED BY <3>4, <3>5, <3>6
  <2>2. CASE Visit
    <3>1. /\ dir \in Dirs /\ Adopted(dir) \in SUBSET Mids /\ synced' = synced
          /\ dir \notin opened /\ AdoptsArchive(dir)
      BY <1>1, <2>2 DEF Visit, Adopted, AdoptsArchive, Inv, TypeOK
    <3>2. /\ Written(dir, Adopted(dir)) /\ Recorded(dir) = {}
          /\ history'[dir] = history[dir] \cup ((Adopted(dir) \ Recorded(dir)) \cap Adopted(dir))
      BY <1>1, <2>2, <3>1, WriteFacts DEF Visit, Inv, LedgerOK
    <3>3. Adopted(dir) = archive \ Claimed(dir)
      BY <3>1 DEF Adopted
    <3> QED BY <3>1, <3>2, <3>3 DEF Written
  <2>3. CASE (\E token \in tokens : MarkRead(token)) \/ UNCHANGED crm
    BY <2>3 DEF MarkRead, crm
  <2> QED BY <1>1, <2>1, <2>2, <2>3, StepKinds
<1>2. Inv /\ [Next]_vars =>
        \A d \in Dirs :
          LET unread == {m \in Mids : seq'[d][m] > 0} \ history'[d]
          IN /\ d \in opened' \ opened => unread \cap archive \subseteq Claimed(d)
             /\ d \in synced' \ synced => unread = {} \/ history'[d] # {}
  BY <1>1
<1> QED BY <1>2, InvCorrect, PTL DEF Spec, OpensQuietly

--------------------------------------------------------------------------------
(* Refinement *)

MarkAll == [d \in Dirs |-> [m \in Mids |-> MarkOf(d, m)]]

\* What a write does to the marks: absent messages of its payload become history or
\* unread, history only by the write that opens the directory.
LEMMA WriteEnters ==
  ASSUME Inv, NEW d \in Dirs, NEW payload \in SUBSET Mids, Written(d, payload),
         d \in opened => history'[d] = history[d], UNCHANGED <<dir, shown>>
  PROVE  Promise!Enter(d)
<1> DEFINE kept == history'[d] \ history[d]
           new == (payload \ Recorded(d)) \ kept
<1>1. \A m \in Mids : seq[d][m] \in Nat /\ seq'[d][m] \in Nat /\ last[d] \in Nat
  BY DEF Inv, TypeOK, Written
<1>2. kept \subseteq {m \in Mids : MarkOf(d, m) = "absent"}
      /\ new \subseteq {m \in Mids : MarkOf(d, m) = "absent"}
  BY <1>1 DEF Written, Recorded, MarkOf
<1>3. ASSUME NEW m \in Mids
      PROVE  MarkOf(d, m)' = IF m \in kept THEN "history"
                             ELSE IF m \in new THEN "unread" ELSE MarkOf(d, m)
  <2>1. read'[d][SidOf[m]] = read[d][SidOf[m]] /\ read[d][SidOf[m]] \in Nat
        /\ read[d][SidOf[m]] <= last[d]
    <3>1. SidOf[m] \in Sids
      BY InboxAssumption
    <3> QED BY <3>1 DEF Inv, TypeOK, LedgerOK, Written
  <2>2. CASE m \in payload \ Recorded(d)
    <3>1. seq[d][m] = 0 /\ seq'[d][m] > last[d] /\ m \notin history[d]
      BY <1>1, <2>2 DEF Recorded, Written, Inv, LedgerOK
    <3>2. seq'[d][m] # 0 /\ seq'[d][m] > read'[d][SidOf[m]]
      BY <1>1, <2>1, <3>1
    <3> QED BY <2>2, <3>1, <3>2 DEF MarkOf
  <2>3. CASE m \notin payload \ Recorded(d)
    <3>1. seq'[d][m] = seq[d][m]
      BY <1>1, <2>3 DEF Recorded, Written
    <3>2. m \notin kept /\ m \notin new /\ (m \in history'[d] <=> m \in history[d])
      BY <2>3 DEF Written
    <3> QED BY <2>1, <3>1, <3>2 DEF MarkOf
  <2> QED BY <2>2, <2>3
<1>4. ASSUME NEW e \in Dirs, e # d, NEW m \in Mids
      PROVE  MarkOf(e, m)' = MarkOf(e, m)
  BY <1>4 DEF Written, MarkOf
<1>5. MarkAll' = [MarkAll EXCEPT ![d] = [m \in Mids |->
                    IF m \in kept THEN "history" ELSE IF m \in new THEN "unread" ELSE @[m]]]
  BY <1>3, <1>4 DEF MarkAll
<1>6. \A m \in Mids : MarkAll[d][m] = MarkOf(d, m)
  BY DEF MarkAll
<1>7. \E k, n \in SUBSET {m \in Mids : MarkAll[d][m] = "absent"} :
        /\ k \cap n = {}
        /\ d \in opened => k = {}
        /\ MarkAll' = [MarkAll EXCEPT ![d] = [m \in Mids |->
                         IF m \in k THEN "history" ELSE IF m \in n THEN "unread" ELSE @[m]]]
  <2>1. kept \in SUBSET {m \in Mids : MarkAll[d][m] = "absent"}
        /\ new \in SUBSET {m \in Mids : MarkAll[d][m] = "absent"}
    BY <1>2, <1>6
  <2>2. kept \cap new = {} /\ (d \in opened => kept = {})
    OBVIOUS
  <2> QED BY <1>5, <2>1, <2>2
<1> QED BY <1>7 DEF Promise!Enter, MarkAll, Written

\* A token accepted turns into read only what is unread and was shown.
LEMMA MarkReadKeeps ==
  ASSUME Inv, NEW token \in tokens, MarkRead(token)
  PROVE  Promise!MarkRead
<1> DEFINE ms == {m \in Mids : /\ SidOf[m] = token.sid /\ MarkOf(dir, m) = "unread"
                              /\ seq[dir][m] <= token.seq}
<1>1. /\ token.sid \in Sids /\ token.seq \in Nat /\ token.dir = dir /\ dir \in Dirs
      /\ token.epoch = epoch
  BY DEF MarkRead, Accepted, Inv, TypeOK, Token
<1>2. ms \subseteq shown
  <2>1. UpTo(dir, token.sid, token.seq) \subseteq shown
    BY <1>1 DEF Inv, TokensOK
  <2>2. ms \subseteq UpTo(dir, token.sid, token.seq)
    BY <1>1 DEF UpTo, Rows, InConversation, Recorded, MarkOf, Inv, TypeOK
  <2> QED BY <2>1, <2>2
<1>3. /\ \A s \in Sids : read'[dir][s] = IF s = token.sid THEN token.seq ELSE read[dir][s]
      /\ \A e \in Dirs \ {dir} : read'[e] = read[e]
      /\ token.seq > read[dir][token.sid]
      /\ UNCHANGED <<seq, history, opened, dir, shown>>
  BY <1>1 DEF MarkRead, Inv, TypeOK
<1>4. ASSUME NEW e \in Dirs, e = dir, NEW m \in Mids
      PROVE  MarkOf(e, m)' = IF m \in ms THEN "read" ELSE MarkOf(e, m)
  <2>1. /\ SidOf[m] \in Sids /\ seq[dir][m] \in Nat /\ read[dir][SidOf[m]] \in Nat
        /\ read[dir][token.sid] \in Nat
    BY <1>1, InboxAssumption DEF Inv, TypeOK
  <2>2. read'[dir][SidOf[m]] = IF SidOf[m] = token.sid THEN token.seq ELSE read[dir][SidOf[m]]
    BY <1>3, <2>1
  <2>3. CASE SidOf[m] = token.sid
    BY <1>1, <1>3, <1>4, <2>1, <2>2, <2>3 DEF MarkOf
  <2>4. CASE SidOf[m] # token.sid
    BY <1>3, <1>4, <2>2, <2>4 DEF MarkOf
  <2> QED BY <2>3, <2>4
<1>5. ASSUME NEW e \in Dirs, e # dir, NEW m \in Mids
      PROVE  MarkOf(e, m)' = MarkOf(e, m)
  BY <1>3, <1>5 DEF MarkOf
<1>6. MarkAll' = [MarkAll EXCEPT ![dir] = [m \in Mids |-> IF m \in ms THEN "read" ELSE @[m]]]
  <2>1. \A e \in Dirs, m \in Mids :
          MarkOf(e, m)' = IF e = dir /\ m \in ms THEN "read" ELSE MarkOf(e, m)
    BY <1>4, <1>5
  <2> HIDE DEF ms
  <2> QED BY <1>1, <2>1 DEF MarkAll
<1>7. ms \in SUBSET {m \in shown : MarkAll[dir][m] = "unread"}
  BY <1>1, <1>2 DEF MarkAll
<1> QED BY <1>3, <1>6, <1>7 DEF Promise!MarkRead, MarkAll

\* Every step of the inbox is a step of the abstract inbox, or none.
THEOREM InboxKeepsPromise == Spec => KeepsPromise
<1>1. Init => Promise!PInit
  BY DEF Init, MarkOf, Promise!PInit
<1>2. Inv /\ [Next]_vars => [Promise!PNext]_(Promise!pvars)
  <2> SUFFICES ASSUME Inv, [Next]_vars PROVE [Promise!PNext]_(Promise!pvars)
    OBVIOUS
  <2>1. CASE CommitSync
    <3>1. PICK payload \in SUBSET Mids, asHistory \in BOOLEAN, edited \in BOOLEAN :
            /\ syncing \in Dirs /\ WriteInbox(syncing, payload, asHistory, edited)
            /\ asHistory => syncing \notin opened
      <4>1. syncing \in Dirs /\ Adopted(syncing) \in SUBSET Mids
        BY <2>1 DEF CommitSync, Adopted, Inv, TypeOK
      <4> QED BY <2>1, <4>1 DEF CommitSync
    <3>2. /\ Written(syncing, payload)
          /\ history'[syncing] = history[syncing] \cup
                (IF asHistory THEN payload \ Recorded(syncing)
                 ELSE (payload \ Recorded(syncing)) \cap Adopted(syncing))
      BY <3>1, WriteFacts DEF Inv
    <3>3. syncing \in opened => history'[syncing] = history[syncing]
      BY <3>1, <3>2 DEF Adopted, AdoptsArchive
    <3>4. UNCHANGED <<dir, shown>>
      BY <2>1 DEF CommitSync
    <3> QED BY <3>1, <3>2, <3>3, <3>4, WriteEnters DEF Promise!PNext
  <2>2. CASE Visit
    <3>1. dir \in Dirs /\ Adopted(dir) \in SUBSET Mids /\ dir \notin opened
      BY <2>2 DEF Visit, Adopted, Inv, TypeOK
    <3>2. Written(dir, Adopted(dir)) /\ UNCHANGED <<dir, shown>>
      BY <2>2, <3>1, WriteFacts DEF Visit, Inv
    <3> QED BY <3>1, <3>2, WriteEnters DEF Promise!PNext
  <2>3. CASE \E token \in tokens : MarkRead(token)
    BY <2>3, MarkReadKeeps DEF Promise!PNext
  <2>4. CASE Respond
    <3>1. UNCHANGED <<crm, dir>>
      BY <2>4 DEF Respond
    <3>2. UNCHANGED <<MarkAll, opened, dir>>
      BY <3>1 DEF crm, MarkAll, MarkOf
    <3>3. \/ shown' = shown
          \/ shown' = shown \cup (page.msgs \cap Recorded(dir))
      BY <2>4 DEF Respond
    <3>4. page.msgs \cap Recorded(dir) \in SUBSET {m \in Mids : MarkAll[dir][m] # "absent"}
      BY DEF MarkAll, MarkOf, Recorded, Inv, TypeOK
    <3>5. shown' = shown => UNCHANGED Promise!pvars
      BY <3>2 DEF Promise!pvars, MarkAll
    <3>6. shown' = shown \cup (page.msgs \cap Recorded(dir)) => Promise!Show
      BY <3>2, <3>4 DEF Promise!Show, MarkAll
    <3> QED BY <3>3, <3>5, <3>6 DEF Promise!PNext
  <2>5. CASE Select \/ Restart
    <3>1. UNCHANGED <<crm>> /\ dir' \in Dirs /\ shown' = {}
      BY <2>5 DEF Select, Restart, Inv, TypeOK
    <3>2. UNCHANGED <<MarkAll, opened>>
      BY <3>1 DEF crm, MarkAll, MarkOf
    <3> QED BY <3>1, <3>2 DEF Promise!Select, Promise!PNext, MarkAll
  <2>6. CASE UNCHANGED <<crm, dir, shown>>
    BY <2>6 DEF crm, Promise!pvars, MarkOf
  <2>7. \/ CommitSync \/ Visit \/ (\E token \in tokens : MarkRead(token))
        \/ Respond \/ Select \/ Restart \/ UNCHANGED <<crm, dir, shown>>
    BY DEF Next, vars, crm, ReadSource, FailSync, LoadMessages, TakeSnapshot
  <2> QED BY <2>1, <2>2, <2>3, <2>4, <2>5, <2>6, <2>7
<1> QED BY <1>1, <1>2, InvCorrect, PTL DEF Spec, KeepsPromise, Promise!PSpec
================================================================================
