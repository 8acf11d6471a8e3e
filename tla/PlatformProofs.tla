------------------------------ MODULE PlatformProofs ------------------------------
(***************************************************************************)
(* Theorems about Platform, for any accounts, requests, processes and      *)
(* bounds.  A section per part, each with the inductive invariant of the   *)
(* part: the logins, the copies of the client's database, the captured     *)
(* identities, the portraits, the client's session, the native logs and    *)
(* the rotated log.  The last section puts the parts together.             *)
(***************************************************************************)
EXTENDS Platform, Sequences, FiniteSetTheorems, WellFoundedInduction, TLAPS

--------------------------------------------------------------------------------
(* The logins *)

Token == [id : Nat, secret : Secrets \cup {None}, rotation : Nat]

Process == [state : {"down", "starting", "serving"}, secret : Secrets \cup {None},
            cooling : BOOLEAN, task : {None, "issue", "business", "logout"}, token : Token]

LoginsType ==
    /\ secret \in Secrets
    /\ rotations \in Nat
    /\ app \in [Apps -> Process]
    /\ issued \subseteq Token
    /\ IsFiniteSet(issued)

\* The numbers of tokens are given out once.
NumbersOK ==
    /\ \A token \in issued : token.id \in 1..Cardinality(issued)
    /\ ended \subseteq 0..Cardinality(issued)
    /\ \A i \in Apps : app[i].token \in issued \cup {NoToken}

\* What the database holds is of its fingerprint and not ended.
Live(token) ==
    /\ token.secret = fingerprint
    /\ token.rotation = rotations
    /\ token.id \notin ended

StoreOK == \A token \in issued : token.id \in tokens => Live(token)

LoginsInv == LoginsType /\ NumbersOK /\ StoreOK

--------------------------------------------------------------------------------
\* A transaction of SessionStore.initialize, by an application or by the command,
\* leaves nothing of another secret.
LEMMA InitializedKeepsStore ==
    ASSUME NEW s, LoginsInv, Initialized(s), UNCHANGED <<issued, ended>>
    PROVE  rotations' \in Nat /\ StoreOK'
<1>1. CASE fingerprint = s
    BY <1>1 DEF LoginsInv, LoginsType, StoreOK, Live, Initialized, Survivors
<1>2. CASE fingerprint # s
    BY <1>2 DEF LoginsInv, LoginsType, StoreOK, Initialized, Survivors
<1> QED BY <1>1, <1>2

\* What LoginsInv says is kept where the store and the history are left alone.
LEMMA KeptElsewhere ==
    ASSUME LoginsInv, UNCHANGED <<fingerprint, tokens, issued, rotations, ended>>,
           secret' \in Secrets, app' \in [Apps -> Process],
           \A i \in Apps : app'[i].token \in issued \cup {NoToken}
    PROVE  LoginsInv'
BY DEF LoginsInv, LoginsType, NumbersOK, StoreOK, Live

\* A step of one process keeps the types and the numbers of all.
LEMMA OneProcess ==
    ASSUME LoginsType, NumbersOK, NEW i \in Apps, NEW p \in Process,
           p.token \in issued \cup {NoToken}, app' = [app EXCEPT ![i] = p]
    PROVE  app' \in [Apps -> Process] /\ \A j \in Apps : app'[j].token \in issued \cup {NoToken}
<1>1. app' \in [Apps -> Process]
    BY DEF LoginsType
<1>2. ASSUME NEW j \in Apps PROVE app'[j].token \in issued \cup {NoToken}
    <2>1. CASE j = i
        BY <2>1 DEF LoginsType
    <2>2. CASE j # i
        BY <2>2 DEF LoginsType, NumbersOK
    <2> QED BY <2>1, <2>2
<1> QED BY <1>1, <1>2

LEMMA InitInv == Init => LoginsInv
<1> SUFFICES ASSUME Init PROVE LoginsInv
    OBVIOUS
<1>1. LoginsType
    BY FS_EmptySet DEF Init, LoginsType, Down, NoToken, Process, Token
<1>2. NumbersOK /\ StoreOK
    BY DEF Init, NumbersOK, StoreOK, Down
<1> QED BY <1>1, <1>2 DEF LoginsInv

LEMMA StepInv == LoginsInv /\ [Next]_vars => LoginsInv'
<1> SUFFICES ASSUME LoginsInv, [Next]_vars PROVE LoginsInv'
    OBVIOUS
<1> USE DEF LoginsInv
<1>1. CASE UNCHANGED vars
    BY <1>1 DEF LoginsType, NumbersOK, StoreOK, Live, vars
<1>2. ASSUME NEW i \in Apps,
             Start(i) \/ Exit(i) \/ Login(i) \/ CoolDown(i) \/ Contains(i) \/ Handle(i)
      PROVE  LoginsInv'
    <2>1. UNCHANGED <<fingerprint, tokens, issued, rotations, ended, secret>>
        BY <1>2 DEF Start, Exit, Login, CoolDown, Contains, Handle
    <2>2. app' \in [Apps -> Process] /\ \A j \in Apps : app'[j].token \in issued \cup {NoToken}
        <3> USE DEF LoginsType, NumbersOK, Process
        <3>1. NoToken \in Token
            BY DEF NoToken, Token
        <3>2. CASE Start(i)
            BY <3>1, <3>2 DEF Start, Down
        <3>3. CASE Exit(i)
            BY <3>1, <3>3 DEF Exit, Down
        <3>4. CASE Login(i)
            <4>1. PICK task \in {None, "issue"} :
                      app' = [app EXCEPT ![i] = [app[i] EXCEPT !.cooling = TRUE, !.task = task]]
                BY <3>4 DEF Login
            <4>2. [app[i] EXCEPT !.cooling = TRUE, !.task = task] \in Process
                OBVIOUS
            <4> QED BY <4>1, <4>2, OneProcess
        <3>5. CASE CoolDown(i)
            <4>1. app' = [app EXCEPT ![i] = [app[i] EXCEPT !.cooling = FALSE]]
                BY <3>5 DEF CoolDown
            <4>2. [app[i] EXCEPT !.cooling = FALSE] \in Process
                OBVIOUS
            <4> QED BY <4>1, <4>2, OneProcess
        <3>6. CASE Contains(i)
            <4>1. PICK token \in issued, task \in {"business", "logout"} :
                      app' = [app EXCEPT ![i] = [app[i] EXCEPT !.task = task, !.token = token]]
                BY <3>6 DEF Contains
            <4>2. [app[i] EXCEPT !.task = task, !.token = token] \in Process
                OBVIOUS
            <4> QED BY <4>1, <4>2, OneProcess
        <3>7. CASE Handle(i)
            <4>1. app' = [app EXCEPT ![i] = [app[i] EXCEPT !.task = None, !.token = NoToken]]
                BY <3>7 DEF Handle
            <4>2. [app[i] EXCEPT !.task = None, !.token = NoToken] \in Process
                BY <3>1
            <4> QED BY <4>1, <4>2, OneProcess
        <3> QED BY <1>2, <3>2, <3>3, <3>4, <3>5, <3>6, <3>7
    <2> QED BY <2>1, <2>2, KeptElsewhere DEF LoginsType
<1>3. ASSUME NEW i \in Apps, Initialize(i) PROVE LoginsInv'
    <2>1. UNCHANGED <<secret, issued, ended>>
        BY <1>3 DEF Initialize
    <2>2. app' \in [Apps -> Process] /\ \A j \in Apps : app'[j].token \in issued \cup {NoToken}
        <3>1. CASE app' = [app EXCEPT ![i].state = "serving"]
            BY <3>1 DEF LoginsType, NumbersOK, Process
        <3>2. CASE app' = [app EXCEPT ![i] = Down]
            BY <3>2 DEF LoginsType, NumbersOK, Process, Down, NoToken, Token
        <3> QED BY <1>3, <3>1, <3>2 DEF Initialize
    <2>3. CASE Initialized(app[i].secret)
        <3>1. rotations' \in Nat /\ StoreOK'
            BY <2>1, <2>3, InitializedKeepsStore
        <3> QED BY <2>1, <2>2, <3>1 DEF LoginsType, NumbersOK
    <2>4. CASE UNCHANGED <<fingerprint, tokens, rotations>>
        BY <2>1, <2>2, <2>4, KeptElsewhere DEF LoginsType
    <2> QED BY <1>3, <2>3, <2>4 DEF Initialize
<1>4. ASSUME NEW i \in Apps, Issue(i) PROVE LoginsInv'
    <2>1. UNCHANGED <<secret, fingerprint, rotations, ended>>
        BY <1>4 DEF Issue
    <2>2. app' = [app EXCEPT ![i].task = None]
        BY <1>4 DEF Issue
    <2>3. app' \in [Apps -> Process] /\ \A j \in Apps : app'[j].token \in issued \cup {NoToken}
        BY <2>2 DEF LoginsType, NumbersOK, Process
    <2>4. CASE UNCHANGED <<tokens, issued>>
        BY <2>1, <2>3, <2>4, KeptElsewhere DEF LoginsType
    <2>5. CASE Matches(app[i].secret) /\ ~UNCHANGED <<tokens, issued>>
        <3>1. PICK n \in Nat : n = Cardinality(issued)
            BY FS_CardinalityType DEF LoginsType
        <3>2. PICK token \in Token :
                  /\ token.id = n + 1 /\ token.secret = fingerprint /\ token.rotation = rotations
                  /\ tokens' = tokens \cup {n + 1} /\ issued' = issued \cup {token}
            <4>1. [id |-> n + 1, secret |-> app[i].secret, rotation |-> rotations] \in Token
                BY DEF LoginsType, Token, Process
            <4> QED BY <1>4, <2>5, <3>1, <4>1 DEF Issue, Matches
        <3>3. token \notin issued
            BY <3>1, <3>2 DEF NumbersOK
        <3>4. IsFiniteSet(issued') /\ Cardinality(issued') = n + 1
            BY <3>1, <3>2, <3>3, FS_AddElement DEF LoginsType
        <3>5. LoginsType'
            BY <2>1, <2>3, <3>2, <3>4 DEF LoginsType
        <3>6. NumbersOK'
            <4>1. \A t \in issued' : t.id \in 1..(n + 1)
                BY <3>1, <3>2 DEF NumbersOK
            <4>2. ended' \subseteq 0..(n + 1)
                BY <2>1, <3>1 DEF NumbersOK
            <4>3. \A j \in Apps : app'[j].token \in issued' \cup {NoToken}
                BY <2>3, <3>2
            <4> QED BY <3>4, <4>1, <4>2, <4>3 DEF NumbersOK
        <3>7. StoreOK'
            <4>1. ASSUME NEW t \in issued, t.id \in tokens' PROVE Live(t)'
                <5>1. t.id # n + 1
                    BY <3>1 DEF NumbersOK
                <5> QED BY <2>1, <3>2, <4>1, <5>1 DEF StoreOK, Live
            <4>2. Live(token)'
                BY <2>1, <3>1, <3>2 DEF Live, NumbersOK
            <4> QED BY <3>2, <4>1, <4>2 DEF StoreOK
        <3> QED BY <3>5, <3>6, <3>7
    <2> QED BY <1>4, <2>4, <2>5 DEF Issue
<1>5. ASSUME NEW i \in Apps, Logout(i) PROVE LoginsInv'
    <2>1. UNCHANGED <<secret, fingerprint, issued, rotations>>
        BY <1>5 DEF Logout
    <2>2. app' \in [Apps -> Process] /\ \A j \in Apps : app'[j].token \in issued \cup {NoToken}
        <3>1. app' = [app EXCEPT ![i] = [app[i] EXCEPT !.task = None, !.token = NoToken]]
            BY <1>5 DEF Logout
        <3>2. NoToken \in Token
            BY DEF NoToken, Token
        <3>3. /\ [app[i] EXCEPT !.task = None, !.token = NoToken] \in Process
              /\ [app[i] EXCEPT !.task = None, !.token = NoToken].token = NoToken
            BY <3>2 DEF LoginsType, Process
        <3> QED BY <3>1, <3>3, OneProcess
    <2>3. CASE UNCHANGED <<tokens, ended>>
        BY <2>1, <2>2, <2>3, KeptElsewhere DEF LoginsType
    <2>4. CASE /\ tokens' = tokens \ {app[i].token.id}
               /\ ended' = ended \cup {app[i].token.id}
        <3>1. app[i].token.id \in 0..Cardinality(issued)
            <4>1. Cardinality(issued) \in Nat
                BY FS_CardinalityType DEF LoginsType
            <4> QED BY <4>1 DEF NumbersOK, NoToken
        <3>2. NumbersOK'
            BY <2>1, <2>2, <2>4, <3>1 DEF NumbersOK
        <3>3. StoreOK'
            BY <2>1, <2>4 DEF StoreOK, Live
        <3> QED BY <2>1, <2>2, <3>2, <3>3 DEF LoginsType
    <2> QED BY <1>5, <2>3, <2>4 DEF Logout
<1>6. CASE Rotate \/ StartCommand
    BY <1>6, KeptElsewhere DEF Rotate, StartCommand, LoginsType, NumbersOK
<1>7. CASE InitializeCommand
    <2>1. rotations' \in Nat /\ StoreOK'
        BY <1>7, InitializedKeepsStore DEF InitializeCommand
    <2> QED BY <1>7, <2>1 DEF InitializeCommand, LoginsType, NumbersOK
<1>8. CASE RevokeAll
    <2>1. UNCHANGED <<secret, app, issued, rotations, fingerprint>>
        BY <1>8 DEF RevokeAll
    <2>2. CASE UNCHANGED <<tokens, ended>>
        BY <2>1, <2>2, KeptElsewhere DEF LoginsType, NumbersOK
    <2>3. CASE tokens' = {} /\ ended' = ended \cup {token.id : token \in issued}
        <3>1. NumbersOK'
            <4>1. Cardinality(issued) \in Nat
                BY FS_CardinalityType DEF LoginsType
            <4>2. {token.id : token \in issued} \subseteq 0..Cardinality(issued)
                BY <4>1 DEF NumbersOK
            <4> QED BY <2>1, <2>3, <4>2 DEF NumbersOK
        <3> QED BY <2>1, <2>3, <3>1 DEF LoginsType, StoreOK
    <2> QED BY <1>8, <2>2, <2>3 DEF RevokeAll
<1> QED BY <1>1, <1>2, <1>3, <1>4, <1>5, <1>6, <1>7, <1>8 DEF Next

\* Everything the database holds is of its fingerprint and of its last rotation, and
\* no ended token comes back (SessionStore, auth.py:105-124).
THEOREM StoreIsLive == Spec => []LoginsInv
<1> QED BY InitInv, StepInv, PTL DEF Spec

\* A request is let in only with a live token of the secret of the process that is
\* asked (AUTH.md:93-95), whatever was started, revoked or lost before.
THEOREM LetInIsLive == Spec => LetInWithLiveToken
<1>1. ASSUME LoginsInv, [Next]_vars,
             NEW i \in Apps, app'[i].token # app[i].token, app'[i].token # NoToken
      PROVE  /\ app'[i].token.secret = app[i].secret
             /\ app'[i].token.rotation = rotations
             /\ app'[i].token.id \notin ended
    <2>1. PICK j \in Apps : Contains(j)
        <3>1. UNCHANGED app \/ \E j \in Apps :
                  \/ Start(j) \/ Initialize(j) \/ Exit(j) \/ Login(j) \/ CoolDown(j)
                  \/ Issue(j) \/ Contains(j) \/ Handle(j) \/ Logout(j)
            BY <1>1 DEF Next, vars, Rotate, StartCommand, InitializeCommand, RevokeAll
        <3>2. ASSUME NEW j \in Apps, Start(j) \/ Exit(j) \/ Handle(j) \/ Logout(j)
              PROVE  FALSE
            <4>1. \/ \E s \in Secrets :
                         app' = [app EXCEPT ![j] = [Down EXCEPT !.state = "starting", !.secret = s]]
                  \/ app' = [app EXCEPT ![j] = Down]
                  \/ app' = [app EXCEPT ![j].task = None, ![j].token = NoToken]
                BY <1>1, <3>2 DEF LoginsInv, LoginsType, Start, Exit, Handle, Logout
            <4>2. app'[i].token \in {app[i].token, NoToken}
                <5>1. CASE app' = [app EXCEPT ![j].task = None, ![j].token = NoToken]
                    BY <1>1, <5>1 DEF LoginsInv, LoginsType, Process
                <5>2. ASSUME NEW down, app' = [app EXCEPT ![j] = down], down.token = NoToken
                      PROVE  app'[i].token \in {app[i].token, NoToken}
                    BY <1>1, <5>2 DEF LoginsInv, LoginsType, Process
                <5>3. Down.token = NoToken /\ \A s : [Down EXCEPT !.state = "starting", !.secret = s].token = NoToken
                    BY DEF Down
                <5> QED BY <4>1, <5>1, <5>2, <5>3
            <4> QED BY <1>1, <4>2
        <3>3. ASSUME NEW j \in Apps, Initialize(j) \/ Login(j) \/ CoolDown(j) \/ Issue(j)
              PROVE  FALSE
            <4>1. app'[i].token \in {app[i].token, NoToken}
                <5>1. CASE Initialize(j)
                    <6>1. \/ app' = [app EXCEPT ![j].state = "serving"]
                          \/ app' = [app EXCEPT ![j] = Down]
                        BY <5>1 DEF Initialize
                    <6> QED BY <6>1, <1>1 DEF LoginsInv, LoginsType, Process, Down
                <5>2. CASE Login(j)
                    <6>1. PICK task \in {None, "issue"} :
                              app' = [app EXCEPT ![j].cooling = TRUE, ![j].task = task]
                        BY <5>2 DEF Login
                    <6> QED BY <6>1, <1>1 DEF LoginsInv, LoginsType, Process
                <5>3. CASE CoolDown(j)
                    BY <5>3, <1>1 DEF LoginsInv, LoginsType, Process, CoolDown
                <5>4. CASE Issue(j)
                    <6>1. app' = [app EXCEPT ![j].task = None]
                        BY <5>4 DEF Issue
                    <6> QED BY <6>1, <1>1 DEF LoginsInv, LoginsType, Process
                <5> QED BY <3>3, <5>1, <5>2, <5>3, <5>4
            <4> QED BY <1>1, <4>1
        <3> QED BY <1>1, <3>1, <3>2, <3>3
    <2>2. PICK token \in issued :
              /\ Matches(app[j].secret) /\ token.id \in tokens
              /\ \E task \in {"business", "logout"} :
                    app' = [app EXCEPT ![j].task = task, ![j].token = token]
        BY <2>1 DEF Contains
    <2>3. i = j /\ app'[i].token = token
        BY <1>1, <2>2 DEF LoginsInv, LoginsType, Process
    <2>4. Live(token)
        BY <1>1, <2>2 DEF LoginsInv, StoreOK
    <2> QED BY <2>2, <2>3, <2>4 DEF Live, Matches
<1>2. LoginsInv /\ [Next]_vars =>
        [\A i \in Apps : app'[i].token # app[i].token /\ app'[i].token # NoToken =>
            /\ app'[i].token.secret = app[i].secret
            /\ app'[i].token.rotation = rotations
            /\ app'[i].token.id \notin ended]_vars
    BY <1>1
<1> QED BY <1>2, StoreIsLive, PTL DEF Spec, LetInWithLiveToken

--------------------------------------------------------------------------------
(* The copies of the client's database *)

Frame == [salt : Nat, write : Nat]

SourceFile ==
    [main : Nat, goal : Nat, salt : Nat, wal : Seq(Frame), used : Nat, stamp : Nat]

\* The client's database: the frames it uses are of the present salt and of consecutive
\* transactions that continue the main file; what follows them is older.
SourceOK(s) ==
    /\ s \in SourceFile
    /\ s.used <= Len(s.wal)
    /\ \A i \in 1..Len(s.wal) : IF i <= s.used THEN s.wal[i].salt = s.salt ELSE s.wal[i].salt < s.salt
    /\ \A i \in 2..s.used : s.wal[i].write = s.wal[i - 1].write + 1
    /\ s.main <= s.goal
    /\ s.used = 0 => s.goal = s.main
    /\ s.used > 0 => s.wal[1].write <= s.main + 1 /\ s.goal <= s.wal[s.used].write

\* The first source: its two frames.
LEMMA TwoFramesOK ==
    ASSUME NEW w \in Seq(Frame), Len(w) = 2,
           w[1].salt = 0, w[2].salt = 0, w[1].write = 1, w[2].write = 2,
           NEW t \in SourceFile, t.salt = 0, t.main = 0, t.goal = 0,
           NEW s, s = [t EXCEPT !.used = 2, !.wal = w]
    PROVE  SourceOK(s)
<1>1. s \in SourceFile /\ s.wal = w /\ s.used = 2 /\ s.salt = 0 /\ s.main = 0 /\ s.goal = 0
    BY DEF SourceFile
<1>a. Len(s.wal) = 2
    BY <1>1, Zenon
<1>b. 2 <= 2 /\ 0 <= 0 /\ 2 # 0
    OBVIOUS
<1>2. s.used <= Len(s.wal) /\ s.main <= s.goal /\ s.used # 0
    BY <1>1, <1>a, <1>b, Zenon
<1>3. \A i \in 1..2 : w[i].salt = 0
    OBVIOUS
<1>4. \A i \in 1..Len(s.wal) : IF i <= s.used THEN s.wal[i].salt = s.salt ELSE s.wal[i].salt < s.salt
    <2>1. \A i \in 1..2 : IF i <= 2 THEN w[i].salt = 0 ELSE w[i].salt < 0
        BY <1>3
    <2> QED BY <1>1, <1>a, <2>1, Zenon
<1>5. \A i \in 2..s.used : s.wal[i].write = s.wal[i - 1].write + 1
    BY <1>1
<1>6. s.wal[1].write <= s.main + 1 /\ s.goal <= s.wal[s.used].write
    BY <1>1
<1> QED BY <1>1, <1>2, <1>4, <1>5, <1>6, Zenon DEF SourceOK

LEMMA FirstSourceOK == SourceOK(S!FirstSource) /\ S!NewSource \in SourceFile
<1> DEFINE w == <<[salt |-> 0, write |-> 1], [salt |-> 0, write |-> 2]>>
<1>1. S!NewSource \in SourceFile /\ S!NewSource.salt = 0 /\ S!NewSource.main = 0 /\ S!NewSource.goal = 0
    BY DEF S!NewSource, SourceFile
<1>2. w \in Seq(Frame)
    BY DEF Frame
<1>3. Len(w) = 2 /\ w[1].salt = 0 /\ w[2].salt = 0 /\ w[1].write = 1 /\ w[2].write = 2
    OBVIOUS
<1>4. S!FirstSource = [S!NewSource EXCEPT !.used = 2, !.wal = w]
    BY DEF S!FirstSource
<1> HIDE DEF w
<1> QED BY <1>1, <1>2, <1>3, <1>4, TwoFramesOK, Zenon

\* The pair of files shows what the client knows.
LEMMA WrittenFacts ==
    ASSUME NEW s, SourceOK(s)
    PROVE  /\ S!Written(s) \in Nat /\ s.goal <= S!Written(s)
           /\ s.used > 0 => S!Written(s) = s.wal[s.used].write
           /\ s.used = 0 => S!Written(s) = s.main
<1>1. s \in SourceFile /\ s.used \in Nat /\ s.main \in Nat /\ s.wal \in Seq(Frame)
    BY DEF SourceOK, SourceFile
<1>2. ASSUME s.used > 0 PROVE s.wal[s.used] \in Frame
    BY <1>1, <1>2 DEF SourceOK
<1> QED BY <1>1, <1>2 DEF SourceOK, S!Written, Frame

LEMMA UsableIsUsed ==
    ASSUME NEW s, SourceOK(s)
    PROVE  S!Usable(s) = s.used
<1> DEFINE Q == {n \in 0..Len(s.wal) : \A i \in 1..n : s.wal[i].salt = s.salt}
<1>1. s \in SourceFile /\ s.used \in Nat /\ s.wal \in Seq(Frame) /\ Len(s.wal) \in Nat /\ s.salt \in Nat
    BY DEF SourceOK, SourceFile
<1>2. s.used \in Q
    BY <1>1 DEF SourceOK
<1>3. ASSUME NEW n \in Q PROVE n <= s.used
    <2>1. SUFFICES ASSUME n > s.used PROVE FALSE
        BY <1>1
    <2>2. s.used + 1 \in 1..n /\ s.used + 1 \in 1..Len(s.wal)
        BY <1>1, <2>1
    <2>3. s.wal[s.used + 1].salt = s.salt /\ s.wal[s.used + 1].salt < s.salt
        BY <1>1, <2>2 DEF SourceOK
    <2> QED BY <1>1, <2>3
<1>4. \A n \in Q : n \in Nat
    OBVIOUS
<1>5. S!Usable(s) = S!Max(Q)
    BY DEF S!Usable
<1> HIDE DEF Q
<1>6. S!Max(Q) \in Q /\ \A n \in Q : S!Max(Q) >= n
    BY <1>1, <1>2, <1>3, <1>4 DEF S!Max
<1> QED BY <1>1, <1>2, <1>3, <1>4, <1>5, <1>6

LEMMA SourceIsWhole ==
    ASSUME NEW s, SourceOK(s)
    PROVE  S!Whole(s) /\ S!Logical(s) = S!Written(s)
<1> DEFINE f == [i \in 1..S!Usable(s) |-> s.wal[i].write]
<1>1. s \in SourceFile /\ s.used \in Nat /\ s.wal \in Seq(Frame) /\ Len(s.wal) \in Nat /\ s.used <= Len(s.wal)
      /\ s.main \in Nat /\ s.goal \in Nat
    BY DEF SourceOK, SourceFile
<1>u. S!Usable(s) = s.used
    BY UsableIsUsed
<1>2. S!Frames(s) = f
    BY DEF S!Frames
<1>3. \A i \in 1..s.used : s.wal[i] \in Frame /\ s.wal[i].write \in Nat
    <2>1. \A i \in 1..s.used : s.wal[i] \in Frame
        BY <1>1
    <2> QED BY <2>1 DEF Frame
<1>4. f \in Seq(Nat) /\ Len(f) = s.used /\ \A i \in 1..s.used : f[i] = s.wal[i].write
    BY <1>1, <1>3, <1>u
<1> HIDE DEF f
<1>5. f = <<>> <=> s.used = 0
    BY <1>1, <1>4
<1>6. s.used > 0 => S!Last(f) = s.wal[s.used].write /\ f[1] = s.wal[1].write
    BY <1>1, <1>4 DEF S!Last
<1>7. S!Logical(s) = S!Written(s)
    <2>1. CASE s.used = 0
        BY <1>2, <1>5, <2>1, WrittenFacts DEF S!Logical
    <2>2. CASE s.used > 0
        BY <1>2, <1>5, <1>6, <2>2, WrittenFacts DEF S!Logical
    <2> QED BY <1>1, <2>1, <2>2
<1>8. \A i \in 2..Len(f) : f[i] = f[i - 1] + 1
    <2>1. TAKE i \in 2..Len(f)
    <2>n. i \in 2..s.used /\ i \in 1..s.used /\ i - 1 \in 1..s.used
        BY <1>1, <1>4
    <2>2. i \in 2..s.used /\ f[i] = s.wal[i].write /\ f[i - 1] = s.wal[i - 1].write
        BY <1>4, <2>n
    <2> QED BY <2>2 DEF SourceOK
<1>9. f # <<>> => f[1] <= s.main + 1 /\ S!Last(f) >= s.main
    BY <1>1, <1>3, <1>5, <1>6 DEF SourceOK
<1>10. s.goal > s.main => f # <<>> /\ S!Last(f) >= s.goal
    BY <1>1, <1>3, <1>5, <1>6 DEF SourceOK
<1>11. S!Whole(s)
    BY <1>2, <1>8, <1>9, <1>10 DEF S!Whole
<1> QED BY <1>7, <1>11

\* A transaction is one more frame.
LEMMA FrameWritten ==
    ASSUME NEW s, SourceOK(s)
    PROVE  SourceOK(S!WriteFrame(s)) /\ S!Written(S!WriteFrame(s)) >= S!Written(s)
<1>1. /\ s \in SourceFile /\ s.used \in Nat /\ s.wal \in Seq(Frame) /\ Len(s.wal) \in Nat
      /\ s.used <= Len(s.wal) /\ s.main \in Nat /\ s.goal \in Nat /\ s.salt \in Nat
      /\ s.stamp + 1 \in Nat /\ S!Written(s) \in Nat
    BY WrittenFacts DEF SourceOK, SourceFile
<1>2. PICK frame \in Frame :
        /\ frame = [salt |-> s.salt, write |-> S!Written(s) + 1]
        /\ frame.salt = s.salt /\ frame.write = S!Written(s) + 1
    <2>1. [salt |-> s.salt, write |-> S!Written(s) + 1] \in Frame
        BY <1>1 DEF Frame
    <2> QED BY <2>1
<1>3. PICK n \in Nat : n = s.used + 1
    BY <1>1
<1>4. PICK wal \in Seq(Frame) :
        /\ wal = IF n <= Len(s.wal) THEN [s.wal EXCEPT ![n] = frame] ELSE Append(s.wal, frame)
        /\ Len(wal) >= n /\ wal[n] = frame
        /\ \A i \in 1..Len(wal) : i # n => i \in 1..Len(s.wal) /\ wal[i] = s.wal[i]
    <2>1. CASE n <= Len(s.wal)
        <3>1. n \in 1..Len(s.wal)
            BY <1>1, <1>3, <2>1
        <3>2. [s.wal EXCEPT ![n] = frame] \in Seq(Frame)
            BY <1>1, <3>1
        <3>3. /\ Len([s.wal EXCEPT ![n] = frame]) = Len(s.wal)
              /\ [s.wal EXCEPT ![n] = frame][n] = frame
              /\ \A i \in 1..Len(s.wal) : i # n => [s.wal EXCEPT ![n] = frame][i] = s.wal[i]
            BY <1>1, <3>1
        <3> QED BY <2>1, <3>1, <3>2, <3>3
    <2>2. CASE ~(n <= Len(s.wal))
        <3>1. n = Len(s.wal) + 1
            BY <1>1, <1>3, <2>2
        <3> DEFINE a == Append(s.wal, frame)
        <3>2. /\ a \in Seq(Frame) /\ Len(a) = n /\ a[n] = frame
              /\ \A i \in 1..n : i # n => i \in 1..Len(s.wal) /\ a[i] = s.wal[i]
            BY <1>1, <3>1
        <3>3. a = IF n <= Len(s.wal) THEN [s.wal EXCEPT ![n] = frame] ELSE Append(s.wal, frame)
            BY <2>2
        <3> HIDE DEF a
        <3>4. Len(a) >= n /\ \A i \in 1..Len(a) : i # n => i \in 1..Len(s.wal) /\ a[i] = s.wal[i]
            BY <1>3, <3>2
        <3> QED BY <3>2, <3>3, <3>4
    <2> QED BY <2>1, <2>2
<1>5. PICK w \in SourceFile :
        /\ w = S!WriteFrame(s)
        /\ w.used = n /\ w.wal = wal /\ w.main = s.main /\ w.goal = s.goal /\ w.salt = s.salt
    <2> DEFINE v == [s EXCEPT !.used = n, !.wal = wal, !.stamp = s.stamp + 1]
    <2>1. /\ v \in SourceFile
          /\ v.used = n /\ v.wal = wal /\ v.main = s.main /\ v.goal = s.goal /\ v.salt = s.salt
        BY <1>1 DEF SourceFile
    <2>2. S!WriteFrame(s) = S!Stamped([s EXCEPT !.used = n, !.wal = wal])
        BY <1>2, <1>3, <1>4 DEF S!WriteFrame
    <2>3. S!WriteFrame(s) = v
        BY <1>1, <2>2 DEF S!Stamped, SourceFile
    <2> QED BY <2>1, <2>3
<1>6. \A i \in 1..Len(wal) : IF i <= n THEN wal[i].salt = s.salt ELSE wal[i].salt < s.salt
    BY <1>1, <1>2, <1>3, <1>4 DEF SourceOK
<1>7. \A i \in 2..n : wal[i].write = wal[i - 1].write + 1
    <2>1. TAKE i \in 2..n
    <2>2. CASE i = n
        <3>1. i - 1 = s.used /\ s.used > 0 /\ i - 1 \in 1..Len(wal) /\ i - 1 # n
            BY <1>1, <1>3, <1>4, <2>2
        <3>2. wal[i - 1] = s.wal[s.used]
            BY <1>4, <3>1
        <3>3. S!Written(s) = s.wal[s.used].write
            BY <3>1, WrittenFacts
        <3> QED BY <1>2, <1>4, <2>2, <3>2, <3>3
    <2>3. CASE i # n
        <3>1. /\ i \in 2..s.used /\ i \in 1..Len(wal) /\ i - 1 \in 1..Len(wal) /\ i - 1 # n
            <4>1. i \in Int /\ i >= 2 /\ i < n
                BY <1>3, <2>3
            <4>2. Len(wal) \in Nat /\ n <= Len(wal)
                BY <1>4
            <4>3. i \in 2..s.used
                BY <1>1, <1>3, <4>1
            <4>4. i \in 1..Len(wal) /\ i - 1 \in 1..Len(wal) /\ i - 1 # n
                BY <4>1, <4>2
            <4> QED BY <4>3, <4>4
        <3>2. wal[i] = s.wal[i] /\ wal[i - 1] = s.wal[i - 1]
            BY <1>4, <2>3, <3>1
        <3> QED BY <3>1, <3>2 DEF SourceOK
    <2> QED BY <2>2, <2>3
<1>8. wal[1].write <= s.main + 1 /\ s.goal <= wal[n].write
    <2>1. s.goal <= wal[n].write
        BY <1>1, <1>2, <1>4, WrittenFacts
    <2>2. CASE s.used = 0
        BY <1>1, <1>2, <1>3, <1>4, <2>1, <2>2, WrittenFacts
    <2>3. CASE s.used # 0
        <3>1. wal[1] = s.wal[1] /\ s.used > 0
            BY <1>1, <1>3, <1>4, <2>3
        <3> QED BY <2>1, <3>1 DEF SourceOK
    <2> QED BY <2>2, <2>3
<1>9. SourceOK(w)
    <2>1. w.main <= w.goal /\ w.used > 0 /\ w.used # 0 /\ w.used <= Len(w.wal)
        BY <1>1, <1>3, <1>4, <1>5 DEF SourceOK
    <2>2. \A i \in 1..Len(w.wal) :
            IF i <= w.used THEN w.wal[i].salt = w.salt ELSE w.wal[i].salt < w.salt
        BY <1>5, <1>6
    <2>3. \A i \in 2..w.used : w.wal[i].write = w.wal[i - 1].write + 1
        BY <1>5, <1>7
    <2>4. w.wal[1].write <= w.main + 1 /\ w.goal <= w.wal[w.used].write
        BY <1>5, <1>8
    <2> QED BY <1>5, <2>1, <2>2, <2>3, <2>4, Zenon DEF SourceOK
<1>10. S!Written(w) >= S!Written(s)
    <2>1. S!Written(w) = wal[n].write
        BY <1>1, <1>3, <1>5, <1>9, WrittenFacts
    <2> QED BY <1>1, <1>2, <1>4, <2>1
<1> QED BY <1>5, <1>9, <1>10

LEMMA StampedFacts ==
    ASSUME NEW s \in SourceFile
    PROVE  /\ S!Stamped(s) \in SourceFile
           /\ S!Stamped(s).goal = s.goal /\ S!Stamped(s).main = s.main
           /\ S!Stamped(s).salt = s.salt /\ S!Stamped(s).wal = s.wal /\ S!Stamped(s).used = s.used
BY DEF S!Stamped, SourceFile

\* A checkpoint begins and ends, and the WAL restarts.
LEMMA CheckpointBegun ==
    ASSUME NEW s, SourceOK(s), S!Written(s) > s.main,
           NEW w, w = S!Stamped([s EXCEPT !.goal = S!Written(s)])
    PROVE  SourceOK(w) /\ S!Written(w) = S!Written(s)
<1> DEFINE v == [s EXCEPT !.goal = S!Written(s)]
<1>1. s \in SourceFile /\ s.used \in Nat /\ s.main \in Nat /\ S!Written(s) \in Nat
    BY WrittenFacts DEF SourceOK, SourceFile
<1>v. /\ v \in SourceFile /\ v.goal = S!Written(s) /\ v.main = s.main /\ v.salt = s.salt
      /\ v.wal = s.wal /\ v.used = s.used
    BY <1>1 DEF SourceFile
<1> HIDE DEF v
<1>2. /\ w \in SourceFile /\ w.goal = S!Written(s) /\ w.main = s.main /\ w.salt = s.salt
      /\ w.wal = s.wal /\ w.used = s.used
    BY <1>v, StampedFacts DEF v
<1>3. s.used > 0 /\ S!Written(s) = s.wal[s.used].write
    BY <1>1, WrittenFacts
<1>4. SourceOK(w)
    <2>1. w.main <= w.goal
        BY <1>1, <1>2
    <2>2. /\ w.used = 0 => w.goal = w.main
          /\ w.used > 0 => w.wal[1].write <= w.main + 1 /\ w.goal <= w.wal[w.used].write
        <3>1. s.wal[1].write <= s.main + 1
            BY <1>3 DEF SourceOK
        <3>2. s.used > 0 /\ S!Written(s) <= s.wal[s.used].write
            BY <1>1, <1>3
        <3> QED BY <1>1, <1>2, <3>1, <3>2
    <2>3. w.used <= Len(w.wal) /\ \A i \in 2..w.used : w.wal[i].write = w.wal[i - 1].write + 1
        BY <1>2 DEF SourceOK
    <2>4. \A i \in 1..Len(w.wal) :
            IF i <= w.used THEN w.wal[i].salt = w.salt ELSE w.wal[i].salt < w.salt
        BY <1>2 DEF SourceOK
    <2> QED BY <1>2, <2>1, <2>2, <2>3, <2>4, Zenon DEF SourceOK
<1> QED BY <1>2, <1>3, <1>4, WrittenFacts

LEMMA CheckpointEnded ==
    ASSUME NEW s, SourceOK(s), s.goal > s.main,
           NEW w, w = S!Stamped([s EXCEPT !.main = s.goal])
    PROVE  SourceOK(w) /\ S!Written(w) = S!Written(s)
<1> DEFINE v == [s EXCEPT !.main = s.goal]
<1>1. s \in SourceFile /\ s.used \in Nat /\ s.main \in Nat /\ s.goal \in Nat /\ s.wal \in Seq(Frame)
    BY DEF SourceOK, SourceFile
<1>v. /\ v \in SourceFile /\ v.goal = s.goal /\ v.main = s.goal /\ v.salt = s.salt
      /\ v.wal = s.wal /\ v.used = s.used
    BY <1>1 DEF SourceFile
<1> HIDE DEF v
<1>2. /\ w \in SourceFile /\ w.goal = s.goal /\ w.main = s.goal /\ w.salt = s.salt
      /\ w.wal = s.wal /\ w.used = s.used
    BY <1>v, StampedFacts DEF v
<1>3. s.used > 0 /\ s.used <= Len(s.wal)
    BY <1>1 DEF SourceOK
<1>4. s.wal[1].write \in Nat
    <2>1. s.wal[1] \in Frame
        BY <1>1, <1>3
    <2> QED BY <2>1 DEF Frame
<1>5. SourceOK(w)
    <2>1. w.main <= w.goal
        BY <1>1, <1>2
    <2>4. s.wal[1].write <= s.main + 1 /\ s.goal <= s.wal[s.used].write
        BY <1>3 DEF SourceOK
    <2>5. /\ w.used = 0 => w.goal = w.main
          /\ w.used > 0 => w.wal[1].write <= w.main + 1 /\ w.goal <= w.wal[w.used].write
        BY <1>1, <1>2, <1>3, <1>4, <2>4
    <2>2. w.used <= Len(w.wal) /\ \A i \in 2..w.used : w.wal[i].write = w.wal[i - 1].write + 1
        BY <1>2 DEF SourceOK
    <2>3. \A i \in 1..Len(w.wal) :
            IF i <= w.used THEN w.wal[i].salt = w.salt ELSE w.wal[i].salt < w.salt
        BY <1>2 DEF SourceOK
    <2> QED BY <1>2, <2>1, <2>2, <2>3, <2>5, Zenon DEF SourceOK
<1> QED BY <1>2, <1>3, <1>5, WrittenFacts

LEMMA WalRestarted ==
    ASSUME NEW s, SourceOK(s), S!Written(s) = s.main, s.goal = s.main,
           NEW w, w = S!Stamped([s EXCEPT !.salt = @ + 1, !.used = 0])
    PROVE  SourceOK(w) /\ S!Written(w) = S!Written(s)
<1> DEFINE v == [s EXCEPT !.salt = @ + 1, !.used = 0]
<1>1. s \in SourceFile /\ s.used \in Nat /\ s.main \in Nat /\ s.salt \in Nat /\ s.wal \in Seq(Frame)
    BY DEF SourceOK, SourceFile
<1>v. /\ v \in SourceFile /\ v.goal = s.goal /\ v.main = s.main /\ v.salt = s.salt + 1
      /\ v.wal = s.wal /\ v.used = 0
    <2>1. v = [s EXCEPT !.salt = s.salt + 1, !.used = 0] /\ s.salt + 1 \in Nat
        BY <1>1 DEF SourceFile
    <2> QED BY <1>1, <2>1 DEF SourceFile
<1> HIDE DEF v
<1>2. /\ w \in SourceFile /\ w.goal = s.goal /\ w.main = s.main /\ w.salt = s.salt + 1
      /\ w.wal = s.wal /\ w.used = 0
    BY <1>v, StampedFacts DEF v
<1>3. ASSUME NEW i \in 1..Len(s.wal) PROVE s.wal[i].salt < s.salt + 1
    <2>1. s.wal[i] \in Frame
        BY <1>1
    <2>2. s.wal[i].salt \in Nat
        BY <2>1 DEF Frame
    <2>3. s.wal[i].salt = s.salt \/ s.wal[i].salt < s.salt
        BY DEF SourceOK
    <2> QED BY <1>1, <2>2, <2>3
<1>4. \A i \in 1..Len(w.wal) :
        IF i <= w.used THEN w.wal[i].salt = w.salt ELSE w.wal[i].salt < w.salt
    BY <1>2, <1>3
<1>5. SourceOK(w)
    BY <1>1, <1>2, <1>4 DEF SourceOK
<1> QED BY <1>2, <1>5, WrittenFacts

\* Whatever the client does to its files next keeps them in order, and loses nothing.
LEMMA ClientWritesFacts ==
    ASSUME source \in [Accounts -> SourceFile], \A a \in Accounts : SourceOK(source[a]),
           PlatformAssumption, S!ClientWrites
    PROVE  /\ source' \in [Accounts -> SourceFile]
           /\ \A a \in Accounts : /\ SourceOK(source'[a])
                                  /\ S!Written(source'[a]) >= S!Written(source[a])
<1>1. PICK w : /\ source' = [source EXCEPT ![LoggedIn] = w]
               /\ SourceOK(w) /\ S!Written(w) >= S!Written(source[LoggedIn])
    <2>l. LoggedIn \in Accounts /\ SourceOK(source[LoggedIn])
        BY DEF PlatformAssumption
    <2> DEFINE s == source[LoggedIn]
    <2>n. S!Written(s) \in Nat /\ s.main \in Nat
        BY <2>l, WrittenFacts DEF SourceFile
    <2>1. CASE source' = [source EXCEPT ![LoggedIn] = S!WriteFrame(s)]
        <3>1. SourceOK(S!WriteFrame(s)) /\ S!Written(S!WriteFrame(s)) >= S!Written(s)
            BY <2>l, FrameWritten
        <3> QED BY <2>1, <3>1
    <2>2. CASE /\ s.goal = s.main /\ S!Written(s) > s.main
               /\ source' = [source EXCEPT ![LoggedIn] = S!Stamped([s EXCEPT !.goal = S!Written(s)])]
        <3>1. PICK w : w = S!Stamped([s EXCEPT !.goal = S!Written(s)])
            OBVIOUS
        <3> HIDE DEF s
        <3>2. SourceOK(w) /\ S!Written(w) = S!Written(s)
            BY <2>2, <2>l, <3>1, CheckpointBegun DEF s
        <3>3. S!Written(w) >= S!Written(s)
            BY <2>n, <3>2
        <3>4. source' = [source EXCEPT ![LoggedIn] = w]
            BY <2>2, <3>1 DEF s
        <3> QED BY <3>2, <3>3, <3>4 DEF s
    <2>3. CASE /\ s.goal > s.main
               /\ source' = [source EXCEPT ![LoggedIn] = S!Stamped([s EXCEPT !.main = s.goal])]
        <3>1. PICK w : w = S!Stamped([s EXCEPT !.main = s.goal])
            OBVIOUS
        <3> HIDE DEF s
        <3>2. SourceOK(w) /\ S!Written(w) = S!Written(s)
            BY <2>3, <2>l, <3>1, CheckpointEnded DEF s
        <3>3. S!Written(w) >= S!Written(s)
            BY <2>n, <3>2
        <3>4. source' = [source EXCEPT ![LoggedIn] = w]
            BY <2>3, <3>1 DEF s
        <3> QED BY <3>2, <3>3, <3>4 DEF s
    <2>4. CASE /\ s.goal = s.main /\ s.used > 0 /\ S!Written(s) = s.main
               /\ source' = [source EXCEPT ![LoggedIn] = S!Stamped([s EXCEPT !.salt = @ + 1, !.used = 0])]
        <3>1. PICK w : w = S!Stamped([s EXCEPT !.salt = @ + 1, !.used = 0])
            OBVIOUS
        <3> HIDE DEF s
        <3>2. SourceOK(w) /\ S!Written(w) = S!Written(s)
            BY <2>4, <2>l, <3>1, WalRestarted DEF s
        <3>3. S!Written(w) >= S!Written(s)
            BY <2>n, <3>2
        <3>4. source' = [source EXCEPT ![LoggedIn] = w]
            BY <2>4, <3>1 DEF s
        <3> QED BY <3>2, <3>3, <3>4 DEF s
    <2> QED BY <2>1, <2>2, <2>3, <2>4 DEF S!ClientWrites
<1>2. w \in SourceFile
    BY <1>1 DEF SourceOK
<1>3. \A a \in Accounts : S!Written(source[a]) \in Nat
    BY WrittenFacts
<1>4. \A a \in Accounts : source'[a] = IF a = LoggedIn THEN w ELSE source[a]
    BY <1>1
<1> QED BY <1>1, <1>2, <1>3, <1>4

--------------------------------------------------------------------------------
(* The invariant of the copies *)

Copy == [owner : Accounts, sound : {TRUE}]

BuildPc == {"idle", "begin", "main", "wal", "copy main", "copy wal", "compare"}

Build == [pc : BuildPc, seen : SourceFile, got : SourceFile, floor : Nat]

TransferOf == [file : Nat, mine : BOOLEAN]

Transfer == [active : Seq(TransferOf), pending : Nat]

\* Every copy is sound, and the live one and all that are used are among the files.
CacheType ==
    /\ account \in Accounts
    /\ source \in [Accounts -> SourceFile]
    /\ copy \in Seq(Copy)
    /\ cached \in 0..Len(copy)
    /\ build \in Build
    /\ transfer \in Transfer

\* The files of every account are in order; a refresh copies what is at least as new
\* as what it began with.
SourcesOK ==
    /\ \A a \in Accounts : SourceOK(source[a])
    /\ build.pc \notin {"idle", "begin"} => build.floor <= S!Written(source[account])

\* What is used exists.
FilesOK ==
    /\ cached # 0 => cached \in files
    /\ transfer.pending # 0 => transfer.pending \in files
    /\ \A i \in DOMAIN transfer.active :
            transfer.active[i].file # 0 => transfer.active[i].file \in files
    /\ \A f \in pins : f # 0 => f \in files

CacheInv == CacheType /\ SourcesOK /\ S!ServesSelected /\ FilesOK

LEMMA NoBuildOK == S!NoBuild \in Build /\ S!NoBuild.pc = "idle"
<1>1. S!NewSource \in SourceFile
    BY FirstSourceOK
<1> QED BY <1>1 DEF S!NoBuild, Build, BuildPc

LEMMA CacheInit ==
    ASSUME PlatformAssumption, S!Init
    PROVE  CacheInv
<1>1. account \in Accounts
    BY DEF S!Init, PlatformAssumption
<1>2. source \in [Accounts -> SourceFile] /\ \A a \in Accounts : SourceOK(source[a])
    BY FirstSourceOK DEF S!Init, SourceOK
<1>3. copy = <<>> /\ copy \in Seq(Copy) /\ Len(copy) = 0 /\ cached = 0 /\ pins = {} /\ enabled = FALSE
    BY DEF S!Init, S!NoFile
<1>4. build \in Build /\ build.pc = "idle"
    BY NoBuildOK DEF S!Init
<1>5. transfer = [active |-> <<>>, pending |-> 0]
    BY DEF S!Init, S!NoTransfer, S!NoFile
<1>6. transfer \in Transfer /\ transfer.active = <<>> /\ transfer.pending = 0
    BY <1>5 DEF Transfer
<1>7. CacheType
    BY <1>1, <1>2, <1>3, <1>4, <1>6 DEF CacheType
<1>8. SourcesOK
    BY <1>2, <1>4 DEF SourcesOK
<1>9. S!ServesSelected
    BY <1>3 DEF S!ServesSelected, S!NoFile
<1>10. FilesOK
    BY <1>3, <1>6 DEF FilesOK
<1> QED BY <1>7, <1>8, <1>9, <1>10 DEF CacheInv

\* A step that leaves the copies alone keeps what is about them.
LEMMA SourceStep ==
    ASSUME CacheInv, PlatformAssumption, S!ClientWrites
    PROVE  CacheInv'
<1>1. UNCHANGED <<account, pins, transfer, key, enabled, build, cached, copy, files>>
    BY DEF S!ClientWrites, S!keyVars, S!cacheVars
<1>2. /\ source' \in [Accounts -> SourceFile]
      /\ \A a \in Accounts : /\ SourceOK(source'[a])
                             /\ S!Written(source'[a]) >= S!Written(source[a])
    BY ClientWritesFacts DEF CacheInv, CacheType, SourcesOK
<1>3. CacheType'
    BY <1>1, <1>2 DEF CacheInv, CacheType
<1>4. SourcesOK'
    <2>1. account \in Accounts /\ build.floor \in Nat /\ SourceOK(source[account]) /\ SourceOK(source'[account])
        BY <1>2 DEF CacheInv, CacheType, SourcesOK, Build
    <2>2. S!Written(source[account]) \in Nat /\ S!Written(source'[account]) \in Nat
        BY <2>1, WrittenFacts
    <2>3. build.pc \notin {"idle", "begin"} => build.floor <= S!Written(source[account])
        BY DEF CacheInv, SourcesOK
    <2>4. build.pc \notin {"idle", "begin"} => build.floor <= S!Written(source'[account])
        BY <1>2, <2>1, <2>2, <2>3
    <2>5. /\ \A a \in Accounts : SourceOK(source'[a])
          /\ build'.pc \notin {"idle", "begin"} => build'.floor <= S!Written(source'[account'])
        BY <1>1, <1>2, <2>4, Zenon
    <2> QED BY <2>5 DEF SourcesOK, S!Written
<1>5. S!ServesSelected'
    BY <1>1 DEF CacheInv, S!ServesSelected
<1>6. FilesOK'
    BY <1>1 DEF CacheInv, FilesOK
<1> QED BY <1>3, <1>4, <1>5, <1>6 DEF CacheInv

\* The selection is reset: what the coordinator carries out belongs to no selection.
LEMMA ResetStep ==
    ASSUME CacheInv, S!Request, S!ResetFor, account' \in Accounts, UNCHANGED <<source, pins>>
    PROVE  CacheInv'
<1>1. /\ enabled' = FALSE /\ cached' = 0 /\ UNCHANGED <<build, copy, files>>
      /\ build.pc = "idle"
    BY DEF S!ResetFor, S!Request, S!Unlocked, S!NoFile
<1> DEFINE late == [i \in DOMAIN transfer.active |-> [transfer.active[i] EXCEPT !.mine = FALSE]]
<1>2. transfer' = [active |-> late, pending |-> 0]
    BY DEF S!ResetFor, S!NoFile
<1>3. transfer.active \in Seq(TransferOf) /\ DOMAIN transfer.active = 1..Len(transfer.active)
      /\ Len(transfer.active) \in Nat
    BY DEF CacheInv, CacheType, Transfer
<1>4. ASSUME NEW i \in DOMAIN transfer.active
      PROVE  late[i] \in TransferOf /\ late[i].file = transfer.active[i].file
    <2>1. transfer.active[i] \in TransferOf
        BY <1>3
    <2>2. late[i] = [transfer.active[i] EXCEPT !.mine = FALSE]
        OBVIOUS
    <2>3. PICK r \in TransferOf : r = transfer.active[i]
        BY <2>1
    <2>4. [r EXCEPT !.mine = FALSE] \in TransferOf /\ [r EXCEPT !.mine = FALSE].file = r.file
        BY DEF TransferOf
    <2> QED BY <2>2, <2>3, <2>4
<1>5. late \in Seq(TransferOf) /\ DOMAIN late = DOMAIN transfer.active
    <2>1. DOMAIN late = DOMAIN transfer.active /\ late = [i \in DOMAIN transfer.active |-> late[i]]
        OBVIOUS
    <2> HIDE DEF late
    <2>2. PICK n \in Nat : n = Len(transfer.active) /\ DOMAIN transfer.active = 1..n
        BY <1>3
    <2>3. late \in [1..n -> TransferOf]
        BY <1>4, <2>1, <2>2
    <2> QED BY <2>1, <2>3
<1> HIDE DEF late
<1>6. transfer' \in Transfer /\ transfer'.active = late /\ transfer'.pending = 0
    BY <1>2, <1>5 DEF Transfer
<1>7. CacheType'
    BY <1>1, <1>6 DEF CacheInv, CacheType
<1>8. SourcesOK'
    BY <1>1 DEF CacheInv, SourcesOK
<1>9. S!ServesSelected'
    BY <1>1 DEF S!ServesSelected, S!NoFile
<1>10. FilesOK'
    BY <1>1, <1>4, <1>5, <1>6 DEF CacheInv, FilesOK
<1> QED BY <1>7, <1>8, <1>9, <1>10 DEF CacheInv

\* The key and the permission to refresh change together.
LEMMA KeyStep ==
    ASSUME CacheInv,
           UNCHANGED <<account, source, cached, copy, files, pins, transfer>>,
           enabled' => key' = account',
           build' = build \/ build' = [S!NoBuild EXCEPT !.pc = "begin"]
    PROVE  CacheInv'
<1>1. PICK b \in Build : b = S!NoBuild
    BY NoBuildOK
<1>2. build' \in Build /\ (build' # build => build'.pc = "begin")
    <2>1. [b EXCEPT !.pc = "begin"] \in Build /\ [b EXCEPT !.pc = "begin"].pc = "begin"
        BY DEF Build, BuildPc
    <2>2. build \in Build
        BY DEF CacheInv, CacheType
    <2> QED BY <1>1, <2>1, <2>2
<1>3. CacheType'
    BY <1>2 DEF CacheInv, CacheType
<1>4. SourcesOK'
    <2>1. CASE build' = build
        BY <2>1 DEF CacheInv, SourcesOK, S!Written
    <2>2. CASE build' # build
        BY <1>2, <2>2 DEF CacheInv, SourcesOK, SourceOK
    <2> QED BY <2>1, <2>2
<1>5. S!ServesSelected'
    BY DEF CacheInv, S!ServesSelected
<1>6. FilesOK'
    BY DEF CacheInv, FilesOK
<1> QED BY <1>3, <1>4, <1>5, <1>6 DEF CacheInv

\* A refresh goes on: the first half of it, then its reads.
LEMMA BuildStep ==
    ASSUME CacheInv,
           UNCHANGED <<account, source, cached, copy, files, pins, transfer, key, enabled>>,
           build' \in Build,
           build'.pc \notin {"idle", "begin"} => build'.floor <= S!Written(source[account])
    PROVE  CacheInv'
<1>1. CacheType'
    BY DEF CacheInv, CacheType
<1>2. SourcesOK'
    BY DEF CacheInv, SourcesOK, S!Written
<1>3. S!ServesSelected'
    BY DEF CacheInv, S!ServesSelected
<1>4. FilesOK'
    BY DEF CacheInv, FilesOK
<1> QED BY <1>1, <1>2, <1>3, <1>4 DEF CacheInv

LEMMA CheckFreshStep ==
    ASSUME CacheInv, S!CheckFresh
    PROVE  CacheInv'
<1>1. UNCHANGED <<account, source, cached, copy, files, pins, transfer, key, enabled>>
    BY DEF S!CheckFresh, S!keyVars
<1>2. SourceOK(source[account]) /\ build \in Build
    BY DEF CacheInv, CacheType, SourcesOK
<1>3. CASE build' = S!NoBuild
    BY <1>1, <1>3, NoBuildOK, BuildStep
<1>4. CASE build' = [build EXCEPT !.pc = "main", !.floor = S!Logical(source[account])]
    <2>1. PICK n \in Nat : n = S!Logical(source[account]) /\ n = S!Written(source[account])
        BY <1>2, SourceIsWhole, WrittenFacts
    <2>2. PICK b \in Build : b = build
        BY <1>2
    <2>3. [b EXCEPT !.pc = "main", !.floor = n] \in Build /\ [b EXCEPT !.pc = "main", !.floor = n].floor = n
        BY DEF Build, BuildPc
    <2>4. build' \in Build /\ build'.floor = n
        BY <1>4, <2>1, <2>2, <2>3
    <2>5. build'.floor <= S!Written(source[account])
        BY <2>1, <2>4
    <2> QED BY <1>1, <2>4, <2>5, BuildStep
<1> QED BY <1>3, <1>4 DEF S!CheckFresh

\* A read of one of the two files.
LEMMA ReadFacts ==
    ASSUME NEW s \in SourceFile, NEW old \in SourceFile
    PROVE  S!MainOf(s, old) \in SourceFile /\ S!WalOf(s, old) \in SourceFile
<1>1. s.main \in Nat /\ s.goal \in Nat /\ s.salt \in Nat /\ s.wal \in Seq(Frame)
      /\ s.used \in Nat /\ s.stamp \in Nat
    BY DEF SourceFile
<1>2. PICK main \in Nat, goal \in Nat, salt \in Nat, wal \in Seq(Frame), used \in Nat, stamp \in Nat :
        /\ main = s.main /\ goal = s.goal /\ salt = s.salt
        /\ wal = s.wal /\ used = s.used /\ stamp = s.stamp
    BY <1>1
<1>3. [old EXCEPT !.main = main, !.goal = goal] \in SourceFile
    BY DEF SourceFile
<1>4. [old EXCEPT !.salt = salt, !.wal = wal, !.used = used, !.stamp = stamp] \in SourceFile
    BY DEF SourceFile
<1> QED BY <1>2, <1>3, <1>4 DEF S!MainOf, S!WalOf

LEMMA CaptureStep ==
    ASSUME CacheInv, S!Capture
    PROVE  CacheInv'
<1>1. UNCHANGED <<account, source, cached, copy, files, pins, transfer, key, enabled>>
    BY DEF S!Capture, S!keyVars
<1>2. PICK s \in SourceFile, b \in Build : s = source[account] /\ b = build
    BY DEF CacheInv, CacheType
<1>3. b.pc \in {"main", "wal", "copy main", "copy wal"}
    BY <1>2 DEF S!Capture
<1>4. b.floor <= S!Written(source[account])
    BY <1>2, <1>3 DEF CacheInv, SourcesOK
<1>5. b.seen \in SourceFile /\ b.got \in SourceFile
    BY DEF Build
<1>6. PICK p \in BuildPc, seen \in SourceFile, got \in SourceFile :
        build' = [b EXCEPT !.pc = p, !.seen = seen, !.got = got]
    <2>1. CASE b.pc = "main"
        <3>1. build' = [b EXCEPT !.pc = "wal", !.seen = S!MainOf(s, b.seen)]
            BY <1>2, <2>1 DEF S!Capture
        <3>2. build' = [b EXCEPT !.pc = "wal", !.seen = S!MainOf(s, b.seen), !.got = b.got]
            BY <3>1 DEF Build
        <3>3. S!MainOf(s, b.seen) \in SourceFile /\ "wal" \in BuildPc
            BY <1>5, ReadFacts DEF BuildPc
        <3> QED BY <1>5, <3>2, <3>3
    <2>2. CASE b.pc = "wal"
        <3>1. build' = [b EXCEPT !.pc = "copy main", !.seen = S!WalOf(s, b.seen)]
            BY <1>2, <2>2 DEF S!Capture
        <3>2. build' = [b EXCEPT !.pc = "copy main", !.seen = S!WalOf(s, b.seen), !.got = b.got]
            BY <3>1 DEF Build
        <3>3. S!WalOf(s, b.seen) \in SourceFile /\ "copy main" \in BuildPc
            BY <1>5, ReadFacts DEF BuildPc
        <3> QED BY <1>5, <3>2, <3>3
    <2>3. CASE b.pc = "copy main"
        <3>1. build' = [b EXCEPT !.pc = "copy wal", !.got = S!MainOf(s, b.got)]
            BY <1>2, <2>3 DEF S!Capture
        <3>2. build' = [b EXCEPT !.pc = "copy wal", !.seen = b.seen, !.got = S!MainOf(s, b.got)]
            BY <3>1 DEF Build
        <3>3. S!MainOf(s, b.got) \in SourceFile /\ "copy wal" \in BuildPc
            BY <1>5, ReadFacts DEF BuildPc
        <3> QED BY <1>5, <3>2, <3>3
    <2>4. CASE b.pc = "copy wal"
        <3>1. build' = [b EXCEPT !.pc = "compare", !.got = S!WalOf(s, b.got)]
            BY <1>2, <2>4 DEF S!Capture
        <3>2. build' = [b EXCEPT !.pc = "compare", !.seen = b.seen, !.got = S!WalOf(s, b.got)]
            BY <3>1 DEF Build
        <3>3. S!WalOf(s, b.got) \in SourceFile /\ "compare" \in BuildPc
            BY <1>5, ReadFacts DEF BuildPc
        <3> QED BY <1>5, <3>2, <3>3
    <2> QED BY <1>3, <2>1, <2>2, <2>3, <2>4
<1>7. build' \in Build /\ build'.floor = b.floor
    BY <1>6 DEF Build
<1> QED BY <1>1, <1>4, <1>7, BuildStep

\* What is published was read while the files stood still, so that it is all of them; it
\* and what is used of the earlier copies stays.
LEMMA PublishStep ==
    ASSUME CacheInv, S!Publish
    PROVE  CacheInv'
<1>1. UNCHANGED <<account, source, pins, key, enabled>> /\ build' = S!NoBuild /\ build.pc = "compare"
    BY DEF S!Publish, S!keyVars
<1>2. build' \in Build /\ build'.pc = "idle"
    BY <1>1, NoBuildOK
<1>3. CASE UNCHANGED <<copy, cached, transfer, files>>
    BY <1>1, <1>2, <1>3, BuildStep
<1>4. CASE /\ S!Stable
           /\ copy' = Append(copy, [owner |-> account,
                  sound |-> S!Whole(build.got) /\ S!Logical(build.got) >= build.floor])
           /\ cached' = Len(copy) + 1
           /\ transfer' = [transfer EXCEPT !.pending = Len(copy) + 1]
           /\ files' = (files \cup {Len(copy) + 1}) \cap S!Kept(Len(copy) + 1)
    <2>1. /\ SourceOK(source[account]) /\ build.got = source[account]
          /\ build.floor <= S!Written(source[account]) /\ build.floor \in Nat
          /\ account \in Accounts /\ copy \in Seq(Copy) /\ transfer \in Transfer
        BY <1>1, <1>4 DEF CacheInv, CacheType, SourcesOK, S!Stable, Build
    <2>2. S!Whole(build.got) /\ S!Logical(build.got) = S!Written(source[account])
          /\ S!Written(source[account]) \in Nat
        BY <2>1, SourceIsWhole, WrittenFacts
    <2>3. PICK sound \in BOOLEAN :
            /\ sound = (S!Whole(build.got) /\ S!Logical(build.got) >= build.floor)
            /\ sound = TRUE
        <3>1. S!Logical(build.got) >= build.floor
            BY <2>1, <2>2
        <3> QED BY <2>2, <3>1, Zenon
    <2>4. PICK c \in Copy : /\ c = [owner |-> account, sound |-> sound] /\ c.owner = account
        <3>1. ASSUME NEW r, r = [owner |-> account, sound |-> sound]
              PROVE  r \in Copy /\ r.owner = account
            BY <2>1, <2>3, <3>1 DEF Copy
        <3> QED BY <3>1
    <2>5. PICK new \in Nat : new = Len(copy) + 1 /\ new # 0
        BY <2>1
    <2>6. copy' = Append(copy, c)
        BY <1>4, <2>3, <2>4, Zenon
    <2>7. copy' \in Seq(Copy) /\ Len(copy') = new /\ copy'[new] = c
        BY <2>1, <2>5, <2>6
    <2>8. cached' = new /\ cached' \in 0..Len(copy')
        BY <1>4, <2>5, <2>7
    <2>9. transfer' \in Transfer /\ transfer'.active = transfer.active /\ transfer'.pending = new
        BY <1>4, <2>1, <2>5 DEF Transfer
    <2>10. files' = (files \cup {new}) \cap ({new} \cup S!ActiveFiles \cup pins)
        BY <1>4, <2>5 DEF S!Kept
    <2>11. CacheType'
        BY <1>1, <1>2, <2>7, <2>8, <2>9 DEF CacheInv, CacheType
    <2>12. SourcesOK'
        BY <1>1, <1>2 DEF CacheInv, SourcesOK
    <2>13. S!ServesSelected'
        BY <1>1, <2>4, <2>7, <2>8 DEF CacheInv, S!ServesSelected
    <2>14. FilesOK'
        <3>1. cached' \in files' /\ transfer'.pending \in files'
            BY <2>8, <2>9, <2>10
        <3>2. ASSUME NEW i \in DOMAIN transfer.active, transfer.active[i].file # 0
              PROVE  transfer.active[i].file \in files'
            BY <2>10, <3>2 DEF CacheInv, FilesOK, S!ActiveFiles
        <3>3. ASSUME NEW f \in pins, f # 0 PROVE f \in files'
            BY <2>10, <3>3 DEF CacheInv, FilesOK
        <3> QED BY <1>1, <2>9, <3>1, <3>2, <3>3 DEF FilesOK
    <2> QED BY <2>11, <2>12, <2>13, <2>14 DEF CacheInv
<1> QED BY <1>3, <1>4, Zenon DEF S!Publish

\* Of what is handed on to the archive and read by pages.
LEMMA UseStep ==
    ASSUME CacheInv,
           UNCHANGED <<account, source, build, key, enabled, cached, copy, files>>,
           transfer' \in Transfer,
           transfer'.pending # 0 => transfer'.pending \in files,
           \A i \in DOMAIN transfer'.active :
                transfer'.active[i].file # 0 => transfer'.active[i].file \in files,
           \A f \in pins' : f # 0 => f \in files
    PROVE  CacheInv'
<1>1. CacheType'
    BY DEF CacheInv, CacheType
<1>2. SourcesOK'
    BY DEF CacheInv, SourcesOK, S!Written
<1>3. S!ServesSelected'
    BY DEF CacheInv, S!ServesSelected
<1>4. FilesOK'
    BY DEF CacheInv, FilesOK
<1> QED BY <1>1, <1>2, <1>3, <1>4 DEF CacheInv

LEMMA DispatchStep ==
    ASSUME CacheInv, S!Dispatch
    PROVE  CacheInv'
<1>1. UNCHANGED <<account, source, build, key, enabled, cached, copy, files, pins>>
    BY DEF S!Dispatch, S!keyVars, S!cacheVars
<1>2. transfer.active \in Seq(TransferOf) /\ transfer.pending \in Nat
    BY DEF CacheInv, CacheType, Transfer
<1>3. transfer.pending \in files
    BY DEF CacheInv, FilesOK, S!Dispatch, S!NoFile
<1>4. PICK t \in TransferOf :
        t = [file |-> transfer.pending, mine |-> TRUE] /\ t.file = transfer.pending
    <2>1. ASSUME NEW r, r = [file |-> transfer.pending, mine |-> TRUE]
          PROVE  r \in TransferOf /\ r.file = transfer.pending
        BY <1>2, <2>1 DEF TransferOf
    <2> QED BY <2>1
<1>5. PICK more \in Seq(TransferOf) : more = Append(transfer.active, t)
    <2>1. Append(transfer.active, t) \in Seq(TransferOf)
        BY <1>2
    <2> QED BY <2>1
<1>6. transfer' = [active |-> more, pending |-> 0]
    BY <1>4, <1>5 DEF S!Dispatch, S!NoFile
<1>7. transfer' \in Transfer /\ transfer'.active = more /\ transfer'.pending = 0
    BY <1>6 DEF Transfer
<1>8. ASSUME NEW i \in DOMAIN more, more[i].file # 0 PROVE more[i].file \in files
    <2>1. CASE i \in DOMAIN transfer.active
        <3>1. more[i] = transfer.active[i]
            BY <1>2, <1>5, <2>1
        <3> QED BY <1>8, <2>1, <3>1 DEF CacheInv, FilesOK
    <2>2. CASE i \notin DOMAIN transfer.active
        <3>1. more[i] = t
            BY <1>2, <1>5, <1>8, <2>2
        <3> QED BY <1>3, <1>4, <3>1
    <2> QED BY <2>1, <2>2
<1>9. \A f \in pins' : f # 0 => f \in files
    BY <1>1 DEF CacheInv, FilesOK
<1> QED BY <1>1, <1>7, <1>8, <1>9, UseStep

LEMMA TransferredStep ==
    ASSUME CacheInv, S!Transferred
    PROVE  CacheInv'
<1>1. UNCHANGED <<account, source, build, key, enabled, cached, copy, files, pins>>
    BY DEF S!Transferred, S!keyVars, S!cacheVars
<1>2. /\ transfer \in Transfer /\ transfer.active \in Seq(TransferOf) /\ transfer.pending \in Nat
      /\ transfer.active # <<>>
    BY DEF CacheInv, CacheType, Transfer, S!Transferred
<1>3. PICK t \in TransferOf : t = Head(transfer.active) /\ t = transfer.active[1] /\ t.file \in Nat
    <2>1. Head(transfer.active) \in TransferOf /\ Head(transfer.active) = transfer.active[1]
        BY <1>2
    <2> QED BY <2>1 DEF TransferOf
<1>4. PICK more \in Seq(TransferOf) : more = Tail(transfer.active)
    <2>1. Tail(transfer.active) \in Seq(TransferOf)
        BY <1>2
    <2> QED BY <2>1
<1>5. PICK rest \in Transfer :
        /\ rest = [transfer EXCEPT !.active = Tail(@)]
        /\ rest.active = more /\ rest.pending = transfer.pending
    <2>1. [transfer EXCEPT !.active = Tail(@)] = [transfer EXCEPT !.active = more]
        BY <1>4
    <2>2. [transfer EXCEPT !.active = more] \in Transfer
        BY <1>2 DEF Transfer
    <2>3. [transfer EXCEPT !.active = more].active = more
          /\ [transfer EXCEPT !.active = more].pending = transfer.pending
        BY <1>2 DEF Transfer
    <2> QED BY <2>1, <2>2, <2>3
<1>6. PICK again \in Transfer :
        again = [rest EXCEPT !.pending = t.file] /\ again.active = more /\ again.pending = t.file
    <2>1. ASSUME NEW r, r = [rest EXCEPT !.pending = t.file]
          PROVE  r \in Transfer /\ r.active = more /\ r.pending = t.file
        BY <1>3, <1>5, <2>1 DEF Transfer
    <2> QED BY <2>1
<1>7. transfer' = rest \/ transfer' = again
    BY <1>3, <1>5, <1>6 DEF S!Transferred
<1>8. transfer' \in Transfer /\ transfer'.active = more
      /\ (transfer'.pending = transfer.pending \/ transfer'.pending = t.file)
    BY <1>5, <1>6, <1>7
<1>9. t.file # 0 => t.file \in files
    <2>1. 1 \in DOMAIN transfer.active
        BY <1>2
    <2> QED BY <1>3, <2>1 DEF CacheInv, FilesOK
<1>10. transfer'.pending # 0 => transfer'.pending \in files
    BY <1>8, <1>9 DEF CacheInv, FilesOK
<1>11. ASSUME NEW i \in DOMAIN more, more[i].file # 0 PROVE more[i].file \in files
    <2>1. i + 1 \in DOMAIN transfer.active /\ more[i] = transfer.active[i + 1]
        BY <1>2, <1>4
    <2> QED BY <1>11, <2>1 DEF CacheInv, FilesOK
<1>12. \A f \in pins' : f # 0 => f \in files
    BY <1>1 DEF CacheInv, FilesOK
<1> QED BY <1>1, <1>8, <1>10, <1>11, <1>12, UseStep

LEMMA RestartStep ==
    ASSUME CacheInv, S!Restart
    PROVE  CacheInv'
<1>1. /\ UNCHANGED <<account, source, copy, files>>
      /\ enabled' = FALSE /\ cached' = 0 /\ build' = S!NoBuild /\ pins' = {}
    BY DEF S!Restart, S!NoFile
<1>2. build' \in Build /\ build'.pc = "idle"
    BY <1>1, NoBuildOK
<1>3. transfer' = [active |-> <<>>, pending |-> 0]
    BY DEF S!Restart, S!NoTransfer, S!NoFile
<1>4. transfer' \in Transfer /\ transfer'.active = <<>> /\ transfer'.pending = 0
    BY <1>3 DEF Transfer
<1>5. CacheType'
    BY <1>1, <1>2, <1>4 DEF CacheInv, CacheType
<1>6. SourcesOK'
    BY <1>1, <1>2 DEF CacheInv, SourcesOK
<1>7. S!ServesSelected'
    BY <1>1 DEF S!ServesSelected, S!NoFile
<1>8. FilesOK'
    BY <1>1, <1>4 DEF FilesOK
<1> QED BY <1>5, <1>6, <1>7, <1>8 DEF CacheInv

LEMMA CacheKeeps ==
    ASSUME CacheInv, PlatformAssumption, [S!Next]_(S!vars)
    PROVE  CacheInv'
<1>k. CacheType /\ FilesOK /\ S!ServesSelected
    BY DEF CacheInv
<1>1. CASE S!ClientWrites
    BY <1>1, SourceStep
<1>2. CASE S!SetSelfAliId
    BY <1>2, ResetStep DEF S!SetSelfAliId
<1>3. CASE S!ChangeKey
    BY <1>k, <1>3, ResetStep DEF S!ChangeKey, CacheType
<1>4. CASE S!PrepareStartupValidation
    BY <1>k, <1>4, KeyStep DEF S!PrepareStartupValidation, S!cacheVars, S!ServesSelected
<1>5. CASE S!StartReading
    BY <1>k, <1>5, KeyStep DEF S!StartReading, S!cacheVars, S!ServesSelected
<1>6. CASE S!EndReading
    <2>1. UNCHANGED <<account, source, cached, copy, files, pins, transfer, build>>
        BY <1>6 DEF S!EndReading, S!cacheVars
    <2>2. \/ UNCHANGED <<key, enabled>>
          \/ /\ validation.reading = account
             /\ key' = IF validation.found = "good" THEN validation.reading ELSE key
             /\ enabled' = (enabled \/ validation.found = "good")
        BY <1>6 DEF S!EndReading, S!Superseded
    <2>3. enabled' => key' = account'
        BY <1>k, <2>1, <2>2 DEF S!ServesSelected
    <2> QED BY <2>1, <2>3, KeyStep
<1>7. CASE S!Retry
    <2>1. UNCHANGED <<account, source, cached, copy, files, pins, transfer>>
        BY <1>7 DEF S!Retry
    <2>2. PICK captured \in BOOLEAN :
            /\ key' = IF key = account \/ saved[account] = "good" \/ captured
                      THEN account ELSE S!NoOne
            /\ enabled' = (key = account \/ saved[account] = "good" \/ captured)
            /\ build' = build \/ build' = [S!NoBuild EXCEPT !.pc = "begin"]
        BY <1>7 DEF S!Retry
    <2>3. enabled' => key' = account'
        BY <2>1, <2>2
    <2> QED BY <2>1, <2>2, <2>3, KeyStep
<1>8. CASE S!BeginRefresh
    BY <1>k, <1>8, KeyStep DEF S!BeginRefresh, S!keyVars, S!ServesSelected
<1>9. CASE S!CheckFresh
    BY <1>9, CheckFreshStep
<1>10. CASE S!Capture
    BY <1>10, CaptureStep
<1>11. CASE S!Publish
    BY <1>11, PublishStep
<1>12. CASE S!Dispatch
    BY <1>12, DispatchStep
<1>13. CASE S!Transferred
    BY <1>13, TransferredStep
<1>14. CASE S!Pin
    <2>1. /\ UNCHANGED <<account, source, build, key, enabled, cached, copy, files, transfer>>
          /\ pins' = pins \cup {cached} /\ cached # 0
        BY <1>14 DEF S!Pin, S!keyVars, S!cacheVars, S!NoFile
    <2> QED BY <1>k, <2>1, UseStep DEF CacheType, FilesOK
<1>15. CASE S!Unpin
    <2>1. /\ UNCHANGED <<account, source, build, key, enabled, cached, copy, files, transfer>>
          /\ pins' \subseteq pins
        BY <1>15 DEF S!Unpin, S!keyVars, S!cacheVars
    <2> QED BY <1>k, <2>1, UseStep DEF CacheType, FilesOK
<1>16. CASE S!Restart
    BY <1>16, RestartStep
<1>17. CASE UNCHANGED S!vars
    <2>1. UNCHANGED <<account, source, build, key, enabled, cached, copy, files, transfer, pins>>
        BY <1>17 DEF S!vars
    <2> QED BY <1>k, <2>1, UseStep DEF CacheType, FilesOK
<1> QED BY <1>1, <1>2, <1>3, <1>4, <1>5, <1>6, <1>7, <1>8, <1>9, <1>10, <1>11, <1>12, <1>13,
           <1>14, <1>15, <1>16, <1>17 DEF S!Next

LEMMA CacheAlways == S!Spec => []CacheInv
<1>1. S!Init => CacheInv
    BY PlatformAssumption, CacheInit
<1>2. CacheInv /\ [S!Next]_(S!vars) => CacheInv'
    BY PlatformAssumption, CacheKeeps
<1> QED BY <1>1, <1>2, PTL DEF S!Spec

\* No file is deleted that is served, pinned or in transfer, over refreshes, resets,
\* failed transfers and restarts (im_db_middleware.py:600).
THEOREM UsedFilesAlwaysExist == S!Spec => []UsedFilesExist
<1>1. CacheInv => UsedFilesExist
    BY DEF CacheInv, FilesOK, UsedFilesExist, S!UsedFilesExist, S!ActiveFiles, S!NoFile
<1> QED BY <1>1, CacheAlways, PTL

\* What is served is one state of the selected account's database, at least as new as the
\* refresh that made it began with, however the client writes, checkpoints and restarts
\* its WAL meanwhile (im_db_middleware.py:345, :490).
THEOREM CopyIsServedWhole == S!Spec => []ServesRightCopy
<1>1. CacheInv => ServesRightCopy
    <2>1. ASSUME CacheInv, NEW f \in DOMAIN copy PROVE copy[f].sound = TRUE
        <3>1. copy[f] \in Copy
            BY <2>1 DEF CacheInv, CacheType
        <3> QED BY <3>1 DEF Copy
    <2> QED BY <2>1 DEF CacheInv, ServesRightCopy, S!ServesRightCopy, S!CopyIsWhole
<1> QED BY <1>1, CacheAlways, PTL

--------------------------------------------------------------------------------
(* The captured identities *)

AliasNames ==
    {I!None} \cup {I!Ali(p) : p \in I!People} \cup {I!Login(p) : p \in I!People}
        \cup {I!Encrypted(p) : p \in I!People}

Infos == [ali : AliasNames, login : AliasNames, encrypted : AliasNames]

\* A seller's own profile comes complete.
SelfInfos == {i \in Infos : i.ali # I!None /\ i.login # I!None}

Jobs == [kind : {"user", "snapshot"}, info : Infos] \cup [kind : {"self"}, info : SelfInfos]

IsCrm(c) == c = [marked |-> c.marked, alias |-> c.alias, contact |-> c.contact]

\* The customer of a conversation is the account of its ali_id.
ContactOK(c) ==
    \A b \in DOMAIN c.contact : I!Ali(b) \in DOMAIN c.alias /\ c.alias[I!Ali(b)] = c.contact[b]

\* A profile is stored under its ali_id.
PoolOK == \A k \in DOMAIN pool : pool[k].ali = k

IdentitiesInv == PoolOK /\ queue \in Seq(Jobs) /\ IsCrm(crm) /\ ContactOK(crm)

\* What was known is known unchanged.
Grows(c, d) ==
    /\ \A x \in DOMAIN c.alias : x \in DOMAIN d.alias /\ d.alias[x] = c.alias[x]
    /\ \A b \in DOMAIN c.contact : b \in DOMAIN d.contact /\ d.contact[b] = c.contact[b]

LEMMA ThreeFinite == ASSUME NEW a, NEW b, NEW c PROVE IsFiniteSet({a, b, c})
<1>1. IsFiniteSet({a}) /\ IsFiniteSet({b}) /\ IsFiniteSet({c})
    BY FS_Singleton
<1>2. IsFiniteSet({a} \cup {b})
    BY <1>1, FS_Union
<1>3. IsFiniteSet(({a} \cup {b}) \cup {c})
    BY <1>1, <1>2, FS_Union
<1>4. {a, b, c} = ({a} \cup {b}) \cup {c}
    OBVIOUS
<1> QED BY <1>3, <1>4

LEMMA SameCardinality == ASSUME NEW A PROVE I!Cardinality(A) = Cardinality(A)
BY Zenon DEF Cardinality, I!Cardinality

\* Without a conflict the account of a profile is that of each alias of it that is known.
LEMMA OneHit ==
    ASSUME NEW c, NEW i, ~I!Conflicted(c, i), NEW x \in I!Aliases(i), x \in DOMAIN c.alias
    PROVE  I!AccountOf(c, i) = c.alias[x]
<1> DEFINE H == I!Hits(c, i)
<1>1. H \subseteq {c.alias[i.ali], c.alias[i.login], c.alias[i.encrypted]}
    BY DEF I!Hits, I!Aliases
<1>2. IsFiniteSet(H)
    BY <1>1, ThreeFinite, FS_Subset
<1>3. c.alias[x] \in H
    BY DEF I!Hits
<1>4. ~(Cardinality(H) > 1)
    BY SameCardinality DEF I!Conflicted
<1>5. I!AccountOf(c, i) = IF H = {} THEN Len(c.marked) + 1 ELSE CHOOSE a \in H : TRUE
    BY DEF I!AccountOf
<1> HIDE DEF H
<1>6. Cardinality(H) \in Nat /\ Cardinality(H) # 0
    BY <1>2, <1>3, FS_CardinalityType, FS_EmptySet
<1>7. Cardinality(H) = 1
    BY <1>4, <1>6
<1>8. PICK y : H = {y}
    BY <1>2, <1>7, FS_Singleton
<1> QED BY <1>3, <1>5, <1>8

LEMMA UpsertFacts ==
    ASSUME NEW c, IsCrm(c), NEW i, NEW isSelf, NEW written \in SUBSET I!Aliases(i),
           ~I!Conflicted(c, i), NEW d, d = I!UpsertAliases(c, i, isSelf, written)
    PROVE  /\ IsCrm(d) /\ d.contact = c.contact
           /\ Grows(c, d)
           /\ \A x \in written : x \in DOMAIN d.alias /\ d.alias[x] = I!AccountOf(c, i)
<1> DEFINE aid == I!AccountOf(c, i)
           more == [x \in DOMAIN c.alias \cup written |-> IF x \in written THEN aid ELSE c.alias[x]]
<1>1. PICK m : d = [c EXCEPT !.marked = m, !.alias = more]
    BY DEF I!UpsertAliases, IsCrm
<1>2. \A x \in DOMAIN c.alias : x \in written => aid = c.alias[x]
    BY OneHit
<1>3. \A x \in DOMAIN c.alias : more[x] = c.alias[x]
    BY <1>2
<1>4. DOMAIN more = DOMAIN c.alias \cup written /\ \A x \in written : more[x] = aid
    OBVIOUS
<1> HIDE DEF more
<1>5. d = [marked |-> m, alias |-> more, contact |-> c.contact]
    BY <1>1 DEF IsCrm
<1>6. d.alias = more /\ d.contact = c.contact /\ IsCrm(d)
    BY <1>5 DEF IsCrm
<1> QED BY <1>3, <1>4, <1>6 DEF Grows

LEMMA GrownContact ==
    ASSUME NEW c, NEW d, ContactOK(c), Grows(c, d), d.contact = c.contact
    PROVE  ContactOK(d)
BY DEF ContactOK, Grows

\* A profile that is written, or refused.
LEMMA EnrichedGrows ==
    ASSUME NEW c, IsCrm(c), ContactOK(c), NEW i, NEW isSelf,
           NEW d, d = IF I!Conflicted(c, i) THEN c ELSE I!Upsert(c, i, isSelf)
    PROVE  /\ IsCrm(d) /\ ContactOK(d) /\ Grows(c, d) /\ d.contact = c.contact
           /\ ~I!Conflicted(c, i) => \A x \in I!Aliases(i) :
                    x \in DOMAIN d.alias /\ d.alias[x] = I!AccountOf(c, i)
<1>1. CASE I!Conflicted(c, i)
    BY <1>1 DEF Grows
<1>2. CASE ~I!Conflicted(c, i)
    <2>1. d = I!UpsertAliases(c, i, isSelf, I!Aliases(i))
        BY <1>2 DEF I!Upsert
    <2>2. /\ IsCrm(d) /\ d.contact = c.contact /\ Grows(c, d)
          /\ \A x \in I!Aliases(i) : x \in DOMAIN d.alias /\ d.alias[x] = I!AccountOf(c, i)
        BY <1>2, <2>1, UpsertFacts
    <2> QED BY <2>2, GrownContact
<1> QED BY <1>1, <1>2

LEMMA AliIsName == ASSUME NEW b PROVE I!Ali(b) # I!None
<1>1. Len(I!Ali(b)) = 2 /\ Len(I!None) = 0
    BY DEF I!Ali, I!None
<1> QED BY <1>1

LEMMA FoundFacts ==
    ASSUME PoolOK, NEW b
    PROVE  I!Found(b).ali = I!Ali(b) /\ I!Ali(b) \in I!Aliases(I!Found(b))
<1>1. I!Found(b).ali = I!Ali(b)
    BY DEF I!Found, PoolOK, I!Info
<1> QED BY <1>1, AliIsName DEF I!Aliases

\* A conversation is given to the account its ali_id belongs to.
LEMMA ChatGrows ==
    ASSUME PoolOK, NEW c, IsCrm(c), ContactOK(c), NEW b, NEW d, d = I!WithChat(c, b), d # I!NoAccounts
    PROVE  IsCrm(d) /\ ContactOK(d) /\ Grows(c, d)
<1> DEFINE i == I!Found(b)
           aids == IF I!Conflicted(c, i) THEN I!Kept(c, b) ELSE {I!AccountOf(c, i)}
           known == IF I!Conflicted(c, i) THEN c ELSE I!Upsert(c, i, FALSE)
<1>1. /\ aids # {}
      /\ d = [known EXCEPT !.contact = [a \in DOMAIN known.contact \cup {b} |->
                  IF a = b THEN CHOOSE a1 \in aids : TRUE ELSE known.contact[a]]]
    BY DEF I!WithChat
<1>2. PICK j, e, own : /\ j = i /\ e = known
                       /\ e = IF I!Conflicted(c, j) THEN c ELSE I!Upsert(c, j, own)
    BY Zenon
<1>k. /\ IsCrm(known) /\ ContactOK(known) /\ Grows(c, known) /\ known.contact = c.contact
      /\ ~I!Conflicted(c, i) => \A x \in I!Aliases(i) :
            x \in DOMAIN known.alias /\ known.alias[x] = I!AccountOf(c, i)
    <2> HIDE DEF i, known
    <2>1. /\ IsCrm(e) /\ ContactOK(e) /\ Grows(c, e) /\ e.contact = c.contact
          /\ ~I!Conflicted(c, j) => \A x \in I!Aliases(j) :
                x \in DOMAIN e.alias /\ e.alias[x] = I!AccountOf(c, j)
        BY <1>2, EnrichedGrows
    <2> QED BY <1>2, <2>1
<1>3. I!Ali(b) \in DOMAIN known.alias /\ aids = {known.alias[I!Ali(b)]}
    <2>1. CASE ~I!Conflicted(c, i)
        <3>1. aids = {I!AccountOf(c, i)}
            BY <2>1
        <3>2. I!Ali(b) \in I!Aliases(i)
            BY FoundFacts
        <3> HIDE DEF i, aids, known
        <3> QED BY <1>k, <2>1, <3>1, <3>2
    <2>2. CASE I!Conflicted(c, i)
        <3>1. aids = I!Kept(c, b) /\ known = c
            BY <2>2
        <3>2. I!Exact(c, b) = IF I!Ali(b) \in DOMAIN c.alias THEN {c.alias[I!Ali(b)]} ELSE {}
            BY DEF I!Exact
        <3>3. CASE b \in DOMAIN c.contact
            <4>1. I!Ali(b) \in DOMAIN c.alias /\ c.alias[I!Ali(b)] = c.contact[b]
                BY <3>3 DEF ContactOK
            <4>2. I!Prior(c, b) = {} \/ I!Prior(c, b) = {c.contact[b]}
                BY <3>3 DEF I!Prior
            <4>3. I!Kept(c, b) = {c.contact[b]}
                <5>1. CASE I!Prior(c, b) = {}
                    BY <3>2, <4>1, <5>1 DEF I!Kept
                <5>2. CASE I!Prior(c, b) = {c.contact[b]}
                    BY <3>2, <4>1, <5>2 DEF I!Kept
                <5> QED BY <4>2, <5>1, <5>2
            <4> QED BY <3>1, <4>1, <4>3
        <3>4. CASE b \notin DOMAIN c.contact
            <4>1. I!Prior(c, b) = {}
                BY <3>4 DEF I!Prior
            <4>2. I!Kept(c, b) = I!Exact(c, b)
                BY <4>1 DEF I!Kept
            <4> QED BY <1>1, <3>1, <3>2, <4>2
        <3> QED BY <3>3, <3>4
    <2> QED BY <2>1, <2>2
<1>4. (CHOOSE a1 \in aids : TRUE) = known.alias[I!Ali(b)]
    BY <1>3
<1> HIDE DEF i, aids, known
<1> DEFINE more == [a \in DOMAIN known.contact \cup {b} |->
                        IF a = b THEN known.alias[I!Ali(b)] ELSE known.contact[a]]
<1>5. d = [known EXCEPT !.contact = more]
    BY <1>1, <1>4
<1>6. /\ DOMAIN more = DOMAIN known.contact \cup {b}
      /\ more[b] = known.alias[I!Ali(b)]
      /\ \A a \in DOMAIN known.contact : more[a] = known.contact[a]
    BY <1>k DEF ContactOK
<1> HIDE DEF more
<1>7. d = [marked |-> known.marked, alias |-> known.alias, contact |-> more]
    BY <1>k, <1>5 DEF IsCrm
<1>8. IsCrm(d) /\ d.alias = known.alias /\ d.contact = more
    BY <1>7 DEF IsCrm
<1>9. ContactOK(d)
    BY <1>k, <1>3, <1>6, <1>8 DEF ContactOK
<1>10. Grows(c, d)
    BY <1>k, <1>6, <1>8 DEF Grows
<1> QED BY <1>8, <1>9, <1>10

--------------------------------------------------------------------------------
(* The conversations of a snapshot, one after the other *)

LEMMA LeastNumber ==
    ASSUME NEW T, T \subseteq Nat, T # {}
    PROVE  \E x \in T : \A y \in T : x <= y
<1> DEFINE Below == OpToRel(<, Nat)
<1>1. IsWellFoundedOn(Below, Nat)
    BY NatLessThanWellFounded
<1>2. \A x, y \in Nat : <<y, x>> \in Below <=> y < x
    BY DEF OpToRel
<1> HIDE DEF Below
<1>3. PICK x \in T : \A y \in T : ~ (<<y, x>> \in Below)
    BY <1>1, WFMin, Zenon
<1>4. \A y \in T : x <= y
    <2>1. \A y \in T : y \in Nat /\ x \in Nat /\ ~(y < x)
        BY <1>2, <1>3, Zenon
    <2> QED BY <2>1
<1> QED BY <1>4

\* A set of indices that holds 0 and with each index the next one holds them all.
LEMMA Upwards ==
    ASSUME NEW n \in Nat, NEW T, 0 \in T, \A k \in 0..(n - 1) : k \in T => k + 1 \in T
    PROVE  \A k \in 0..n : k \in T
<1> DEFINE U == {k \in 0..n : k \notin T}
<1> SUFFICES ASSUME U # {} PROVE FALSE
    OBVIOUS
<1>1. U \subseteq Nat
    OBVIOUS
<1>2. PICK x \in U : \A y \in U : x <= y
    BY <1>1, LeastNumber
<1>3. x \in 0..n /\ x \notin T /\ x # 0
    OBVIOUS
<1>4. x - 1 \in 0..(n - 1) /\ x - 1 \in 0..n
    BY <1>3
<1>5. x - 1 \notin U
    BY <1>2, <1>3, <1>4
<1>6. x - 1 \in T
    BY <1>4, <1>5
<1>7. (x - 1) + 1 \in T
    BY <1>4, <1>6
<1> QED BY <1>3, <1>7

\* The recursive function in Snapshot.
First(c) == I!Upsert(c, I!Info(I!Ali(Seller), I!None, I!None), TRUE)

Order(chats) == I!SetToSeq(chats)

Known(c, chats) ==
    CHOOSE known : known = [n \in 0..Len(Order(chats)) |->
        IF n = 0 THEN First(c) ELSE I!WithChat(known[n - 1], Order(chats)[n])]

LEMMA SnapshotKnown ==
    ASSUME NEW c, NEW chats PROVE I!Snapshot(c, chats) = Known(c, chats)[Len(Order(chats))]
BY DEF I!Snapshot, Known, First, Order

LEMMA OrderFinite == ASSUME NEW chats \in SUBSET Buyers PROVE Len(Order(chats)) \in Nat
<1>1. IsFiniteSet(chats)
    BY FS_Subset, PlatformAssumption
<1> DEFINE n == Cardinality(chats)
<1>2. n \in Nat /\ ExistsBijection(1..n, chats)
    BY <1>1, FS_CardinalityType
<1>3. Order(chats) = CHOOSE f \in [1..n -> chats] : I!IsInjective(f)
    BY SameCardinality DEF Order, I!SetToSeq
<1>4. \E f \in [1..n -> chats] : I!IsInjective(f)
    <2>1. PICK f \in Bijection(1..n, chats) : TRUE
        BY <1>2 DEF ExistsBijection
    <2> QED BY <2>1 DEF Bijection, Injection, I!IsInjective, IsInjective
<1> HIDE DEF n
<1>5. Order(chats) \in [1..n -> chats]
    BY <1>3, <1>4
<1>6. Order(chats) \in Seq(chats)
    BY <1>2, <1>5
<1> QED BY <1>6

\* Such a function exists: it is extended by one conversation at a time.
LEMMA KnownExists ==
    ASSUME NEW c, NEW chats \in SUBSET Buyers
    PROVE  /\ Known(c, chats)[0] = First(c)
           /\ \A n \in 0..(Len(Order(chats)) - 1) :
                Known(c, chats)[n + 1] = I!WithChat(Known(c, chats)[n], Order(chats)[n + 1])
<1> DEFINE last == Len(Order(chats))
           order == Order(chats)
           Begun(m, f) == f = [n \in 0..m |->
                IF n = 0 THEN First(c) ELSE I!WithChat(f[n - 1], order[n])]
           T == {m \in Nat : \E f : Begun(m, f)}
<1>0. last \in Nat
    BY OrderFinite
<1>1. 0 \in T
    <2> DEFINE f == [n \in 0..0 |-> First(c)]
    <2>1. Begun(0, f)
        OBVIOUS
    <2> QED BY <2>1
<1>2. ASSUME NEW m \in 0..(last - 1), m \in T PROVE m + 1 \in T
    <2>1. PICK f : Begun(m, f)
        BY <1>2
    <2> DEFINE g == [n \in 0..(m + 1) |-> IF n = m + 1 THEN I!WithChat(f[m], order[m + 1])
                                          ELSE f[n]]
    <2>2. m \in Nat
        OBVIOUS
    <2>3. \A n \in 0..m : g[n] = f[n]
        BY <2>2
    <2>4. ASSUME NEW n \in 0..(m + 1)
          PROVE  g[n] = IF n = 0 THEN First(c) ELSE I!WithChat(g[n - 1], order[n])
        <3>1. CASE n = m + 1
            <4>1. g[n] = I!WithChat(f[m], order[m + 1]) /\ n # 0 /\ n - 1 = m
                BY <3>1, <2>2
            <4>2. g[m] = f[m]
                BY <2>2, <2>3
            <4> HIDE DEF g
            <4> QED BY <3>1, <4>1, <4>2
        <3>2. CASE n # m + 1
            <4>1. n \in 0..m /\ (n # 0 => n - 1 \in 0..m)
                BY <3>2, <2>2
            <4>2. f[n] = IF n = 0 THEN First(c) ELSE I!WithChat(f[n - 1], order[n])
                BY <2>1, <4>1
            <4>3. g[n] = f[n] /\ (n # 0 => g[n - 1] = f[n - 1])
                BY <2>3, <4>1
            <4> HIDE DEF g
            <4> QED BY <4>2, <4>3
        <3> QED BY <3>1, <3>2
    <2>5. Begun(m + 1, g)
        <3> DEFINE h == [n \in 0..(m + 1) |->
                IF n = 0 THEN First(c) ELSE I!WithChat(g[n - 1], order[n])]
        <3>1. g = [n \in 0..(m + 1) |-> g[n]]
            OBVIOUS
        <3> HIDE DEF g
        <3>2. g = h
            BY <2>4, <3>1
        <3> QED BY <3>2
    <2> HIDE DEF g, Begun
    <2>6. \E h : Begun(m + 1, h)
        BY <2>5
    <2> QED BY <2>2, <2>6
<1> HIDE DEF T
<1>3. last \in T
    <2>1. \A n \in 0..last : n \in T
        BY <1>0, <1>1, <1>2, Upwards
    <2> QED BY <1>0, <2>1
<1>4. \E f : Begun(last, f)
    BY <1>3 DEF T
<1>5. Begun(last, Known(c, chats))
    BY <1>4 DEF Known
<1> HIDE DEF last, order
<1>6. \A n \in 0..last : Known(c, chats)[n] =
        IF n = 0 THEN First(c) ELSE I!WithChat(Known(c, chats)[n - 1], order[n])
    BY <1>5
<1> HIDE DEF Begun
<1>7. Known(c, chats)[0] = First(c)
    BY <1>0, <1>6
<1>8. ASSUME NEW n \in 0..(last - 1)
      PROVE  Known(c, chats)[n + 1] = I!WithChat(Known(c, chats)[n], order[n + 1])
    <2>1. n + 1 \in 0..last /\ n + 1 # 0 /\ (n + 1) - 1 = n
        BY <1>0
    <2> QED BY <1>6, <2>1
<1> QED BY <1>7, <1>8 DEF last, order

LEMMA GrowsOn == ASSUME NEW c, NEW d, NEW e, Grows(c, d), Grows(d, e) PROVE Grows(c, e)
BY DEF Grows

\* The seller is known by one alias, which is never in dispute.
LEMMA SellerKnown ==
    ASSUME NEW c, IsCrm(c), ContactOK(c)
    PROVE  IsCrm(First(c)) /\ ContactOK(First(c)) /\ Grows(c, First(c))
<1> DEFINE i == I!Info(I!Ali(Seller), I!None, I!None)
<1>1. I!Aliases(i) \subseteq {I!Ali(Seller)}
    BY DEF I!Aliases, I!Info
<1>2. ~I!Conflicted(c, i)
    <2> DEFINE H == I!Hits(c, i)
    <2>1. H \subseteq {c.alias[I!Ali(Seller)]}
        BY <1>1 DEF I!Hits
    <2>2. I!Conflicted(c, i) <=> Cardinality(H) > 1
        BY SameCardinality DEF I!Conflicted
    <2> HIDE DEF H, i
    <2>3. H = {} \/ H = {c.alias[I!Ali(Seller)]}
        BY <2>1
    <2>4. Cardinality(H) \in {0, 1}
        BY <2>3, FS_EmptySet, FS_Singleton
    <2> QED BY <2>2, <2>4
<1>3. PICK j, own, d : j = i /\ d = First(c) /\ d = I!Upsert(c, j, own)
    BY Zenon DEF First
<1> HIDE DEF i
<1>4. d = IF I!Conflicted(c, j) THEN c ELSE I!Upsert(c, j, own)
    BY <1>2, <1>3
<1>5. IsCrm(d) /\ ContactOK(d) /\ Grows(c, d)
    BY <1>4, EnrichedGrows
<1> QED BY <1>3, <1>5

\* A snapshot is refused, or redirects nothing.
LEMMA SnapshotGrows ==
    ASSUME PoolOK, NEW c, IsCrm(c), ContactOK(c), NEW chats \in SUBSET Buyers,
           NEW d, d = I!Snapshot(c, chats), d # I!NoAccounts
    PROVE  IsCrm(d) /\ ContactOK(d) /\ Grows(c, d)
<1> DEFINE last == Len(Order(chats))
           Right(e) == e = I!NoAccounts \/ (IsCrm(e) /\ ContactOK(e) /\ Grows(c, e))
           T == {n \in Nat : Right(Known(c, chats)[n])}
<1>1. last \in Nat
    BY OrderFinite
<1>2. 0 \in T
    BY KnownExists, SellerKnown
<1>3. ASSUME NEW n \in 0..(last - 1), n \in T PROVE n + 1 \in T
    <2>1. PICK e, f, b : /\ e = Known(c, chats)[n] /\ f = Known(c, chats)[n + 1]
                         /\ b = Order(chats)[n + 1] /\ f = I!WithChat(e, b)
        BY KnownExists
    <2>2. Right(e)
        BY <1>3, <2>1
    <2>5. Right(f)
        <3>1. CASE e = I!NoAccounts
            <4>1. f = I!NoAccounts
                BY <2>1, <3>1 DEF I!WithChat
            <4> QED BY <4>1
        <3>2. CASE IsCrm(e) /\ ContactOK(e) /\ Grows(c, e) /\ f # I!NoAccounts
            <4>1. IsCrm(f) /\ ContactOK(f) /\ Grows(e, f)
                BY <2>1, <3>2, ChatGrows
            <4>2. Grows(c, f)
                BY <3>2, <4>1, GrowsOn
            <4> QED BY <4>1, <4>2
        <3> QED BY <2>2, <3>1, <3>2
    <2>6. n + 1 \in Nat
        BY <1>1
    <2> HIDE DEF Right
    <2>7. Right(Known(c, chats)[n + 1])
        BY <2>1, <2>5
    <2> QED BY <2>6, <2>7
<1> HIDE DEF T
<1>4. \A n \in 0..last : n \in T
    BY <1>1, <1>2, <1>3, Upwards
<1>5. Right(Known(c, chats)[last])
    BY <1>1, <1>4 DEF T
<1>6. d = Known(c, chats)[last]
    BY SnapshotKnown
<1> QED BY <1>5, <1>6

--------------------------------------------------------------------------------
(* The invariant of the identities *)

LEMMA NoAccountsOK == IsCrm(I!NoAccounts) /\ ContactOK(I!NoAccounts)
<1>1. I!NoAccounts.contact = <<>> /\ DOMAIN I!NoAccounts.contact = {}
    BY DEF I!NoAccounts
<1>2. IsCrm(I!NoAccounts)
    BY DEF I!NoAccounts, IsCrm
<1> QED BY <1>1, <1>2 DEF ContactOK

LEMMA IdentitiesInit == I!Init => IdentitiesInv
<1> SUFFICES ASSUME I!Init PROVE IdentitiesInv
    OBVIOUS
<1>1. pool = <<>> /\ DOMAIN pool = {} /\ queue = <<>> /\ crm = I!NoAccounts
    BY DEF I!Init
<1>2. queue \in Seq(Jobs)
    BY <1>1
<1>3. PoolOK
    BY <1>1 DEF PoolOK
<1> QED BY <1>1, <1>2, <1>3, NoAccountsOK DEF IdentitiesInv

\* What is put into the pool is under its ali_id, and moves there when it becomes known.
LEMMA PutKeeps ==
    ASSUME PoolOK, NEW i, I!Put(i)
    PROVE  PoolOK'
<1>1. CASE UNCHANGED pool
    BY <1>1 DEF PoolOK
<1>2. CASE ~UNCHANGED pool
    <2>1. PICK new, keys, old :
            /\ keys = (DOMAIN pool \ {old}) \cup {new.ali}
            /\ pool' = [k \in keys |-> IF k = new.ali THEN new ELSE pool[k]]
        BY <1>2, Zenon DEF I!Put
    <2>2. ASSUME NEW k \in keys PROVE pool'[k].ali = k
        <3>1. CASE k = new.ali
            BY <2>1, <3>1
        <3>2. CASE k # new.ali
            <4>1. k \in DOMAIN pool /\ pool'[k] = pool[k]
                BY <2>1, <3>2
            <4> QED BY <4>1 DEF PoolOK
        <3> QED BY <3>1, <3>2
    <2>3. DOMAIN pool' = keys
        BY <2>1
    <2> QED BY <2>2, <2>3 DEF PoolOK
<1> QED BY <1>1, <1>2

LEMMA CaptureKeeps ==
    ASSUME IdentitiesInv, NEW i, NEW submitted \in Seq(Jobs), I!Capture(i, submitted)
    PROVE  IdentitiesInv' /\ Grows(crm, crm')
<1>1. PoolOK' /\ crm' = crm /\ queue' = queue \o submitted
    BY PutKeeps DEF I!Capture, IdentitiesInv
<1>2. queue' \in Seq(Jobs)
    BY <1>1 DEF IdentitiesInv
<1> QED BY <1>1, <1>2 DEF IdentitiesInv, IsCrm, ContactOK, Grows

LEMMA InfosAreInfos ==
    /\ I!CustomerInfos \subseteq Infos /\ I!AliInfos \subseteq Infos
    /\ I!ContactInfos \subseteq SelfInfos /\ SelfInfos \subseteq Infos
<1>1. /\ I!None \in AliasNames
      /\ \A p \in I!People : I!Ali(p) \in AliasNames /\ I!Login(p) \in AliasNames
                             /\ I!Encrypted(p) \in AliasNames
    BY DEF AliasNames
<1>2. \A a, l, e \in AliasNames : /\ I!Info(a, l, e) \in Infos
                                  /\ I!Info(a, l, e).ali = a /\ I!Info(a, l, e).login = l
    BY DEF Infos, I!Info
<1>3. \A p \in I!People : I!Ali(p) # I!None /\ I!Login(p) # I!None
    <2>1. ASSUME NEW p PROVE I!Login(p) # I!None
        <3>1. Len(I!Login(p)) = 2 /\ Len(I!None) = 0
            BY DEF I!Login, I!None
        <3> QED BY <3>1
    <2> QED BY <2>1, AliIsName
<1>4. I!CustomerInfos \subseteq Infos
    BY <1>1, <1>2 DEF I!CustomerInfos
<1>5. I!AliInfos \subseteq Infos
    BY <1>1, <1>2 DEF I!AliInfos
<1>6. I!ContactInfos \subseteq SelfInfos
    BY <1>1, <1>2, <1>3 DEF I!ContactInfos, SelfInfos
<1> QED BY <1>4, <1>5, <1>6 DEF SelfInfos

LEMMA JobsAreJobs ==
    /\ \A i \in Infos : I!Submitted("user", i) \in Jobs /\ I!Submitted("snapshot", i) \in Jobs
    /\ \A i \in SelfInfos : I!Submitted("self", i) \in Jobs
    /\ \A j \in Jobs : j.kind = "self" => j.info \in SelfInfos
<1>1. \A i \in Infos : I!Submitted("user", i) \in Jobs /\ I!Submitted("snapshot", i) \in Jobs
    BY DEF I!Submitted, Jobs
<1>2. \A i \in SelfInfos : I!Submitted("self", i) \in Jobs
    BY DEF I!Submitted, Jobs
<1>3. \A j \in Jobs : j.kind = "self" => j.info \in SelfInfos
    BY DEF Jobs
<1> QED BY <1>1, <1>2, <1>3

\* The executor's job.
LEMMA ExecuteKeeps ==
    ASSUME IdentitiesInv, I!Execute
    PROVE  IdentitiesInv' /\ Grows(crm, crm')
<1>1. queue # <<>> /\ queue' = Tail(queue) /\ pool' = pool
    BY DEF I!Execute
<1>2. queue' \in Seq(Jobs) /\ PoolOK'
    BY <1>1 DEF IdentitiesInv, PoolOK
<1>3. PoolOK /\ IsCrm(crm) /\ ContactOK(crm)
    BY DEF IdentitiesInv
<1>4. PICK i : i = Head(queue).info
    OBVIOUS
<1>5. IsCrm(crm') /\ ContactOK(crm') /\ Grows(crm, crm')
    <2>1. CASE crm' = I!Enriched(crm, i)
        <3>1. PICK own : crm' = IF I!Conflicted(crm, i) THEN crm ELSE I!Upsert(crm, i, own)
            BY <2>1, Zenon DEF I!Enriched
        <3> QED BY <1>3, <3>1, EnrichedGrows
    <2>2. CASE crm' = IF I!Conflicted(crm, i) THEN crm ELSE I!Upsert(crm, i, TRUE)
        <3>1. PICK own : crm' = IF I!Conflicted(crm, i) THEN crm ELSE I!Upsert(crm, i, own)
            BY <2>2, Zenon
        <3> QED BY <1>3, <3>1, EnrichedGrows
    <2>3. CASE crm' = crm
        BY <1>3, <2>3 DEF Grows
    <2>4. CASE \E chats \in SUBSET Buyers :
                crm' = I!Snapshot(crm, chats) /\ I!Snapshot(crm, chats) # I!NoAccounts
        BY <1>3, <2>4, SnapshotGrows
    <2>5. \/ crm' = I!Enriched(crm, i)
          \/ crm' = IF I!Conflicted(crm, i) THEN crm ELSE I!Upsert(crm, i, TRUE)
          \/ crm' = crm
          \/ \E chats \in SUBSET Buyers :
                crm' = I!Snapshot(crm, chats) /\ I!Snapshot(crm, chats) # I!NoAccounts
        BY <1>4, Zenon DEF I!Execute
    <2> QED BY <2>1, <2>2, <2>3, <2>4, <2>5
<1> QED BY <1>2, <1>5 DEF IdentitiesInv, IsCrm, ContactOK

\* A crash inside the write of a seller's profile leaves a part of its aliases.
LEMMA CrashKeeps ==
    ASSUME IdentitiesInv, I!Crash
    PROVE  IdentitiesInv' /\ Grows(crm, crm')
<1>1. queue' = <<>> /\ pool' = pool
    BY DEF I!Crash
<1>2. queue' \in Seq(Jobs) /\ PoolOK'
    BY <1>1 DEF IdentitiesInv, PoolOK
<1>3. IsCrm(crm) /\ ContactOK(crm) /\ queue \in Seq(Jobs)
    BY DEF IdentitiesInv
<1>4. IsCrm(crm') /\ ContactOK(crm') /\ Grows(crm, crm')
    <2>1. CASE crm' = crm
        BY <1>3, <2>1 DEF Grows
    <2>2. CASE crm' # crm
        <3>1. PICK i, written, own :
                /\ queue # <<>> /\ Head(queue).kind = "self" /\ i = Head(queue).info
                /\ ~I!Conflicted(crm, i)
                /\ written \in {{}, {i.ali}, {i.ali, i.login}}
                /\ crm' = I!UpsertAliases(crm, i, own, written)
            BY <2>2, Zenon DEF I!Crash
        <3>2. Head(queue) \in Jobs
            BY <1>3, <3>1
        <3>3. i \in SelfInfos
            BY <3>1, <3>2, JobsAreJobs
        <3>4. written \in SUBSET I!Aliases(i)
            BY <3>1, <3>3 DEF SelfInfos, I!Aliases
        <3>5. IsCrm(crm') /\ crm'.contact = crm.contact /\ Grows(crm, crm')
            BY <1>3, <3>1, <3>4, UpsertFacts
        <3> QED BY <1>3, <3>5, GrownContact
    <2> QED BY <2>1, <2>2
<1> QED BY <1>2, <1>4 DEF IdentitiesInv, IsCrm, ContactOK

LEMMA IdentitiesKeep ==
    ASSUME IdentitiesInv, [I!Next]_(I!vars)
    PROVE  IdentitiesInv' /\ Grows(crm, crm')
<1>s. /\ \A j \in Jobs : <<j>> \in Seq(Jobs)
      /\ \A j, k \in Jobs : <<j>> \o <<k>> \in Seq(Jobs)
      /\ \A j \in Jobs : <<>> \o <<j>> \in Seq(Jobs)
    OBVIOUS
<1>u. ASSUME UNCHANGED <<pool, queue, crm>> PROVE IdentitiesInv' /\ Grows(crm, crm')
    BY <1>u DEF IdentitiesInv, PoolOK, IsCrm, ContactOK, Grows
<1>1. CASE I!QueryCustomerInfo
    <2>1. PICK i \in I!CustomerInfos : I!Capture(i, <<I!Submitted("user", i)>>)
        BY <1>1 DEF I!QueryCustomerInfo
    <2>2. <<I!Submitted("user", i)>> \in Seq(Jobs)
        BY <1>s, InfosAreInfos, JobsAreJobs
    <2> QED BY <2>1, <2>2, CaptureKeeps
<1>2. CASE I!ImIdGet
    <2>1. PICK i \in I!AliInfos : I!Capture(i, <<I!Submitted("user", i)>>)
        BY <1>2 DEF I!ImIdGet
    <2>2. <<I!Submitted("user", i)>> \in Seq(Jobs)
        BY <1>s, InfosAreInfos, JobsAreJobs
    <2> QED BY <2>1, <2>2, CaptureKeeps
<1>3. CASE I!ContactExtinfoGet
    <2>1. PICK i \in I!ContactInfos : I!Capture(i,
            (IF i.ali = I!Ali(Seller) THEN <<I!Submitted("self", i)>> ELSE <<>>)
                \o <<I!Submitted("user", i)>>)
        BY <1>3 DEF I!ContactExtinfoGet
    <2>2. I!Submitted("user", i) \in Jobs /\ I!Submitted("self", i) \in Jobs
        BY InfosAreInfos, JobsAreJobs
    <2>3. PICK own \in Seq(Jobs) :
            own = (IF i.ali = I!Ali(Seller) THEN <<I!Submitted("self", i)>> ELSE <<>>)
                      \o <<I!Submitted("user", i)>>
        BY <1>s, <2>2
    <2>4. I!Capture(i, own)
        BY <2>1, <2>3
    <2> QED BY <2>4, CaptureKeeps
<1>4. CASE I!RequestSnapshot
    <2>1. PICK j : j = I!Submitted("snapshot", I!Info(I!None, I!None, I!None))
        OBVIOUS
    <2>2. j \in Jobs
        BY <2>1, JobsAreJobs DEF Infos, AliasNames, I!Info
    <2>3. queue' = Append(queue, j) /\ UNCHANGED <<pool, crm>>
        BY <1>4, <2>1 DEF I!RequestSnapshot
    <2>4. queue' \in Seq(Jobs)
        BY <2>2, <2>3 DEF IdentitiesInv
    <2> QED BY <2>3, <2>4 DEF IdentitiesInv, PoolOK, IsCrm, ContactOK, Grows
<1>5. CASE I!Execute
    BY <1>5, ExecuteKeeps
<1>6. CASE I!Crash
    BY <1>6, CrashKeeps
<1>7. CASE I!ResetCache
    <2>1. pool' = <<>> /\ UNCHANGED <<queue, crm>>
        BY <1>7 DEF I!ResetCache
    <2>2. PoolOK'
        BY <2>1 DEF PoolOK
    <2> QED BY <2>1, <2>2 DEF IdentitiesInv, IsCrm, ContactOK, Grows
<1>8. CASE UNCHANGED I!vars
    BY <1>8, <1>u DEF I!vars
<1> QED BY <1>1, <1>2, <1>3, <1>4, <1>5, <1>6, <1>7, <1>8 DEF I!Next

\* An alias or conversation that is known stays with its account: services combine people
\* wrongly, profiles are completed meanwhile, a crash leaves a part (sync.py:209, :357).
THEOREM NeverRedirects == I!Spec => NeverRedirected
<1>1. IdentitiesInv /\ [I!Next]_(I!vars) => IdentitiesInv'
    BY IdentitiesKeep
<1>2. IdentitiesInv /\ [I!Next]_(I!vars) =>
        [/\ \A x \in DOMAIN crm.alias : x \in DOMAIN crm'.alias /\ crm'.alias[x] = crm.alias[x]
         /\ \A b \in DOMAIN crm.contact :
                b \in DOMAIN crm'.contact /\ crm'.contact[b] = crm.contact[b]]_crm
    BY IdentitiesKeep DEF Grows
<1> QED BY <1>1, <1>2, IdentitiesInit, PTL DEF I!Spec, NeverRedirected, I!NeverRedirected

--------------------------------------------------------------------------------
(* The portraits *)

PortraitStages == Stages \cup {P!Unset, "unknown"}
PortraitReasons == Reasons \cup {P!Unset, P!None}
LossTimes == {P!NoTime} \cup {P!Cardinality(A) + 1 : A \in SUBSET Batches}

PortraitRecord ==
    [stage : PortraitStages, reason : PortraitReasons, lostAt : LossTimes, tags : SUBSET Tags,
     version : Nat]

PortraitChanges ==
    [stage : PortraitStages, reason : PortraitReasons, add : SUBSET Tags, remove : SUBSET Tags]

PortraitsType ==
    /\ contact \in [Sids -> Cids \cup {P!NoCid}]
    /\ visible \subseteq Sids
    /\ portrait \in [Cids -> PortraitRecord]
    /\ operation = [r \in Batches |-> operation[r]]

\* A page shows the customers of its request, at a version that has but one content.
RequestOK(q) ==
    /\ q.id \in Batches /\ q.changes \in PortraitChanges
    /\ \A s \in DOMAIN q.targets :
        /\ q.targets[s].cid \in DOMAIN q.view
        /\ q.targets[s].version = q.view[q.targets[s].cid].version
    /\ \A c \in DOMAIN q.view :
        /\ c \in Cids /\ q.view[c].version \in Nat
        /\ q.view[c].version <= portrait[c].version
        /\ q.view[c].version = portrait[c].version => q.view[c] = portrait[c]

Made(r, c) == r \in P!Committed /\ c \in DOMAIN operation[r].version

Explains(before, changes, after) ==
    /\ after.tags = (before.tags \cup changes.add) \ changes.remove
    /\ after.stage = P!StageOf(before, changes)

\* Each version of a customer has one operation, which explains it from the version before.
AuditOK(c) ==
    /\ \A r \in Batches : Made(r, c) =>
        /\ operation[r].version[c] \in 1..portrait[c].version
        /\ operation[r].before[c].version = operation[r].version[c] - 1
        /\ operation[r].version[c] = portrait[c].version =>
                Explains(operation[r].before[c], operation[r].payload.changes, portrait[c])
    /\ \A n \in 1..portrait[c].version :
            \E r \in Batches : Made(r, c) /\ operation[r].version[c] = n
    /\ \A r, q \in Batches : Made(r, c) /\ Made(q, c) =>
        /\ operation[r].version[c] = operation[q].version[c] => r = q
        /\ operation[q].version[c] = operation[r].version[c] + 1 =>
            Explains(operation[r].before[c], operation[r].payload.changes, operation[q].before[c])

PortraitsInv ==
    /\ PortraitsType
    /\ \A q \in sent : RequestOK(q)
    /\ \A c \in Cids : AuditOK(c)

\* What a batch makes of a record.
LEMMA PortraitWritten ==
    ASSUME NEW record \in PortraitRecord, NEW changes \in PortraitChanges, P!Now \in LossTimes,
           NEW w, w = P!Written(record, changes)
    PROVE  /\ w \in PortraitRecord
           /\ w # record => w.version = record.version + 1 /\ Explains(record, changes, w)
<1>1. record.version \in Nat /\ record.stage \in PortraitStages /\ record.reason \in PortraitReasons
      /\ record.lostAt \in LossTimes /\ record.tags \in SUBSET Tags
    BY DEF PortraitRecord
<1>2. /\ changes.stage \in PortraitStages /\ changes.reason \in PortraitReasons
      /\ changes.add \in SUBSET Tags /\ changes.remove \in SUBSET Tags
    BY DEF PortraitChanges
<1>3. PICK stage \in PortraitStages : stage = P!StageOf(record, changes)
    BY <1>1, <1>2 DEF P!StageOf
<1>4. PICK reason \in PortraitReasons :
        reason = IF ~(stage = "lost") THEN P!None
                 ELSE IF changes.reason = P!Unset THEN record.reason ELSE changes.reason
    BY <1>1, <1>2 DEF PortraitReasons
<1>5. PICK time \in LossTimes :
        time = IF ~(stage = "lost") THEN P!NoTime
               ELSE IF record.stage = "lost" /\ record.lostAt # P!NoTime THEN record.lostAt
               ELSE P!Now
    BY <1>1 DEF LossTimes
<1>6. PICK tags \in SUBSET Tags : tags = (record.tags \cup changes.add) \ changes.remove
    BY <1>1, <1>2
<1>7. P!Edited(record, changes) =
        [record EXCEPT !.stage = stage, !.reason = reason, !.lostAt = time, !.tags = tags]
    <2> DEFINE lost == P!StageOf(record, changes) = "lost"
               why == IF ~lost THEN P!None
                      ELSE IF changes.reason = P!Unset THEN record.reason ELSE changes.reason
               when == IF ~lost THEN P!NoTime
                       ELSE IF record.stage = "lost" /\ record.lostAt # P!NoTime
                            THEN record.lostAt ELSE P!Now
               all == (record.tags \cup changes.add) \ changes.remove
    <2>1. P!Edited(record, changes) =
            [record EXCEPT !.stage = P!StageOf(record, changes), !.reason = why,
                           !.lostAt = when, !.tags = all]
        BY Zenon DEF P!Edited
    <2>2. reason = why /\ time = when /\ tags = all
        BY <1>3, <1>4, <1>5, <1>6
    <2> HIDE DEF lost, why, when, all
    <2>3. P!Edited(record, changes) =
            [record EXCEPT !.stage = stage, !.reason = why, !.lostAt = when, !.tags = all]
        BY <1>3, <2>1
    <2> QED BY <2>2, <2>3
<1>8. PICK e : e = P!Edited(record, changes)
    OBVIOUS
<1>9. /\ e \in PortraitRecord /\ e.version = record.version /\ e.stage = stage /\ e.tags = tags
    BY <1>7, <1>8 DEF PortraitRecord
<1>10. w = IF e = record THEN record ELSE [e EXCEPT !.version = @ + 1]
    BY <1>8 DEF P!Written
<1>11. CASE e = record
    BY <1>10, <1>11
<1>12. CASE e # record
    <2>1. PICK n \in Nat : n = record.version + 1
        BY <1>1
    <2>2. w = [e EXCEPT !.version = n]
        BY <1>1, <1>9, <1>10, <1>12, <2>1 DEF PortraitRecord
    <2>3. w \in PortraitRecord /\ w.version = n /\ w.stage = stage /\ w.tags = tags
        BY <1>9, <2>2 DEF PortraitRecord
    <2> QED BY <1>3, <1>6, <2>1, <2>3 DEF Explains
<1> QED BY <1>11, <1>12

LEMMA NowIsTime == P!Now \in LossTimes
<1>1. P!Committed \in SUBSET Batches
    BY DEF P!Committed
<1> QED BY <1>1 DEF P!Now, LossTimes

LEMMA PortraitsInit ==
    ASSUME PlatformAssumption, P!Init
    PROVE  PortraitsInv
<1>1. P!Min(Sids) \in Sids
    <2>1. \E x \in Sids : \A y \in Sids : x <= y
        BY PlatformAssumption, LeastNumber
    <2> QED BY <2>1 DEF P!Min
<1>2. P!DefaultRecord \in PortraitRecord /\ P!DefaultRecord.version = 0
    BY DEF P!DefaultRecord, PortraitRecord, PortraitStages, PortraitReasons, LossTimes
<1>3. PortraitsType
    BY <1>1, <1>2 DEF P!Init, PortraitsType
<1>4. \A c \in Cids : portrait[c].version = 0
    BY <1>2 DEF P!Init
<1>5. P!Committed = {}
    BY DEF P!Init, P!Committed
<1>6. \A c \in Cids : AuditOK(c)
    BY <1>4, <1>5 DEF AuditOK, Made
<1> QED BY <1>3, <1>6 DEF PortraitsInv, P!Init

\* A page that composes a request shows the customers as they are.
LEMMA ComposeKeeps ==
    ASSUME PortraitsInv, PlatformAssumption, P!Compose
    PROVE  PortraitsInv'
<1>1. UNCHANGED <<contact, visible, portrait, operation>>
    BY DEF P!Compose
<1>2. PICK sids \in SUBSET P!Editable, changes \in P!Changes : \E r, targets, view :
        /\ r = P!Min(Batches \ (P!Committed \cup {q.id : q \in sent}))
        /\ Batches \ (P!Committed \cup {q.id : q \in sent}) # {}
        /\ targets = [s \in sids |-> [cid |-> contact[s], version |-> portrait[contact[s]].version]]
        /\ view = [c \in {contact[s] : s \in sids} |-> portrait[c]]
        /\ sent' = sent \cup {[id |-> r, targets |-> targets, changes |-> changes, view |-> view]}
    BY DEF P!Compose
<1>3. PICK r, targets, view :
        /\ r = P!Min(Batches \ (P!Committed \cup {q.id : q \in sent}))
        /\ Batches \ (P!Committed \cup {q.id : q \in sent}) # {}
        /\ targets = [s \in sids |-> [cid |-> contact[s], version |-> portrait[contact[s]].version]]
        /\ view = [c \in {contact[s] : s \in sids} |-> portrait[c]]
        /\ sent' = sent \cup {[id |-> r, targets |-> targets, changes |-> changes, view |-> view]}
    BY <1>2
<1>4. PICK q : q = [id |-> r, targets |-> targets, changes |-> changes, view |-> view]
    OBVIOUS
<1>5. q.id = r /\ q.targets = targets /\ q.changes = changes /\ q.view = view
    BY <1>4
<1>6. r \in Batches
    <2> DEFINE unused == Batches \ (P!Committed \cup {b.id : b \in sent})
    <2>1. \E x \in unused : \A y \in unused : x <= y
        BY <1>3, PlatformAssumption, LeastNumber
    <2>2. r = P!Min(unused)
        BY <1>3
    <2> HIDE DEF unused
    <2>3. r \in unused
        BY <2>1, <2>2 DEF P!Min
    <2> QED BY <2>3 DEF unused
<1>7. changes \in PortraitChanges
    BY DEF P!Changes, PortraitChanges, PortraitStages, PortraitReasons
<1>8. \A s \in sids : contact[s] \in Cids
    BY DEF P!Editable, P!Contacts, PortraitsInv, PortraitsType
<1>9. \A s \in DOMAIN targets :
        /\ targets[s].cid \in DOMAIN view
        /\ targets[s].version = view[targets[s].cid].version
    BY <1>3
<1>10. ASSUME NEW c \in DOMAIN view
      PROVE  c \in Cids /\ view[c] = portrait[c] /\ view[c].version \in Nat
    <2>1. c \in Cids /\ view[c] = portrait[c]
        BY <1>3, <1>8
    <2>2. portrait[c] \in PortraitRecord
        BY <2>1 DEF PortraitsInv, PortraitsType
    <2> QED BY <2>1, <2>2 DEF PortraitRecord
<1>11. RequestOK(q)
    BY <1>5, <1>6, <1>7, <1>9, <1>10 DEF RequestOK
<1>12. \A b \in sent' : RequestOK(b)
    BY <1>3, <1>4, <1>11 DEF PortraitsInv
<1>13. (\A b \in sent : RequestOK(b))'
    BY <1>1, <1>12 DEF RequestOK
<1>14. PortraitsType'
    BY <1>1 DEF PortraitsInv, PortraitsType
<1>15. (\A c \in Cids : AuditOK(c))'
    BY <1>1 DEF PortraitsInv, AuditOK, Made, P!Committed, Explains
<1> QED BY <1>13, <1>14, <1>15 DEF PortraitsInv

\* A batch that is committed.
LEMMA CommitFacts ==
    ASSUME PortraitsInv, NEW q \in sent, P!Commit(q), P!Matches(q), operation[q.id] = P!NoOperation
    PROVE  /\ portrait' \in [Cids -> PortraitRecord]
           /\ \A c \in Cids : portrait'[c] # portrait[c] =>
                /\ portrait'[c].version = portrait[c].version + 1
                /\ c \in P!CidsOf(q)
                /\ Explains(portrait[c], q.changes, portrait'[c])
           /\ \A c \in P!CidsOf(q) : c \in DOMAIN q.view /\ q.view[c] = portrait[c]
<1>1. RequestOK(q) /\ portrait \in [Cids -> PortraitRecord]
    BY DEF PortraitsInv, PortraitsType
<1>2. ASSUME NEW c \in P!CidsOf(q) PROVE c \in DOMAIN q.view /\ q.view[c] = portrait[c] /\ c \in Cids
    <2>1. PICK s \in DOMAIN q.targets : q.targets[s].cid = c
        BY DEF P!CidsOf
    <2>2. q.targets[s].version = portrait[c].version
        BY <2>1 DEF P!Matches
    <2> QED BY <1>1, <2>1, <2>2 DEF RequestOK
<1>3. \A c \in Cids : portrait'[c] = IF c \in P!CidsOf(q) THEN P!Written(portrait[c], q.changes)
                                     ELSE portrait[c]
    BY DEF P!Commit
<1>4. q.changes \in PortraitChanges
    BY <1>1 DEF RequestOK
<1>5. ASSUME NEW c \in Cids
      PROVE  /\ portrait'[c] \in PortraitRecord
             /\ portrait'[c] # portrait[c] =>
                  /\ portrait'[c].version = portrait[c].version + 1
                  /\ c \in P!CidsOf(q)
                  /\ Explains(portrait[c], q.changes, portrait'[c])
    <2>1. portrait[c] \in PortraitRecord
        BY <1>1
    <2>2. CASE c \in P!CidsOf(q)
        <3>1. portrait'[c] = P!Written(portrait[c], q.changes)
            BY <1>3, <2>2
        <3> QED BY <1>4, <2>1, <2>2, <3>1, NowIsTime, PortraitWritten
    <2>3. CASE c \notin P!CidsOf(q)
        BY <1>3, <2>1, <2>3
    <2> QED BY <2>2, <2>3
<1>6. portrait' \in [Cids -> PortraitRecord]
    <2>1. portrait' = [c \in Cids |-> portrait'[c]]
        BY DEF P!Commit
    <2> QED BY <1>5, <2>1
<1> QED BY <1>2, <1>5, <1>6

LEMMA ApplyKeeps ==
    ASSUME PortraitsInv, NEW q \in sent, P!Apply(q)
    PROVE  /\ PortraitsInv'
           /\ \A c \in Cids : portrait'[c] # portrait[c] =>
                c \in DOMAIN q.view /\ q.view[c] = portrait[c]
<1>1. UNCHANGED <<contact, visible>> /\ sent' \subseteq sent
    BY DEF P!Apply
<1>2. CASE UNCHANGED <<portrait, operation>>
    <2>1. PortraitsType'
        BY <1>1, <1>2 DEF PortraitsInv, PortraitsType
    <2>2. (\A b \in sent : RequestOK(b))'
        BY <1>1, <1>2 DEF PortraitsInv, RequestOK
    <2>3. (\A c \in Cids : AuditOK(c))'
        BY <1>2 DEF PortraitsInv, AuditOK, Made, P!Committed, Explains
    <2> QED BY <1>2, <2>1, <2>2, <2>3 DEF PortraitsInv
<1>3. CASE P!Commit(q) /\ P!Matches(q) /\ operation[q.id] = P!NoOperation
    <2>1. /\ portrait' \in [Cids -> PortraitRecord]
          /\ \A c \in Cids : portrait'[c] # portrait[c] =>
                /\ portrait'[c].version = portrait[c].version + 1
                /\ c \in P!CidsOf(q)
                /\ Explains(portrait[c], q.changes, portrait'[c])
          /\ \A c \in P!CidsOf(q) : c \in DOMAIN q.view /\ q.view[c] = portrait[c]
        BY <1>3, CommitFacts
    <2>2. RequestOK(q) /\ q.id \in Batches /\ operation = [r \in Batches |-> operation[r]]
        BY DEF PortraitsInv, PortraitsType, RequestOK
    <2>3. \A c \in P!CidsOf(q) : c \in Cids
        BY <2>1, <2>2 DEF RequestOK
    <2>4. \A c \in Cids : portrait[c].version \in Nat
        BY DEF PortraitsInv, PortraitsType, PortraitRecord
    <2> DEFINE changed == {c \in P!CidsOf(q) : P!Written(portrait[c], q.changes) # portrait[c]}
    <2>5. \A c \in Cids : c \in changed <=> portrait'[c] # portrait[c]
        BY <1>3, <2>3 DEF P!Commit
    <2>6. PICK row : /\ row = [payload |-> P!Payload(q), before |-> P!Before(q), view |-> q.view,
                                version |-> [c \in changed |-> portrait[c].version + 1]]
                     /\ operation' = [operation EXCEPT ![q.id] = row]
        BY <1>3 DEF P!Commit
    <2>7. /\ DOMAIN row.version = changed
          /\ \A c \in changed : row.version[c] = portrait[c].version + 1
          /\ \A c \in P!CidsOf(q) : row.before[c] = portrait[c]
          /\ row.payload.changes = q.changes
        BY <2>6 DEF P!Payload, P!Before
    <2>8. row # P!NoOperation
        <3>1. "version" \in DOMAIN row /\ "version" \notin DOMAIN P!NoOperation
            BY <2>6 DEF P!NoOperation
        <3> QED BY <3>1
    <2>9. /\ operation'[q.id] = row
          /\ \A r \in Batches : r # q.id => operation'[r] = operation[r]
          /\ operation' = [r \in Batches |-> operation'[r]]
        BY <2>2, <2>6
    <2>10. changed \subseteq Cids /\ changed \subseteq P!CidsOf(q)
        BY <2>3
    <2> HIDE DEF changed
    <2>11. PortraitsType'
        BY <1>1, <2>1, <2>9 DEF PortraitsInv, PortraitsType
    <2>12. ASSUME NEW b \in sent PROVE RequestOK(b)'
        <3>1. RequestOK(b)
            BY DEF PortraitsInv
        <3>2. ASSUME NEW c \in DOMAIN b.view
              PROVE  /\ b.view[c].version <= portrait'[c].version
                     /\ b.view[c].version = portrait'[c].version => b.view[c] = portrait'[c]
            <4>1. /\ c \in Cids /\ b.view[c].version \in Nat /\ b.view[c].version <= portrait[c].version
                  /\ b.view[c].version = portrait[c].version => b.view[c] = portrait[c]
                BY <3>1 DEF RequestOK
            <4>2. portrait[c].version \in Nat
                BY <2>4, <4>1
            <4>3. portrait'[c] = portrait[c] \/ portrait'[c].version = portrait[c].version + 1
                BY <2>1, <4>1
            <4> QED BY <4>1, <4>2, <4>3
        <3> QED BY <3>1, <3>2 DEF RequestOK
    <2>13. ASSUME NEW r \in Batches, NEW c \in Cids
           PROVE  Made(r, c)' <=> IF r = q.id THEN c \in changed ELSE Made(r, c)
        BY <2>7, <2>8, <2>9 DEF Made, P!Committed
    <2>14. \A c \in Cids : ~Made(q.id, c)
        BY <1>3 DEF Made, P!Committed
    <2>15. ASSUME NEW c \in Cids PROVE AuditOK(c)'
        <3>1. AuditOK(c) /\ portrait[c].version \in Nat
            BY <2>4 DEF PortraitsInv
        <3>2. CASE c \notin changed
            <4>1. portrait'[c] = portrait[c]
                BY <2>5, <3>2
            <4>2. \A r \in Batches : Made(r, c)' <=> Made(r, c)
                BY <2>13, <2>14, <3>2
            <4>3. \A r \in Batches : Made(r, c) => operation'[r] = operation[r]
                BY <2>9, <2>14
            <4>4. /\ \A r \in Batches : Made(r, c)' =>
                        /\ operation'[r].version[c] \in 1..portrait'[c].version
                        /\ operation'[r].before[c].version = operation'[r].version[c] - 1
                        /\ operation'[r].version[c] = portrait'[c].version =>
                            Explains(operation'[r].before[c], operation'[r].payload.changes, portrait'[c])
                BY <3>1, <4>1, <4>2, <4>3 DEF AuditOK
            <4>5. \A n \in 1..portrait'[c].version :
                        \E r \in Batches : Made(r, c)' /\ operation'[r].version[c] = n
                BY <3>1, <4>1, <4>2, <4>3 DEF AuditOK
            <4>6. \A r, p \in Batches : Made(r, c)' /\ Made(p, c)' =>
                    /\ operation'[r].version[c] = operation'[p].version[c] => r = p
                    /\ operation'[p].version[c] = operation'[r].version[c] + 1 =>
                        Explains(operation'[r].before[c], operation'[r].payload.changes,
                                 operation'[p].before[c])
                BY <3>1, <4>1, <4>2, <4>3 DEF AuditOK
            <4> QED BY <4>4, <4>5, <4>6 DEF AuditOK, Explains
        <3>3. CASE c \in changed
            <4>1. /\ portrait'[c].version = portrait[c].version + 1
                  /\ Explains(portrait[c], q.changes, portrait'[c])
                  /\ operation'[q.id].version[c] = portrait[c].version + 1
                  /\ operation'[q.id].before[c] = portrait[c]
                  /\ operation'[q.id].payload.changes = q.changes
                BY <2>1, <2>5, <2>7, <2>9, <2>10, <3>3
            <4>2. \A r \in Batches : Made(r, c)' <=> (Made(r, c) \/ r = q.id)
                BY <2>13, <2>14, <3>3
            <4>3. \A r \in Batches : Made(r, c) => r # q.id /\ operation'[r] = operation[r]
                BY <2>9, <2>14
            <4>4. \A r \in Batches : Made(r, c) => operation[r].version[c] \in 1..portrait[c].version
                BY <3>1 DEF AuditOK
            <4>5. ASSUME NEW r \in Batches, Made(r, c)'
                  PROVE  /\ operation'[r].version[c] \in 1..portrait'[c].version
                         /\ operation'[r].before[c].version = operation'[r].version[c] - 1
                         /\ operation'[r].version[c] = portrait'[c].version =>
                              Explains(operation'[r].before[c], operation'[r].payload.changes, portrait'[c])
                <5>1. CASE r = q.id
                    BY <3>1, <4>1, <5>1
                <5>2. CASE r # q.id
                    <6>1. Made(r, c) /\ operation'[r] = operation[r]
                        BY <4>2, <4>3, <4>5, <5>2
                    <6>2. operation[r].version[c] \in 1..portrait[c].version
                          /\ operation[r].before[c].version = operation[r].version[c] - 1
                        BY <3>1, <6>1 DEF AuditOK
                    <6> QED BY <3>1, <4>1, <6>1, <6>2
                <5> QED BY <5>1, <5>2
            <4>6. ASSUME NEW n \in 1..portrait'[c].version
                  PROVE  \E r \in Batches : Made(r, c)' /\ operation'[r].version[c] = n
                <5>1. CASE n = portrait[c].version + 1
                    BY <2>2, <4>1, <4>2, <5>1
                <5>2. CASE n # portrait[c].version + 1
                    <6>1. n \in 1..portrait[c].version
                        BY <3>1, <4>1, <5>2
                    <6>2. PICK r \in Batches : Made(r, c) /\ operation[r].version[c] = n
                        BY <3>1, <6>1 DEF AuditOK
                    <6> QED BY <4>2, <4>3, <6>2
                <5> QED BY <5>1, <5>2
            <4>7. ASSUME NEW r \in Batches, NEW p \in Batches, Made(r, c)', Made(p, c)'
                  PROVE  /\ operation'[r].version[c] = operation'[p].version[c] => r = p
                         /\ operation'[p].version[c] = operation'[r].version[c] + 1 =>
                             Explains(operation'[r].before[c], operation'[r].payload.changes,
                                      operation'[p].before[c])
                <5>1. CASE r # q.id /\ p # q.id
                    <6>1. /\ Made(r, c) /\ operation'[r] = operation[r]
                          /\ Made(p, c) /\ operation'[p] = operation[p]
                        BY <4>2, <4>3, <4>7, <5>1
                    <6> QED BY <3>1, <6>1 DEF AuditOK
                <5>2. CASE r = q.id /\ p # q.id
                    <6>1. /\ Made(p, c) /\ operation'[p] = operation[p]
                          /\ operation[p].version[c] \in 1..portrait[c].version
                        BY <4>2, <4>3, <4>4, <4>7, <5>2
                    <6> QED BY <3>1, <4>1, <5>2, <6>1
                <5>3. CASE r # q.id /\ p = q.id
                    <6>1. /\ Made(r, c) /\ operation'[r] = operation[r]
                          /\ operation[r].version[c] \in 1..portrait[c].version
                        BY <4>2, <4>3, <4>4, <4>7, <5>3
                    <6>2. operation[r].version[c] = portrait[c].version =>
                            Explains(operation[r].before[c], operation[r].payload.changes, portrait[c])
                        BY <3>1, <6>1 DEF AuditOK
                    <6> QED BY <3>1, <4>1, <5>3, <6>1, <6>2
                <5>4. CASE r = q.id /\ p = q.id
                    BY <3>1, <4>1, <5>4
                <5> QED BY <5>1, <5>2, <5>3, <5>4
            <4> QED BY <4>5, <4>6, <4>7 DEF AuditOK, Explains
        <3> QED BY <3>2, <3>3
    <2>16. (\A b \in sent : RequestOK(b))'
        BY <1>1, <2>12
    <2>17. (\A c \in Cids : AuditOK(c))'
        BY <2>15
    <2>18. \A c \in Cids : portrait'[c] # portrait[c] => c \in DOMAIN q.view /\ q.view[c] = portrait[c]
        BY <2>1
    <2> QED BY <2>11, <2>16, <2>17, <2>18 DEF PortraitsInv
<1> QED BY <1>2, <1>3, Zenon DEF P!Apply

LEMMA PortraitsKeep ==
    ASSUME PortraitsInv, PlatformAssumption, [P!Next]_(P!vars)
    PROVE  /\ PortraitsInv'
           /\ \A c \in Cids : portrait'[c] # portrait[c] =>
                \E q \in sent : c \in DOMAIN q.view /\ q.view[c] = portrait[c]
<1>1. CASE P!Compose
    <2>1. UNCHANGED portrait
        BY <1>1 DEF P!Compose
    <2> QED BY <1>1, <2>1, ComposeKeeps
<1>2. CASE \E q \in sent : P!Apply(q)
    BY <1>2, ApplyKeeps
<1>3. ASSUME UNCHANGED <<portrait, operation, sent>>, contact' \in [Sids -> Cids \cup {P!NoCid}],
             visible' \subseteq Sids
      PROVE  PortraitsInv'
    <2>1. PortraitsType'
        BY <1>3 DEF PortraitsInv, PortraitsType
    <2>2. (\A b \in sent : RequestOK(b))'
        BY <1>3 DEF PortraitsInv, RequestOK
    <2>3. (\A c \in Cids : AuditOK(c))'
        BY <1>3 DEF PortraitsInv, AuditOK, Made, P!Committed, Explains
    <2> QED BY <2>1, <2>2, <2>3 DEF PortraitsInv
<1>t. contact \in [Sids -> Cids \cup {P!NoCid}] /\ visible \subseteq Sids
    BY DEF PortraitsInv, PortraitsType
<1>4. CASE P!CreateTag \/ P!UpdateTag
    <2>1. UNCHANGED <<portrait, operation, sent, contact, visible>>
        BY <1>4 DEF P!CreateTag, P!UpdateTag, P!EditTag
    <2> QED BY <1>3, <1>t, <2>1
<1>5. CASE P!Sync
    <2>1. UNCHANGED <<portrait, operation, sent>>
        BY <1>5 DEF P!Sync
    <2>2. contact' \in [Sids -> Cids \cup {P!NoCid}] /\ visible' \subseteq Sids
        BY <1>5, <1>t DEF P!Sync
    <2> QED BY <1>3, <2>1, <2>2
<1>6. CASE UNCHANGED P!vars
    <2>1. UNCHANGED <<portrait, operation, sent, contact, visible>>
        BY <1>6 DEF P!vars
    <2> QED BY <1>3, <1>t, <2>1
<1> QED BY <1>1, <1>2, <1>4, <1>5, <1>6 DEF P!Next

LEMMA PortraitsAlways == P!Spec => []PortraitsInv
<1>1. P!Init => PortraitsInv
    BY PlatformAssumption, PortraitsInit
<1>2. PortraitsInv /\ [P!Next]_(P!vars) => PortraitsInv'
    BY PlatformAssumption, PortraitsKeep
<1> QED BY <1>1, <1>2, PTL DEF P!Spec

\* A batch only overwrites what its page has shown, however late it comes and whatever
\* other pages have written meanwhile (customer_portrait_store.py:491).
THEOREM StaleIsRefused == P!Spec => StaleRefused
<1>1. PortraitsInv /\ [P!Next]_(P!vars) =>
        [\A c \in Cids : portrait'[c] # portrait[c] =>
            \E q \in sent : c \in DOMAIN q.view /\ q.view[c] = portrait[c]]_(P!vars)
    BY PlatformAssumption, PortraitsKeep
<1> QED BY <1>1, PortraitsAlways, PTL DEF P!Spec, StaleRefused, P!StaleRefused

LEMMA OneOperation == ASSUME NEW r PROVE P!Cardinality({r}) = 1
<1>1. P!Cardinality({r}) = Cardinality({r})
    BY Zenon DEF Cardinality, P!Cardinality
<1> QED BY <1>1, FS_Singleton

\* Every version of a portrait was made by one operation, whose snapshot is the version
\* before (customer_portrait_store.py:491).
THEOREM AuditAlwaysExplains == P!Spec => []AuditExplains
<1>1. ASSUME PortraitsInv PROVE AuditExplains
    <2> DEFINE makers(c, k) == {r \in P!Committed : /\ c \in DOMAIN operation[r].version
                                                    /\ operation[r].version[c] = k}
    <2>1. ASSUME NEW c \in Cids, NEW n \in 1..portrait[c].version
          PROVE  \E r \in Batches : Made(r, c) /\ operation[r].version[c] = n /\ makers(c, n) = {r}
        <3>1. AuditOK(c)
            BY <1>1 DEF PortraitsInv
        <3>2. PICK r \in Batches : Made(r, c) /\ operation[r].version[c] = n
            BY <3>1 DEF AuditOK
        <3>3. \A p \in makers(c, n) : p = r
            <4>1. ASSUME NEW p \in makers(c, n) PROVE p = r
                <5>1. p \in Batches /\ Made(p, c) /\ operation[p].version[c] = n
                    BY DEF Made, P!Committed
                <5> QED BY <3>1, <3>2, <5>1 DEF AuditOK
            <4> QED BY <4>1
        <3>4. r \in makers(c, n)
            BY <3>2 DEF Made
        <3> QED BY <3>2, <3>3, <3>4
    <2>2. ASSUME NEW c \in Cids, NEW n \in 1..portrait[c].version
          PROVE  /\ P!Cardinality(makers(c, n)) = 1
                 /\ \A r \in makers(c, n) :
                      LET after == IF n = portrait[c].version THEN portrait[c]
                                   ELSE operation[CHOOSE q \in makers(c, n + 1) : TRUE].before[c]
                      IN  /\ operation[r].before[c].version = n - 1
                          /\ after.tags = (operation[r].before[c].tags
                                \cup operation[r].payload.changes.add)
                                    \ operation[r].payload.changes.remove
                          /\ after.stage = P!StageOf(operation[r].before[c],
                                                     operation[r].payload.changes)
        <3>1. PICK r \in Batches :
                Made(r, c) /\ operation[r].version[c] = n /\ makers(c, n) = {r}
            BY <2>1
        <3>2. AuditOK(c) /\ portrait[c].version \in Nat
            BY <1>1 DEF PortraitsInv, PortraitsType, PortraitRecord
        <3>3. operation[r].before[c].version = n - 1
            BY <3>1, <3>2 DEF AuditOK
        <3> HIDE DEF makers
        <3> DEFINE next == CHOOSE q \in makers(c, n + 1) : TRUE
                   later == operation[next].before[c]
                   after == IF n = portrait[c].version THEN portrait[c] ELSE later
        <3>5. Explains(operation[r].before[c], operation[r].payload.changes, after)
            <4>1. CASE n = portrait[c].version
                BY <3>1, <3>2, <4>1 DEF AuditOK
            <4>2. CASE n # portrait[c].version
                <5>1. n + 1 \in 1..portrait[c].version
                    BY <3>2, <4>2
                <5>2. PICK p \in Batches : /\ Made(p, c) /\ operation[p].version[c] = n + 1
                                           /\ makers(c, n + 1) = {p}
                    BY <2>1, <5>1
                <5>3. next = p
                    BY <5>2, Zenon
                <5> HIDE DEF next
                <5>4. after = operation[p].before[c]
                    BY <4>2, <5>3
                <5> HIDE DEF later
                <5> QED BY <3>1, <3>2, <5>2, <5>4 DEF AuditOK
            <4> QED BY <4>1, <4>2
        <3>6. P!Cardinality(makers(c, n)) = 1
            BY <3>1, OneOperation
        <3>7. /\ after.tags = (operation[r].before[c].tags
                    \cup operation[r].payload.changes.add)
                        \ operation[r].payload.changes.remove
              /\ after.stage = P!StageOf(operation[r].before[c], operation[r].payload.changes)
            <4> HIDE DEF after
            <4> QED BY <3>5 DEF Explains
        <3>8. \A q \in makers(c, n) : q = r
            BY <3>1
        <3> QED BY <3>3, <3>6, <3>7, <3>8, Zenon
    <2> QED BY <2>2 DEF AuditExplains, P!AuditExplains
<1> QED BY <1>1, PortraitsAlways, PTL

--------------------------------------------------------------------------------
(* The client's session *)

Locks == {"account", "runner", "source"}
Ops == {"none", "read", "send", "observe", "select", "key", "goto", "connect", "unpin", "status",
        "navigate", "capture"}
Pcs == {"idle", "lock", "work", "invalidate", "serve", "answer", "answered", "node", "posted",
        "failed", "stopped"}

SessionToken ==
    [account : Accounts \cup {C!Nobody}, epoch : Nat, generation : Nat, connects : Nat]

ClientWork ==
    [op : Ops, pc : Pcs, held : Nat, epoch : Nat, account : Accounts \cup {C!Nobody},
     did : SUBSET Nat, token : SessionToken]

ClientType ==
    /\ config \in Accounts
    /\ context \in [account : Accounts, epoch : Nat]
    /\ serving \in Nat
    /\ window \in Nat /\ windows \in Nat
    /\ binding \in [window : Nat, generation : Nat, up : BOOLEAN]
    /\ generations \in Nat
    /\ locks \in [Locks -> C!Threads \cup {C!Nobody}]
    /\ threads \in [C!Threads -> ClientWork]
    /\ tasks \in Seq(SessionToken)
    /\ connects \in Nat

\* While a thread is at one of these it has the locks that it counts.
Inside == {"lock", "work", "invalidate", "serve", "node", "posted", "failed"}

\* The operations and the steps that belong together; past the locks all are held.
WorkOK(w) ==
    /\ w.held \in 0..Len(C!Order(w.op))
    /\ w.pc \in Inside \ {"lock"} => w.held = Len(C!Order(w.op))
    /\ w.pc \in {"invalidate", "serve"} => w.op \in {"select", "key"}
    /\ w.pc \in {"node", "posted"} => w.op = "navigate"
    /\ w.op \in {"select", "key"} => w.account \in Accounts

\* A thread has exactly the locks that it counts.
HasLocks(t) ==
    /\ \A lock \in Locks : locks[lock] = t =>
        /\ threads[t].pc \in Inside
        /\ \E i \in 1..threads[t].held : C!Order(threads[t].op)[i] = lock
    /\ threads[t].pc \in Inside =>
        \A i \in 1..threads[t].held : locks[C!Order(threads[t].op)[i]] = t

LocksOK == \A t \in C!Threads : WorkOK(threads[t]) /\ HasLocks(t)

\* What a request works on is of its epoch or of a later one.
EpochsOf(r) ==
    /\ threads[r].epoch <= C!Current.epoch
    /\ threads[r].pc = "answer" /\ threads[r].op # "status" =>
        \A e \in threads[r].did : threads[r].epoch <= e /\ e <= C!Current.epoch
    /\ threads[r].pc = "answered" => threads[r].did \subseteq {threads[r].epoch}

\* Only while the account is written is the context another's.
EpochsOK ==
    /\ \A r \in Requests : EpochsOf(r)
    /\ context.account # config => \E r \in Requests : threads[r].pc = "invalidate"

\* A generation is of one connection that the user made.
TokenOK(token) ==
    /\ token.generation <= generations
    /\ binding # C!NoBinding /\ token.generation = binding.generation => token.connects = connects

PostedOK(t) ==
    threads[t].pc = "posted" =>
        /\ threads[t].token.account = config
        /\ threads[t].token.epoch = C!Current.epoch
        /\ threads[t].token.connects = connects

TokensOK ==
    /\ binding # C!NoBinding => binding.generation \in 1..generations
    /\ \A i \in 1..Len(tasks) : TokenOK(tasks[i])
    /\ \A t \in C!Threads : TokenOK(threads[t].token) /\ PostedOK(t)

ClientInv == ClientType /\ LocksOK /\ EpochsOK /\ TokensOK

LEMMA ThreadFacts ==
    /\ C!Threads = Requests \cup {"worker", "sweep"} /\ C!Nobody \notin C!Threads
    /\ "worker" \notin Requests /\ "sweep" \notin Requests
BY PlatformAssumption DEF C!Threads, C!Nobody

LEMMA OrderFacts ==
    ASSUME NEW op \in Ops
    PROVE  /\ Len(C!Order(op)) \in 0..2
           /\ \A i \in 1..Len(C!Order(op)) : C!Order(op)[i] \in Locks
           /\ Len(C!Order(op)) = 2 =>
                C!Order(op)[1] = "account" /\ C!Order(op)[2] \in {"source", "runner"}
           /\ op \in {"select", "key", "connect", "goto", "navigate", "capture"} => Len(C!Order(op)) = 2
           /\ op \in {"status", "none"} => Len(C!Order(op)) = 0
<1>1. CASE op \in {"read", "send", "select", "key"}
    <2>1. C!Order(op) = <<"account", "source">>
        BY <1>1 DEF C!Order
    <2> QED BY <1>1, <2>1 DEF Locks
<1>2. CASE op \in {"goto", "connect", "navigate", "capture"}
    <2>1. C!Order(op) = <<"account", "runner">>
        BY <1>2 DEF C!Order
    <2> QED BY <1>2, <2>1 DEF Locks
<1>3. CASE op = "unpin"
    <2>1. C!Order(op) = <<"source">>
        BY <1>3 DEF C!Order
    <2> QED BY <1>3, <2>1 DEF Locks
<1>4. CASE op \in {"none", "observe", "status"}
    <2>1. C!Order(op) = <<>>
        BY <1>4 DEF C!Order
    <2> QED BY <1>4, <2>1
<1> QED BY <1>1, <1>2, <1>3, <1>4 DEF Ops

LEMMA NoWorkFacts ==
    /\ C!NoToken \in SessionToken /\ C!NoToken.generation = 0
    /\ C!NoWork \in ClientWork /\ WorkOK(C!NoWork) /\ C!NoWork.pc = "idle" /\ C!NoWork.held = 0
    /\ C!NoWork.token = C!NoToken /\ C!NoWork.epoch = 0 /\ C!NoWork.op = "none"
    /\ C!NoBinding \in [window : Nat, generation : Nat, up : BOOLEAN]
    /\ C!NoBinding.generation = 0
<1>1. C!NoToken \in SessionToken /\ C!NoToken.generation = 0
    BY DEF C!NoToken, SessionToken
<1>2. /\ C!NoWork \in ClientWork /\ C!NoWork.pc = "idle" /\ C!NoWork.held = 0
      /\ C!NoWork.token = C!NoToken /\ C!NoWork.epoch = 0 /\ C!NoWork.op = "none"
    BY <1>1 DEF C!NoWork, ClientWork, Ops, Pcs
<1>3. WorkOK(C!NoWork)
    BY <1>2, OrderFacts DEF WorkOK, Inside, Ops
<1> QED BY <1>1, <1>2, <1>3 DEF C!NoBinding

LEMMA CurrentFacts ==
    ASSUME ClientType
    PROVE  /\ C!Current \in [account : Accounts, epoch : Nat] /\ C!Current.account = config
           /\ context.account = config => C!Current = context
           /\ C!Current.epoch >= context.epoch /\ C!Current.epoch <= context.epoch + 1
BY DEF ClientType, C!Current

\* Reading the context, or leaving it alone, changes neither the account nor the epoch.
LEMMA SameCurrent ==
    ASSUME ClientType, config' = config, context' \in {context, C!Current}
    PROVE  C!Current' = C!Current
BY CurrentFacts DEF C!Current

LEMMA ClientInit == C!Init => ClientInv
<1> SUFFICES ASSUME C!Init PROVE ClientInv
    OBVIOUS
<1>1. ClientType
    BY ThreadFacts, NoWorkFacts DEF C!Init, ClientType, Locks
<1>2. C!Current = context /\ context.epoch = 1 /\ context.account = config
    BY DEF C!Init, C!Current
<1>3. LocksOK
    BY ThreadFacts, NoWorkFacts DEF C!Init, LocksOK, HasLocks, Locks, Inside
<1>4. EpochsOK
    BY <1>2, ThreadFacts, NoWorkFacts DEF C!Init, EpochsOK, EpochsOf
<1>5. TokensOK
    BY ThreadFacts, NoWorkFacts DEF C!Init, TokensOK, TokenOK, PostedOK
<1> QED BY <1>1, <1>3, <1>4, <1>5 DEF ClientInv

\* One thread changes; the locks that others have stay.
LEMMA LocksStep ==
    ASSUME ClientType, LocksOK, NEW t \in C!Threads, NEW w \in ClientWork, WorkOK(w),
           threads' = [threads EXCEPT ![t] = w],
           \/ /\ locks' = C!Released(t)
              /\ w.pc \in Inside => w.held = 0
           \/ /\ locks' = locks /\ threads[t].pc \in Inside /\ w.pc \in Inside
              /\ w.op = threads[t].op /\ w.held = threads[t].held
           \/ /\ locks' = locks
              /\ threads[t].pc \notin Inside \/ threads[t].held = 0
              /\ w.pc \in Inside => w.held = 0
    PROVE  /\ LocksOK'
           /\ locks' \in [Locks -> C!Threads \cup {C!Nobody}]
           /\ threads' \in [C!Threads -> ClientWork]
           /\ threads'[t] = w /\ \A q \in C!Threads \ {t} : threads'[q] = threads[q]
<1>1. /\ threads' \in [C!Threads -> ClientWork]
      /\ threads'[t] = w /\ \A q \in C!Threads \ {t} : threads'[q] = threads[q]
    BY DEF ClientType
<1>2. /\ locks' \in [Locks -> C!Threads \cup {C!Nobody}]
      /\ \A l \in Locks : locks[l] # t => locks'[l] = locks[l]
      /\ \A l \in Locks : locks[l] = t => locks'[l] \in {t, C!Nobody}
    BY ThreadFacts DEF ClientType, C!Released, C!Owner
<1>3. ASSUME NEW q \in C!Threads \ {t} PROVE WorkOK(threads'[q]) /\ HasLocks(q)'
    <2>1. WorkOK(threads[q]) /\ HasLocks(q) /\ threads[q] \in ClientWork /\ threads'[q] = threads[q]
        BY <1>1 DEF LocksOK, ClientType
    <2>2. \A i \in 1..threads[q].held : C!Order(threads[q].op)[i] \in Locks
        BY <2>1, OrderFacts DEF WorkOK, ClientWork
    <2>3. \A l \in Locks : (locks'[l] = q) <=> (locks[l] = q)
        BY <1>2, ThreadFacts
    <2> QED BY <2>1, <2>2, <2>3 DEF HasLocks
<1>4. HasLocks(t) /\ threads[t] \in ClientWork /\ WorkOK(threads[t])
    BY DEF LocksOK, ClientType
<1>5. HasLocks(t)'
    <2>1. CASE locks' = C!Released(t) /\ (w.pc \in Inside => w.held = 0)
        <3>1. \A l \in Locks : locks'[l] # t
            BY <2>1, ThreadFacts DEF ClientType, C!Released, C!Owner
        <3> QED BY <1>1, <2>1, <3>1 DEF HasLocks
    <2>2. CASE /\ locks' = locks /\ threads[t].pc \in Inside /\ w.pc \in Inside
               /\ w.op = threads[t].op /\ w.held = threads[t].held
        BY <1>1, <1>4, <2>2 DEF HasLocks
    <2>3. CASE /\ locks' = locks
               /\ threads[t].pc \notin Inside \/ threads[t].held = 0
               /\ w.pc \in Inside => w.held = 0
        <3>1. \A l \in Locks : locks'[l] # t
            BY <1>4, <2>3 DEF HasLocks
        <3> QED BY <1>1, <2>3, <3>1 DEF HasLocks
    <2> QED BY <2>1, <2>2, <2>3
<1>6. LocksOK'
    BY <1>1, <1>3, <1>5 DEF LocksOK
<1> QED BY <1>1, <1>2, <1>6

LEMMA LockTaken ==
    ASSUME ClientType, LocksOK, NEW t \in C!Threads, C!TakeLock(t)
    PROVE  /\ LocksOK'
           /\ locks' \in [Locks -> C!Threads \cup {C!Nobody}]
           /\ \E w \in ClientWork :
                /\ threads' = [threads EXCEPT ![t] = w]
                /\ w.op = threads[t].op /\ w.pc = "lock" /\ w.epoch = threads[t].epoch
                /\ w.did = threads[t].did /\ w.token = threads[t].token
<1> DEFINE w == [threads[t] EXCEPT !.held = @ + 1]  order == C!Order(threads[t].op)
<1>1. /\ threads[t] \in ClientWork /\ WorkOK(threads[t]) /\ HasLocks(t)
      /\ threads[t].pc = "lock" /\ threads[t].held # Len(order)
      /\ threads' = [threads EXCEPT ![t] = w]
    BY DEF ClientType, LocksOK, C!TakeLock, C!Holds, C!Set
<1>2. PICK n \in Nat : n = threads[t].held
    BY <1>1 DEF ClientWork
<1>3. /\ Len(order) \in 0..2 /\ n + 1 \in 1..Len(order)
      /\ \A i \in 1..Len(order) : order[i] \in Locks
    BY <1>1, <1>2, OrderFacts DEF WorkOK, ClientWork
<1>4. PICK next \in Locks : next = order[n + 1]
    BY <1>3
<1>5. locks' = [locks EXCEPT ![next] = t] /\ locks[next] \in {C!Nobody, t}
    BY <1>2, <1>4 DEF C!TakeLock, C!Next1, C!MayTake
<1>6. /\ w \in ClientWork /\ w.held = n + 1 /\ w.op = threads[t].op /\ w.pc = "lock"
      /\ w.epoch = threads[t].epoch /\ w.did = threads[t].did /\ w.token = threads[t].token
      /\ w.account = threads[t].account
    BY <1>1, <1>2 DEF ClientWork
<1> HIDE DEF w
<1>7. /\ threads'[t] = w /\ \A q \in C!Threads \ {t} : threads'[q] = threads[q]
      /\ threads' \in [C!Threads -> ClientWork]
    BY <1>1, <1>6 DEF ClientType
<1>8. /\ locks' \in [Locks -> C!Threads \cup {C!Nobody}]
      /\ locks'[next] = t /\ \A l \in Locks \ {next} : locks'[l] = locks[l]
    BY <1>5 DEF ClientType
<1>9. ASSUME NEW q \in C!Threads \ {t} PROVE WorkOK(threads'[q]) /\ HasLocks(q)'
    <2>1. WorkOK(threads[q]) /\ HasLocks(q) /\ threads[q] \in ClientWork /\ threads'[q] = threads[q]
        BY <1>7 DEF LocksOK, ClientType
    <2>2. \A i \in 1..threads[q].held : C!Order(threads[q].op)[i] \in Locks
        BY <2>1, OrderFacts DEF WorkOK, ClientWork
    <2>3. \A l \in Locks : (locks'[l] = q) <=> (locks[l] = q)
        BY <1>5, <1>8, ThreadFacts
    <2> QED BY <2>1, <2>2, <2>3 DEF HasLocks
<1>10. WorkOK(w)
    BY <1>1, <1>3, <1>6 DEF WorkOK, Inside
<1>11. HasLocks(t)'
    <2>1. C!Order(w.op) = order
        BY <1>6
    <2>2. \A l \in Locks : locks'[l] = t => \E i \in 1..w.held : order[i] = l
        <3>1. TAKE l \in Locks
        <3>2. HAVE locks'[l] = t
        <3>3. CASE l = next
            BY <1>2, <1>4, <1>6, <3>3
        <3>4. CASE l # next
            <4>1. locks[l] = t
                BY <1>8, <3>2, <3>4
            <4>2. PICK i \in 1..n : order[i] = l
                BY <1>1, <1>2, <4>1 DEF HasLocks
            <4> QED BY <1>2, <1>6, <4>2
        <3> QED BY <3>3, <3>4
    <2>3. \A i \in 1..w.held : locks'[order[i]] = t
        <3>1. TAKE i \in 1..w.held
        <3>2. CASE i = n + 1
            BY <1>4, <1>8, <3>2
        <3>3. CASE i \in 1..n
            <4>1. locks[order[i]] = t /\ order[i] \in Locks
                BY <1>1, <1>2, <1>3, <3>3 DEF HasLocks, Inside
            <4> QED BY <1>8, <4>1
        <3> QED BY <1>2, <1>6, <3>2, <3>3
    <2> QED BY <1>6, <1>7, <2>1, <2>2, <2>3 DEF HasLocks, Inside
<1>12. LocksOK'
    BY <1>7, <1>9, <1>10, <1>11 DEF LocksOK
<1> QED BY <1>1, <1>6, <1>8, <1>12

\* Whoever is past the locks of an operation that uses the account has the account.
LEMMA HasAccount ==
    ASSUME ClientType, LocksOK, NEW t \in C!Threads,
           threads[t].pc \in Inside \ {"lock"} \/ (threads[t].pc = "lock" /\ C!Holds(t)),
           threads[t].op \in {"select", "key", "connect", "goto", "navigate", "capture"}
    PROVE  locks["account"] = t
<1>1. threads[t] \in ClientWork /\ WorkOK(threads[t]) /\ HasLocks(t)
    BY DEF ClientType, LocksOK
<1>2. Len(C!Order(threads[t].op)) = 2 /\ C!Order(threads[t].op)[1] = "account"
    BY <1>1, OrderFacts DEF ClientWork
<1>3. threads[t].held = 2
    BY <1>1, <1>2 DEF WorkOK, C!Holds
<1> QED BY <1>1, <1>2, <1>3 DEF HasLocks, Inside

\* While another thread has the account nobody is writing it, so the context is the
\* account's, and it stays.
LEMMA AccountStill ==
    ASSUME ClientInv, NEW t \in C!Threads, locks["account"] = t, threads[t].pc # "invalidate"
    PROVE  /\ context.account = config /\ C!Current = context
           /\ \A q \in C!Threads \ {t} : threads[q].pc # "posted"
           /\ \A q \in C!Threads \ {t} : threads[q].pc # "invalidate"
<1>1. ASSUME NEW q \in C!Threads \ {t}, threads[q].pc \in {"invalidate", "posted"} PROVE FALSE
    <2>1. WorkOK(threads[q])
        BY DEF ClientInv, LocksOK
    <2>2. threads[q].op \in {"select", "key", "navigate"} /\ threads[q].pc \in Inside \ {"lock"}
        BY <1>1, <2>1 DEF WorkOK, Inside
    <2>3. locks["account"] = q
        BY <2>2, HasAccount DEF ClientInv
    <2> QED BY <2>3
<1>2. \A r \in Requests : threads[r].pc # "invalidate"
    BY <1>1, ThreadFacts
<1>3. context.account = config
    BY <1>2 DEF ClientInv, EpochsOK
<1> QED BY <1>1, <1>3, CurrentFacts DEF ClientInv

\* A step of one thread that changes neither the account nor the connection.
LEMMA QuietStep ==
    ASSUME ClientInv, NEW t \in C!Threads, NEW w \in ClientWork,
           LocksOK', locks' \in [Locks -> C!Threads \cup {C!Nobody}],
           threads' = [threads EXCEPT ![t] = w], threads[t].pc # "invalidate",
           UNCHANGED <<config, window, windows, generations, connects>>, serving' \in Nat,
           context' \in {context, C!Current}, binding' \in {binding, C!NoBinding},
           tasks' \in Seq(SessionToken), \A i \in 1..Len(tasks') : TokenOK(tasks'[i]),
           TokenOK(w.token),
           w.pc = "posted" => /\ w.token.account = config
                              /\ w.token.epoch = C!Current.epoch
                              /\ w.token.connects = connects,
           t \in Requests =>
                /\ w.epoch <= C!Current.epoch
                /\ w.pc = "answer" /\ w.op # "status" =>
                        \A e \in w.did : w.epoch <= e /\ e <= C!Current.epoch
                /\ w.pc = "answered" => w.did \subseteq {w.epoch}
    PROVE  ClientInv'
<1>t. ClientType'
    BY CurrentFacts, NoWorkFacts DEF ClientInv, ClientType
<1>1. C!Current' = C!Current
    BY SameCurrent DEF ClientInv
<1>2. threads'[t] = w /\ \A q \in C!Threads \ {t} : threads'[q] = threads[q]
    BY DEF ClientInv, ClientType
<1>3. EpochsOK'
    <2>1. ASSUME NEW r \in Requests PROVE EpochsOf(r)'
        <3>1. CASE r = t
            BY <1>1, <1>2, <3>1 DEF EpochsOf
        <3>2. CASE r # t
            <4>1. threads'[r] = threads[r] /\ EpochsOf(r)
                BY <1>2, <3>2, ThreadFacts DEF ClientInv, EpochsOK
            <4> QED BY <1>1, <4>1 DEF EpochsOf
        <3> QED BY <3>1, <3>2
    <2>2. context'.account # config' => \E r \in Requests : threads'[r].pc = "invalidate"
        <3>1. SUFFICES ASSUME context'.account # config'
                       PROVE  \E r \in Requests : threads'[r].pc = "invalidate"
            OBVIOUS
        <3>2. context' = context
            BY <3>1, CurrentFacts DEF ClientInv
        <3>3. PICK r \in Requests : threads[r].pc = "invalidate"
            BY <3>1, <3>2 DEF ClientInv, EpochsOK
        <3> QED BY <1>2, <3>3, ThreadFacts
    <2> QED BY <2>1, <2>2 DEF EpochsOK
<1>4. TokensOK'
    <2>1. binding' # C!NoBinding => binding'.generation \in 1..generations'
        BY DEF ClientInv, TokensOK
    <2>2. ASSUME NEW q \in C!Threads
          PROVE  TokenOK(threads[q].token)' /\ PostedOK(q)'
        <3>1. CASE q = t
            <4>1. TokenOK(threads[q].token)'
                BY <1>2, <3>1 DEF TokenOK
            <4>2. PostedOK(q)'
                BY <1>1, <1>2, <3>1 DEF PostedOK
            <4> QED BY <4>1, <4>2
        <3>2. CASE q # t
            <4>1. threads'[q] = threads[q] /\ TokenOK(threads[q].token) /\ PostedOK(q)
                BY <1>2, <3>2 DEF ClientInv, TokensOK
            <4>2. TokenOK(threads[q].token)'
                BY <4>1 DEF TokenOK
            <4>3. PostedOK(q)'
                BY <1>1, <4>1 DEF PostedOK
            <4> QED BY <4>2, <4>3
        <3> QED BY <3>1, <3>2
    <2>3. ASSUME NEW i \in 1..Len(tasks')
          PROVE  TokenOK(tasks[i])'
        BY <2>3 DEF TokenOK
    <2> QED BY <2>1, <2>2, <2>3 DEF TokensOK
<1> QED BY <1>t, <1>3, <1>4 DEF ClientInv

\* The same with what it does to the locks.
LEMMA ClientStep ==
    ASSUME ClientInv, NEW t \in C!Threads, NEW w \in ClientWork, WorkOK(w),
           threads' = [threads EXCEPT ![t] = w], threads[t].pc # "invalidate",
           \/ /\ locks' = C!Released(t)
              /\ w.pc \in Inside => w.held = 0
           \/ /\ locks' = locks /\ threads[t].pc \in Inside /\ w.pc \in Inside
              /\ w.op = threads[t].op /\ w.held = threads[t].held
           \/ /\ locks' = locks
              /\ threads[t].pc \notin Inside \/ threads[t].held = 0
              /\ w.pc \in Inside => w.held = 0,
           UNCHANGED <<config, window, windows, generations, connects>>, serving' \in Nat,
           context' \in {context, C!Current}, binding' \in {binding, C!NoBinding},
           tasks' \in Seq(SessionToken), \A i \in 1..Len(tasks') : TokenOK(tasks'[i]),
           TokenOK(w.token),
           w.pc = "posted" => /\ w.token.account = config
                              /\ w.token.epoch = C!Current.epoch
                              /\ w.token.connects = connects,
           t \in Requests =>
                /\ w.epoch <= C!Current.epoch
                /\ w.pc = "answer" /\ w.op # "status" =>
                        \A e \in w.did : w.epoch <= e /\ e <= C!Current.epoch
                /\ w.pc = "answered" => w.did \subseteq {w.epoch}
    PROVE  ClientInv'
<1>1. LocksOK' /\ locks' \in [Locks -> C!Threads \cup {C!Nobody}]
    BY LocksStep DEF ClientInv
<1> QED BY <1>1, QuietStep

\* The thread that has the account changes it, or what the runner is connected to.
LEMMA AccountStep ==
    ASSUME ClientInv, NEW t \in Requests, NEW w \in ClientWork, WorkOK(w),
           locks["account"] = t,
           threads' = [threads EXCEPT ![t] = w],
           \/ /\ locks' = C!Released(t)
              /\ w.pc \notin Inside
           \/ /\ locks' = locks /\ threads[t].pc \in Inside /\ w.pc \in Inside
              /\ w.op = threads[t].op /\ w.held = threads[t].held,
           UNCHANGED <<serving, window, windows, tasks>>,
           config' \in Accounts, context' \in [account : Accounts, epoch : Nat],
           context'.account # config' => w.pc = "invalidate",
           C!Current'.epoch >= C!Current.epoch, C!Current'.epoch \in Nat,
           generations' \in Nat, connects' \in Nat,
           binding' \in [window : Nat, generation : Nat, up : BOOLEAN],
           \/ UNCHANGED <<binding, generations, connects>>
           \/ binding' = C!NoBinding /\ generations' = generations
           \/ generations' > generations /\ binding'.generation = generations',
           w.pc \notin {"posted", "answer", "answered"}, TokenOK(w.token),
           w.epoch <= C!Current.epoch,
           \A q \in C!Threads \ {t} : threads[q].pc # "posted"
    PROVE  ClientInv'
<1>0. t \in C!Threads
    BY ThreadFacts
<1>1. /\ LocksOK' /\ locks' \in [Locks -> C!Threads \cup {C!Nobody}]
      /\ threads' \in [C!Threads -> ClientWork]
      /\ threads'[t] = w /\ \A q \in C!Threads \ {t} : threads'[q] = threads[q]
    BY <1>0, LocksStep DEF ClientInv
<1>2. ClientType'
    BY <1>1 DEF ClientInv, ClientType
<1>3. EpochsOK'
    <2>1. ASSUME NEW r \in Requests PROVE EpochsOf(r)'
        <3>1. CASE r = t
            <4>1. C!Current.epoch \in Nat /\ w.epoch \in Nat
                BY CurrentFacts DEF ClientInv, ClientWork
            <4> QED BY <1>0, <1>1, <3>1, <4>1 DEF EpochsOf
        <3>2. CASE r # t
            <4>1. threads'[r] = threads[r] /\ EpochsOf(r) /\ threads[r] \in ClientWork
                BY <1>1, <3>2, ThreadFacts DEF ClientInv, ClientType, EpochsOK
            <4>2. C!Current.epoch \in Nat /\ threads[r].epoch \in Nat /\ threads[r].did \subseteq Nat
                BY <4>1, CurrentFacts DEF ClientInv, ClientWork
            <4> QED BY <4>1, <4>2 DEF EpochsOf
        <3> QED BY <3>1, <3>2
    <2>2. context'.account # config' => threads'[t].pc = "invalidate"
        BY <1>1
    <2> QED BY <2>1, <2>2 DEF EpochsOK
<1>4. TokensOK'
    <2>1. binding' # C!NoBinding => binding'.generation \in 1..generations'
        BY DEF ClientInv, ClientType, TokensOK
    <2>2. ASSUME NEW token \in SessionToken, TokenOK(token)
          PROVE  /\ token.generation <= generations'
                 /\ binding' # C!NoBinding /\ token.generation = binding'.generation =>
                        token.connects = connects'
        BY <2>2 DEF TokenOK, SessionToken, ClientInv, ClientType
    <2>3. ASSUME NEW q \in C!Threads PROVE TokenOK(threads[q].token)' /\ PostedOK(q)'
        <3>1. TokenOK(threads'[q].token) /\ threads'[q].token \in SessionToken
            BY <1>1 DEF ClientInv, TokensOK, ClientWork
        <3>2. TokenOK(threads[q].token)'
            BY <2>2, <3>1 DEF TokenOK
        <3>3. PostedOK(q)'
            BY <1>1 DEF PostedOK
        <3> QED BY <3>2, <3>3
    <2>4. ASSUME NEW i \in 1..Len(tasks') PROVE TokenOK(tasks[i])'
        <3>1. TokenOK(tasks[i]) /\ tasks[i] \in SessionToken /\ tasks'[i] = tasks[i]
            BY DEF ClientInv, ClientType, TokensOK
        <3> QED BY <2>2, <3>1 DEF TokenOK
    <2> QED BY <2>1, <2>3, <2>4 DEF TokensOK
<1> QED BY <1>1, <1>2, <1>3, <1>4 DEF ClientInv

LEMMA ClientKeeps == ClientInv /\ [C!Next]_C!vars => ClientInv'
<1> SUFFICES ASSUME ClientInv, [C!Next]_C!vars PROVE ClientInv'
    OBVIOUS
<1>0. /\ ClientType /\ LocksOK
      /\ C!Current \in [account : Accounts, epoch : Nat] /\ C!Current.account = config
      /\ C!Current.epoch \in Nat /\ serving \in Nat /\ connects \in Nat
      /\ threads \in [C!Threads -> ClientWork] /\ tasks \in Seq(SessionToken)
      /\ \A i \in 1..Len(tasks) : TokenOK(tasks[i])
    BY CurrentFacts DEF ClientInv, ClientType, TokensOK
<1>k. ASSUME NEW t \in C!Threads
      PROVE  /\ threads[t] \in ClientWork /\ WorkOK(threads[t]) /\ TokenOK(threads[t].token)
             /\ HasLocks(t)
             /\ t \in Requests => EpochsOf(t)
    BY DEF ClientInv, ClientType, LocksOK, TokensOK, EpochsOK
<1>r. ASSUME NEW r \in Requests PROVE r \in C!Threads
    BY ThreadFacts
<1>b. C!Probed \in {binding, C!NoBinding} /\ (C!Connected => C!Probed = binding)
    BY DEF C!Probed, C!Connected
<1>n. TokenOK(C!NoToken)
    BY NoWorkFacts DEF ClientInv, ClientType, TokensOK, TokenOK
<1>c. C!Connected => C!TokenOf \in SessionToken /\ TokenOK(C!TokenOf)
    BY <1>0, <1>b DEF C!Connected, C!TokenOf, SessionToken, ClientInv, ClientType, TokensOK, TokenOK
\* A thread whose work is done, or refused.
<1>w. ASSUME NEW t \in C!Threads, C!Set(t, C!NoWork), threads[t].pc # "invalidate",
             locks' = C!Released(t) \/ (locks' = locks /\ threads[t].pc \notin Inside),
             UNCHANGED <<config, window, windows, generations, connects, serving>>,
             context' \in {context, C!Current}, binding' \in {binding, C!NoBinding},
             tasks' = tasks
      PROVE  ClientInv'
    <2>1. threads' = [threads EXCEPT ![t] = C!NoWork]
        BY <1>w DEF C!Set
    <2>2. /\ C!NoWork \in ClientWork /\ WorkOK(C!NoWork) /\ TokenOK(C!NoWork.token)
          /\ C!NoWork.pc = "idle" /\ C!NoWork.pc \notin Inside /\ C!NoWork.epoch <= C!Current.epoch
        BY <1>0, <1>n, NoWorkFacts DEF Inside
    <2> QED BY <1>0, <1>w, <2>1, <2>2, ClientStep
<1>1. ASSUME NEW r \in Requests, C!Begin(r)
      PROVE  ClientInv'
    <2>1. PICK op \in Ops \ {"none"}, a \in Accounts :
            C!Set(r, [C!NoWork EXCEPT !.op = op, !.account = a, !.epoch = C!Current.epoch,
                                      !.pc = "lock"])
        BY <1>1 DEF C!Begin, Ops
    <2> DEFINE w == [C!NoWork EXCEPT !.op = op, !.account = a, !.epoch = C!Current.epoch,
                                     !.pc = "lock"]
    <2>2. /\ w \in ClientWork /\ w.op = op /\ w.account = a /\ w.epoch = C!Current.epoch
          /\ w.pc = "lock" /\ w.held = 0 /\ w.token = C!NoToken
        BY <1>0, NoWorkFacts DEF ClientWork, Pcs
    <2>3. threads' = [threads EXCEPT ![r] = w]
        BY <2>1 DEF C!Set
    <2> HIDE DEF w
    <2>4. WorkOK(w)
        BY <2>2, OrderFacts DEF WorkOK, Inside
    <2>5. /\ threads[r].pc = "idle" /\ locks' = locks /\ context' = C!Current
          /\ UNCHANGED <<config, window, windows, generations, connects, serving, binding, tasks>>
        BY <1>1 DEF C!Begin, C!clientVars
    <2>6. threads[r].pc \notin Inside /\ w.epoch <= C!Current.epoch /\ TokenOK(w.token)
        BY <1>0, <1>n, <2>2, <2>5 DEF Inside
    <2> QED BY <1>0, <1>r, <2>2, <2>3, <2>4, <2>5, <2>6, ClientStep
<1>2. ASSUME NEW t \in C!Threads, C!TakeLock(t)
      PROVE  ClientInv'
    <2>1. PICK w \in ClientWork :
            /\ threads' = [threads EXCEPT ![t] = w]
            /\ w.op = threads[t].op /\ w.pc = "lock" /\ w.epoch = threads[t].epoch
            /\ w.did = threads[t].did /\ w.token = threads[t].token
        BY <1>0, <1>2, LockTaken
    <2>2. LocksOK' /\ locks' \in [Locks -> C!Threads \cup {C!Nobody}]
        BY <1>0, <1>2, LockTaken
    <2>3. /\ threads[t].pc = "lock"
          /\ UNCHANGED <<config, context, serving, window, windows, generations, connects, binding,
                         tasks>>
        BY <1>2 DEF C!TakeLock, C!accountVars, C!clientVars
    <2>4. t \in Requests => w.epoch <= C!Current.epoch
        BY <1>k, <2>1 DEF EpochsOf
    <2> QED BY <1>0, <1>k, <2>1, <2>2, <2>3, <2>4, QuietStep
<1>3. ASSUME NEW r \in Requests, C!Busy(r) \/ C!Unpin(r) \/ C!Leave(r)
      PROVE  ClientInv'
    <2>1. CASE C!Busy(r) \/ C!Unpin(r)
        <3>1. /\ C!Set(r, C!NoWork) /\ threads[r].pc = "lock" /\ locks' = C!Released(r)
              /\ UNCHANGED <<config, context, serving, window, windows, generations, connects,
                             binding, tasks>>
            BY <2>1 DEF C!Busy, C!Unpin, C!Refuse, C!accountVars, C!clientVars
        <3> QED BY <1>r, <1>w, <3>1
    <2>2. CASE C!Leave(r)
        <3>1. /\ C!Set(r, C!NoWork) /\ threads[r].pc = "answered" /\ locks' = locks
              /\ UNCHANGED <<config, context, serving, window, windows, generations, connects,
                             binding, tasks>>
            BY <2>2 DEF C!Leave, C!accountVars, C!clientVars
        <3> QED BY <1>r, <1>w, <3>1 DEF Inside
    <2> QED BY <1>3, <2>1, <2>2
<1>4. ASSUME NEW r \in Requests, C!RequireEpoch(r)
      PROVE  ClientInv'
    <2>0. /\ threads[r].pc = "lock" /\ C!Holds(r) /\ context' = C!Current
          /\ UNCHANGED <<config, serving, window, windows, generations, connects, binding, tasks>>
        BY <1>4 DEF C!RequireEpoch, C!clientVars
    <2>1. CASE C!Refuse(r)
        BY <1>r, <1>w, <2>0, <2>1 DEF C!Refuse
    <2>2. CASE C!Set(r, [threads[r] EXCEPT !.pc = "work"]) /\ locks' = locks
        <3> DEFINE w == [threads[r] EXCEPT !.pc = "work"]
        <3>1. /\ w \in ClientWork /\ w.op = threads[r].op /\ w.held = threads[r].held
              /\ w.pc = "work" /\ w.epoch = threads[r].epoch /\ w.token = threads[r].token
              /\ w.account = threads[r].account
            BY <1>k, <1>r DEF ClientWork, Pcs
        <3>2. threads' = [threads EXCEPT ![r] = w]
            BY <2>2 DEF C!Set
        <3> HIDE DEF w
        <3>3. WorkOK(w) /\ w.epoch <= C!Current.epoch
            BY <1>k, <1>r, <2>0, <3>1 DEF WorkOK, C!Holds, EpochsOf
        <3> QED BY <1>0, <1>k, <1>r, <2>0, <2>2, <3>1, <3>2, <3>3, ClientStep DEF Inside
    <2> QED BY <1>4, <2>1, <2>2 DEF C!RequireEpoch
<1>5. ASSUME NEW r \in Requests, C!Endpoint(r)
      PROVE  ClientInv'
    <2>0. /\ threads[r].pc = "work" /\ context' = C!Current
          /\ UNCHANGED <<config, serving, window, windows, generations, connects, binding, tasks>>
        BY <1>5 DEF C!Endpoint, C!clientVars
    <2>1. CASE C!Refuse(r)
        BY <1>r, <1>w, <2>0, <2>1 DEF C!Refuse
    <2>2. CASE /\ threads[r].epoch = C!Current.epoch /\ locks' = C!Released(r)
               /\ C!Set(r, [threads[r] EXCEPT !.pc = "answer", !.did =
                    {IF threads[r].op = "observe" THEN threads[r].epoch ELSE C!Current.epoch}])
        <3> DEFINE w == [threads[r] EXCEPT !.pc = "answer", !.did = {C!Current.epoch}]
        <3>1. /\ w \in ClientWork /\ w.op = threads[r].op /\ w.held = threads[r].held
              /\ w.pc = "answer" /\ w.epoch = threads[r].epoch /\ w.token = threads[r].token
              /\ w.account = threads[r].account /\ w.did = {C!Current.epoch}
            BY <1>0, <1>k, <1>r DEF ClientWork, Pcs
        <3>2. threads' = [threads EXCEPT ![r] = w]
            BY <2>2 DEF C!Set
        <3> HIDE DEF w
        <3>3. WorkOK(w)
            BY <1>k, <1>r, <3>1 DEF WorkOK, Inside
        <3>4. /\ w.pc \notin Inside /\ w.epoch <= C!Current.epoch /\ TokenOK(w.token)
              /\ \A e \in w.did : w.epoch <= e /\ e <= C!Current.epoch
            BY <1>0, <1>k, <1>r, <2>2, <3>1 DEF Inside
        <3> QED BY <1>0, <1>r, <2>0, <2>2, <3>1, <3>2, <3>3, <3>4, ClientStep
    <2> QED BY <1>5, <2>1, <2>2 DEF C!Endpoint
<1>6. ASSUME NEW r \in Requests, C!Goto(r)
      PROVE  ClientInv'
    <2>0. /\ threads[r].pc = "work" /\ context' = C!Current /\ locks' = C!Released(r)
          /\ binding' \in {binding, C!NoBinding}
          /\ UNCHANGED <<config, serving, window, windows, generations, connects>>
        BY <1>6, <1>b DEF C!Goto
    <2>1. CASE C!Set(r, C!NoWork) /\ tasks' = tasks
        BY <1>r, <1>w, <2>0, <2>1
    <2>2. CASE /\ C!Connected /\ tasks' = Append(tasks, C!TokenOf)
               /\ C!Set(r, [threads[r] EXCEPT !.did = {C!Current.epoch}, !.pc = "answer"])
        <3> DEFINE w == [threads[r] EXCEPT !.did = {C!Current.epoch}, !.pc = "answer"]
        <3>1. /\ w \in ClientWork /\ w.op = threads[r].op /\ w.held = threads[r].held
              /\ w.pc = "answer" /\ w.epoch = threads[r].epoch /\ w.token = threads[r].token
              /\ w.account = threads[r].account /\ w.did = {C!Current.epoch}
            BY <1>0, <1>k, <1>r DEF ClientWork, Pcs
        <3>2. threads' = [threads EXCEPT ![r] = w]
            BY <2>2 DEF C!Set
        <3> HIDE DEF w
        <3>3. WorkOK(w) /\ w.epoch <= C!Current.epoch
            BY <1>k, <1>r, <3>1 DEF WorkOK, Inside, EpochsOf
        <3>4. tasks' \in Seq(SessionToken) /\ \A i \in 1..Len(tasks') : TokenOK(tasks'[i])
            <4>1. PICK token \in SessionToken : token = C!TokenOf /\ TokenOK(token)
                BY <1>c, <2>2
            <4>2. tasks' = Append(tasks, token)
                BY <2>2, <4>1
            <4> QED BY <1>0, <4>1, <4>2
        <3>5. /\ w.pc \notin Inside /\ TokenOK(w.token)
              /\ \A e \in w.did : w.epoch <= e /\ e <= C!Current.epoch
            BY <1>0, <1>k, <1>r, <3>1, <3>3 DEF Inside
        <3> QED BY <1>0, <1>r, <2>0, <2>2, <3>1, <3>2, <3>3, <3>4, <3>5, ClientStep
    <2> QED BY <1>6, <2>1, <2>2 DEF C!Goto
<1>7. ASSUME NEW r \in Requests, C!ServeAccount(r)
      PROVE  ClientInv'
    <2>0. /\ threads[r].pc = "serve" /\ context' = C!Current /\ locks' = C!Released(r)
          /\ serving' = C!Current.epoch
          /\ UNCHANGED <<config, window, windows, generations, connects, binding, tasks>>
          /\ C!Set(r, [threads[r] EXCEPT !.pc = "answer", !.epoch = C!Current.epoch,
                                         !.did = {C!Current.epoch}])
        BY <1>7 DEF C!ServeAccount, C!clientVars
    <2> DEFINE w == [threads[r] EXCEPT !.pc = "answer", !.epoch = C!Current.epoch,
                                       !.did = {C!Current.epoch}]
    <2>1. /\ w \in ClientWork /\ w.op = threads[r].op /\ w.held = threads[r].held
          /\ w.pc = "answer" /\ w.epoch = C!Current.epoch /\ w.token = threads[r].token
          /\ w.account = threads[r].account /\ w.did = {C!Current.epoch}
        BY <1>0, <1>k, <1>r DEF ClientWork, Pcs
    <2>2. threads' = [threads EXCEPT ![r] = w]
        BY <2>0 DEF C!Set
    <2> HIDE DEF w
    <2>3. WorkOK(w)
        BY <1>k, <1>r, <2>1 DEF WorkOK, Inside
    <2>4. /\ w.pc \notin Inside /\ TokenOK(w.token) /\ w.epoch <= C!Current.epoch
          /\ \A e \in w.did : w.epoch <= e /\ e <= C!Current.epoch
        BY <1>0, <1>k, <1>r, <2>1 DEF Inside
    <2> QED BY <1>0, <1>r, <2>0, <2>1, <2>2, <2>3, <2>4, ClientStep
<1>8. ASSUME NEW r \in Requests, C!ReadStatus(r)
      PROVE  ClientInv'
    <2>0. /\ threads[r].pc = "lock" /\ threads[r].op = "status" /\ locks' = locks
          /\ binding' \in {binding, C!NoBinding}
          /\ UNCHANGED <<config, context, serving, window, windows, generations, connects, tasks>>
          /\ C!Set(r, [threads[r] EXCEPT !.pc = "answer", !.did = {threads[r].epoch, serving}])
        BY <1>8, <1>b DEF C!ReadStatus, C!accountVars
    <2> DEFINE w == [threads[r] EXCEPT !.pc = "answer", !.did = {threads[r].epoch, serving}]
    <2>d. {threads[r].epoch, serving} \subseteq Nat /\ threads[r] \in ClientWork
        BY <1>0, <1>k, <1>r DEF ClientWork
    <2>1. /\ w \in ClientWork /\ w.op = threads[r].op /\ w.held = threads[r].held
          /\ w.pc = "answer" /\ w.epoch = threads[r].epoch /\ w.token = threads[r].token
          /\ w.account = threads[r].account
        BY <2>d DEF ClientWork, Pcs
    <2>2. threads' = [threads EXCEPT ![r] = w]
        BY <2>0 DEF C!Set
    <2> HIDE DEF w
    <2>3. WorkOK(w) /\ w.epoch <= C!Current.epoch
        BY <1>k, <1>r, <2>1 DEF WorkOK, Inside, EpochsOf
    <2>4. threads[r].held = 0
        <3>1. threads[r].held \in 0..Len(C!Order("status"))
            BY <1>k, <1>r, <2>0 DEF WorkOK
        <3> QED BY <3>1, OrderFacts DEF Ops
    <2> QED BY <1>0, <1>k, <1>r, <2>0, <2>1, <2>2, <2>3, <2>4, ClientStep DEF Inside
<1>9. ASSUME NEW r \in Requests, C!Answer(r)
      PROVE  ClientInv'
    <2>0. /\ threads[r].pc = "answer" /\ context' = C!Current /\ locks' = locks
          /\ UNCHANGED <<config, serving, window, windows, generations, connects, binding, tasks>>
        BY <1>9 DEF C!Answer, C!clientVars
    <2>1. CASE C!Set(r, C!NoWork)
        BY <1>r, <1>w, <2>0, <2>1 DEF Inside
    <2>2. CASE /\ C!Unchanged(r)
               /\ C!Set(r, [threads[r] EXCEPT !.pc = "answered", !.epoch = C!Current.epoch])
        <3> DEFINE w == [threads[r] EXCEPT !.pc = "answered", !.epoch = C!Current.epoch]
        <3>1. /\ w \in ClientWork /\ w.op = threads[r].op /\ w.held = threads[r].held
              /\ w.pc = "answered" /\ w.epoch = C!Current.epoch /\ w.token = threads[r].token
              /\ w.account = threads[r].account /\ w.did = threads[r].did
            BY <1>0, <1>k, <1>r DEF ClientWork, Pcs
        <3>2. threads' = [threads EXCEPT ![r] = w]
            BY <2>2 DEF C!Set
        <3> HIDE DEF w
        <3>3. WorkOK(w)
            BY <1>k, <1>r, <3>1 DEF WorkOK, Inside
        <3>4. w.did \subseteq {w.epoch}
            <4>1. /\ C!Current.epoch = threads[r].epoch
                  /\ threads[r].op = "status" => threads[r].did = {threads[r].epoch}
                BY <2>2 DEF C!Unchanged
            <4>2. /\ threads[r].did \subseteq Nat
                  /\ threads[r].op # "status" => \A e \in threads[r].did :
                        threads[r].epoch <= e /\ e <= C!Current.epoch
                BY <1>k, <1>r, <2>0 DEF ClientWork, EpochsOf
            <4> QED BY <1>0, <3>1, <4>1, <4>2
        <3>5. /\ w.pc \notin Inside /\ threads[r].pc \notin Inside /\ TokenOK(w.token)
              /\ w.epoch <= C!Current.epoch
            BY <1>0, <1>k, <1>r, <2>0, <3>1 DEF Inside
        <3> QED BY <1>0, <1>r, <2>0, <3>1, <3>2, <3>3, <3>4, <3>5, ClientStep
    <2> QED BY <1>9, <2>1, <2>2 DEF C!Answer
\* The steps of the settings, with the account lock.
<1>10. ASSUME NEW r \in Requests, C!WriteAccount(r)
      PROVE  ClientInv'
    <2>0. /\ threads[r].pc = "work" /\ threads[r].op \in {"select", "key"}
          /\ UNCHANGED <<context, serving, window, windows, generations, connects, binding, tasks>>
        BY <1>10 DEF C!WriteAccount, C!clientVars
    <2>1. CASE /\ C!Set(r, [threads[r] EXCEPT !.pc = "answer", !.did = {C!Current.epoch}])
               /\ locks' = C!Released(r) /\ config' = config
        <3> DEFINE w == [threads[r] EXCEPT !.pc = "answer", !.did = {C!Current.epoch}]
        <3>1. /\ w \in ClientWork /\ w.op = threads[r].op /\ w.held = threads[r].held
              /\ w.pc = "answer" /\ w.epoch = threads[r].epoch /\ w.token = threads[r].token
              /\ w.account = threads[r].account /\ w.did = {C!Current.epoch}
            BY <1>0, <1>k, <1>r DEF ClientWork, Pcs
        <3>2. threads' = [threads EXCEPT ![r] = w]
            BY <2>1 DEF C!Set
        <3> HIDE DEF w
        <3>3. WorkOK(w) /\ w.epoch <= C!Current.epoch
            BY <1>k, <1>r, <3>1 DEF WorkOK, Inside, EpochsOf
        <3>4. /\ w.pc \notin Inside /\ TokenOK(w.token)
              /\ \A e \in w.did : w.epoch <= e /\ e <= C!Current.epoch
            BY <1>0, <1>k, <1>r, <3>1, <3>3 DEF Inside
        <3> QED BY <1>0, <1>r, <2>0, <2>1, <3>1, <3>2, <3>3, <3>4, ClientStep
    <2>2. CASE /\ config' = threads[r].account /\ locks' = locks
               /\ C!Set(r, [threads[r] EXCEPT !.pc = "invalidate"])
        <3> DEFINE w == [threads[r] EXCEPT !.pc = "invalidate"]
        <3>1. /\ w \in ClientWork /\ w.op = threads[r].op /\ w.held = threads[r].held
              /\ w.pc = "invalidate" /\ w.epoch = threads[r].epoch /\ w.token = threads[r].token
              /\ w.account = threads[r].account
            BY <1>0, <1>k, <1>r DEF ClientWork, Pcs
        <3>2. threads' = [threads EXCEPT ![r] = w]
            BY <2>2 DEF C!Set
        <3> HIDE DEF w
        <3>3. WorkOK(w) /\ w.epoch <= C!Current.epoch /\ config' \in Accounts
            BY <1>k, <1>r, <2>0, <2>2, <3>1 DEF WorkOK, Inside, EpochsOf
        <3>4. locks["account"] = r
            BY <1>0, <1>r, <2>0, HasAccount DEF Inside
        <3>5. /\ C!Current = context /\ \A q \in C!Threads \ {r} : threads[q].pc # "posted"
            BY <1>r, <2>0, <3>4, AccountStill
        <3>6. C!Current'.epoch >= C!Current.epoch /\ C!Current'.epoch \in Nat
            BY <1>0, <2>0, <3>5 DEF C!Current
        <3>7. /\ context' \in [account : Accounts, epoch : Nat] /\ connects' \in Nat
              /\ generations' \in Nat /\ binding' \in [window : Nat, generation : Nat, up : BOOLEAN]
            BY <2>0 DEF ClientInv, ClientType
        <3>8. threads[r].pc \in Inside /\ w.pc \in Inside
            BY <2>0, <3>1 DEF Inside
        <3> QED BY <1>k, <1>r, <2>0, <2>2, <3>1, <3>2, <3>3, <3>4, <3>5, <3>6, <3>7, <3>8, AccountStep
    <2> QED BY <1>10, <2>1, <2>2 DEF C!WriteAccount
<1>11. ASSUME NEW r \in Requests, C!InvalidateAccount(r)
      PROVE  ClientInv'
    <2>0. /\ threads[r].pc = "invalidate" /\ context' = C!Invalidated /\ locks' = locks
          /\ UNCHANGED <<config, serving, window, windows, generations, connects, binding, tasks>>
          /\ C!Set(r, [threads[r] EXCEPT !.pc = "serve"])
        BY <1>11 DEF C!InvalidateAccount, C!clientVars
    <2> DEFINE w == [threads[r] EXCEPT !.pc = "serve"]
    <2>1. /\ w \in ClientWork /\ w.op = threads[r].op /\ w.held = threads[r].held
          /\ w.pc = "serve" /\ w.epoch = threads[r].epoch /\ w.token = threads[r].token
          /\ w.account = threads[r].account
        BY <1>0, <1>k, <1>r DEF ClientWork, Pcs
    <2>2. threads' = [threads EXCEPT ![r] = w]
        BY <2>0 DEF C!Set
    <2> HIDE DEF w
    <2>3. WorkOK(w) /\ w.epoch <= C!Current.epoch
        BY <1>k, <1>r, <2>0, <2>1 DEF WorkOK, Inside, EpochsOf
    <2>4. threads[r].op \in {"select", "key"}
        BY <1>k, <1>r, <2>0 DEF WorkOK
    <2>5. locks["account"] = r
        BY <1>0, <1>r, <2>0, <2>4, HasAccount DEF Inside
    <2>6. \A q \in C!Threads \ {r} : threads[q].pc # "posted"
        <3>1. ASSUME NEW q \in C!Threads \ {r}, threads[q].pc = "posted" PROVE FALSE
            <4>1. threads[q].op = "navigate"
                BY <1>k, <3>1 DEF WorkOK
            <4> QED BY <1>0, <2>5, <3>1, <4>1, HasAccount DEF Inside
        <3> QED BY <3>1
    <2>7. /\ context' = [account |-> config, epoch |-> context.epoch + 1]
          /\ config' = config /\ config \in Accounts /\ context.epoch \in Nat
        BY <2>0 DEF C!Invalidated, ClientInv, ClientType
    <2>8. C!Current' = [account |-> config, epoch |-> context.epoch + 1]
        BY <2>7 DEF C!Current
    <2>9. C!Current'.epoch >= C!Current.epoch /\ C!Current'.epoch \in Nat
        BY <1>0, <2>7, <2>8, CurrentFacts
    <2>10. /\ context' \in [account : Accounts, epoch : Nat] /\ connects' \in Nat
           /\ generations' \in Nat /\ binding' \in [window : Nat, generation : Nat, up : BOOLEAN]
           /\ context'.account = config'
        BY <2>0, <2>7 DEF ClientInv, ClientType
    <2>11. threads[r].pc \in Inside /\ w.pc \in Inside
        BY <2>0, <2>1 DEF Inside
    <2> QED BY <1>k, <1>r, <2>0, <2>1, <2>2, <2>3, <2>5, <2>6, <2>7, <2>9, <2>10, <2>11, AccountStep
<1>12. ASSUME NEW r \in Requests, C!ConnectClient(r)
      PROVE  ClientInv'
    <2>0. /\ threads[r].pc = "work" /\ threads[r].op = "connect" /\ locks' = C!Released(r)
          /\ threads' = [threads EXCEPT ![r] = C!NoWork]
          /\ UNCHANGED <<config, context, serving, window, windows, tasks>>
        BY <1>12 DEF C!ConnectClient, C!Refuse, C!Set, C!accountVars
    <2>1. PICK bound \in {C!NoBinding, binding,
                          [window |-> window, generation |-> generations + 1, up |-> TRUE]},
               count \in {generations, generations + 1} :
            /\ C!Initialised(bound, count)
            /\ IF bound = C!NoBinding
               THEN binding' = bound /\ generations' = count /\ connects' = connects
               ELSE /\ generations' = count + 1
                    /\ binding' = [bound EXCEPT !.generation = count + 1]
                    /\ connects' = connects + 1
        BY <1>12 DEF C!ConnectClient
    <2>2. /\ generations \in Nat /\ window \in Nat /\ connects \in Nat
          /\ binding \in [window : Nat, generation : Nat, up : BOOLEAN]
        BY DEF ClientInv, ClientType
    <2>3. /\ generations' \in Nat /\ connects' \in Nat
          /\ binding' \in [window : Nat, generation : Nat, up : BOOLEAN]
          /\ \/ binding' = C!NoBinding /\ generations' = generations
             \/ generations' > generations /\ binding'.generation = generations'
        <3>1. CASE bound = C!NoBinding
            <4>1. count = generations
                BY <2>1, <3>1 DEF C!Initialised, C!Connected, C!NoBinding, C!Probed
            <4> QED BY <2>1, <2>2, <3>1, <4>1, NoWorkFacts
        <3>2. CASE bound # C!NoBinding
            <4>1. bound \in [window : Nat, generation : Nat, up : BOOLEAN]
                <5>1. [window |-> window, generation |-> generations + 1, up |-> TRUE]
                            \in [window : Nat, generation : Nat, up : BOOLEAN]
                    BY <2>2
                <5> QED BY <2>1, <2>2, <3>2, <5>1
            <4>2. binding' = [bound EXCEPT !.generation = count + 1] /\ count + 1 \in Nat
                BY <2>1, <2>2, <3>2
            <4>3. /\ binding' \in [window : Nat, generation : Nat, up : BOOLEAN]
                  /\ binding'.generation = count + 1
                BY <4>1, <4>2
            <4> QED BY <2>1, <2>2, <3>2, <4>3
        <3> QED BY <3>1, <3>2
    <2>4. locks["account"] = r
        BY <1>0, <1>r, <2>0, HasAccount DEF Inside
    <2>5. /\ context.account = config /\ \A q \in C!Threads \ {r} : threads[q].pc # "posted"
        BY <1>r, <2>0, <2>4, AccountStill
    <2>6. C!Current' = C!Current
        BY <1>0, <2>0, SameCurrent
    <2>7. /\ context' \in [account : Accounts, epoch : Nat] /\ config' \in Accounts
          /\ context'.account = config' /\ C!NoWork.pc \notin Inside
        BY <2>0, <2>5, NoWorkFacts DEF ClientInv, ClientType, Inside
    <2>8. C!Current'.epoch >= C!Current.epoch /\ C!Current'.epoch \in Nat
        BY <1>0, <2>6
    <2>9. /\ C!NoWork \in ClientWork /\ WorkOK(C!NoWork) /\ TokenOK(C!NoWork.token)
          /\ C!NoWork.pc = "idle" /\ C!NoWork.epoch <= C!Current.epoch
        BY <1>0, <1>n, NoWorkFacts
    <2> QED BY <2>0, <2>3, <2>4, <2>5, <2>7, <2>8, <2>9, AccountStep
\* The worker and the sweep.
<1>13. CASE C!WorkerTakes
    <2>0. /\ threads["worker"].pc = "idle" /\ tasks # <<>> /\ tasks' = Tail(tasks) /\ locks' = locks
          /\ UNCHANGED <<config, context, serving, window, windows, generations, connects, binding>>
          /\ C!Set("worker", [C!NoWork EXCEPT !.op = "navigate", !.pc = "lock", !.token = Head(tasks)])
        BY <1>13 DEF C!WorkerTakes, C!accountVars, C!clientVars
    <2>1. PICK token \in SessionToken : token = Head(tasks) /\ TokenOK(token)
        BY <1>0, <2>0
    <2>2. tasks' \in Seq(SessionToken) /\ \A i \in 1..Len(tasks') : TokenOK(tasks'[i])
        BY <1>0, <2>0
    <2> DEFINE w == [C!NoWork EXCEPT !.op = "navigate", !.pc = "lock", !.token = token]
    <2>3. /\ w \in ClientWork /\ w.op = "navigate" /\ w.pc = "lock" /\ w.held = 0 /\ w.token = token
        BY NoWorkFacts DEF ClientWork, Pcs, Ops
    <2>4. threads' = [threads EXCEPT !["worker"] = w] /\ "worker" \in C!Threads /\ "worker" \notin Requests
        BY <2>0, <2>1, ThreadFacts DEF C!Set
    <2> HIDE DEF w
    <2>5. WorkOK(w)
        BY <2>3, OrderFacts DEF WorkOK, Inside, Ops
    <2> QED BY <1>0, <2>0, <2>1, <2>2, <2>3, <2>4, <2>5, ClientStep DEF Inside
<1>14. ASSUME NEW t \in {"worker", "sweep"}, C!ValidateToken(t)
       PROVE  ClientInv'
    <2>0. /\ \/ threads[t].pc = "lock" /\ C!Holds(t) /\ threads[t].op = "navigate"
             \/ threads[t].pc = "node"
          /\ context' = C!Current /\ binding' \in {binding, C!NoBinding} /\ locks' = locks
          /\ UNCHANGED <<config, serving, window, windows, generations, connects, tasks>>
          /\ t \in C!Threads /\ t \notin Requests
        BY <1>14, <1>b, ThreadFacts DEF C!ValidateToken
    <2>1. PICK to \in {"failed", "node", "posted"} :
            /\ to = "posted" => C!ValidToken(threads[t].token)
            /\ C!Set(t, [threads[t] EXCEPT !.pc = to])
        BY <1>14 DEF C!ValidateToken
    <2> DEFINE w == [threads[t] EXCEPT !.pc = to]
    <2>2. /\ w \in ClientWork /\ w.op = threads[t].op /\ w.held = threads[t].held
          /\ w.pc = to /\ w.token = threads[t].token /\ w.account = threads[t].account
        BY <1>k, <2>0 DEF ClientWork, Pcs
    <2>3. threads' = [threads EXCEPT ![t] = w]
        BY <2>1 DEF C!Set
    <2> HIDE DEF w
    <2>4. WorkOK(w)
        BY <1>k, <2>0, <2>2 DEF WorkOK, C!Holds, Inside
    <2>5. to = "posted" => /\ w.token.account = config
                           /\ w.token.epoch = C!Current.epoch
                           /\ w.token.connects = connects
        BY <1>0, <1>b, <1>k, <2>0, <2>1, <2>2 DEF C!ValidToken, C!Connected, TokenOK
    <2> QED BY <1>0, <1>k, <2>0, <2>2, <2>3, <2>4, <2>5, ClientStep DEF Inside
<1>15. ASSUME NEW t \in {"worker", "sweep"}, C!LeaveGuard(t)
       PROVE  ClientInv'
    <2>0. /\ threads[t].pc \in {"posted", "failed"} /\ locks' = C!Released(t)
          /\ UNCHANGED <<config, context, serving, window, windows, generations, connects, binding,
                         tasks>>
          /\ t \in C!Threads /\ t \notin Requests
          /\ C!Set(t, C!NoWork) \/ C!Set(t, [threads[t] EXCEPT !.pc = "lock", !.held = 0])
        BY <1>15, ThreadFacts DEF C!LeaveGuard, C!NextTarget, C!accountVars, C!clientVars
    <2>1. CASE C!Set(t, C!NoWork)
        BY <1>w, <2>0, <2>1
    <2>2. CASE C!Set(t, [threads[t] EXCEPT !.pc = "lock", !.held = 0])
        <3> DEFINE w == [threads[t] EXCEPT !.pc = "lock", !.held = 0]
        <3>1. /\ w \in ClientWork /\ w.op = threads[t].op /\ w.held = 0
              /\ w.pc = "lock" /\ w.token = threads[t].token /\ w.account = threads[t].account
            BY <1>k, <2>0 DEF ClientWork, Pcs
        <3>2. threads' = [threads EXCEPT ![t] = w]
            BY <2>2 DEF C!Set
        <3> HIDE DEF w
        <3>3. WorkOK(w)
            <4>1. Len(C!Order(w.op)) \in 0..2
                BY <3>1, OrderFacts DEF ClientWork
            <4> QED BY <1>k, <2>0, <3>1, <4>1 DEF WorkOK
        <3> QED BY <1>0, <1>k, <2>0, <3>1, <3>2, <3>3, ClientStep DEF Inside
    <2> QED BY <2>0, <2>1, <2>2
<1>16. CASE C!BeginSweep
    <2>0. /\ threads["sweep"].pc = "idle" /\ context' = C!Current /\ locks' = locks
          /\ UNCHANGED <<config, serving, window, windows, generations, connects, binding, tasks>>
          /\ "sweep" \in C!Threads /\ "sweep" \notin Requests
        BY <1>16, ThreadFacts DEF C!BeginSweep, C!clientVars
    <2>1. CASE C!Set("sweep", C!NoWork)
        BY <1>w, <2>0, <2>1 DEF Inside
    <2>2. CASE C!Set("sweep", [C!NoWork EXCEPT !.pc = "stopped"])
        <3> DEFINE w == [C!NoWork EXCEPT !.pc = "stopped"]
        <3>1. w \in ClientWork /\ w.op = "none" /\ w.pc = "stopped" /\ w.held = 0 /\ w.token = C!NoToken
            BY NoWorkFacts DEF ClientWork, Pcs
        <3>2. threads' = [threads EXCEPT !["sweep"] = w]
            BY <2>2 DEF C!Set
        <3> HIDE DEF w
        <3>3. WorkOK(w)
            BY <3>1, OrderFacts DEF WorkOK, Inside, Ops
        <3> QED BY <1>0, <1>n, <2>0, <3>1, <3>2, <3>3, ClientStep DEF Inside
    <2>3. CASE C!Set("sweep", [C!NoWork EXCEPT !.op = "capture", !.pc = "lock",
                                               !.epoch = C!Current.epoch])
        <3> DEFINE w == [C!NoWork EXCEPT !.op = "capture", !.pc = "lock", !.epoch = C!Current.epoch]
        <3>1. w \in ClientWork /\ w.op = "capture" /\ w.pc = "lock" /\ w.held = 0 /\ w.token = C!NoToken
            BY <1>0, NoWorkFacts DEF ClientWork, Pcs, Ops
        <3>2. threads' = [threads EXCEPT !["sweep"] = w]
            BY <2>3 DEF C!Set
        <3> HIDE DEF w
        <3>3. WorkOK(w)
            BY <3>1, OrderFacts DEF WorkOK, Inside, Ops
        <3> QED BY <1>0, <1>n, <2>0, <3>1, <3>2, <3>3, ClientStep DEF Inside
    <2> QED BY <1>16, <2>1, <2>2, <2>3 DEF C!BeginSweep
<1>17. CASE C!CaptureGuiSession
    <2>0. /\ threads["sweep"].pc = "lock" /\ context' = C!Current /\ locks' = C!Released("sweep")
          /\ binding' \in {binding, C!NoBinding}
          /\ UNCHANGED <<config, serving, window, windows, generations, connects, tasks>>
          /\ "sweep" \in C!Threads /\ "sweep" \notin Requests
        BY <1>17, <1>b, ThreadFacts DEF C!CaptureGuiSession
    <2>1. CASE C!Set("sweep", C!NoWork)
        BY <1>w, <2>0, <2>1
    <2>2. CASE /\ C!Connected
               /\ C!Set("sweep", [C!NoWork EXCEPT !.op = "navigate", !.pc = "lock",
                                                  !.token = C!TokenOf])
        <3>1. PICK token \in SessionToken : token = C!TokenOf /\ TokenOK(token)
            BY <1>c, <2>2
        <3> DEFINE w == [C!NoWork EXCEPT !.op = "navigate", !.pc = "lock", !.token = token]
        <3>2. w \in ClientWork /\ w.op = "navigate" /\ w.pc = "lock" /\ w.held = 0 /\ w.token = token
            BY NoWorkFacts DEF ClientWork, Pcs, Ops
        <3>3. threads' = [threads EXCEPT !["sweep"] = w]
            BY <2>2, <3>1 DEF C!Set
        <3> HIDE DEF w
        <3>4. WorkOK(w)
            BY <3>2, OrderFacts DEF WorkOK, Inside, Ops
        <3> QED BY <1>0, <2>0, <3>1, <3>2, <3>3, <3>4, ClientStep DEF Inside
    <2> QED BY <1>17, <2>1, <2>2 DEF C!CaptureGuiSession
\* What changes no thread.
<1>18. CASE /\ UNCHANGED <<config, context, serving, generations, locks, threads, tasks, connects>>
            /\ window' \in Nat /\ windows' \in Nat
            /\ \/ binding' = binding
               \/ binding.up /\ binding' = [binding EXCEPT !.up = FALSE]
    <2>1. /\ binding' \in [window : Nat, generation : Nat, up : BOOLEAN]
          /\ binding'.generation = binding.generation
          /\ binding' # C!NoBinding => binding # C!NoBinding
        <3>1. CASE binding' = binding
            BY <3>1 DEF ClientInv, ClientType
        <3>2. CASE binding.up /\ binding' = [binding EXCEPT !.up = FALSE]
            <4>1. binding \in [window : Nat, generation : Nat, up : BOOLEAN]
                BY DEF ClientInv, ClientType
            <4>2. binding # C!NoBinding
                BY <3>2 DEF C!NoBinding
            <4> QED BY <3>2, <4>1, <4>2
        <3> QED BY <1>18, <3>1, <3>2
    <2>2. ClientType'
        BY <1>18, <2>1 DEF ClientInv, ClientType
    <2>3. LocksOK'
        BY <1>18 DEF ClientInv, LocksOK, HasLocks
    <2>4. C!Current' = C!Current
        BY <1>18 DEF C!Current
    <2>5. EpochsOK'
        BY <1>18, <2>4 DEF ClientInv, EpochsOK, EpochsOf
    <2>6. TokensOK'
        BY <1>18, <2>1, <2>4 DEF ClientInv, TokensOK, TokenOK, PostedOK
    <2> QED BY <2>2, <2>3, <2>5, <2>6 DEF ClientInv
<1>19. CASE C!SweepNow \/ C!StopSweep \/ UNCHANGED C!vars
    BY <1>18, <1>19 DEF C!SweepNow, C!StopSweep, C!vars, C!accountVars, C!clientVars, ClientInv, ClientType
<1>20. CASE C!WindowChanges \/ C!ConnectionLost
    BY <1>18, <1>20 DEF C!WindowChanges, C!ConnectionLost, C!accountVars, ClientInv, ClientType
<1> QED BY <1>1, <1>2, <1>3, <1>4, <1>5, <1>6, <1>7, <1>8, <1>9, <1>10, <1>11, <1>12, <1>13, <1>14,
           <1>15, <1>16, <1>17, <1>19, <1>20 DEF C!Next

\* GUI input is posted only while the session it was captured for lasts
\* (gui_session.py:67, :100-105).
THEOREM NavigatesForTheSelection == C!Spec => []NavigatesForSelection
<1>1. ClientInv => NavigatesForSelection
    BY ThreadFacts DEF ClientInv, TokensOK, PostedOK, NavigatesForSelection, C!NavigatesForSelection
<1> QED BY <1>1, ClientInit, ClientKeeps, PTL DEF C!Spec

\* An answer that is delivered tells the one epoch that everything in it is of
\* (api/main.py:55-57, connection.py:99).
THEOREM AnswersAreOfOneEpoch == C!Spec => []AnsweredInOneEpoch
<1>1. ClientInv => AnsweredInOneEpoch
    BY DEF ClientInv, EpochsOK, EpochsOf, AnsweredInOneEpoch, C!AnsweredInOneEpoch
<1> QED BY <1>1, ClientInit, ClientKeeps, PTL DEF C!Spec

\* A thread that waits while it has a lock has the account and waits for the runner or
\* the source; so no two such threads wait for each other.
LEMMA WaiterHas ==
    ASSUME ClientType, LocksOK, NEW t \in C!Threads, C!Waits(t)
    PROVE  /\ C!Next1(t) \in Locks /\ locks[C!Next1(t)] # t
           /\ \A lock \in Locks : locks[lock] = t =>
                lock = "account" /\ C!Next1(t) \in {"source", "runner"}
<1>1. /\ threads[t] \in ClientWork /\ WorkOK(threads[t]) /\ HasLocks(t)
      /\ threads[t].pc = "lock" /\ threads[t].held # Len(C!Order(threads[t].op))
      /\ locks[C!Next1(t)] # t
    BY DEF ClientType, LocksOK, C!Waits, C!Holds, C!MayTake
<1>2. PICK op \in Ops, n \in Nat : op = threads[t].op /\ n = threads[t].held
    BY <1>1 DEF ClientWork
<1>3. /\ Len(C!Order(op)) \in 0..2 /\ n < Len(C!Order(op)) /\ C!Next1(t) = C!Order(op)[n + 1]
    BY <1>1, <1>2, OrderFacts DEF WorkOK, C!Next1
<1>4. C!Next1(t) \in Locks
    BY <1>3, OrderFacts
<1>5. ASSUME NEW lock \in Locks, locks[lock] = t
      PROVE  lock = "account" /\ C!Next1(t) \in {"source", "runner"}
    <2>1. PICK i \in 1..n : C!Order(op)[i] = lock
        BY <1>1, <1>2, <1>5 DEF HasLocks
    <2>2. i = 1 /\ n = 1 /\ Len(C!Order(op)) = 2
        BY <1>3, <2>1
    <2> QED BY <1>3, <2>1, <2>2, OrderFacts
<1> QED BY <1>1, <1>4, <1>5

\* The threads never wait for each other in a circle: the account comes first
\* (account_context.py:82, maafw_runner.py:149).
THEOREM LocksNeverCircle == C!Spec => []NoCircularWait
<1>1. ASSUME ClientInv PROVE NoCircularWait
    <2>0. ClientType /\ LocksOK
        BY <1>1 DEF ClientInv
    <2>1. ASSUME NEW circle \in SUBSET C!Threads, circle # {},
                 \A t \in circle : C!Waits(t) /\ locks[C!Next1(t)] \in circle
          PROVE  FALSE
        <3>1. PICK t \in circle : TRUE
            BY <2>1
        <3>2. PICK u \in circle : u = locks[C!Next1(t)]
            BY <2>1
        <3>3. C!Next1(t) \in Locks /\ C!Waits(u)
            BY <2>0, <2>1, WaiterHas
        <3>4. C!Next1(u) \in {"source", "runner"}
            BY <2>0, <3>2, <3>3, WaiterHas
        <3>5. PICK v \in circle : v = locks[C!Next1(u)]
            BY <2>1
        <3>6. C!Next1(u) = "account"
            BY <2>0, <2>1, <3>4, <3>5, WaiterHas DEF Locks
        <3> QED BY <3>4, <3>6
    <2> QED BY <2>1 DEF NoCircularWait, C!NoCircularWait
<1> QED BY <1>1, ClientInit, ClientKeeps, PTL DEF C!Spec

--------------------------------------------------------------------------------
(* The native logs *)

LogSteps ==
    {"ended", "idle", "work", "inventory", "switch", "create", "close", "delete"}

LogProcess ==
    [step : LogSteps, active : Nat, candidate : Nat, leases : SUBSET N!Sessions,
     uncertain : BOOLEAN, jobs : Int, doubt : BOOLEAN, victims : SUBSET N!Sessions]

LogSession ==
    [exists : BOOLEAN, owned : BOOLEAN, lease : BOOLEAN, holder : Processes \cup {N!Free},
     closed : BOOLEAN]

LogsType ==
    /\ process \in [Processes -> LogProcess]
    /\ writer \in [Processes -> N!Sessions \cup {N!Elsewhere}]
    /\ session \in [N!Sessions -> LogSession]
    /\ made \in 0..MaxSessions

\* What a process leases exists, is not closed and is locked by it alone.
Leased(p, s) ==
    /\ s <= made
    /\ session[s].exists /\ session[s].lease /\ ~session[s].closed /\ session[s].holder = p

\* A process leases what it may write to; what it has confirmed to write to is all it
\* keeps.
Keeps(p) ==
    /\ \A s \in process[p].leases : Leased(p, s)
    /\ writer[p] # N!Elsewhere => writer[p] \in process[p].leases
    /\ process[p].candidate # 0 => process[p].candidate \in process[p].leases
    /\ process[p].step = "switch" => process[p].candidate # 0
    /\ process[p].step = "close" => process[p].candidate = 0 /\ writer[p] = process[p].active

\* What is to be deleted was made before and nobody leases it.
Deletes(p) ==
    \A s \in process[p].victims : s <= made /\ \A q \in Processes : s \notin process[q].leases

LogsInv ==
    /\ LogsType
    /\ \A p \in Processes : Keeps(p) /\ Deletes(p)
    /\ \A s \in N!Sessions : s > made => ~session[s].exists

LEMMA SessionFacts ==
    /\ N!Sessions \subseteq Nat \ {0} /\ N!Free = 0 /\ N!Elsewhere = 0
    /\ N!Elsewhere \notin N!Sessions /\ N!Free \notin Processes
    /\ MaxSessions \in Nat /\ N!Sessions = 1..MaxSessions
BY PlatformAssumption DEF N!Sessions, N!Free, N!Elsewhere

LEMMA LogsInit == N!Init => LogsInv
<1> SUFFICES ASSUME N!Init PROVE LogsInv
    OBVIOUS
<1>1. N!Ended \in LogProcess /\ N!NoSession \in LogSession /\ ~N!NoSession.exists
    BY SessionFacts DEF N!Ended, N!NoSession, LogProcess, LogSteps, LogSession
<1>2. LogsType
    BY <1>1, SessionFacts DEF N!Init, LogsType
<1>3. \A p \in Processes : Keeps(p) /\ Deletes(p)
    BY SessionFacts DEF N!Init, N!Ended, Keeps, Deletes
<1>4. \A s \in N!Sessions : ~session[s].exists
    BY <1>1 DEF N!Init
<1> QED BY <1>2, <1>3, <1>4 DEF LogsInv

LEMMA ProcessStep ==
    ASSUME process \in [Processes -> LogProcess], NEW p \in Processes, NEW r \in LogProcess,
           process' = [process EXCEPT ![p] = r]
    PROVE  /\ process' \in [Processes -> LogProcess] /\ process'[p] = r
           /\ \A q \in Processes \ {p} : process'[q] = process[q]
OBVIOUS

\* A deletion that stops leaves some of the markers.
LEMMA MarkersLeft ==
    ASSUME session \in [N!Sessions -> LogSession], NEW s \in N!Sessions,
           NEW owned \in BOOLEAN, NEW lease \in BOOLEAN, NEW closed \in BOOLEAN,
           session' = [session EXCEPT ![s] =
                [@ EXCEPT !.owned = owned, !.lease = @ /\ lease, !.closed = closed]]
    PROVE  session' \in [N!Sessions -> LogSession]
<1>1. session'[s] \in LogSession
    BY DEF LogSession
<1> QED BY <1>1

\* A step of one process that leaves alone what the others lease.
LEMMA OneLogProcess ==
    ASSUME LogsInv, LogsType', NEW p \in Processes, made' >= made,
           \A q \in Processes \ {p} :
                /\ process'[q] = process[q] /\ writer'[q] = writer[q]
                /\ \A s \in process[q].leases : session'[s] = session[s]
                /\ \A s \in process'[p].victims : s \notin process[q].leases,
           \A s \in process'[p].leases : s \in process[p].leases \/ s > made,
           \A s \in process'[p].victims : s <= made /\ s \notin process'[p].leases,
           \A s \in N!Sessions : s > made' => ~session'[s].exists,
           Keeps(p)'
    PROVE  LogsInv'
<1>n. made \in Nat /\ made' \in Nat
    BY SessionFacts DEF LogsInv, LogsType
<1>q. ASSUME NEW q \in Processes
      PROVE  process[q].leases \subseteq Nat /\ process[q].victims \subseteq Nat
    <2>1. process[q] \in LogProcess
        BY DEF LogsInv, LogsType
    <2> QED BY <2>1, SessionFacts DEF LogProcess
<1>t. /\ \A q \in Processes : process[q].leases \subseteq Nat /\ process[q].victims \subseteq Nat
      /\ made \in Nat /\ made' \in Nat
    BY <1>n, <1>q
<1>1. ASSUME NEW q \in Processes \ {p}
      PROVE  Keeps(q)'
    <2>1. \A s \in process[q].leases : Leased(q, s)
        BY DEF LogsInv, Keeps
    <2>2. \A s \in process[q].leases : Leased(q, s)'
        BY <1>t, <2>1 DEF Leased
    <2> QED BY <2>2 DEF LogsInv, Keeps
<1>2. ASSUME NEW q \in Processes, NEW s \in process'[q].victims
      PROVE  s <= made' /\ \A r \in Processes : s \notin process'[r].leases
    <2>1. CASE q = p
        <3>1. s <= made /\ s \in Nat
            BY <1>2, <2>1 DEF LogsType, LogProcess, N!Sessions
        <3> QED BY <1>2, <1>t, <2>1, <3>1
    <2>2. CASE q # p
        <3>1. s \in process[q].victims
            BY <1>2, <2>2
        <3>2. s <= made /\ s \in Nat /\ \A r \in Processes : s \notin process[r].leases
            BY <1>t, <3>1 DEF LogsInv, Deletes
        <3>3. s \notin process'[p].leases
            BY <1>t, <3>2
        <3> QED BY <1>t, <3>2, <3>3
    <2> QED BY <2>1, <2>2
<1>3. \A q \in Processes : Keeps(q)'
    BY <1>1
<1>4. \A q \in Processes : Deletes(q)'
    BY <1>2 DEF Deletes
<1> QED BY <1>3, <1>4 DEF LogsInv

\* A step that leaves the sessions and the leases alone.
LEMMA SameSessions ==
    ASSUME LogsInv, NEW p \in Processes, UNCHANGED <<session, made>>,
           process' \in [Processes -> LogProcess],
           writer' \in [Processes -> N!Sessions \cup {N!Elsewhere}],
           \A q \in Processes \ {p} : process'[q] = process[q] /\ writer'[q] = writer[q],
           process'[p].leases = process[p].leases,
           process'[p].victims \subseteq process[p].victims,
           writer'[p] # N!Elsewhere => writer'[p] \in process[p].leases,
           process'[p].candidate # 0 => process'[p].candidate \in process[p].leases,
           process'[p].step = "switch" => process'[p].candidate # 0,
           process'[p].step = "close" =>
                process'[p].candidate = 0 /\ writer'[p] = process'[p].active
    PROVE  LogsInv'
<1>1. LogsType'
    BY DEF LogsInv, LogsType
<1>2. \A s \in process'[p].leases : Leased(p, s)'
    BY DEF LogsInv, Keeps, Leased
<1>3. Keeps(p)'
    BY <1>2 DEF Keeps
<1>4. made \in Nat
    BY DEF LogsInv, LogsType
<1>5. \A s \in process'[p].victims : /\ s <= made
                                     /\ \A q \in Processes : s \notin process[q].leases
    BY DEF LogsInv, Deletes
<1> QED BY <1>1, <1>3, <1>4, <1>5, OneLogProcess DEF LogsInv

LEMMA LogsKeep == LogsInv /\ [N!Next]_N!vars => LogsInv'
<1> SUFFICES ASSUME LogsInv, [N!Next]_N!vars PROVE LogsInv'
    OBVIOUS
<1>0. /\ LogsType /\ process \in [Processes -> LogProcess]
      /\ writer \in [Processes -> N!Sessions \cup {N!Elsewhere}]
      /\ session \in [N!Sessions -> LogSession] /\ made \in 0..MaxSessions /\ made \in Nat
      /\ \A s \in N!Sessions : s > made => ~session[s].exists
    BY SessionFacts DEF LogsInv, LogsType
<1>k. \A p \in Processes :
        /\ Keeps(p) /\ Deletes(p) /\ process[p] \in LogProcess
        /\ writer[p] # N!Elsewhere => writer[p] \in process[p].leases
        /\ process[p].candidate # 0 => process[p].candidate \in process[p].leases
        /\ process[p].leases \subseteq N!Sessions /\ process[p].victims \subseteq N!Sessions
    BY <1>0 DEF LogsInv, Keeps, LogProcess, LogSteps
\* Of the process only the step, the jobs and the doubt change.
<1>s. ASSUME NEW p \in Processes, UNCHANGED <<session, made, writer>>,
             NEW r \in LogProcess, process' = [process EXCEPT ![p] = r],
             r.leases = process[p].leases, r.victims = process[p].victims,
             r.candidate = process[p].candidate,
             r.step # "close", r.step = "switch" => process[p].candidate # 0
      PROVE  LogsInv'
    <2>1. /\ process' \in [Processes -> LogProcess] /\ process'[p] = r
          /\ \A q \in Processes \ {p} : process'[q] = process[q]
        BY <1>0, <1>s, ProcessStep
    <2> QED BY <1>0, <1>k, <1>s, <2>1, SameSessions
<1>t. ASSUME NEW p \in Processes, UNCHANGED <<session, made, writer>>,
             NEW to \in LogSteps, process' = [process EXCEPT ![p].step = to],
             to # "close", to = "switch" => process[p].candidate # 0
      PROVE  LogsInv'
    <2> DEFINE r == [process[p] EXCEPT !.step = to]
    <2>1. process[p] \in LogProcess
        BY <1>0
    <2>2. /\ r \in LogProcess /\ r.leases = process[p].leases /\ r.victims = process[p].victims
          /\ r.candidate = process[p].candidate /\ r.step = to
        BY <1>t, <2>1 DEF LogProcess
    <2>3. process' = [process EXCEPT ![p] = r]
        BY <1>0, <1>t
    <2> HIDE DEF r
    <2> QED BY <1>s, <1>t, <2>2, <2>3
<1>1. ASSUME NEW p \in Processes, N!Start(p) \/ N!Prepare(p) \/ N!EndOperation(p)
      PROVE  LogsInv'
    <2>1. UNCHANGED <<session, made, writer>>
        BY <1>1 DEF N!Start, N!Prepare, N!EndOperation
    <2>2. CASE N!Start(p) \/ N!EndOperation(p)
        <3>1. process' = [process EXCEPT ![p].step = "idle"]
            BY <2>2 DEF N!Start, N!EndOperation, N!Step
        <3> QED BY <1>t, <2>1, <3>1 DEF LogSteps
    <2>3. CASE N!Prepare(p)
        <3>1. \E to \in {"work", "inventory", "switch", "create"} :
                /\ to = "switch" => process[p].candidate # 0
                /\ N!Step(p, to)
            BY <2>3 DEF N!Prepare
        <3>2. PICK to \in {"work", "inventory", "switch", "create"} :
                /\ to = "switch" => process[p].candidate # 0
                /\ process' = [process EXCEPT ![p].step = to]
            BY <3>1 DEF N!Step
        <3> QED BY <1>t, <2>1, <3>2 DEF LogSteps
    <2> QED BY <1>1, <2>2, <2>3
<1>2. ASSUME NEW p \in Processes, N!PostNative(p) \/ N!WaitNative(p)
      PROVE  LogsInv'
    <2>0. /\ process[p].step = "work" /\ UNCHANGED <<session, made, writer>>
          /\ process[p] \in LogProcess
        BY <1>2, <1>0 DEF N!PostNative, N!WaitNative
    <2>1. PICK r \in LogProcess :
            /\ process' = [process EXCEPT ![p] = r]
            /\ r.leases = process[p].leases /\ r.victims = process[p].victims
            /\ r.candidate = process[p].candidate /\ r.step = "work"
        <3>1. CASE process' = [process EXCEPT ![p].jobs = @ + 1]
            <4> DEFINE r == [process[p] EXCEPT !.jobs = @ + 1]
            <4>1. process' = [process EXCEPT ![p] = r]
                BY <1>0, <3>1
            <4>2. r \in LogProcess /\ r.step = "work"
                BY <2>0 DEF LogProcess
            <4>3. /\ r.leases = process[p].leases /\ r.victims = process[p].victims
                  /\ r.candidate = process[p].candidate
                BY <2>0 DEF LogProcess
            <4> HIDE DEF r
            <4> QED BY <4>1, <4>2, <4>3
        <3>2. CASE process' = [process EXCEPT ![p].jobs = @ - 1]
            <4> DEFINE r == [process[p] EXCEPT !.jobs = @ - 1]
            <4>1. process' = [process EXCEPT ![p] = r]
                BY <1>0, <3>2
            <4>2. r \in LogProcess /\ r.step = "work"
                BY <2>0 DEF LogProcess
            <4>3. /\ r.leases = process[p].leases /\ r.victims = process[p].victims
                  /\ r.candidate = process[p].candidate
                BY <2>0 DEF LogProcess
            <4> HIDE DEF r
            <4> QED BY <4>1, <4>2, <4>3
        <3>3. CASE process' = [process EXCEPT ![p].doubt = TRUE]
            <4> DEFINE r == [process[p] EXCEPT !.doubt = TRUE]
            <4>1. process' = [process EXCEPT ![p] = r]
                BY <1>0, <3>3
            <4>2. r \in LogProcess /\ r.step = "work"
                BY <2>0 DEF LogProcess
            <4>3. /\ r.leases = process[p].leases /\ r.victims = process[p].victims
                  /\ r.candidate = process[p].candidate
                BY <2>0 DEF LogProcess
            <4> HIDE DEF r
            <4> QED BY <4>1, <4>2, <4>3
        <3> QED BY <1>2, <3>1, <3>2, <3>3 DEF N!PostNative, N!WaitNative
    <2> QED BY <1>s, <2>0, <2>1
<1>3. ASSUME NEW p \in Processes, N!InitOption(p)
      PROVE  LogsInv'
    <2>1. /\ UNCHANGED <<session, made>> /\ writer' = [writer EXCEPT ![p] = N!Elsewhere]
          /\ \E to \in {"switch", "create"} :
                /\ process' = [process EXCEPT ![p].step = to]
                /\ to = "switch" => process[p].candidate # 0
        BY <1>3 DEF N!InitOption, N!Step
    <2>2. PICK to \in {"switch", "create"} :
            /\ process' = [process EXCEPT ![p].step = to]
            /\ to = "switch" => process[p].candidate # 0
        BY <2>1
    <2>3. /\ process' \in [Processes -> LogProcess]
          /\ \A q \in Processes \ {p} : process'[q] = process[q] /\ writer'[q] = writer[q]
          /\ process'[p] = [process[p] EXCEPT !.step = to] /\ writer'[p] = N!Elsewhere
          /\ writer' \in [Processes -> N!Sessions \cup {N!Elsewhere}]
        <3>1. process[p] \in LogProcess
            BY <1>0
        <3>2. [process[p] EXCEPT !.step = to] \in LogProcess
            BY <3>1, <2>1, <2>2 DEF LogProcess, LogSteps
        <3>3. process' = [process EXCEPT ![p] = [process[p] EXCEPT !.step = to]]
            BY <1>0, <2>1, <2>2
        <3> QED BY <1>0, <3>2, <3>3, <2>1, <2>2, ProcessStep
    <2>4. /\ process'[p].leases = process[p].leases /\ process'[p].victims = process[p].victims
          /\ process'[p].candidate = process[p].candidate /\ process'[p].step = to
        BY <1>k, <2>3 DEF LogProcess, LogSteps
    <2> QED BY <1>k, <2>1, <2>2, <2>3, <2>4, SameSessions
<1>4. ASSUME NEW p \in Processes, N!SwitchLogDir(p)
      PROVE  LogsInv'
    <2> DEFINE c == process[p].candidate
    <2>0. /\ process[p].step = "switch" /\ c # 0 /\ c \in process[p].leases
          /\ c \in N!Sessions /\ c \in Nat /\ UNCHANGED <<session, made>>
        BY <1>4, <1>k, SessionFacts DEF N!SwitchLogDir, Keeps
    <2>1. CASE /\ writer' = [writer EXCEPT ![p] = c]
               /\ process' = [process EXCEPT ![p].step = "close", ![p].active = c,
                                             ![p].candidate = 0, ![p].uncertain = FALSE]
        <3>1. /\ process' \in [Processes -> LogProcess]
              /\ process'[p] = [process[p] EXCEPT !.step = "close", !.active = c,
                                                  !.candidate = 0, !.uncertain = FALSE]
              /\ \A q \in Processes \ {p} : process'[q] = process[q] /\ writer'[q] = writer[q]
              /\ writer'[p] = c /\ writer' \in [Processes -> N!Sessions \cup {N!Elsewhere}]
            <4>1. process[p] \in LogProcess
                BY <1>0
            <4>2. [process[p] EXCEPT !.step = "close", !.active = c, !.candidate = 0, !.uncertain = FALSE] \in LogProcess
                BY <4>1, <2>0, <2>1 DEF LogProcess, LogSteps
            <4>3. process' = [process EXCEPT ![p] = [process[p] EXCEPT !.step = "close", !.active = c, !.candidate = 0, !.uncertain = FALSE]]
                BY <1>0, <2>0, <2>1
            <4> QED BY <1>0, <4>2, <4>3, <2>0, <2>1, ProcessStep
        <3>2. /\ process'[p].leases = process[p].leases /\ process'[p].victims = process[p].victims
              /\ process'[p].candidate = 0 /\ process'[p].step = "close" /\ process'[p].active = c
            BY <1>k, <3>1 DEF LogProcess, LogSteps
        <3> QED BY <1>k, <2>0, <3>1, <3>2, SameSessions
    <2>2. CASE /\ writer' \in {writer, [writer EXCEPT ![p] = c]}
               /\ process' = [process EXCEPT ![p].step = "work", ![p].uncertain = TRUE]
        <3>1. /\ process' \in [Processes -> LogProcess]
              /\ process'[p] = [process[p] EXCEPT !.step = "work", !.uncertain = TRUE]
              /\ \A q \in Processes \ {p} : process'[q] = process[q] /\ writer'[q] = writer[q]
              /\ writer'[p] \in {writer[p], c}
              /\ writer' \in [Processes -> N!Sessions \cup {N!Elsewhere}]
            <4>1. process[p] \in LogProcess
                BY <1>0
            <4>2. [process[p] EXCEPT !.step = "work", !.uncertain = TRUE] \in LogProcess
                BY <4>1, <2>0, <2>2 DEF LogProcess, LogSteps
            <4>3. process' = [process EXCEPT ![p] = [process[p] EXCEPT !.step = "work", !.uncertain = TRUE]]
                BY <1>0, <2>0, <2>2
            <4> QED BY <1>0, <4>2, <4>3, <2>0, <2>2, ProcessStep
        <3>2. /\ process'[p].leases = process[p].leases /\ process'[p].victims = process[p].victims
              /\ process'[p].candidate = c /\ process'[p].step = "work"
            BY <1>k, <3>1 DEF LogProcess, LogSteps
        <3> QED BY <1>k, <2>0, <3>1, <3>2, SameSessions
    <2> QED BY <1>4, <2>1, <2>2 DEF N!SwitchLogDir
<1>5. ASSUME NEW p \in Processes, N!Crash(p)
      PROVE  LogsInv'
    <2>1. /\ process' = [process EXCEPT ![p] = N!Ended] /\ made' = made
          /\ writer' = [writer EXCEPT ![p] = N!Elsewhere]
          /\ session' = [s \in N!Sessions |-> N!Unlocked(session[s], p)]
        BY <1>5 DEF N!Crash
    <2>2. /\ N!Ended \in LogProcess /\ N!Ended.leases = {} /\ N!Ended.victims = {}
          /\ N!Ended.candidate = 0 /\ N!Ended.step = "ended"
        BY DEF N!Ended, LogProcess, LogSteps
    <2>3. \A s \in N!Sessions :
            /\ session'[s] \in LogSession /\ session'[s].exists = session[s].exists
            /\ session[s].holder # p => session'[s] = session[s]
        BY <1>0, <2>1 DEF N!Unlocked, LogSession
    <2>4. LogsType'
        BY <1>0, <2>1, <2>2, <2>3 DEF LogsType
    <2>5. /\ process'[p] = N!Ended /\ writer'[p] = N!Elsewhere
          /\ \A q \in Processes \ {p} : process'[q] = process[q] /\ writer'[q] = writer[q]
        BY <1>0, <2>1
    <2>6. \A q \in Processes \ {p} : \A s \in process[q].leases : session'[s] = session[s]
        BY <1>k, <2>3 DEF Keeps, Leased
    <2>7. Keeps(p)'
        BY <2>2, <2>5 DEF Keeps
    <2> QED BY <1>0, <2>1, <2>2, <2>3, <2>4, <2>5, <2>6, <2>7, OneLogProcess
<1>6. ASSUME NEW p \in Processes, N!CreateSession(p)
      PROVE  LogsInv'
    <2>m. PICK n \in N!Sessions : n = made + 1
        <3>1. made < MaxSessions
            BY <1>6 DEF N!CreateSession
        <3> QED BY <1>0, <3>1, SessionFacts
    <2>0. /\ made' = n /\ writer' = writer /\ n \in N!Sessions /\ n \in Nat /\ n # 0
          /\ n \in 0..MaxSessions
        <3>1. made' = made + 1 /\ made < MaxSessions /\ writer' = writer
            BY <1>6 DEF N!CreateSession
        <3> QED BY <1>0, <2>m, <3>1, SessionFacts
    <2>n. \A q \in Processes : \A s \in process[q].leases \cup process[q].victims :
            s <= made /\ s \in Nat /\ s # n
        BY <1>0, <2>m, <1>k, SessionFacts DEF Keeps, Deletes, Leased
    <2>1. CASE /\ session' = [session EXCEPT ![n] = [exists |-> TRUE, owned |-> TRUE,
                                   lease |-> TRUE, holder |-> p, closed |-> FALSE]]
               /\ process' = [process EXCEPT ![p].step = "switch", ![p].candidate = n,
                                             ![p].leases = @ \cup {n}]
        <3>1. /\ process' \in [Processes -> LogProcess]
              /\ process'[p] = [process[p] EXCEPT !.step = "switch", !.candidate = n,
                                                  !.leases = @ \cup {n}]
              /\ \A q \in Processes \ {p} : process'[q] = process[q]
            <4>1. process[p] \in LogProcess
                BY <1>0
            <4>2. [process[p] EXCEPT !.step = "switch", !.candidate = n, !.leases = @ \cup {n}] \in LogProcess
                BY <4>1, <2>0, <2>1 DEF LogProcess, LogSteps
            <4>3. process' = [process EXCEPT ![p] = [process[p] EXCEPT !.step = "switch", !.candidate = n, !.leases = @ \cup {n}]]
                BY <1>0, <2>0, <2>1
            <4> QED BY <1>0, <4>2, <4>3, <2>0, <2>1, ProcessStep
        <3>2. /\ process'[p].leases = process[p].leases \cup {n}
              /\ process'[p].victims = process[p].victims
              /\ process'[p].candidate = n /\ process'[p].step = "switch"
            BY <1>k, <3>1 DEF LogProcess, LogSteps
        <3>3. /\ session' \in [N!Sessions -> LogSession]
              /\ \A s \in N!Sessions \ {n} : session'[s] = session[s]
              /\ session'[n].exists /\ session'[n].lease /\ ~session'[n].closed
              /\ session'[n].holder = p
            BY <1>0, <2>0, <2>1 DEF LogSession
        <3>4. LogsType'
            BY <2>0, <3>1, <3>3, <1>0 DEF LogsType
        <3>5. \A s \in process'[p].leases : Leased(p, s)'
            <4>1. ASSUME NEW s \in process[p].leases PROVE Leased(p, s)'
                <5>1. Leased(p, s) /\ s \in N!Sessions \ {n} /\ s <= n
                    BY <1>k, <2>0, <2>m, <2>n, <4>1, <1>0 DEF Keeps
                <5> QED BY <2>0, <3>3, <5>1 DEF Leased
            <4>2. Leased(p, n)'
                BY <2>0, <3>3 DEF Leased
            <4> QED BY <3>2, <4>1, <4>2
        <3>6. Keeps(p)'
            BY <1>k, <2>0, <3>2, <3>5 DEF Keeps
        <3>7. /\ \A q \in Processes \ {p} : /\ process'[q] = process[q] /\ writer'[q] = writer[q]
                                            /\ \A s \in process[q].leases : session'[s] = session[s]
                                            /\ \A s \in process'[p].victims : s \notin process[q].leases
            BY <1>k, <2>0, <2>n, <3>1, <3>2, <3>3 DEF Deletes
        <3>8. /\ \A s \in process'[p].leases : s \in process[p].leases \/ s > made
              /\ \A s \in process'[p].victims : s <= made /\ s \notin process'[p].leases
            BY <1>0, <1>k, <2>m, <2>n, <3>2 DEF Deletes
        <3>9. made' >= made /\ \A s \in N!Sessions : s > made' => ~session'[s].exists
            BY <1>0, <2>0, <2>m, <3>3, SessionFacts
        <3> QED BY <3>4, <3>6, <3>7, <3>8, <3>9, OneLogProcess
    <2>2. CASE /\ \E lease \in BOOLEAN :
                    session' = [session EXCEPT ![n] = [N!NoSession EXCEPT !.exists = TRUE,
                                                                          !.lease = lease]]
               /\ process' = [process EXCEPT ![p].step = "work"]
        <3>1. /\ process' \in [Processes -> LogProcess]
              /\ process'[p] = [process[p] EXCEPT !.step = "work"]
              /\ \A q \in Processes \ {p} : process'[q] = process[q]
            <4>1. process[p] \in LogProcess
                BY <1>0
            <4>2. [process[p] EXCEPT !.step = "work"] \in LogProcess
                BY <4>1, <2>2 DEF LogProcess, LogSteps
            <4>3. process' = [process EXCEPT ![p] = [process[p] EXCEPT !.step = "work"]]
                BY <1>0, <2>2
            <4> QED BY <1>0, <4>2, <4>3, <2>2, ProcessStep
        <3>2. /\ process'[p].leases = process[p].leases
              /\ process'[p].victims = process[p].victims
              /\ process'[p].candidate = process[p].candidate /\ process'[p].step = "work"
            BY <1>k, <3>1 DEF LogProcess, LogSteps
        <3>3. /\ session' \in [N!Sessions -> LogSession]
              /\ \A s \in N!Sessions \ {n} : session'[s] = session[s]
            <4>1. PICK lease \in BOOLEAN : session' = [session EXCEPT ![n] =
                        [N!NoSession EXCEPT !.exists = TRUE, !.lease = lease]]
                BY <2>2
            <4>2. [N!NoSession EXCEPT !.exists = TRUE, !.lease = lease] \in LogSession
                BY DEF LogSession, N!NoSession
            <4> QED BY <1>0, <2>0, <4>1, <4>2
        <3>4. LogsType'
            BY <1>0, <2>0, <3>1, <3>3 DEF LogsType
        <3>5. \A s \in process'[p].leases : Leased(p, s)'
            <4>1. ASSUME NEW s \in process[p].leases PROVE Leased(p, s)'
                <5>1. Leased(p, s) /\ s \in N!Sessions \ {n} /\ s <= n
                    BY <1>k, <2>0, <2>m, <2>n, <4>1, <1>0 DEF Keeps
                <5> QED BY <2>0, <3>3, <5>1 DEF Leased
            <4> QED BY <3>2, <4>1
        <3>6. Keeps(p)'
            BY <1>k, <2>0, <3>2, <3>5 DEF Keeps
        <3>7. /\ \A q \in Processes \ {p} : /\ process'[q] = process[q] /\ writer'[q] = writer[q]
                                            /\ \A s \in process[q].leases : session'[s] = session[s]
                                            /\ \A s \in process'[p].victims : s \notin process[q].leases
            BY <1>k, <2>0, <2>n, <3>1, <3>2, <3>3 DEF Deletes
        <3>8. /\ \A s \in process'[p].leases : s \in process[p].leases \/ s > made
              /\ \A s \in process'[p].victims : s <= made /\ s \notin process'[p].leases
            BY <1>0, <1>k, <2>m, <2>n, <3>2 DEF Deletes
        <3>9. made' >= made /\ \A s \in N!Sessions : s > made' => ~session'[s].exists
            BY <1>0, <2>0, <2>m, <3>3, SessionFacts
        <3> QED BY <3>4, <3>6, <3>7, <3>8, <3>9, OneLogProcess
    <2> QED BY <1>6, <2>m, <2>1, <2>2 DEF N!CreateSession, N!Step
<1>7. ASSUME NEW p \in Processes, N!CloseSession(p)
      PROVE  LogsInv'
    <2>0. /\ process[p].step = "close" /\ process[p].candidate = 0
          /\ writer[p] = process[p].active /\ UNCHANGED <<writer, made>>
        BY <1>7, <1>k DEF N!CloseSession, Keeps
    <2>1. CASE N!Left(p) = {}
        <3>1. UNCHANGED <<session, made, writer>> /\ process' = [process EXCEPT ![p].step = "inventory"]
            BY <1>7, <2>1 DEF N!CloseSession, N!Step
        <3> QED BY <1>t, <3>1 DEF LogSteps
    <2>2. CASE N!Left(p) # {}
        <3>1. PICK s \in N!Left(p), closed \in BOOLEAN, to \in {"close", "work"} :
                /\ session' = [session EXCEPT ![s] = [@ EXCEPT !.closed = closed, !.holder = N!Free]]
                /\ process' = [process EXCEPT ![p].leases = @ \ {s}, ![p].step = to]
            <4>1. CASE \E s \in N!Left(p) :
                        /\ session' = [session EXCEPT ![s] = [@ EXCEPT !.closed = TRUE, !.holder = N!Free]]
                        /\ process' = [process EXCEPT ![p].leases = @ \ {s}]
                <5>1. PICK s \in N!Left(p) :
                        /\ session' = [session EXCEPT ![s] = [@ EXCEPT !.closed = TRUE, !.holder = N!Free]]
                        /\ process' = [process EXCEPT ![p].leases = @ \ {s}]
                    BY <4>1
                <5>2. process' = [process EXCEPT ![p].leases = @ \ {s}, ![p].step = "close"]
                    BY <1>0, <2>0, <5>1 DEF LogProcess, LogSteps
                <5> QED BY <5>1, <5>2
            <4>2. CASE \E s \in N!Left(p) :
                        /\ session' = [session EXCEPT ![s] = [@ EXCEPT !.holder = N!Free]]
                        /\ process' = [process EXCEPT ![p].leases = @ \ {s}, ![p].step = "work"]
                <5>1. PICK s \in N!Left(p) :
                        /\ session' = [session EXCEPT ![s] = [@ EXCEPT !.holder = N!Free]]
                        /\ process' = [process EXCEPT ![p].leases = @ \ {s}, ![p].step = "work"]
                    BY <4>2
                <5>2. s \in N!Sessions /\ session[s].closed \in BOOLEAN
                    BY <1>0, <1>k DEF N!Left, LogSession
                <5>3. session' = [session EXCEPT ![s] = [@ EXCEPT !.closed = session[s].closed,
                                                                  !.holder = N!Free]]
                    BY <1>0, <5>1, <5>2 DEF LogSession
                <5> QED BY <5>1, <5>2, <5>3
            <4> QED BY <1>7, <2>2, <4>1, <4>2 DEF N!CloseSession
        <3>2. /\ s \in process[p].leases /\ s # process[p].active /\ s \in N!Sessions
              /\ session[s].holder = p
            BY <1>k, <3>1 DEF N!Left, Keeps, Leased
        <3>3. /\ process' \in [Processes -> LogProcess]
              /\ process'[p] = [process[p] EXCEPT !.leases = @ \ {s}, !.step = to]
              /\ \A q \in Processes \ {p} : process'[q] = process[q]
            <4>1. process[p] \in LogProcess
                BY <1>0
            <4>2. [process[p] EXCEPT !.leases = @ \ {s}, !.step = to] \in LogProcess
                BY <4>1, <3>1 DEF LogProcess, LogSteps
            <4>3. process' = [process EXCEPT ![p] = [process[p] EXCEPT !.leases = @ \ {s}, !.step = to]]
                BY <1>0, <3>1
            <4> QED BY <1>0, <4>2, <4>3, <3>1, ProcessStep
        <3>4. /\ process'[p].leases = process[p].leases \ {s}
              /\ process'[p].victims = process[p].victims
              /\ process'[p].candidate = 0 /\ process'[p].step = to
              /\ process'[p].active = process[p].active
            BY <1>k, <2>0, <3>3 DEF LogProcess, LogSteps
        <3>5. /\ session' \in [N!Sessions -> LogSession]
              /\ \A t \in N!Sessions \ {s} : session'[t] = session[t]
              /\ session'[s].exists = session[s].exists
            <4>1. session[s] \in LogSession
                BY <1>0, <3>2
            <4> DEFINE r == [session[s] EXCEPT !.closed = closed, !.holder = N!Free]
            <4>2. r \in LogSession /\ r.exists = session[s].exists
                BY <4>1 DEF LogSession
            <4>3. session' = [session EXCEPT ![s] = r]
                BY <1>0, <3>1, <3>2
            <4> HIDE DEF r
            <4> QED BY <1>0, <3>2, <4>2, <4>3
        <3>6. LogsType'
            BY <1>0, <2>0, <3>3, <3>5 DEF LogsType
        <3>7. \A t \in process'[p].leases : Leased(p, t)'
            BY <1>k, <2>0, <3>4, <3>5 DEF Keeps, Leased
        <3>8. writer[p] # N!Elsewhere => writer[p] \in process'[p].leases
            BY <1>k, <2>0, <3>2, <3>4
        <3>9. Keeps(p)'
            BY <2>0, <3>1, <3>4, <3>7, <3>8 DEF Keeps
        <3>10. \A q \in Processes \ {p} : /\ process'[q] = process[q] /\ writer'[q] = writer[q]
                                          /\ \A t \in process[q].leases : session'[t] = session[t]
                                          /\ \A t \in process'[p].victims : t \notin process[q].leases
            <4>1. TAKE q \in Processes \ {p}
            <4>2. \A t \in process[q].leases : t \in N!Sessions /\ session[t].holder = q
                BY <1>k DEF Keeps, Leased
            <4> QED BY <1>k, <2>0, <3>2, <3>3, <3>4, <3>5, <4>2 DEF Deletes
        <3>11. /\ \A t \in process'[p].leases : t \in process[p].leases \/ t > made
               /\ \A t \in process'[p].victims : t <= made /\ t \notin process'[p].leases
            BY <1>k, <3>4 DEF Deletes
        <3>12. made' >= made /\ \A t \in N!Sessions : t > made' => ~session'[t].exists
            BY <1>0, <2>0, <3>5, SessionFacts
        <3> QED BY <3>6, <3>9, <3>10, <3>11, <3>12, OneLogProcess
    <2> QED BY <2>1, <2>2
<1>8. ASSUME NEW p \in Processes, N!Inventory(p)
      PROVE  LogsInv'
    <2> DEFINE free == {s \in N!Sessions : N!Owned(s) /\ N!Recoverable(p, s)}
    <2>1. /\ session' = [s \in N!Sessions |->
                IF s \in free THEN [session[s] EXCEPT !.closed = TRUE] ELSE session[s]]
          /\ process' = [process EXCEPT ![p].step = "delete", ![p].victims = free]
          /\ UNCHANGED <<writer, made>>
        BY <1>8 DEF N!Inventory
    <2>2. \A s \in free : /\ s \in N!Sessions /\ session[s].exists /\ s <= made
                          /\ \A q \in Processes : s \notin process[q].leases
        <3>1. TAKE s \in free
        <3>2. s \in N!Sessions /\ session[s].exists /\ N!Recoverable(p, s)
            BY DEF N!Owned
        <3>3. s <= made
            BY <1>0, <3>2, SessionFacts
        <3>4. ASSUME NEW q \in Processes, s \in process[q].leases PROVE FALSE
            <4>1. session[s].lease /\ session[s].holder = q
                BY <1>k, <3>4 DEF Keeps, Leased
            <4> QED BY <3>2, <4>1, SessionFacts DEF N!Recoverable
        <3> QED BY <3>2, <3>3, <3>4
    <2>3. free \subseteq N!Sessions
        OBVIOUS
    <2> HIDE DEF free
    <2>4. /\ process' \in [Processes -> LogProcess]
          /\ process'[p] = [process[p] EXCEPT !.step = "delete", !.victims = free]
          /\ \A q \in Processes \ {p} : process'[q] = process[q]
        <3>1. process[p] \in LogProcess
            BY <1>0
        <3>2. [process[p] EXCEPT !.step = "delete", !.victims = free] \in LogProcess
            BY <3>1, <2>1, <2>3 DEF LogProcess, LogSteps
        <3>3. process' = [process EXCEPT ![p] = [process[p] EXCEPT !.step = "delete", !.victims = free]]
            BY <1>0, <2>1, <2>3
        <3> QED BY <1>0, <3>2, <3>3, <2>1, <2>3, ProcessStep
    <2>5. /\ process'[p].leases = process[p].leases /\ process'[p].victims = free
          /\ process'[p].candidate = process[p].candidate /\ process'[p].step = "delete"
        BY <1>k, <2>4 DEF LogProcess, LogSteps
    <2>6. \A s \in N!Sessions : /\ session'[s] \in LogSession
                                /\ session'[s].exists = session[s].exists
                                /\ s \notin free => session'[s] = session[s]
        BY <1>0, <2>1 DEF LogSession
    <2>7. LogsType'
        BY <1>0, <2>1, <2>4, <2>6 DEF LogsType
    <2>8. \A q \in Processes : \A s \in process[q].leases : session'[s] = session[s]
        BY <1>k, <2>2, <2>6
    <2>9. Keeps(p)'
        <3>1. \A s \in process'[p].leases : Leased(p, s)'
            <4>1. TAKE s \in process'[p].leases
            <4>2. Leased(p, s) /\ session'[s] = session[s] /\ made' = made
                BY <1>k, <2>1, <2>5, <2>8 DEF Keeps
            <4> QED BY <4>2 DEF Leased
        <3> QED BY <1>k, <2>1, <2>5, <3>1 DEF Keeps
    <2>10. \A q \in Processes \ {p} : /\ process'[q] = process[q] /\ writer'[q] = writer[q]
                                      /\ \A s \in process[q].leases : session'[s] = session[s]
                                      /\ \A s \in process'[p].victims : s \notin process[q].leases
        BY <2>1, <2>2, <2>4, <2>5, <2>8
    <2>11. \A s \in process'[p].victims : s <= made /\ s \notin process'[p].leases
        BY <2>2, <2>5
    <2>12. made' >= made /\ \A s \in N!Sessions : s > made' => ~session'[s].exists
        BY <1>0, <2>1, <2>6
    <2> QED BY <2>5, <2>7, <2>9, <2>10, <2>11, <2>12, OneLogProcess
<1>9. ASSUME NEW p \in Processes, N!Delete(p)
      PROVE  LogsInv'
    <2>0. UNCHANGED <<writer, made>> /\ process[p].step = "delete"
        BY <1>9 DEF N!Delete
    <2>1. CASE /\ process' = [process EXCEPT ![p].step = "work", ![p].victims = {}]
               /\ session' = session
        <3>1. /\ process' \in [Processes -> LogProcess]
              /\ process'[p] = [process[p] EXCEPT !.step = "work", !.victims = {}]
              /\ \A q \in Processes \ {p} : process'[q] = process[q]
            <4>1. process[p] \in LogProcess
                BY <1>0
            <4>2. [process[p] EXCEPT !.step = "work", !.victims = {}] \in LogProcess
                BY <4>1, <2>1 DEF LogProcess, LogSteps
            <4>3. process' = [process EXCEPT ![p] = [process[p] EXCEPT !.step = "work", !.victims = {}]]
                BY <1>0, <2>1
            <4> QED BY <1>0, <4>2, <4>3, <2>1, ProcessStep
        <3>2. /\ process'[p].leases = process[p].leases /\ process'[p].victims = {}
              /\ process'[p].candidate = process[p].candidate /\ process'[p].step = "work"
            BY <1>k, <3>1 DEF LogProcess, LogSteps
        <3> QED BY <1>0, <1>k, <2>0, <2>1, <3>1, <3>2, SameSessions
    <2>2. ASSUME NEW s \in process[p].victims,
                 process' = [process EXCEPT ![p].victims = @ \ {s}],
                 \/ session' = session
                 \/ session' = [session EXCEPT ![s] = N!NoSession]
                 \/ \E owned, lease, closed \in BOOLEAN :
                      session' = [session EXCEPT ![s] =
                          [@ EXCEPT !.owned = owned, !.lease = @ /\ lease, !.closed = closed]]
          PROVE  LogsInv'
        <3>0. s \in N!Sessions /\ s <= made /\ \A q \in Processes : s \notin process[q].leases
            BY <1>k, <2>2 DEF Deletes
        <3>1. /\ process' \in [Processes -> LogProcess]
              /\ process'[p] = [process[p] EXCEPT !.victims = @ \ {s}]
              /\ \A q \in Processes \ {p} : process'[q] = process[q]
            <4>1. process[p] \in LogProcess
                BY <1>0
            <4>2. [process[p] EXCEPT !.victims = @ \ {s}] \in LogProcess
                BY <4>1, <2>2 DEF LogProcess, LogSteps
            <4>3. process' = [process EXCEPT ![p] = [process[p] EXCEPT !.victims = @ \ {s}]]
                BY <1>0, <2>2
            <4> QED BY <1>0, <4>2, <4>3, <2>2, ProcessStep
        <3>2. /\ process'[p].leases = process[p].leases
              /\ process'[p].victims \subseteq process[p].victims
              /\ process'[p].candidate = process[p].candidate /\ process'[p].step = "delete"
            BY <1>k, <2>0, <3>1 DEF LogProcess, LogSteps
        <3>3. /\ session' \in [N!Sessions -> LogSession]
              /\ \A t \in N!Sessions \ {s} : session'[t] = session[t]
              /\ session'[s].exists => session[s].exists
            <4>1. CASE session' = session
                BY <1>0, <4>1
            <4>2. CASE session' = [session EXCEPT ![s] = N!NoSession]
                BY <1>0, <3>0, <4>2 DEF LogSession, N!NoSession
            <4>3. CASE \E owned, lease, closed \in BOOLEAN :
                      session' = [session EXCEPT ![s] =
                          [@ EXCEPT !.owned = owned, !.lease = @ /\ lease, !.closed = closed]]
                <5>1. PICK owned, lease, closed \in BOOLEAN :
                        session' = [session EXCEPT ![s] =
                          [@ EXCEPT !.owned = owned, !.lease = @ /\ lease, !.closed = closed]]
                    BY <4>3
                <5>2. session' \in [N!Sessions -> LogSession]
                    BY <1>0, <3>0, <5>1, MarkersLeft
                <5>3. session'[s].exists = session[s].exists
                    BY <1>0, <3>0, <5>1
                <5>4. \A t \in N!Sessions \ {s} : session'[t] = session[t]
                    BY <1>0, <3>0, <5>1
                <5> QED BY <5>2, <5>3, <5>4
            <4> QED BY <2>2, <4>1, <4>2, <4>3
        <3>4. LogsType'
            BY <1>0, <2>0, <3>1, <3>3 DEF LogsType
        <3>5. \A q \in Processes : \A t \in process[q].leases : session'[t] = session[t]
            BY <1>k, <3>0, <3>3
        <3>6. Keeps(p)'
            BY <1>k, <2>0, <3>2, <3>5 DEF Keeps, Leased
        <3>7. \A q \in Processes \ {p} : /\ process'[q] = process[q] /\ writer'[q] = writer[q]
                                         /\ \A t \in process[q].leases : session'[t] = session[t]
                                         /\ \A t \in process'[p].victims : t \notin process[q].leases
            BY <1>k, <2>0, <3>1, <3>2, <3>5 DEF Deletes
        <3>8. \A t \in process'[p].victims : t <= made /\ t \notin process'[p].leases
            BY <1>k, <3>2 DEF Deletes
        <3>9. made' >= made /\ \A t \in N!Sessions : t > made' => ~session'[t].exists
            BY <1>0, <2>0, <3>0, <3>3, SessionFacts
        <3> QED BY <3>2, <3>4, <3>6, <3>7, <3>8, <3>9, OneLogProcess
    <2> QED BY <1>9, <2>1, <2>2 DEF N!Delete
<1>10. CASE UNCHANGED N!vars
    BY <1>10 DEF N!vars, LogsInv, LogsType, Keeps, Deletes, Leased
<1> QED BY <1>1, <1>2, <1>3, <1>4, <1>5, <1>6, <1>7, <1>8, <1>9, <1>10 DEF N!Next

\* The directory a native runtime writes to exists and is not closed, whichever process
\* cleans up, however switches fail and processes end (native_logs.py _recover_exited_session,
\* _close_session, prune).
THEOREM WriterAlwaysKept == N!Spec => []WriterKept
<1>1. LogsInv => WriterKept
    BY DEF LogsInv, Keeps, Leased, WriterKept, N!WriterKept
<1> QED BY <1>1, LogsInit, LogsKeep, PTL DEF N!Spec

--------------------------------------------------------------------------------
(* The rotated log *)

LogFile == [lines : Nat, oldest : Int]
RotationStep ==
    [at : {"idle", "prune", "open", "check", "drop", "begin", "append", "unage", "move"},
     number : R!Files]
        \cup [at : {"age"}, number : R!Files, epoch : Int]

RotationType ==
    /\ file \in [R!Files -> LogFile]
    /\ age \in [R!Files -> Int]
    /\ now \in Nat
    /\ step \in RotationStep
    /\ \A k \in R!Files : R!Exists(k) => file[k].oldest \in Nat /\ file[k].oldest <= now

\* An archive is older than the files after it, and no age beside it, also one that
\* an interrupted rotation left, is later than their lines.
AgesOK ==
    /\ \A k \in R!Files : age[k] <= now
    /\ \A j, k \in R!Files : j <= k /\ R!Exists(j) =>
        /\ age[k] <= file[j].oldest
        /\ R!Exists(k) => file[k].oldest <= file[j].oldest

\* Where a rotation is, the place it moves to is empty.
RotationOK ==
    /\ R!At("move") => step.number > 0 /\ ~R!Exists(step.number)
    /\ R!At("age") => /\ step.number > 0 /\ ~R!Exists(step.number - 1)
                      /\ R!Exists(step.number) /\ step.epoch <= file[step.number].oldest
    /\ R!At("unage") => step.number > 0 /\ ~R!Exists(step.number - 1)
    /\ R!At("begin") => ~R!Exists(0)
    /\ R!At("drop") => step.number = Archives

RotationInv == RotationType /\ AgesOK /\ RotationOK

LEMMA FilesFacts ==
    /\ R!Files = 0..Archives /\ Archives \in Nat /\ Archives > 0 /\ 0 \in R!Files
    /\ \A k \in R!Files : k \in Nat /\ (k > 0 => k - 1 \in R!Files)
    /\ \A k \in R!Files : k < Archives => k + 1 \in R!Files
BY PlatformAssumption DEF R!Files

LEMMA RotationInit == R!Init => RotationInv
<1> SUFFICES ASSUME R!Init PROVE RotationInv
    OBVIOUS
<1> USE FilesFacts DEF R!Init, R!NoFile, R!Exists, R!At, R!Idle, R!None
<1>1. \A k \in R!Files : ~R!Exists(k)
    OBVIOUS
<1>2. RotationType
    BY DEF RotationType, LogFile, RotationStep
<1>3. AgesOK
    BY <1>1 DEF AgesOK
<1> QED BY <1>2, <1>3 DEF RotationInv, RotationOK

\* Ages that are known are those beside the file; what is guessed is not later.
LEMMA AgeOfFacts ==
    ASSUME RotationInv, NEW k \in R!Files, R!Exists(k), NEW epoch \in R!AgeOf(k)
    PROVE  epoch \in Int /\ epoch <= file[k].oldest
<1>1. /\ file[k].oldest \in Nat /\ age[k] \in Int
      /\ age[k] <= file[k].oldest
    BY FilesFacts DEF RotationInv, RotationType, AgesOK
<1> QED BY <1>1 DEF R!AgeOf

\* Deleting files and dropping ages keeps the order.
LEMMA FewerFiles ==
    ASSUME RotationInv, now' = now,
           file' \in [R!Files -> LogFile], age' \in [R!Files -> Int],
           \A k \in R!Files : /\ file'[k] = file[k] \/ file'[k] = R!NoFile
                              /\ age'[k] = age[k] \/ age'[k] = R!None
    PROVE  /\ \A k \in R!Files : R!Exists(k)' => R!Exists(k) /\ file'[k] = file[k]
           /\ AgesOK'
           /\ step' \in RotationStep => RotationType'
<1>1. \A k \in R!Files : R!Exists(k)' => R!Exists(k) /\ file'[k] = file[k]
    BY DEF R!Exists, R!NoFile
<1>2. \A k \in R!Files : age'[k] \in Int /\ age'[k] <= now /\ now \in Nat
                         /\ (age'[k] = age[k] \/ age'[k] = -1)
    BY DEF RotationInv, RotationType, AgesOK, R!None
<1>3. \A j, k \in R!Files : j <= k /\ R!Exists(j)' =>
        /\ age'[k] <= file'[j].oldest
        /\ R!Exists(k)' => file'[k].oldest <= file'[j].oldest
    <2>1. TAKE j, k \in R!Files
    <2>2. HAVE j <= k /\ R!Exists(j)'
    <2>3. /\ R!Exists(j) /\ file'[j] = file[j] /\ file[j].oldest \in Nat
          /\ age[k] <= file[j].oldest /\ age[k] \in Int
          /\ R!Exists(k) => file[k].oldest <= file[j].oldest
        BY <1>1, <2>2 DEF RotationInv, RotationType, AgesOK
    <2>4. age'[k] <= file'[j].oldest
        BY <1>2, <2>3
    <2> QED BY <1>1, <2>3, <2>4
<1>4. AgesOK'
    BY <1>2, <1>3 DEF AgesOK
<1>5. step' \in RotationStep => RotationType'
    BY <1>1 DEF RotationInv, RotationType
<1> QED BY <1>1, <1>4, <1>5

\* A new age that is not later than the file beside it, or none beside it but later
\* ones, keeps the order.
LEMMA NewAge ==
    ASSUME RotationInv, NEW k \in R!Files, NEW epoch \in Int, epoch <= now,
           file' = file, now' = now, age' = [age EXCEPT ![k] = epoch],
           \A j \in R!Files : j <= k /\ R!Exists(j) => epoch <= file[j].oldest
    PROVE  AgesOK' /\ (step' \in RotationStep => RotationType')
<1>1. age' \in [R!Files -> Int]
    BY DEF RotationInv, RotationType
<1>2. \A i \in R!Files : age'[i] = IF i = k THEN epoch ELSE age[i]
    BY DEF RotationInv, RotationType
<1>3. \A i \in R!Files : R!Exists(i)' <=> R!Exists(i)
    BY DEF R!Exists
<1>4. AgesOK'
    BY <1>2, <1>3 DEF RotationInv, AgesOK
<1> QED BY <1>1, <1>3, <1>4 DEF RotationInv, RotationType

LEMMA RotationKeeps == RotationInv /\ [R!Next]_R!vars => RotationInv'
<1> SUFFICES ASSUME RotationInv, [R!Next]_R!vars PROVE RotationInv'
    OBVIOUS
<1>f. /\ R!Files = 0..Archives /\ Archives \in Nat /\ Archives > 0 /\ 0 \in R!Files
      /\ \A k \in R!Files : k \in Nat /\ (k > 0 => k - 1 \in R!Files)
      /\ \A k \in R!Files : k < Archives => k + 1 \in R!Files
    BY FilesFacts
<1>0. /\ RotationType /\ AgesOK /\ RotationOK
      /\ file \in [R!Files -> LogFile] /\ age \in [R!Files -> Int] /\ now \in Nat
      /\ step \in RotationStep /\ step.number \in R!Files
    BY DEF RotationInv, RotationType, RotationStep
<1>k. ASSUME UNCHANGED <<file, age, now>>,
             step' \in RotationStep, RotationOK'
      PROVE  RotationInv'
    <2>1. \A k \in R!Files : R!Exists(k)' <=> R!Exists(k)
        BY <1>k DEF R!Exists
    <2>2. RotationType' /\ AgesOK'
        BY <1>0, <1>k, <2>1 DEF RotationType, AgesOK
    <2> QED BY <1>k, <2>2 DEF RotationInv
<1>s. ASSUME NEW at \in {"idle", "prune", "open", "check", "append"},
             step' = [at |-> at, number |-> 0]
      PROVE  step' \in RotationStep /\ RotationOK'
    BY <1>f, <1>s DEF RotationStep, RotationOK, R!At
<1>1. CASE R!Write
    BY <1>1, <1>k, <1>s DEF R!Write, R!Go
<1>2. CASE R!Prune
    <2> DEFINE k == step.number
               next == IF k < Archives THEN [at |-> "prune", number |-> k + 1]
                       ELSE [at |-> "open", number |-> 0]
    <2>1. next \in RotationStep /\ (step' = next => RotationOK')
        BY <1>0, <1>f DEF RotationStep, RotationOK, R!At
    <2>2. step' = step => RotationOK'
        BY <1>2 DEF R!Prune, RotationOK, R!At
    <2>3. step' \in {step, next} /\ now' = now
        BY <1>2 DEF R!Prune
    <2>4. R!None \in Int /\ R!NoFile \in LogFile
        BY DEF R!None, R!NoFile, LogFile
    <2>5. file' \in {file, [file EXCEPT ![k] = R!NoFile]}
          /\ age' \in {age, [age EXCEPT ![k] = R!None]}
        BY <1>2 DEF R!Prune
    <2> HIDE DEF next, k
    <2>6. file' \in [R!Files -> LogFile] /\ age' \in [R!Files -> Int]
        BY <1>0, <2>4, <2>5
    <2>7. \A i \in R!Files : /\ file'[i] = file[i] \/ file'[i] = R!NoFile
                             /\ age'[i] = age[i] \/ age'[i] = R!None
        BY <1>0, <2>5
    <2>8. AgesOK' /\ RotationType'
        BY <1>0, <2>1, <2>3, <2>6, <2>7, FewerFiles
    <2> QED BY <2>1, <2>2, <2>3, <2>8 DEF RotationInv
<1>3. CASE R!Open
    <2>1. step' = [at |-> "check", number |-> 0] /\ UNCHANGED <<file, now>>
        BY <1>3 DEF R!Open, R!Go
    <2>2. step' \in RotationStep /\ RotationOK'
        BY <1>s, <2>1
    <2>3. CASE age' = age
        BY <1>k, <2>1, <2>2, <2>3
    <2>4. CASE age' # age
        <3>1. PICK epoch \in R!Opened : age' = [age EXCEPT ![0] = epoch]
            BY <1>3, <2>4 DEF R!Open
        <3>2. CASE R!Exists(0)
            <4>1. epoch \in Int /\ epoch <= file[0].oldest
                BY <1>f, <3>1, <3>2, AgeOfFacts DEF R!Opened
            <4>2. file[0].oldest \in Nat /\ file[0].oldest <= now
                BY <1>0, <1>f, <3>2 DEF RotationType
            <4>3. \A j \in R!Files : j <= 0 /\ R!Exists(j) => epoch <= file[j].oldest
                BY <1>f, <4>1
            <4>4. epoch <= now
                BY <1>0, <4>1, <4>2
            <4>5. AgesOK' /\ RotationType'
                BY <1>f, <2>1, <2>2, <3>1, <4>1, <4>3, <4>4, NewAge
            <4> QED BY <2>2, <4>5 DEF RotationInv
        <3>3. CASE ~R!Exists(0)
            <4>1. epoch = now
                BY <3>1, <3>3 DEF R!Opened
            <4>2. \A j \in R!Files : j <= 0 /\ R!Exists(j) => epoch <= file[j].oldest
                BY <1>f, <3>3
            <4>3. epoch \in Int /\ epoch <= now
                BY <1>0, <4>1
            <4>4. AgesOK' /\ RotationType'
                BY <1>f, <2>1, <2>2, <3>1, <4>2, <4>3, NewAge
            <4> QED BY <2>2, <4>4 DEF RotationInv
        <3> QED BY <3>2, <3>3
    <2> QED BY <2>3, <2>4
<1>4. CASE R!CheckRotation
    <2>1. UNCHANGED <<file, age, now>>
        BY <1>4 DEF R!CheckRotation
    <2>2. CASE step' = [at |-> "drop", number |-> Archives]
        <3>1. step' \in RotationStep /\ RotationOK'
            BY <1>f, <2>2 DEF RotationStep, RotationOK, R!At
        <3> QED BY <1>k, <2>1, <3>1
    <2>3. CASE step' = [at |-> "append", number |-> 0]
        BY <1>k, <1>s, <2>1, <2>3
    <2> QED BY <1>4, <2>2, <2>3 DEF R!CheckRotation, R!Go
<1>5. CASE R!DropLast
    <2>1. step.number = Archives /\ now' = now
        BY <1>0, <1>5 DEF R!DropLast, RotationOK
    <2>2. /\ file' \in {file, [file EXCEPT ![Archives] = R!NoFile]}
          /\ age' \in {age, [age EXCEPT ![Archives] = R!None]}
          /\ \/ step' = step
             \/ /\ step' = [at |-> "move", number |-> Archives]
                /\ file' = file /\ ~R!Exists(Archives)
        BY <1>5 DEF R!DropLast, R!Go
    <2>3. R!None \in Int /\ R!NoFile \in LogFile /\ Archives \in R!Files
        BY <1>f DEF R!None, R!NoFile, LogFile
    <2>4. file' \in [R!Files -> LogFile] /\ age' \in [R!Files -> Int]
        BY <1>0, <2>2, <2>3
    <2>5. \A i \in R!Files : /\ file'[i] = file[i] \/ file'[i] = R!NoFile
                             /\ age'[i] = age[i] \/ age'[i] = R!None
        BY <1>0, <2>2
    <2>6. step' \in RotationStep
        BY <1>0, <2>2, <2>3 DEF RotationStep
    <2>7. RotationOK'
        <3>1. CASE step' = step
            BY <1>5, <2>1, <3>1 DEF R!DropLast, RotationOK, R!At
        <3>2. CASE step' = [at |-> "move", number |-> Archives] /\ file' = file
                   /\ ~R!Exists(Archives)
            BY <1>f, <3>2 DEF RotationOK, R!At, R!Exists
        <3> QED BY <2>2, <3>1, <3>2
    <2>8. AgesOK' /\ RotationType'
        BY <2>1, <2>4, <2>5, <2>6, FewerFiles
    <2> QED BY <2>7, <2>8 DEF RotationInv
<1>n. ASSUME NEW k \in R!Files, k > 0, step' = R!NextArchive(k), ~R!Exists(k - 1)'
      PROVE  step' \in RotationStep /\ RotationOK'
    <2>1. CASE k > 1
        <3>1. step' = [at |-> "move", number |-> k - 1]
            BY <1>n, <2>1 DEF R!NextArchive
        <3> QED BY <1>f, <1>n, <2>1, <3>1 DEF RotationStep, RotationOK, R!At, R!Exists
    <2>2. CASE k = 1
        <3>1. step' = [at |-> "begin", number |-> 0]
            BY <1>n, <2>2 DEF R!NextArchive
        <3> QED BY <1>f, <1>n, <2>2, <3>1 DEF RotationStep, RotationOK, R!At, R!Exists
    <2> QED BY <1>f, <1>n, <2>1, <2>2
<1>6. CASE R!Move
    <2> DEFINE k == step.number
    <2>1. k \in R!Files /\ k > 0 /\ k - 1 \in R!Files /\ ~R!Exists(k) /\ k \in Nat
        BY <1>0, <1>6, <1>f DEF R!Move, RotationOK
    <2>2. UNCHANGED <<age, now>>
        BY <1>6 DEF R!Move
    <2>3. CASE ~R!Exists(k - 1)
        <3>1. file' = file /\ step' = R!NextArchive(k)
            BY <1>6, <2>3 DEF R!Move
        <3>2. step' \in RotationStep /\ RotationOK'
            <4> HIDE DEF k
            <4>1. PICK n \in R!Files : n = k
                BY <2>1
            <4>2. ~R!Exists(n - 1)'
                BY <2>3, <3>1, <4>1 DEF R!Exists
            <4> QED BY <1>n, <2>1, <3>1, <4>1, <4>2
        <3> QED BY <1>k, <2>2, <3>1, <3>2
    <2>4. CASE R!Exists(k - 1)
        <3>1. PICK epoch \in R!AgeOf(k - 1) :
                step' = [at |-> "age", number |-> k, epoch |-> epoch]
            BY <1>6, <2>4 DEF R!Move
        <3>0. file' = [file EXCEPT ![k] = file[k - 1], ![k - 1] = R!NoFile]
            BY <1>6, <2>4 DEF R!Move
        <3>2. PICK n \in R!Files : n = k
            BY <2>1
        <3>3. PICK m \in R!Files : m = n - 1 /\ m # n
            BY <2>1, <3>2
        <3>4. /\ file' \in [R!Files -> LogFile]
              /\ file'[n] = file[m] /\ file'[m] = R!NoFile
              /\ \A i \in R!Files : i # n /\ i # m => file'[i] = file[i]
            <4>1. R!NoFile \in LogFile /\ k - 1 # k
                BY <2>1 DEF R!NoFile, R!None, LogFile
            <4> HIDE DEF k
            <4>2. /\ file' \in [R!Files -> LogFile]
                  /\ file'[k] = file[k - 1] /\ file'[k - 1] = R!NoFile
                  /\ \A i \in R!Files : i # k /\ i # k - 1 => file'[i] = file[i]
                BY <1>0, <2>1, <3>0, <4>1
            <4> QED BY <3>2, <3>3, <4>2
        <3> HIDE DEF k
        <3>5. /\ R!Exists(n)' /\ ~R!Exists(n - 1)'
              /\ \A i \in R!Files : i # n /\ i # n - 1 => (R!Exists(i)' <=> R!Exists(i))
            BY <2>4, <3>2, <3>3, <3>4 DEF R!Exists, R!NoFile
        <3>6. epoch \in Int /\ epoch <= file[n - 1].oldest
            BY <2>1, <2>4, <3>1, <3>2, AgeOfFacts
        <3>7. step' = [at |-> "age", number |-> n, epoch |-> epoch] /\ step' \in RotationStep
            BY <3>1, <3>2, <3>6 DEF RotationStep
        <3>8. RotationOK'
            BY <2>1, <3>2, <3>3, <3>4, <3>5, <3>6, <3>7 DEF RotationOK, R!At, R!Exists
        <3>9. \A i \in R!Files : R!Exists(i)' => /\ file'[i].oldest \in Nat
                                                 /\ file'[i].oldest <= now
            <4>1. TAKE i \in R!Files
            <4>2. R!Exists(n - 1) /\ n - 1 \in R!Files
                BY <2>1, <2>4, <3>2
            <4> QED BY <1>0, <3>3, <3>4, <3>5, <4>2 DEF RotationType
        <3>10. RotationType'
            BY <1>0, <2>2, <3>4, <3>7, <3>9 DEF RotationType
        <3>11. ASSUME NEW i \in R!Files, NEW j \in R!Files, i <= j, R!Exists(i)'
               PROVE  /\ age[j] <= file'[i].oldest
                      /\ R!Exists(j)' => file'[j].oldest <= file'[i].oldest
            <4>0. R!Exists(n - 1) /\ n - 1 \in R!Files /\ ~R!Exists(n) /\ n \in Nat
                BY <2>1, <2>4, <3>2
            <4>1. CASE i = n
                <5>1. n - 1 <= j /\ j # n - 1 /\ file'[i] = file[n - 1]
                    BY <1>f, <3>3, <3>4, <3>11, <4>0, <4>1
                <5>2. age[j] <= file[n - 1].oldest
                    BY <1>0, <4>0, <5>1 DEF AgesOK
                <5>3. CASE j = n
                    BY <1>0, <3>3, <3>9, <3>4, <4>0, <4>1, <5>2, <5>3, <5>1
                <5>4. CASE j # n
                    BY <1>0, <3>3, <3>4, <3>5, <4>0, <5>1, <5>2, <5>4 DEF AgesOK
                <5> QED BY <5>3, <5>4
            <4>2. CASE i # n
                <5>1. i # n - 1 /\ R!Exists(i) /\ file'[i] = file[i]
                    BY <3>3, <3>4, <3>5, <3>11, <4>2
                <5>2. age[j] <= file[i].oldest
                    BY <1>0, <3>11, <5>1 DEF AgesOK
                <5>3. CASE j = n
                    <6>1. i <= n - 1
                        BY <1>f, <3>11, <4>0, <4>2, <5>3
                    <6> QED BY <1>0, <3>3, <3>4, <4>0, <5>1, <5>2, <5>3, <6>1 DEF AgesOK
                <5>4. CASE j = n - 1
                    BY <3>3, <3>5, <5>1, <5>2, <5>4
                <5>5. CASE j # n /\ j # n - 1
                    BY <1>0, <3>3, <3>4, <3>5, <3>11, <5>1, <5>2, <5>5 DEF AgesOK
                <5> QED BY <5>3, <5>4, <5>5
            <4> QED BY <4>1, <4>2
        <3>12. AgesOK'
            BY <1>0, <2>2, <3>11 DEF AgesOK
        <3> QED BY <3>8, <3>10, <3>12 DEF RotationInv
    <2> QED BY <2>3, <2>4
<1>7. CASE R!WriteAge
    <2> DEFINE k == step.number
               epoch == step.epoch
    <2>1. /\ k \in R!Files /\ k > 0 /\ ~R!Exists(k - 1) /\ R!Exists(k) /\ epoch <= file[k].oldest
          /\ epoch \in Int
        <3>1. step.at = "age"
            BY <1>7 DEF R!WriteAge, R!At
        <3>2. epoch \in Int
            BY <1>0, <3>1 DEF RotationStep
        <3> QED BY <1>0, <3>1, <3>2 DEF RotationOK, R!At
    <2>2. /\ age' = [age EXCEPT ![k] = epoch] /\ UNCHANGED <<file, now>>
          /\ step' = [at |-> "unage", number |-> k]
        BY <1>7 DEF R!WriteAge, R!Go
    <2> HIDE DEF k, epoch
    <2>3. \A j \in R!Files : j <= k /\ R!Exists(j) => epoch <= file[j].oldest
        BY <1>0, <2>1 DEF AgesOK, RotationType
    <2>4. epoch <= now
        BY <1>0, <2>1 DEF RotationType
    <2>5. step' \in RotationStep /\ RotationOK'
        BY <2>1, <2>2 DEF RotationStep, RotationOK, R!At, R!Exists
    <2>6. AgesOK' /\ RotationType'
        BY <2>1, <2>2, <2>3, <2>4, <2>5, NewAge
    <2> QED BY <2>5, <2>6 DEF RotationInv
<1>8. CASE R!DropAge
    <2> DEFINE k == step.number
    <2>1. k \in R!Files /\ k > 0 /\ ~R!Exists(k - 1) /\ k - 1 \in R!Files
        BY <1>0, <1>8, <1>f DEF R!DropAge, RotationOK
    <2>2. /\ age' = [age EXCEPT ![k - 1] = R!None] /\ UNCHANGED <<file, now>>
          /\ step' = R!NextArchive(k)
        BY <1>8 DEF R!DropAge
    <2> HIDE DEF k
    <2>3. PICK n \in R!Files : n = k
        BY <2>1
    <2>4. ~R!Exists(n - 1)'
        BY <2>1, <2>2, <2>3 DEF R!Exists
    <2>5. step' \in RotationStep /\ RotationOK'
        BY <1>n, <2>1, <2>2, <2>3, <2>4
    <2>6. /\ file' \in [R!Files -> LogFile] /\ age' \in [R!Files -> Int]
          /\ \A i \in R!Files : age'[i] = age[i] \/ age'[i] = R!None
        BY <1>0, <2>1, <2>2 DEF R!None
    <2>7. AgesOK' /\ RotationType'
        BY <2>2, <2>5, <2>6, FewerFiles
    <2> QED BY <2>5, <2>7 DEF RotationInv
<1>9. CASE R!BeginFile
    <2>1. /\ age' = [age EXCEPT ![0] = now] /\ UNCHANGED <<file, now>>
          /\ step' = [at |-> "append", number |-> 0] /\ ~R!Exists(0)
        BY <1>0, <1>9 DEF R!BeginFile, R!Go, RotationOK
    <2>2. \A j \in R!Files : j <= 0 /\ R!Exists(j) => now <= file[j].oldest
        BY <1>f, <2>1
    <2>3. step' \in RotationStep /\ RotationOK'
        BY <1>s, <2>1
    <2>4. AgesOK' /\ RotationType'
        <3>1. PICK t \in Int : t = now /\ t <= now
            BY <1>0
        <3>2. age' = [age EXCEPT ![0] = t] /\ \A j \in R!Files : j <= 0 /\ R!Exists(j) => t <= file[j].oldest
            BY <2>1, <2>2, <3>1
        <3> QED BY <1>f, <2>1, <2>3, <3>1, <3>2, NewAge
    <2> QED BY <2>3, <2>4 DEF RotationInv
<1>10. CASE R!AppendLine
    <2> DEFINE line == [lines |-> file[0].lines + 1,
                        oldest |-> IF file[0].lines = 0 THEN now ELSE file[0].oldest]
    <2>1. /\ file' = [file EXCEPT ![0] = line] /\ UNCHANGED <<age, now>>
          /\ step' = [at |-> "idle", number |-> 0]
        BY <1>10 DEF R!AppendLine, R!Idle
    <2>2. step' \in RotationStep /\ RotationOK'
        BY <1>s, <2>1
    <2>3. file[0] \in LogFile /\ (file[0].lines = 0 <=> ~R!Exists(0))
        BY <1>0, <1>f DEF LogFile, R!Exists
    <2>4. line.oldest = (IF R!Exists(0) THEN file[0].oldest ELSE now) /\ line.lines > 0
          /\ line \in LogFile
        BY <1>0, <2>3 DEF LogFile
    <2> HIDE DEF line
    <2>5. /\ file' \in [R!Files -> LogFile] /\ file'[0] = line
          /\ \A i \in R!Files : i # 0 => file'[i] = file[i]
        BY <1>0, <1>f, <2>1, <2>4
    <2>6. /\ R!Exists(0)'
          /\ \A i \in R!Files : i # 0 => (R!Exists(i)' <=> R!Exists(i))
        BY <2>4, <2>5 DEF R!Exists
    <2>7. line.oldest \in Nat /\ line.oldest <= now
        BY <1>0, <1>f, <2>4 DEF RotationType
    <2>8. RotationType'
        BY <1>0, <2>1, <2>2, <2>5, <2>6, <2>7 DEF RotationType
    <2>9. ASSUME NEW i \in R!Files, NEW j \in R!Files, i <= j, R!Exists(i)'
          PROVE  /\ age[j] <= file'[i].oldest
                 /\ R!Exists(j)' => file'[j].oldest <= file'[i].oldest
        <3>1. CASE i # 0
            <4>1. j # 0 /\ R!Exists(i) /\ file'[i] = file[i]
                BY <1>f, <2>5, <2>6, <2>9, <3>1
            <4> QED BY <1>0, <2>5, <2>6, <2>9, <4>1 DEF AgesOK
        <3>2. CASE i = 0 /\ R!Exists(0)
            <4>1. file'[i].oldest = file[0].oldest
                BY <2>4, <2>5, <3>2
            <4>2. age[j] <= file[0].oldest /\ (R!Exists(j) => file[j].oldest <= file[0].oldest)
                BY <1>0, <1>f, <2>9, <3>2 DEF AgesOK
            <4>3. R!Exists(j)' => file'[j].oldest = file[j].oldest /\ R!Exists(j)
                BY <2>4, <2>5, <2>6, <3>2
            <4> QED BY <4>1, <4>2, <4>3
        <3>3. CASE i = 0 /\ ~R!Exists(0)
            <4>1. file'[i].oldest = now
                BY <2>4, <2>5, <3>3
            <4>2. age[j] <= now
                BY <1>0 DEF AgesOK
            <4>3. R!Exists(j)' => file'[j].oldest <= now
                BY <1>0, <2>1, <2>8 DEF RotationType
            <4> QED BY <4>1, <4>2, <4>3
        <3> QED BY <3>1, <3>2, <3>3
    <2>10. AgesOK'
        BY <1>0, <2>1, <2>9 DEF AgesOK
    <2> QED BY <2>2, <2>8, <2>10 DEF RotationInv
<1>11. CASE R!Drop \/ R!Restart
    <2>1. UNCHANGED <<file, age, now>> /\ step' = [at |-> "idle", number |-> 0]
        BY <1>11 DEF R!Drop, R!Restart, R!Idle
    <2> QED BY <1>k, <1>s, <2>1
<1>12. CASE R!Tick
    <2>1. UNCHANGED <<file, age, step>> /\ now' = now + 1
        BY <1>12 DEF R!Tick
    <2>2. RotationOK'
        BY <1>0, <2>1 DEF RotationOK, R!At, R!Exists
    <2>3. RotationType'
        BY <1>0, <2>1 DEF RotationType, R!Exists
    <2>4. AgesOK'
        BY <1>0, <2>1 DEF AgesOK, R!Exists
    <2> QED BY <2>2, <2>3, <2>4 DEF RotationInv
<1>13. CASE UNCHANGED R!vars
    <2>1. UNCHANGED <<file, age, now, step>>
        BY <1>13 DEF R!vars
    <2>2. step' \in RotationStep /\ RotationOK'
        BY <1>0, <2>1 DEF RotationOK, R!At, R!Exists
    <2> QED BY <1>k, <2>1, <2>2
<1> QED BY <1>1, <1>2, <1>3, <1>4, <1>5, <1>6, <1>7, <1>8, <1>9, <1>10, <1>11, <1>12, <1>13
        DEF R!Next

\* However a rotation is interrupted, what is recorded beside a file is never later
\* than its first line, so no line is kept for longer (process_logs.py write, _rotate).
THEOREM OldLinesStayOld == R!Spec => []OldStaysOld
<1>1. RotationInv => OldStaysOld
    BY FilesFacts DEF RotationInv, AgesOK, OldStaysOld, R!OldStaysOld
<1> QED BY <1>1, RotationInit, RotationKeeps, PTL DEF R!Spec

--------------------------------------------------------------------------------
(* The platform *)

\* Each part of the platform behaves as its own module says: the others share no variable
\* with it.
LEMMA PartsOfPlatform ==
    PlatformSpec => Spec /\ S!Spec /\ I!Spec /\ P!Spec /\ C!Spec /\ N!Spec /\ R!Spec
<1>1. PlatformInit => Init /\ S!Init /\ I!Init /\ P!Init /\ C!Init /\ N!Init /\ R!Init
    BY DEF PlatformInit
<1>2. [PlatformNext]_platform => [Next]_vars
    BY DEF PlatformNext, platform, auth, vars
<1>3. [PlatformNext]_platform => [S!Next]_(S!vars)
    BY DEF PlatformNext, platform, sourceCache, S!vars
<1>4. [PlatformNext]_platform => [C!Next]_(C!vars)
    BY DEF PlatformNext, platform, client, C!vars
<1>5. [PlatformNext]_platform => [N!Next]_(N!vars)
    BY DEF PlatformNext, platform, nativeLogs, N!vars
<1>6. [PlatformNext]_platform => [R!Next]_(R!vars)
    BY DEF PlatformNext, platform, rotation, R!vars
<1>7. [PlatformNext]_platform => [I!Next]_(I!vars)
    BY DEF PlatformNext, platform, identities, I!vars
<1>8. [PlatformNext]_platform => [P!Next]_(P!vars)
    BY DEF PlatformNext, platform, portraits, P!vars
<1> QED BY <1>1, <1>2, <1>3, <1>4, <1>5, <1>6, <1>7, <1>8, PTL
        DEF PlatformSpec, Spec, S!Spec, I!Spec, P!Spec, C!Spec, N!Spec, R!Spec

\* The invariants and the action properties of the run of Platform hold together, over
\* everything the platform can do.
THEOREM PlatformIsSafe ==
    PlatformSpec =>
        /\ [](/\ ServesRightCopy /\ UsedFilesExist /\ AuditExplains
              /\ NavigatesForSelection /\ AnsweredInOneEpoch /\ NoCircularWait
              /\ WriterKept /\ OldStaysOld)
        /\ NeverRedirected /\ StaleRefused /\ LetInWithLiveToken
BY PartsOfPlatform, CopyIsServedWhole, UsedFilesAlwaysExist, AuditAlwaysExplains,
   NeverRedirects, StaleIsRefused, NavigatesForTheSelection,
   AnswersAreOfOneEpoch, LocksNeverCircle, WriterAlwaysKept, OldLinesStayOld, LetInIsLive, PTL
================================================================================
