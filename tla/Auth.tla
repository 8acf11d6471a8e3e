--------------------------------- MODULE Auth ---------------------------------
(***************************************************************************)
(* Sessions of the application (api/auth.py, api/routers/auth.py,          *)
(* api/auth_cli.py, api/main.py).                                          *)
(*                                                                         *)
(* Processes of the application, an old one that still runs and its        *)
(* successor, and the command that revokes all sessions share a database.  *)
(* Each has the secret that was configured when it was started.  A token   *)
(* is in the database from its login until a logout or until a process     *)
(* with another secret starts.                                             *)
(***************************************************************************)
EXTENDS Integers, FiniteSets

CONSTANTS
    Apps,           \* processes of the application
    Secrets,        \* values of MAA_AUTH_SECRET_SHA256
    MaxTokens,      \* bound: tokens issued
    MaxRequests,    \* bound: starts, logins, requests, commands
    MaxFaults       \* bound: transactions that fail

None == "none"

VARIABLES
    secret,         \* what the environment has now
    fingerprint,    \* auth_metadata
    tokens,         \* auth_sessions
    app,            \* each process: its secret, is it serving, what it handles
    command,        \* the command: its secret, is it initialized
    issued,         \* history: the tokens issued so far
    rotations,      \* history: how often the fingerprint was replaced
    ended,          \* history: the tokens of logouts and revocations that were answered
    left,           \* requests left
    faults          \* faults left

vars == <<secret, fingerprint, tokens, app, command, issued, rotations, ended, left, faults>>

\* A token's hash is its number; secret and rotation are those it was issued under.
NoToken == [id |-> 0, secret |-> None, rotation |-> 0]
Down == [state |-> "down", secret |-> None, cooling |-> FALSE, task |-> None, token |-> NoToken]
NoCommand == [secret |-> None, ready |-> FALSE]

----------------------------------------------------------------------------
(* The store *)

\* Mutant of Survivors: a rotation replaces the fingerprint only.
SurvivorsAll(s) == tokens

\* The sessions that a startup with this secret leaves.
Survivors(s) == IF fingerprint = s THEN tokens ELSE {}

\* SessionStore.initialize, one transaction.
Initialized(s) ==
    /\ fingerprint' = s
    /\ tokens' = Survivors(s)
    /\ rotations' = IF fingerprint = s THEN rotations ELSE rotations + 1

\* _check_fingerprint: what has an outdated secret may not go on.
Matches(s) == fingerprint = s

Fails == faults > 0 /\ faults' = faults - 1

Spend == left > 0 /\ left' = left - 1

----------------------------------------------------------------------------
(* Processes *)

Rotate ==
    /\ Spend
    /\ \E s \in Secrets \ {secret} : secret' = s
    /\ UNCHANGED <<fingerprint, tokens, app, command, issued, rotations, ended, faults>>

\* create_app reads the secret; the database is initialized when the loop starts.
Start(i) ==
    /\ app[i].state = "down" /\ Spend
    /\ app' = [app EXCEPT ![i] = [Down EXCEPT !.state = "starting", !.secret = secret]]
    /\ UNCHANGED <<secret, fingerprint, tokens, command, issued, rotations, ended, faults>>

\* A rotation that fails leaves the old sessions, and the process ends.
Initialize(i) ==
    /\ app[i].state = "starting"
    /\ \/ /\ Initialized(app[i].secret)
          /\ app' = [app EXCEPT ![i].state = "serving"]
          /\ UNCHANGED faults
       \/ /\ Fails
          /\ app' = [app EXCEPT ![i] = Down]
          /\ UNCHANGED <<fingerprint, tokens, rotations>>
    /\ UNCHANGED <<secret, command, issued, ended, left>>

Exit(i) ==
    /\ app[i].state # "down"
    /\ app' = [app EXCEPT ![i] = Down]
    /\ UNCHANGED <<secret, fingerprint, tokens, command, issued, rotations, ended, left, faults>>

----------------------------------------------------------------------------
(* Requests *)

Idle(i) == app[i].state = "serving" /\ app[i].task = None

\* Every attempt, right or wrong, uses up the limiter's budget.
Login(i) ==
    /\ Idle(i) /\ ~app[i].cooling /\ Spend
    /\ \E s \in Secrets :
        app' = [app EXCEPT ![i].cooling = TRUE,
                           ![i].task = IF s = app[i].secret THEN "issue" ELSE None]
    /\ UNCHANGED <<secret, fingerprint, tokens, command, issued, rotations, ended, faults>>

CoolDown(i) ==
    /\ app[i].cooling
    /\ app' = [app EXCEPT ![i].cooling = FALSE]
    /\ UNCHANGED <<secret, fingerprint, tokens, command, issued, rotations, ended, left, faults>>

\* The comparison was in the event loop; this is a later transaction of a worker.
\* The answer is lost with the process, so the user may never have a token that is
\* in the database.
Issue(i) ==
    /\ app[i].task = "issue"
    /\ Cardinality(issued) < MaxTokens
    /\ app' = [app EXCEPT ![i].task = None]
    /\ \/ /\ Matches(app[i].secret)
          /\ LET token == [id |-> Cardinality(issued) + 1, secret |-> app[i].secret,
                           rotation |-> rotations]
             IN  /\ tokens' = tokens \cup {token.id}
                 /\ issued' = issued \cup {token}
          /\ UNCHANGED faults
       \/ /\ ~Matches(app[i].secret)
          /\ UNCHANGED <<tokens, issued, faults>>
       \/ /\ Fails
          /\ UNCHANGED <<tokens, issued>>
    /\ UNCHANGED <<secret, fingerprint, command, rotations, ended, left>>

\* AuthMiddleware: the token is looked for before the body is read.
Contains(i) ==
    /\ Idle(i) /\ Spend
    /\ \E token \in issued, task \in {"business", "logout"} :
        /\ Matches(app[i].secret) /\ token.id \in tokens
        /\ app' = [app EXCEPT ![i].task = task, ![i].token = token]
    /\ UNCHANGED <<secret, fingerprint, tokens, command, issued, rotations, ended, faults>>

\* What was let in goes on, even if its token ends meanwhile.
Handle(i) ==
    /\ app[i].task = "business"
    /\ app' = [app EXCEPT ![i].task = None, ![i].token = NoToken]
    /\ UNCHANGED <<secret, fingerprint, tokens, command, issued, rotations, ended, left, faults>>

Logout(i) ==
    /\ app[i].task = "logout"
    /\ app' = [app EXCEPT ![i].task = None, ![i].token = NoToken]
    /\ \/ /\ Matches(app[i].secret)
          /\ tokens' = tokens \ {app[i].token.id}
          /\ ended' = ended \cup {app[i].token.id}
          /\ UNCHANGED faults
       \/ /\ ~Matches(app[i].secret)
          /\ UNCHANGED <<tokens, ended, faults>>
       \/ /\ Fails
          /\ UNCHANGED <<tokens, ended>>
    /\ UNCHANGED <<secret, fingerprint, command, issued, rotations, left>>

----------------------------------------------------------------------------
(* revoke-all, run with the environment of its shell *)

StartCommand ==
    /\ command = NoCommand /\ Spend
    /\ \E s \in Secrets : command' = [secret |-> s, ready |-> FALSE]
    /\ UNCHANGED <<secret, fingerprint, tokens, app, issued, rotations, ended, faults>>

InitializeCommand ==
    /\ command # NoCommand /\ ~command.ready
    /\ Initialized(command.secret)
    /\ command' = [command EXCEPT !.ready = TRUE]
    /\ UNCHANGED <<secret, app, issued, ended, left, faults>>

RevokeAll ==
    /\ command.ready
    /\ command' = NoCommand
    /\ IF Matches(command.secret)
       THEN /\ tokens' = {}
            /\ ended' = ended \cup {token.id : token \in issued}
       ELSE UNCHANGED <<tokens, ended>>
    /\ UNCHANGED <<secret, fingerprint, app, issued, rotations, left, faults>>

Init ==
    /\ secret \in Secrets
    /\ fingerprint = None /\ tokens = {}
    /\ app = [i \in Apps |-> Down]
    /\ command = NoCommand
    /\ issued = {} /\ rotations = 0 /\ ended = {}
    /\ left = MaxRequests /\ faults = MaxFaults

Next ==
    \/ \E i \in Apps :
        \/ Start(i) \/ Initialize(i) \/ Exit(i) \/ Login(i) \/ CoolDown(i) \/ Issue(i)
        \/ Contains(i) \/ Handle(i) \/ Logout(i)
    \/ Rotate \/ StartCommand \/ InitializeCommand \/ RevokeAll

Spec == Init /\ [][Next]_vars

----------------------------------------------------------------------------
(* Properties *)

\* A request is let in only with a token that a login of this process's secret got
\* since the secret was last changed, by whichever process, and that no logout or
\* revocation ended (auth.py:105-124; AUTH.md:93-95: going back to an older secret
\* restores nothing).
LetInWithLiveToken ==
    [][\A i \in Apps : app'[i].token # app[i].token /\ app'[i].token # NoToken =>
        /\ app'[i].token.secret = app[i].secret
        /\ app'[i].token.rotation = rotations
        /\ app'[i].token.id \notin ended]_vars
=============================================================================
