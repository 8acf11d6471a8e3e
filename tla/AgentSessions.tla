---------------------------- MODULE AgentSessions ----------------------------
(***************************************************************************)
(* Agents and the sessions they are tried in: the built-in defaults that a *)
(* startup delivers (system_presets.py), the saved presets with their      *)
(* revisions (preset_history.py), and sessions that keep the version they  *)
(* began with (versions.py, chat_history_content.py, api/routers/agent.py).*)
(*                                                                         *)
(* A request holds the account lock while it reads, calls the model and    *)
(* writes, so one request is one action; where it writes more than once, a *)
(* fault may end it after any write.  The text of a preset stands for the  *)
(* whole version (prompt, level, tools).                                   *)
(***************************************************************************)
EXTENDS Integers, Sequences, SequencesExt, FiniteSets

CONSTANTS
    Accounts,       \* pairs of a seller and a data directory
    Sessions,       \* ids of chat_history rows
    Edits,          \* versions that users write
    MaxBuiltin,     \* bound: releases, each with a default of its own
    KeepRevisions,  \* MAX_REVISIONS_PER_PRESET
    MaxRequests,    \* bound: requests and upgrades
    MaxFaults       \* bound: failing writes, crashes

Agents == {"system", "regular"}
Absent == -1
Empty == 0          \* the version with an empty prompt
Builtins == 1..MaxBuiltin
NoOwner == "no owner"

VARIABLES
    account,        \* the selected account
    preset,         \* agent_preset: version and switch of each agent
    revisions,      \* agent_preset_revision of each agent, newest first
    recorded,       \* the fingerprint in the meta table, Absent if none
    shipped,        \* the default of the running release
    up,             \* whether the startup has finished
    sessions,       \* chat_history
    left,           \* requests left
    faults,         \* faults left
    mine,           \* history: what the user last saved for the system agent
    torn            \* history: an upgrade came before an interrupted delivery was repaired

vars == <<account, preset, revisions, recorded, shipped, up, sessions, left, faults, mine, torn>>

NoPin == [kind |-> "none", version |-> Absent]
NoSession == [agent |-> "regular", owner |-> NoOwner, pin |-> NoPin, turns |-> <<>>, type |-> "none"]

Question == [role |-> "user", by |-> Absent]
Answer(version) == [role |-> "assistant", by |-> version]

Used == {s \in Sessions : sessions[s].type # "none"}

----------------------------------------------------------------------------
(* Versions *)

ScopeAllows(s) == sessions[s].owner \in {NoOwner, account}

AdoptScope(session) ==
    IF session.owner = NoOwner THEN [session EXCEPT !.owner = account] ELSE session

\* The pin of an editor snapshot: one that equals the saved preset is no draft.
PinOf(agent, kind, version) ==
    IF kind = "draft" /\ version = preset[agent].version
    THEN [kind |-> "preset", version |-> version]
    ELSE [kind |-> kind, version |-> version]

\* Mutant of Override: only drafts are kept.
OverrideDrafts(agent, pin) ==
    IF pin.kind = "draft" THEN pin.version ELSE preset[agent].version

\* The version a turn is run with.  A pin without a prompt is not applied.
Override(agent, pin) ==
    CASE pin.kind = "draft" -> pin.version
      [] pin.kind = "preset" /\ pin.version # Empty -> pin.version
      [] OTHER -> preset[agent].version

RequireRunnable(agent) ==
    /\ preset[agent].version # Absent
    /\ agent = "system" \/ preset[agent].enabled

FindRevision(agent, version) == \E i \in DOMAIN revisions[agent] : revisions[agent][i] = version

----------------------------------------------------------------------------
(* Presets *)

\* record_preset_revision: skipped when the newest one is the same.
Recorded(agent, version) ==
    IF revisions[agent] # <<>> /\ Head(revisions[agent]) = version THEN revisions[agent]
    ELSE LET longer == <<version>> \o revisions[agent]
         IN  SubSeq(longer, 1, IF Len(longer) > KeepRevisions THEN KeepRevisions ELSE Len(longer))

\* The history is best effort: its failure is logged and the save stands.
RecordRevision(agent, version) ==
    \/ /\ revisions' = [revisions EXCEPT ![agent] = Recorded(agent, version)]
       /\ UNCHANGED faults
    \/ /\ faults > 0 /\ faults' = faults - 1
       /\ UNCHANGED revisions

\* _write_default: the preset, then its fingerprint, then the revision.
WriteDefault ==
    /\ preset' = [preset EXCEPT !["system"] = [version |-> shipped, enabled |-> TRUE]]
    /\ recorded' = shipped
    /\ RecordRevision("system", shipped)

\* Mutant of WriteDefaultTorn: the fingerprint is written first.
WriteFingerprintFirst ==
    /\ faults > 0 /\ faults' = faults - 1
    /\ recorded' = shipped
    /\ UNCHANGED <<preset, revisions>>

WriteDefaultTorn ==
    /\ faults > 0 /\ faults' = faults - 1
    /\ preset' = [preset EXCEPT !["system"] = [version |-> shipped, enabled |-> TRUE]]
    /\ UNCHANGED <<recorded, revisions>>

\* ensure_system_agents_seeded for one agent: whether its default is written.
NeedsDefault ==
    LET row == preset["system"].version IN
    \/ row = Absent
    \/ row # shipped /\ recorded # Absent /\ recorded = row

Startup ==
    /\ ~up
    /\ \/ /\ NeedsDefault
          /\ \/ WriteDefault /\ up' = TRUE
             \/ WriteDefaultTorn /\ up' = FALSE
       \/ /\ ~NeedsDefault
          /\ recorded' = IF preset["system"].version = shipped THEN shipped ELSE recorded
          /\ up' = TRUE
          /\ UNCHANGED <<preset, revisions, faults>>
    /\ UNCHANGED <<account, shipped, sessions, left, mine, torn>>

\* The application is stopped, and perhaps started again as the next release.
Upgrade ==
    /\ left > 0 /\ left' = left - 1
    /\ up' = FALSE
    /\ shipped' \in {shipped} \cup {n \in Builtins : n = shipped + 1}
    /\ torn' = (torn \/ (shipped' # shipped /\ preset["system"].version = shipped
                                            /\ recorded # shipped))
    /\ UNCHANGED <<account, preset, revisions, recorded, sessions, faults, mine>>

Request == up /\ left > 0 /\ left' = left - 1 /\ UNCHANGED <<up, shipped, torn>>

SavePreset(agent) ==
    /\ Request
    /\ \E version \in Edits \cup {Empty}, enabled \in BOOLEAN :
        /\ preset' = [preset EXCEPT ![agent] =
                        [version |-> version, enabled |-> enabled \/ agent = "system"]]
        /\ RecordRevision(agent, version)
        /\ mine' = IF agent = "system" THEN version ELSE mine
    /\ UNCHANGED <<account, recorded, sessions>>

DeletePreset ==
    /\ Request
    /\ preset' = [preset EXCEPT !["regular"].version = Absent]
    /\ UNCHANGED <<account, revisions, recorded, sessions, faults, mine>>

RestoreSystemAgent ==
    /\ Request
    /\ WriteDefault \/ WriteDefaultTorn
    /\ mine' = Absent
    /\ UNCHANGED <<account, sessions>>

----------------------------------------------------------------------------
(* Sessions *)

KeepPresets == UNCHANGED <<preset, revisions, recorded, faults, mine>>

SelectAccount ==
    /\ Request /\ account' \in Accounts \ {account}
    /\ UNCHANGED sessions /\ KeepPresets

LoadSession(s) == s \in Used /\ ScopeAllows(s)

\* build_history_content over what the row held.
Write(s, session) == sessions' = [sessions EXCEPT ![s] = session]

Fresh(s) == s \notin Used /\ \A t \in Sessions : t < s => t \in Used

\* The first turn of a test, with a draft or without one.
RunFirstTest(s) ==
    /\ Request /\ Fresh(s)
    /\ \E agent \in Agents, kind \in {"preset", "draft"},
          version \in Edits \cup Builtins \cup {Empty} :
        /\ RequireRunnable(agent)
        /\ kind = "preset" => version = preset[agent].version
        /\ LET pin == PinOf(agent, kind, version) IN
            Write(s, [agent |-> agent, owner |-> account, pin |-> pin, type |-> "test",
                      turns |-> <<Question, Answer(Override(agent, pin))>>])
    /\ UNCHANGED account /\ KeepPresets

\* A further turn, after a message of the buyer or without one.
RunTest(s) ==
    /\ Request /\ LoadSession(s) /\ RequireRunnable(sessions[s].agent)
    /\ \E asked \in {<<>>, <<Question>>} :
        LET old == AdoptScope(sessions[s]) IN
        Write(s, [old EXCEPT !.turns =
                     @ \o Append(asked, Answer(Override(old.agent, old.pin)))])
    /\ UNCHANGED account /\ KeepPresets

Undo(s) ==
    /\ Request /\ LoadSession(s)
    /\ LET turns == sessions[s].turns IN
        /\ Len(turns) >= 2
        /\ turns[Len(turns) - 1].role = "user" /\ turns[Len(turns)].role = "assistant"
        /\ Write(s, [sessions[s] EXCEPT !.turns = SubSeq(turns, 1, Len(turns) - 2)])
    /\ UNCHANGED account /\ KeepPresets

\* The turn that is replaced loses its question, too.
Base(turns) ==
    LET base == Front(turns) IN
    IF base # <<>> /\ Last(base).role = "user" THEN Front(base) ELSE base

Regenerate(s) ==
    /\ Request /\ LoadSession(s) /\ RequireRunnable(sessions[s].agent)
    /\ LET old == sessions[s] IN
        /\ old.turns # <<>> /\ Last(old.turns).role = "assistant"
        /\ Write(s, [old EXCEPT !.turns =
                        Append(Base(old.turns), Answer(Override(old.agent, old.pin)))])
    /\ UNCHANGED account /\ KeepPresets

DeleteSession(s) ==
    /\ Request /\ LoadSession(s)
    /\ Write(s, NoSession)
    /\ UNCHANGED account /\ KeepPresets

Branch(s, t) ==
    /\ Request /\ LoadSession(s) /\ Fresh(t)
    /\ \E n \in 0..Len(sessions[s].turns) :
        Write(t, [sessions[s] EXCEPT !.turns = SubSeq(@, 1, n), !.owner = account])
    /\ UNCHANGED account /\ KeepPresets

\* fork_from_message: pins the saved preset, one of its revisions or a draft.
Fork(s) ==
    /\ Request /\ Fresh(s)
    /\ \E agent \in Agents, kind \in {"preset", "draft"},
          version \in Edits \cup Builtins \cup {Empty} :
        /\ RequireRunnable(agent)
        /\ kind = "preset" => version = preset[agent].version \/ FindRevision(agent, version)
        /\ Write(s, [agent |-> agent, owner |-> account, type |-> "fork", turns |-> <<>>,
                     pin |-> [kind |-> kind, version |-> version]])
    /\ UNCHANGED account /\ KeepPresets

----------------------------------------------------------------------------
\* A first start, or a database of a release that recorded no fingerprint, and no
\* owner and pin of a session.
Init ==
    /\ account = CHOOSE a \in Accounts : TRUE
    /\ shipped = 1
    /\ \E legacy \in BOOLEAN :
        /\ preset = [agent \in Agents |->
              [version |-> IF legacy /\ agent = "system" THEN shipped ELSE Absent, enabled |-> TRUE]]
        /\ sessions = [s \in Sessions |-> IF legacy /\ \A t \in Sessions : s <= t
              THEN [NoSession EXCEPT !.agent = "system", !.type = "test",
                                     !.turns = <<Question, Answer(shipped)>>]
              ELSE NoSession]
    /\ revisions = [agent \in Agents |-> <<>>]
    /\ recorded = Absent
    /\ up = FALSE
    /\ left = MaxRequests
    /\ faults = MaxFaults
    /\ mine = Absent
    /\ torn = FALSE

Next ==
    \/ Startup \/ Upgrade \/ DeletePreset \/ RestoreSystemAgent \/ SelectAccount
    \/ \E agent \in Agents : SavePreset(agent)
    \/ \E s \in Sessions :
        RunFirstTest(s) \/ RunTest(s) \/ Undo(s) \/ Regenerate(s) \/ DeleteSession(s) \/ Fork(s)
    \/ \E s, t \in Sessions : Branch(s, t)

Spec == Init /\ [][Next]_vars

----------------------------------------------------------------------------
\* What the user wrote for a system agent is never replaced by a default, and a
\* row the user did not touch is the default of the running release, whatever
\* startup or restore was interrupted between its writes (system_presets.py:188).
\* Left out: an upgrade before the next start has repaired the interruption.
DefaultsDelivered ==
    up => /\ mine \in Edits => preset["system"].version = mine
          /\ mine = Absent /\ ~torn => preset["system"].version = shipped

\* Every answer of a session is one of the version the session began with, over
\* edits, deletions and restores of the preset (agent.py:651), except for a
\* saved preset with an empty prompt and for sessions older than pins.
AnswersPinned ==
    \A s \in Used : \A i \in DOMAIN sessions[s].turns :
        LET pin == sessions[s].pin  turn == sessions[s].turns[i] IN
        turn.role = "assistant" /\ pin \notin {NoPin, [kind |-> "preset", version |-> Empty]}
            => turn.by = pin.version
=============================================================================
