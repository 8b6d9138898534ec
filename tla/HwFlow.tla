------------------------------- MODULE HwFlow -------------------------------
(* The tracker of the hardware flow (tools/hw): hw/STATUS.json written by    *)
(* status.py, the edit hook that renders hw/PROGRESS.md and mirrors the      *)
(* stages to GitHub issues, and several processes that do so at once.        *)
EXTENDS Integers, Sequences, FiniteSetsExt

CONSTANTS
  Users,                    \* processes: the agent's session and terminals
  Stages,                   \* <<module, stage>> pairs in the order of gh_sync: a sequence
  MaxCommands,              \* bound on the commands and edits
  MaxSyncs,                 \* bound on the renderings and synchronisations
  MaxFaults                 \* bound on failed calls and killed processes

ASSUME StagesAssumption ==
  /\ Len(Stages) \in Nat \ {0} /\ DOMAIN Stages = 1..Len(Stages)
  /\ \A i, j \in DOMAIN Stages : Stages[i] = Stages[j] => i = j
ASSUME UsersAssumption == IsFiniteSet(Users)

States == {"in_progress", "done"}
Results == {"n/a", "pass"}

VARIABLES
  statusFile,               \* hw/STATUS.json: [stage -> [state, gate]], Torn or Mixed
  progress,                 \* hw/PROGRESS.md: the status it was rendered from, Torn or Mixed
  issues,                   \* the GitHub issues, oldest first: [stage, body, closed]
  users,                    \* what each process is doing
  commands, syncs, faults,  \* counted against the bounds
  may,                      \* the changes STATUS.json may show
  together,                 \* the most synchronisations that ran at once
  settled,                  \* an undisturbed synchronisation has ended
  behind                    \* why PROGRESS.md may show an older status has happened

flowVars == <<statusFile, progress, issues, users, commands, syncs, faults,
              may, together, settled, behind>>

StageSet == {Stages[i] : i \in DOMAIN Stages}
Statuses == [StageSet -> [state : States, gate : Results]]
Initial == [s \in StageSet |-> [state |-> "in_progress", gate |-> "n/a"]]
Idle == [pc |-> "idle"]

\* set and gate, as changes of the loaded status.
Changes == [stage : StageSet, field : {"state"}, value : States]
             \cup [stage : StageSet, field : {"gate"}, value : Results]
Changed(data, c) ==
  IF c.field = "state" THEN [data EXCEPT ![c.stage].state = c.value]
  ELSE [data EXCEPT ![c.stage].gate = c.value]
Shows(data, c) ==
  (IF c.field = "state" THEN data[c.stage].state ELSE data[c.stage].gate) = c.value

\* write_text truncates the file and writes it later.  A process that writes over
\* what another wrote since its own truncation may leave the end of a longer text.
Torn == <<>>
Mixed == [s \in StageSet |-> [state |-> "mixed", gate |-> "n/a"]]
Parses(text) == text \notin {Torn, Mixed}
Written(text, data) == IF text \in {Torn, data} THEN {data} ELSE {data, Mixed}

LargerOf(a, b) == IF a > b THEN a ELSE b
Others(u) == Users \ {u}
InCommand(u) == users[u].pc \in {"loaded", "truncated"}
SyncPlaces == {"list", "issue", "close"}
InSync(u) == users[u].pc \in SyncPlaces
Syncing == {u \in Users : InSync(u)}

\* What another process has read is older than what is there now.
Disturb(u, places, them) ==
  [v \in Users |-> IF v # u /\ users[v].pc \in places THEN [them[v] EXCEPT !.clean = FALSE]
                   ELSE them[v]]
StatusWritten(u, them) == Disturb(u, SyncPlaces \cup {"rendered", "blank"}, them)
IssueTouched(u, them) == Disturb(u, SyncPlaces, them)

\* A change made while no other command ran replaces what its field may show;
\* with another command running either may overwrite the other.
SameField(c, d) == c.stage = d.stage /\ c.field = d.field
Noted(u, c) ==
  {c} \cup {d \in may : SameField(c, d) => \E v \in Others(u) : InCommand(v)}

-----------------------------------------------------------------------------
(* status.py: load, change, save.  No hook stands behind it.                 *)

\* A file that does not parse ends the command with the exception.
LoadStatus(u) ==
  /\ users[u] = Idle /\ commands < MaxCommands /\ Parses(statusFile)
  /\ \E c \in Changes :
       users' = [users EXCEPT ![u] = [pc |-> "loaded", data |-> Changed(statusFile, c), change |-> c]]
  /\ commands' = commands + 1
  /\ UNCHANGED <<statusFile, progress, issues, syncs, faults, may, together, settled, behind>>

Truncate(u) ==
  /\ users[u].pc = "loaded"
  /\ users' = StatusWritten(u, [users EXCEPT ![u].pc = "truncated"])
  /\ statusFile' = Torn /\ settled' = FALSE /\ behind' = TRUE
  /\ UNCHANGED <<progress, issues, commands, syncs, faults, may, together>>

Save(u) ==
  /\ users[u].pc = "truncated"
  /\ statusFile' \in Written(statusFile, users[u].data)
  /\ may' = Noted(u, users[u].change)
  /\ users' = StatusWritten(u, [users EXCEPT ![u] = Idle])
  /\ settled' = FALSE /\ behind' = TRUE
  /\ UNCHANGED <<progress, issues, commands, syncs, faults, together>>

-----------------------------------------------------------------------------
(* The hook behind an edit of STATUS.json, or the tools by hand.             *)

\* What somebody who repairs the file by hand may put back.
Repaired == {d \in Statuses : \A c \in Changes : Shows(d, c) => c \in may}

\* The session edits the file, or repairs it, in one step; its hook follows:
\* render_progress.py, then gh_sync.py.
EditStatus(u) ==
  /\ users[u] = Idle /\ commands < MaxCommands /\ syncs < MaxSyncs
  /\ \E c \in Changes, base \in IF Parses(statusFile) THEN {statusFile} ELSE Repaired :
       statusFile' = Changed(base, c) /\ may' = Noted(u, c)
  /\ users' = StatusWritten(u, [users EXCEPT ![u] = [pc |-> "render", hook |-> TRUE]])
  /\ commands' = commands + 1 /\ syncs' = syncs + 1 /\ settled' = FALSE
  /\ UNCHANGED <<progress, issues, faults, together, behind>>

\* status.py render.
StartRender(u) ==
  /\ users[u] = Idle /\ syncs < MaxSyncs
  /\ users' = [users EXCEPT ![u] = [pc |-> "render", hook |-> FALSE]]
  /\ syncs' = syncs + 1
  /\ UNCHANGED <<statusFile, progress, issues, commands, faults, may, together, settled, behind>>

\* The hook synchronises whatever became of its rendering.
AfterRender(u) == IF users[u].hook THEN [pc |-> "load"] ELSE Idle

\* PROGRESS.md keeps its text when STATUS.json does not parse.
LoadForRender(u) ==
  /\ users[u].pc = "render"
  /\ users' = [users EXCEPT ![u] =
       IF Parses(statusFile)
       THEN [pc |-> "rendered", hook |-> @.hook, data |-> statusFile, clean |-> TRUE]
       ELSE AfterRender(u)]
  /\ UNCHANGED <<statusFile, progress, issues, commands, syncs, faults, may, together, settled, behind>>

TruncateProgress(u) ==
  /\ users[u].pc = "rendered"
  /\ users' = [users EXCEPT ![u].pc = "blank"]
  /\ progress' = Torn /\ behind' = (behind \/ ~users[u].clean)
  /\ UNCHANGED <<statusFile, issues, commands, syncs, faults, may, together, settled>>

WriteProgress(u) ==
  /\ users[u].pc = "blank"
  /\ progress' \in Written(progress, users[u].data)
  /\ users' = [users EXCEPT ![u] = AfterRender(u)]
  /\ behind' = (~users[u].clean \/ progress' = Mixed)
  /\ UNCHANGED <<statusFile, issues, commands, syncs, faults, may, together, settled>>

\* gh_sync.py alone.
StartSync(u) ==
  /\ users[u] = Idle /\ syncs < MaxSyncs
  /\ users' = [users EXCEPT ![u] = [pc |-> "load"]]
  /\ syncs' = syncs + 1
  /\ UNCHANGED <<statusFile, progress, issues, commands, faults, may, together, settled, behind>>

LoadForSync(u) ==
  /\ users[u].pc = "load"
  /\ users' = [users EXCEPT ![u] =
       IF Parses(statusFile)
       THEN [pc |-> "list", data |-> statusFile, listed |-> <<>>, at |-> 1, clean |-> TRUE]
       ELSE Idle]
  /\ together' = IF Parses(statusFile) THEN LargerOf(together, Cardinality(Syncing \cup {u}))
                 ELSE together
  /\ UNCHANGED <<statusFile, progress, issues, commands, syncs, faults, may, settled, behind>>

ListIssues(u) ==
  /\ users[u].pc = "list"
  /\ users' = [users EXCEPT ![u].pc = "issue", ![u].listed = issues]
  /\ UNCHANGED <<statusFile, progress, issues, commands, syncs, faults, may, together, settled, behind>>

-----------------------------------------------------------------------------
(* One stage of the loop: create or edit its issue, then close or reopen it. *)

Stage(u) == Stages[users[u].at]
WantClosed(u) == users[u].data[Stage(u)].state = "done"
Titled(list, s) == {i \in DOMAIN list : list[i].stage = s}
\* by_title: gh lists the newest first and the last entry wins.
Issue(u) == Min(Titled(users[u].listed, Stage(u)))
Known(u) == Titled(users[u].listed, Stage(u)) # {}
WasClosedMut(u) == FALSE
WasClosed(u) == Known(u) /\ users[u].listed[Issue(u)].closed
Number(u) == IF Known(u) THEN Issue(u) ELSE users[u].number

\* The next stage, or the end of the synchronisation.
Onward(u) ==
  IF users[u].at < Len(Stages) THEN [users[u] EXCEPT !.pc = "issue", !.at = @ + 1] ELSE Idle
Ends(u) == users[u].at = Len(Stages)

CreateIssue(u) ==
  /\ users[u].pc = "issue" /\ ~Known(u)
  /\ issues' = Append(issues, [stage |-> Stage(u), body |-> users[u].data[Stage(u)], closed |-> FALSE])
  /\ users' = IssueTouched(u, [users EXCEPT ![u] = [pc |-> "close", data |-> @.data,
                listed |-> @.listed, at |-> @.at, clean |-> @.clean, number |-> Len(issues) + 1]])
  /\ settled' = FALSE
  /\ UNCHANGED <<statusFile, progress, commands, syncs, faults, may, together, behind>>

EditIssue(u) ==
  /\ users[u].pc = "issue" /\ Known(u)
  /\ issues' = [issues EXCEPT ![Issue(u)].body = users[u].data[Stage(u)]]
  /\ users' = IssueTouched(u, [users EXCEPT ![u].pc = "close"])
  /\ settled' = FALSE
  /\ UNCHANGED <<statusFile, progress, commands, syncs, faults, may, together, behind>>

CloseOrReopen(u) ==
  /\ users[u].pc = "close"
  /\ issues' = IF WantClosed(u) = WasClosed(u) THEN issues
               ELSE [issues EXCEPT ![Number(u)].closed = WantClosed(u)]
  /\ users' = IssueTouched(u, [users EXCEPT ![u] = Onward(u)])
  /\ settled' = (Ends(u) /\ users[u].clean)
  /\ UNCHANGED <<statusFile, progress, commands, syncs, faults, may, together, behind>>

-----------------------------------------------------------------------------
(* Faults.                                                                   *)

\* A failed edit, close or reopen is passed over.
IgnoreFailure(u) ==
  /\ faults < MaxFaults /\ faults' = faults + 1
  /\ \/ /\ users[u].pc = "issue" /\ Known(u)
        /\ users' = [users EXCEPT ![u].pc = "close", ![u].clean = FALSE]
     \/ /\ users[u].pc = "close" /\ WantClosed(u) # WasClosed(u)
        /\ users' = [users EXCEPT ![u] = IF Ends(u) THEN Idle ELSE [Onward(u) EXCEPT !.clean = FALSE]]
  /\ UNCHANGED <<statusFile, progress, issues, commands, syncs, may, together, settled, behind>>

\* A failed list or create ends the synchronisation; a timeout of the hook,
\* an interrupt or a crash ends any process where it is.  When only
\* render_progress.py dies its hook goes on.
Rendering(u) == users[u].pc \in {"render", "rendered", "blank"}
Stop(u) ==
  /\ users[u] # Idle /\ faults < MaxFaults
  /\ faults' = faults + 1
  /\ \/ users' = [users EXCEPT ![u] = Idle]
     \/ Rendering(u) /\ users[u].hook /\ users' = [users EXCEPT ![u] = [pc |-> "load"]]
  /\ behind' = (behind \/ Rendering(u))
  /\ UNCHANGED <<statusFile, progress, issues, commands, syncs, may, together, settled>>

FlowInit ==
  /\ statusFile = Initial /\ progress = Initial
  /\ issues = <<>>
  /\ users = [u \in Users |-> Idle]
  /\ commands = 0 /\ syncs = 0 /\ faults = 0
  /\ may = {c \in Changes : Shows(Initial, c)} /\ together = 1
  /\ settled = FALSE /\ behind = FALSE

FlowNext ==
  \E u \in Users :
    \/ LoadStatus(u) \/ Truncate(u) \/ Save(u) \/ EditStatus(u)
    \/ StartRender(u) \/ LoadForRender(u) \/ TruncateProgress(u) \/ WriteProgress(u)
    \/ StartSync(u) \/ LoadForSync(u) \/ ListIssues(u)
    \/ CreateIssue(u) \/ EditIssue(u) \/ CloseOrReopen(u)
    \/ IgnoreFailure(u) \/ Stop(u)

-----------------------------------------------------------------------------
\* Whether the process will still write PROGRESS.md from the present status.
WillRender(u) == users[u].pc = "render" \/ (users[u].pc \in {"rendered", "blank"} /\ users[u].clean)

\* A change of the status is never lost unless another command was under way
\* when it was saved, and then to nothing but an older value of that field, whatever else
\* is set, edited or cut off: STATUS.json, when it parses, shows in each field the
\* last such change or one that overlapped with a later one.  There are never
\* more issues of a stage than synchronisations have run at once.  One that ran to
\* its end, undisturbed and without a failed call, leaves each stage's issue with the
\* stage's gate and closed exactly if the stage is done, whatever was cut off
\* before it.  When nobody is about to render, PROGRESS.md shows the status as
\* it is, but for the three ways in which it falls behind: status.py wrote the
\* file, a rendering older than the status or mixed with another landed last, or
\* one was cut off.
MirrorsSettle ==
  /\ Parses(statusFile) => \A c \in Changes : Shows(statusFile, c) => c \in may
  /\ \A s \in StageSet : Cardinality(Titled(issues, s)) <= together
  /\ settled =>
       \A s \in StageSet :
         LET issue == issues[Min(Titled(issues, s))]
         IN  /\ Titled(issues, s) # {}
             /\ issue.body = statusFile[s] /\ issue.closed = (statusFile[s].state = "done")
  /\ (~behind /\ \A u \in Users : ~WillRender(u)) => progress = statusFile
=============================================================================
