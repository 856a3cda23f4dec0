------------------------------ MODULE Upgrade ------------------------------
(***************************************************************************)
(* The platform update transaction of platform/updater: `paperctl upgrade  *)
(* run`, `upgrade rollback` and `upgrade reconcile`, against the files the *)
(* transaction keeps under the platform root and the session it stands     *)
(* down and brings up.                                                     *)
(*                                                                         *)
(* One action is one durable write (a journal record, a symlink swap, a    *)
(* directory rename or one unlink pass) or one call on the session, so a   *)
(* power cut or a killed process can fall between any two of them.  Every  *)
(* I/O error the code answers with `?` ends the process where it stands,   *)
(* which is what Kill does; a removal whose result it throws away with     *)
(* `let _ =` may leave what it was to remove.  A staging directory, named  *)
(* in the code by the second it is made in, is named here by its command.  *)
(***************************************************************************)
EXTENDS Naturals

CONSTANTS
    Versions,       \* the platform releases bundles exist for
    None,           \* an absent Option<Version>
    StateVersion,   \* manifest state_version of each release
    RollbackTo,     \* manifest rollback_to_state of each release
    Faults,         \* which of "power", "kill" and "io" (a refused removal) may happen
    MaxFaults,      \* bound on how many power cuts and kills do
    MaxCommands,    \* bound on how many runs and rollbacks are started
    Autostart       \* whether the boot launcher is installed and enabled

ASSUME ConstantsAssumption ==
    /\ None \notin Versions
    /\ {"empty", "absent"} \cap (Versions \cup {None}) = {}
    /\ StateVersion \in [Versions -> Nat]
    /\ RollbackTo \in [Versions -> Nat]
    \* PlatformManifest::validate refuses a release that cannot read its own state
    /\ \A v \in Versions : RollbackTo[v] <= StateVersion[v]
    /\ Faults \subseteq {"power", "kill", "io"}
    /\ MaxFaults \in Nat /\ MaxCommands \in Nat
    /\ Autostart \in BOOLEAN

VARIABLES
    dirs,       \* releases/<version>: absent, partly removed, or complete
    staging,    \* the staged candidates' directories, by the command that made them
    current,    \* the `current` symlink
    previous,   \* the `previous` symlink
    journal,    \* state/update.json
    live,       \* state/platform: the release that wrote it, "empty" or "absent"
    snap,       \* state/snapshots/<version>, likewise
    session,    \* the release whose supervisor is running, or None
    stock,      \* whether stock is running
    trusted,    \* history: releases that reached `ready` since they were placed
    sound,      \* history: the selected release could read `live` when the command began
    refused,    \* history: the staging directories a removal was refused on
    pc, cmd, mem,   \* the paperctl process: its next step, its command, its Record
    faults, commands    \* how many faults and commands there have been

links == <<current, previous>>
state == <<live, snap>>
world == <<session, stock>>
proc  == <<pc, cmd, mem>>
counts == <<faults, commands, sound, refused>>
vars  == <<dirs, staging, links, journal, state, world, trusted, proc, counts>>

Optional == Versions \cup {None}
Contents == Versions \cup {"empty", "absent"}
Phases   == {"none", "prepare", "activate", "verify", "commit", "rolled-back", "failed"}

(* Phase "none" stands for a journal file that does not exist, staged = 0 for *)
(* a record without a staging directory.                                      *)
Record == [phase : Phases, from : Optional, previous_before : Optional,
           to : Optional, staged : Nat, snapshot : BOOLEAN]

NoRecord == [phase |-> "none", from |-> None, previous_before |-> None,
             to |-> None, staged |-> 0, snapshot |-> FALSE]

Opening(from, to) == [NoRecord EXCEPT !.phase = "prepare", !.from = from, !.to = to]

IsTerminal(phase) == phase \in {"commit", "rolled-back", "failed"}
(* Mutant of InFlight: a transaction interrupted in VERIFY counts as done.    *)
InFlightBeforeVerify == journal.phase \in {"prepare", "activate"}

InFlight == journal.phase \in {"prepare", "activate", "verify"}

RunSteps == {"stage", "verify_bundle", "refuse", "commit_dir", "note_commit", "snapshot", "copy",
             "note_snapshot", "activate", "stand_down", "sel_prev", "sel_cur", "verify",
             "bring_up", "grade", "commit", "prune"}
RollBackSteps == {"rb_activate", "rb_stand_down", "rb_verify", "rb_bring_up", "rb_grade",
                  "rolled_back", "fail"}
RevertSteps == {"revert_cur", "revert_prev", "restore_rm", "restore_put"}
ReconcileSteps == {"rc_staged", "rc_release", "rc_failed", "rc_done"}
Steps == {"idle"} \cup RunSteps \cup RollBackSteps \cup RevertSteps \cup ReconcileSteps

TypeOK ==
    /\ dirs \in [Versions -> {"absent", "partial", "complete"}]
    /\ staging \subseteq Nat /\ refused \subseteq Nat
    /\ current \in Optional /\ previous \in Optional
    /\ journal \in Record /\ mem \in Record
    /\ live \in Contents /\ snap \in [Versions -> Contents]
    /\ session \in Optional /\ stock \in BOOLEAN
    /\ trusted \subseteq Versions
    /\ pc \in Steps /\ cmd \in {"none", "run", "rollback", "reconcile"}
    /\ faults \in Nat /\ commands \in Nat /\ sound \in BOOLEAN

(* A root nothing was ever installed on, or one with a working baseline. *)
Init ==
    /\ current \in Optional
    /\ dirs = [v \in Versions |-> IF v = current THEN "complete" ELSE "absent"]
    /\ staging = {} /\ refused = {}
    /\ previous = None
    /\ journal = NoRecord
    /\ live = IF current = None THEN "empty" ELSE current
    /\ snap = [v \in Versions |-> "absent"]
    /\ session = current
    /\ stock = TRUE
    /\ trusted = {current} \cap Versions
    /\ pc = "idle" /\ cmd = "none" /\ mem = NoRecord
    /\ faults = 0 /\ commands = 0 /\ sound = FALSE

-----------------------------------------------------------------------------
(* Moving between steps. *)

Goto(step) == pc' = step /\ UNCHANGED <<cmd, mem, journal>>

(* Journal::record: one atomic write of the whole record. *)
Write(record, step) == /\ mem' = record /\ journal' = record
                       /\ pc' = step /\ UNCHANGED cmd

Return == pc' = "idle" /\ cmd' = "none" /\ mem' = NoRecord

(* The command returns; the journal keeps what was last written. *)
Leave == Return /\ UNCHANGED journal

(* The command ends by advancing the journal to a terminal phase. *)
Conclude(record, phase) == journal' = [record EXCEPT !.phase = phase] /\ Return

(* store::remove_tree: unlinking a tree is not atomic. *)
RemoveTree(v) ==
    dirs' = [dirs EXCEPT ![v] = IF @ = "complete" THEN "partial" ELSE "absent"]

Exists(v) == dirs[v] /= "absent"

(* readable_by_state_version: whether r can read what w left. *)
ReadableBy(w, r) == StateVersion[r] >= RollbackTo[w]

CanRead(r, content) ==
    \/ content = "empty"
    \/ content \in Versions /\ ReadableBy(content, r)

-----------------------------------------------------------------------------
(* `upgrade run`, PREPARE. *)

RunStart ==
    /\ pc = "idle" /\ ~InFlight /\ commands < MaxCommands
    /\ LET record == [Opening(current, None) EXCEPT
                        !.previous_before = previous, !.staged = commands + 1]
       IN  /\ mem' = record /\ journal' = record
           /\ pc' = "stage" /\ cmd' = "run"
    /\ live' = IF live = "absent" THEN "empty" ELSE live
    /\ commands' = commands + 1
    /\ sound' = (current /= None /\ CanRead(current, live'))
    /\ UNCHANGED <<dirs, staging, links, snap, world, trusted, faults, refused>>

Stage ==
    /\ pc = "stage"
    /\ staging' = staging \cup {mem.staged}
    /\ Goto("verify_bundle")
    /\ UNCHANGED <<dirs, links, state, world, trusted, counts>>

(* `let _ = remove_tree(&staging)`: whether it went is not looked at.         *)
RemoveStaging ==
    /\ \/ staging' = staging \ {mem.staged} /\ UNCHANGED refused
       \/ /\ "io" \in Faults /\ mem.staged \in staging
          /\ refused' = refused \cup {mem.staged} /\ UNCHANGED staging
    /\ UNCHANGED <<dirs, links, state, world, trusted, faults, commands, sound>>

(* Anything prepare refuses: the staging directory goes, the journal says so. *)
PrepareFails ==
    /\ pc = "verify_bundle" /\ mem.to = None
    /\ RemoveStaging
    /\ Goto("refuse")

Refuse ==
    /\ pc = "refuse"
    /\ Conclude([mem EXCEPT !.staged = 0], "failed")
    /\ UNCHANGED <<dirs, staging, links, state, world, trusted, counts>>

Verified(v) ==
    /\ pc = "verify_bundle" /\ mem.to = None
    /\ Write([mem EXCEPT !.to = v], "verify_bundle")
    /\ UNCHANGED <<dirs, staging, links, state, world, trusted, counts>>

AlreadySelected ==
    /\ pc = "verify_bundle" /\ mem.to /= None /\ mem.to = mem.from
    /\ RemoveStaging
    /\ Goto("refuse")

NotYetSelected ==
    /\ pc = "verify_bundle" /\ mem.to /= None /\ mem.to /= mem.from
    /\ Goto("commit_dir")
    /\ UNCHANGED <<dirs, staging, links, state, world, trusted, counts>>

RemoveOldRelease ==
    /\ pc = "commit_dir" /\ Exists(mem.to)
    /\ RemoveTree(mem.to)
    /\ trusted' = trusted \ {mem.to}
    /\ Goto("commit_dir")
    /\ UNCHANGED <<staging, links, state, world, counts>>

CommitRelease ==
    /\ pc = "commit_dir" /\ ~Exists(mem.to)
    /\ dirs' = [dirs EXCEPT ![mem.to] = "complete"]
    /\ staging' = staging \ {mem.staged}
    /\ Goto("note_commit")
    /\ UNCHANGED <<links, state, world, trusted, counts>>

NoteCommit ==
    /\ pc = "note_commit"
    /\ Write([mem EXCEPT !.staged = 0], "snapshot")
    /\ UNCHANGED <<dirs, staging, links, state, world, trusted, counts>>

(* Mutant of NoSnapshotNeeded: the state versions are not compared.           *)
SnapshotSkipped ==
    /\ pc = "snapshot"
    /\ Write(mem, "activate")
    /\ UNCHANGED <<dirs, staging, links, state, world, trusted, counts>>

(* snapshot_for_rollback.  The outgoing manifest may be unreadable, and then *)
(* the snapshot is taken whatever the state versions say.                    *)
NoSnapshotNeeded ==
    /\ pc = "snapshot"
    /\ mem.from /= None => ReadableBy(mem.to, mem.from)
    /\ Write(mem, "activate")
    /\ UNCHANGED <<dirs, staging, links, state, world, trusted, counts>>

SnapshotNeeded ==
    /\ pc = "snapshot" /\ mem.from /= None
    /\ snap' = [snap EXCEPT ![mem.from] = "absent"]
    /\ Goto("copy")
    /\ UNCHANGED <<dirs, staging, links, live, world, trusted, counts>>

CopySnapshot ==
    /\ pc = "copy"
    /\ snap' = [snap EXCEPT ![mem.from] = IF live = "absent" THEN "empty" ELSE live]
    /\ Goto("note_snapshot")
    /\ UNCHANGED <<dirs, staging, links, live, world, trusted, counts>>

SnapshotFails ==
    /\ pc = "copy"
    /\ Leave
    /\ UNCHANGED <<dirs, staging, links, state, world, trusted, counts>>

NoteSnapshot ==
    /\ pc = "note_snapshot"
    /\ Write([mem EXCEPT !.snapshot = TRUE], "activate")
    /\ UNCHANGED <<dirs, staging, links, state, world, trusted, counts>>

-----------------------------------------------------------------------------
(* ACTIVATE. *)

Activate ==
    /\ pc = "activate"
    /\ Write([mem EXCEPT !.phase = "activate"], "stand_down")
    /\ UNCHANGED <<dirs, staging, links, state, world, trusted, counts>>

(* Mutant of SessionStandsDown: stock is not checked to be running again.     *)
StandsDownWithoutStock == session' = None /\ UNCHANGED stock

(* SystemdSession::stand_down and the checks after it: the supervisor has     *)
(* stopped and stock runs.                                                    *)
SessionStandsDown == session' = None /\ stock' = TRUE

(* It did not: the supervisor would not stop, stock would not start, or the   *)
(* wakelock is stuck.                                                         *)
SessionWillNotStandDown == session' \in {session, None} /\ stock' \in {stock, FALSE}

StandDown ==
    /\ pc = "stand_down"
    /\ SessionStandsDown
    /\ Goto("sel_prev")
    /\ UNCHANGED <<dirs, staging, links, state, trusted, counts>>

StandDownFails ==
    /\ pc = "stand_down"
    /\ SessionWillNotStandDown
    /\ Leave
    /\ UNCHANGED <<dirs, staging, links, state, trusted, counts>>

(* PlatformLayout::select refuses a version with no release directory. *)
Selectable(v) == v /= None => Exists(v)

(* Mutant of SelectPrevious: the fallback link is left where it was.          *)
FallbackNotMoved ==
    /\ pc = "sel_prev"
    /\ Goto("sel_cur")
    /\ UNCHANGED <<dirs, staging, links, state, world, trusted, counts>>

SelectPrevious ==
    /\ pc = "sel_prev"
    /\ IF Selectable(mem.from)
       THEN previous' = mem.from /\ Goto("sel_cur")
       ELSE UNCHANGED previous /\ Leave
    /\ UNCHANGED <<dirs, staging, current, state, world, trusted, counts>>

SelectCurrent ==
    /\ pc = "sel_cur"
    /\ IF Selectable(mem.to)
       THEN current' = mem.to /\ Goto("verify")
       ELSE UNCHANGED current /\ Leave
    /\ UNCHANGED <<dirs, staging, previous, state, world, trusted, counts>>

-----------------------------------------------------------------------------
(* VERIFY and COMMIT. *)

Verify ==
    /\ pc = "verify"
    /\ Write([mem EXCEPT !.phase = "verify"], "bring_up")
    /\ UNCHANGED <<dirs, staging, links, state, world, trusted, counts>>

(* systemctl start of a unit that is already active starts nothing. *)
SupervisorStarts == session' = IF session = None THEN current ELSE session

BringUp ==
    /\ pc = "bring_up"
    /\ SupervisorStarts
    /\ Goto("grade")
    /\ UNCHANGED <<dirs, staging, links, state, stock, trusted, counts>>

BringUpFails ==
    /\ pc = "bring_up"
    /\ Leave
    /\ UNCHANGED <<dirs, staging, links, state, world, trusted, counts>>

(* Mutant of GradeReady: an unanswered watch counts as ready.                 *)
GradeUnseen ==
    /\ pc \in {"grade", "rb_grade"}
    /\ trusted' = trusted \cup {session}
    /\ Goto(IF pc = "grade" THEN "commit" ELSE "rolled_back")
    /\ UNCHANGED <<dirs, staging, links, state, world, counts>>

(* health::watch saw `ready`.  A release that cannot read the platform state  *)
(* it was started over is taken not to reach `ready`.                         *)
GradeReady ==
    /\ pc \in {"grade", "rb_grade"}
    /\ session /= None /\ CanRead(session, live)
    /\ trusted' = trusted \cup {session}
    /\ Goto(IF pc = "grade" THEN "commit" ELSE "rolled_back")
    /\ UNCHANGED <<dirs, staging, links, state, world, counts>>

(* It died or ran out of time. *)
GradeUnhealthy ==
    /\ pc = "grade"
    /\ Goto("rb_activate")
    /\ UNCHANGED <<dirs, staging, links, state, world, trusted, counts>>

Commit ==
    /\ pc = "commit"
    /\ Write([mem EXCEPT !.phase = "commit"], "prune")
    /\ UNCHANGED <<dirs, staging, links, state, world, trusted, counts>>

Prunable(v) == Exists(v) /\ v /= mem.to /\ v /= mem.from

Prune(v) ==
    /\ pc = "prune" /\ Prunable(v)
    /\ RemoveTree(v)
    /\ trusted' = trusted \ {v}
    /\ Goto("prune")
    /\ UNCHANGED <<staging, links, state, world, counts>>

Upgraded ==
    /\ pc = "prune" /\ ~ \E v \in Versions : Prunable(v)
    /\ Leave
    /\ UNCHANGED <<dirs, staging, links, state, world, trusted, counts>>

-----------------------------------------------------------------------------
(* The one rollback, after an unhealthy grade or on request. *)

RollbackStart ==
    /\ pc = "idle" /\ ~InFlight /\ commands < MaxCommands /\ previous /= None
    /\ LET record == [Opening(current, previous) EXCEPT
                        !.phase = "activate", !.previous_before = current]
       IN  /\ mem' = record /\ journal' = record
           /\ pc' = "rb_activate" /\ cmd' = "rollback"
    /\ live' = IF live = "absent" THEN "empty" ELSE live
    /\ commands' = commands + 1
    /\ sound' = (current /= None /\ CanRead(current, live'))
    /\ UNCHANGED <<dirs, staging, links, snap, world, trusted, faults, refused>>

RollBack ==
    /\ pc = "rb_activate"
    /\ Write([mem EXCEPT !.phase = "activate"], "rb_stand_down")
    /\ UNCHANGED <<dirs, staging, links, state, world, trusted, counts>>

RollBackStandDown ==
    /\ pc = "rb_stand_down"
    /\ SessionStandsDown
    /\ Goto("revert_cur")
    /\ UNCHANGED <<dirs, staging, links, state, trusted, counts>>

RollBackStandDownFails ==
    /\ pc = "rb_stand_down"
    /\ SessionWillNotStandDown
    /\ Goto("fail")
    /\ UNCHANGED <<dirs, staging, links, state, trusted, counts>>

RollBackVerify ==
    /\ pc = "rb_verify"
    /\ Write([mem EXCEPT !.phase = "verify"], "rb_bring_up")
    /\ UNCHANGED <<dirs, staging, links, state, world, trusted, counts>>

RollBackBringUp ==
    /\ pc = "rb_bring_up"
    /\ \/ SupervisorStarts /\ Goto("rb_grade")
       \/ UNCHANGED session /\ Goto("fail")
    /\ UNCHANGED <<dirs, staging, links, state, stock, trusted, counts>>

(* Neither came up: a last best-effort stand-down, and the journal says failed. *)
RollBackUnhealthy ==
    /\ pc = "rb_grade"
    /\ SessionStandsDown \/ SessionWillNotStandDown
    /\ Goto("fail")
    /\ UNCHANGED <<dirs, staging, links, state, trusted, counts>>

RolledBack ==
    /\ pc = "rolled_back"
    /\ Conclude(mem, "rolled-back")
    /\ UNCHANGED <<dirs, staging, links, state, world, trusted, counts>>

Stranded ==
    /\ pc = "fail"
    /\ Conclude(mem, "failed")
    /\ UNCHANGED <<dirs, staging, links, state, world, trusted, counts>>

-----------------------------------------------------------------------------
(* Pointing the links and the state back, for the rollback and for reconcile. *)

RevertCurrent ==
    /\ pc = "revert_cur"
    /\ IF Selectable(mem.from)
       THEN /\ current' = mem.from
            /\ Goto(IF mem.from = None /\ cmd /= "reconcile" THEN "fail" ELSE "revert_prev")
       ELSE UNCHANGED current /\ Leave
    /\ UNCHANGED <<dirs, staging, previous, state, world, trusted, counts>>

RestoreFallbackLink ==
    /\ pc = "revert_prev"
    /\ previous' = IF mem.previous_before /= None /\ Exists(mem.previous_before)
                   THEN mem.previous_before ELSE None
    /\ Goto("restore_rm")
    /\ UNCHANGED <<dirs, staging, current, state, world, trusted, counts>>

AfterRestore == IF cmd = "reconcile" THEN "rc_done" ELSE "rb_verify"
HasSnapshot  == mem.snapshot /\ snap[mem.from] /= "absent"

NothingToRestore ==
    /\ pc = "restore_rm" /\ ~HasSnapshot
    /\ Goto(AfterRestore)
    /\ UNCHANGED <<dirs, staging, links, state, world, trusted, counts>>

RemoveLiveState ==
    /\ pc = "restore_rm" /\ HasSnapshot
    /\ live' = "absent"
    /\ Goto("restore_put")
    /\ UNCHANGED <<dirs, staging, links, snap, world, trusted, counts>>

(* The rename fails when something recreated the directory meanwhile. *)
PutSnapshotBack ==
    /\ pc = "restore_put"
    /\ \/ live = "absent" /\ live' = snap[mem.from] /\ Goto(AfterRestore)
       \/ live /= "absent" /\ UNCHANGED live /\ Leave
    /\ UNCHANGED <<dirs, staging, links, snap, world, trusted, counts>>

-----------------------------------------------------------------------------
(* `upgrade reconcile`, which `paperctl setup` runs too. *)

(* Mutant of ReconcileStart: the `current` link is not pointed back.          *)
ReconcileFallbackOnly ==
    /\ pc = "idle" /\ InFlight
    /\ cmd' = "reconcile" /\ mem' = journal
    /\ pc' = IF journal.phase = "prepare" THEN "rc_staged" ELSE "revert_prev"
    /\ UNCHANGED <<dirs, staging, links, journal, state, world, trusted, counts>>

(* Mutant of ReconcileStart: an interrupted PREPARE is not picked up.         *)
ReconcileIgnoresPrepare ==
    /\ pc = "idle" /\ InFlight /\ journal.phase /= "prepare"
    /\ cmd' = "reconcile" /\ mem' = journal
    /\ pc' = "revert_cur"
    /\ UNCHANGED <<dirs, staging, links, journal, state, world, trusted, counts>>

ReconcileStart ==
    /\ pc = "idle" /\ InFlight
    /\ cmd' = "reconcile" /\ mem' = journal
    /\ pc' = IF journal.phase = "prepare" THEN "rc_staged" ELSE "revert_cur"
    /\ UNCHANGED <<dirs, staging, links, journal, state, world, trusted, counts>>

(* Mutant of DiscardStaging: the staged candidate is forgotten on disk.       *)
StagingForgotten ==
    /\ pc = "rc_staged"
    /\ Goto("rc_release")
    /\ UNCHANGED <<dirs, staging, links, state, world, trusted, counts>>

DiscardStaging ==
    /\ pc = "rc_staged"
    /\ RemoveStaging
    /\ Goto("rc_release")

(* Mutant of Discardable: the selected release is not spared.                 *)
DiscardableUnlessFallback == mem.to /= None /\ Exists(mem.to) /\ mem.to /= previous

(* Only a release neither link names is removed. *)
Discardable == mem.to /= None /\ Exists(mem.to) /\ mem.to /= current /\ mem.to /= previous

(* `let _ = remove_tree(&release_dir)`: it may stop anywhere.                 *)
LeaveRelease ==
    /\ pc = "rc_release" /\ "io" \in Faults /\ Discardable
    /\ Goto("rc_failed")
    /\ UNCHANGED <<dirs, staging, links, state, world, trusted, counts>>

DiscardRelease ==
    /\ pc = "rc_release"
    /\ IF Discardable
       THEN RemoveTree(mem.to) /\ trusted' = trusted \ {mem.to} /\ Goto("rc_release")
       ELSE UNCHANGED <<dirs, trusted>> /\ Goto("rc_failed")
    /\ UNCHANGED <<staging, links, state, world, counts>>

DiscardedStaging ==
    /\ pc = "rc_failed"
    /\ Conclude([mem EXCEPT !.staged = 0], "failed")
    /\ UNCHANGED <<dirs, staging, links, state, world, trusted, counts>>

Reverted ==
    /\ pc = "rc_done"
    /\ Conclude(mem, "rolled-back")
    /\ UNCHANGED <<dirs, staging, links, state, world, trusted, counts>>

-----------------------------------------------------------------------------
(* The machine around the transaction. *)

(* The boot launcher starts whatever `current` names, journal or no journal;  *)
(* a person starting a session has reconciled first, as docs/updating.md says.*)
Launch ==
    /\ pc = "idle" /\ session = None /\ current /= None
    /\ Autostart \/ ~InFlight
    /\ session' = current
    /\ UNCHANGED <<dirs, staging, links, journal, state, stock, trusted, proc, counts>>

TakeDisplay ==
    /\ session /= None /\ stock
    /\ stock' = FALSE
    /\ UNCHANGED <<dirs, staging, links, journal, state, session, trusted, proc, counts>>

SessionWritesState ==
    /\ session /= None /\ live /= session
    /\ live' = session
    /\ UNCHANGED <<dirs, staging, links, journal, snap, world, trusted, proc, counts>>

(* The supervisor exits; stock comes back through it or its OnFailure= unit. *)
SessionExits ==
    /\ session /= None
    /\ session' = None /\ stock' = TRUE
    /\ UNCHANGED <<dirs, staging, links, journal, state, trusted, proc, counts>>

(* Power is cut: everything volatile goes, and the tablet boots to stock. *)
PowerCut ==
    /\ "power" \in Faults /\ faults < MaxFaults
    /\ faults' = faults + 1
    /\ session' = None /\ stock' = TRUE
    /\ Return
    /\ UNCHANGED <<dirs, staging, links, journal, state, trusted, commands, sound, refused>>

(* Only paperctl goes: a signal, a dropped SSH link, an I/O error.  The       *)
(* session it had started keeps running.                                      *)
Kill ==
    /\ "kill" \in Faults /\ faults < MaxFaults
    /\ pc /= "idle"
    /\ faults' = faults + 1
    /\ Return
    /\ UNCHANGED <<dirs, staging, links, journal, state, world, trusted, commands, sound, refused>>

-----------------------------------------------------------------------------
RunNext ==
    \/ RunStart \/ Stage \/ PrepareFails \/ Refuse \/ (\E v \in Versions : Verified(v))
    \/ AlreadySelected \/ NotYetSelected \/ RemoveOldRelease \/ CommitRelease
    \/ NoteCommit \/ NoSnapshotNeeded \/ SnapshotNeeded \/ CopySnapshot
    \/ SnapshotFails \/ NoteSnapshot \/ Activate \/ StandDown \/ StandDownFails
    \/ SelectPrevious \/ SelectCurrent \/ Verify \/ BringUp
    \/ BringUpFails \/ GradeReady \/ GradeUnhealthy \/ Commit
    \/ (\E v \in Versions : Prune(v)) \/ Upgraded

RollBackNext ==
    \/ RollbackStart \/ RollBack \/ RollBackStandDown \/ RollBackStandDownFails
    \/ RollBackVerify \/ RollBackBringUp \/ RollBackUnhealthy \/ RolledBack \/ Stranded

RevertNext ==
    \/ RevertCurrent \/ RestoreFallbackLink \/ NothingToRestore
    \/ RemoveLiveState \/ PutSnapshotBack

ReconcileNext ==
    \/ ReconcileStart \/ DiscardStaging \/ DiscardRelease \/ LeaveRelease
    \/ DiscardedStaging \/ Reverted

ProcessNext == RunNext \/ RollBackNext \/ RevertNext \/ ReconcileNext
SessionNext == Launch \/ TakeDisplay \/ SessionWritesState \/ SessionExits
FaultNext   == PowerCut \/ Kill

Next == ProcessNext \/ SessionNext \/ FaultNext

Spec == Init /\ [][Next]_vars

(* A started command keeps running until it returns or is stopped, and the    *)
(* person runs reconcile after an interruption, as docs/updating.md asks.  A  *)
(* session still running does not recreate state/platform inside the window   *)
(* between its removal and the rename on every single attempt.                *)
FairSpec ==
    /\ Spec
    /\ WF_vars(pc /= "idle" /\ ProcessNext)
    /\ WF_vars(ReconcileStart)
    /\ SF_vars(live = "absent" /\ PutSnapshotBack)

-----------------------------------------------------------------------------
(* Properties. *)

Settled == pc = "idle" /\ ~InFlight

(* `current` never names a release directory that is missing or half removed, *)
(* at any instant: not between two steps, not after a power cut, not while    *)
(* reconcile discards a candidate (PlatformLayout::select, reconcile's guard  *)
(* on removing releases/<to>, prune).                                         *)
CurrentComplete == current /= None => dirs[current] = "complete"

(* The journal tells the truth once nothing is in flight: `commit` means the  *)
(* candidate is selected and `rolled-back` that the release it replaced is.   *)
JournalTruth ==
    pc = "idle" => /\ journal.phase = "commit" => current = journal.to
                   /\ journal.phase = "rolled-back" => current = journal.from

(* A transaction leaves selected the release it found, or one that reached    *)
(* `ready`, whatever interrupted it.  The one exception the code makes is the *)
(* rollback that could not stand the candidate down, which journals `failed`. *)
SelectedWasGraded ==
    Settled /\ journal.phase /= "none"
        => \/ current = journal.from \/ current \in trusted
           \/ journal.phase = "failed" /\ current = journal.to

(* A staged candidate outlives its transaction only where removing it was     *)
(* refused: no power cut or kill, of a reconcile either, leaves one that no   *)
(* journal names ("rather than an orphan directory nobody will ever look at", *)
(* upgrade.rs 229-231).                                                       *)
NoOrphanStaging == Settled => staging \subseteq refused

(* COMMIT is written only over a candidate that was graded ready, is selected *)
(* and has the release it replaced recorded as the fallback, on disk.         *)
CommitIsEarned ==
    [][(journal'.phase = "commit" /\ journal.phase /= "commit")
        => /\ current = journal'.to /\ current \in trusted
           /\ previous = journal'.from
           /\ previous /= None => dirs[previous] = "complete"]_vars

(* `upgrade run` and `upgrade rollback` move the selection only with the      *)
(* supervisor gone and stock running ("Stand down before activating").        *)
SwapOnlyAtStock ==
    [][(current' /= current /\ cmd /= "reconcile") => session = None /\ stock]_vars

(* A rollback or a revert hands the restored release platform state it can    *)
(* read, if it could read it when the command began, although the candidate   *)
(* wrote its own since (snapshot_for_rollback, restore_snapshot).             *)
StateReadable ==
    Settled /\ journal.phase = "rolled-back" /\ sound => CanRead(current, live)

(* An interrupted transaction is always resolved once reconcile is run: no    *)
(* reachable journal and disk make reconcile fail every time.                 *)
EventuallyResolved == InFlight ~> ~InFlight

-----------------------------------------------------------------------------
(* What the comments and the documentation say, where the code does not do it.*)

(* docs/updating.md on `upgrade rollback`: "this goes back one step"; the     *)
(* method's comment: "Rolls back to `previous` on request".  A requested      *)
(* rollback that reports success has selected the release `previous` named.   *)
RollbackGoesBack ==
    [][cmd = "rollback" /\ pc = "rolled_back" /\ journal'.phase = "rolled-back"
        => current = journal'.to]_vars

=============================================================================
