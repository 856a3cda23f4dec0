----------------------------- MODULE Installer -----------------------------
(***************************************************************************)
(* The package manager's install transaction (platform/packages): install, *)
(* rollback and recover of one app's releases, by processes that share the *)
(* store and exclude each other with a lock directory.                     *)
(*                                                                         *)
(* One action is one durable write: a journal entry, a selection file, a   *)
(* directory rename or one unlink.  A process may be killed, or the power  *)
(* cut, between any two of them, and any of them may fail with an I/O      *)
(* error, which the code passes up with `?`.                               *)
(***************************************************************************)
EXTENDS Naturals, FiniteSets

CONSTANTS
    Versions,       \* the app's published versions, ordered as numbers
    None,           \* an absent Option<Version>
    Procs,          \* the processes that may open the store
    Faults,         \* which of Happenings may happen
    MaxFaults,      \* bound on how many kills, power cuts and I/O errors do
    MaxCommands     \* bound on how many installs and rollbacks are started

(* A process is killed, the power is cut, a write fails; recover and another  *)
(* command run at once; a command is started after a crash, before recover.   *)
Happenings == {"kill", "power", "io", "overlap", "hasty"}

ASSUME ConstantsAssumption ==
    /\ Versions \subseteq Nat /\ IsFiniteSet(Versions)
    /\ None \notin Versions /\ None \notin Procs
    /\ Faults \subseteq Happenings
    /\ MaxFaults \in Nat /\ MaxCommands \in Nat

VARIABLES
    dirs,       \* releases/<version>: absent, complete, bare (no marker), or
                \* damaged (the marker is there and other files are gone)
    staging,    \* the staging directories, by the command that made them
    cur, prev,  \* the versions the files `current` and `previous` name
    journal,    \* state/journal: install intents
    lock,       \* state/locks/<app>.lock: the process that made it
    running,    \* the version of the app that is running
    pc, mem,    \* each process: its next step and its local variables
    crashed,    \* history: a process died and recover has not finished since
    acked,      \* history: the command whose selection was last reported done
    met,        \* history: which of Trials the store has been through
    commands, faults    \* how many of each there have been

files  == <<dirs, staging, cur, prev, journal>>
others == <<running, crashed, acked, met, commands, faults>>
vars   == <<files, lock, pc, mem, others>>

Optional == Versions \cup {None}

(* `started` is the time stamp of the command that wrote the entry; it also   *)
(* names the staging directory a "stage" entry claims.                        *)
Entry == [version : Versions, phase : {"stage", "activate"},
          previous : Optional, started : Nat]

(* What no code of this package keeps from happening: recover breaking the    *)
(* lock of a command at work; a command before the recover a crash calls for; *)
(* a removal stopped after it took other files and before it took the marker; *)
(* a selection change stopped by an I/O error, whose intent stays behind.     *)
Trials == {"overlap", "hasty", "maimed", "stale"}

(* An entry's file is named after its version and phase. *)
File(e) == <<e.version, e.phase>>
Files == Versions \X {"stage", "activate"}

Local == [cmd : {"none", "install", "rollback", "recover"}, version : Optional,
          previous : Optional, activate : BOOLEAN, prune : BOOLEAN, staged : BOOLEAN,
          started : Nat, doomed : SUBSET Versions, todo : SUBSET Files]

Idle == [cmd |-> "none", version |-> None, previous |-> None, activate |-> FALSE,
         prune |-> FALSE, staged |-> FALSE, started |-> 0, doomed |-> {}, todo |-> {}]

Steps == {"idle", "check", "rollback", "begin", "stage", "commit", "finish", "prev", "cur",
          "unjournal", "prune", "unlink", "undo", "unstage", "next", "decide", "restore",
          "sweep"}

TypeOK ==
    /\ dirs \in [Versions -> {"absent", "complete", "bare", "damaged"}]
    /\ staging \subseteq Nat
    /\ cur \in Optional /\ prev \in Optional
    /\ journal \subseteq Entry
    /\ lock \in Procs \cup {None}
    /\ running \in Optional
    /\ pc \in [Procs -> Steps] /\ mem \in [Procs -> Local]
    /\ crashed \in BOOLEAN /\ acked \in Nat /\ met \subseteq Trials
    /\ commands \in Nat /\ faults \in Nat

Init ==
    /\ dirs = [v \in Versions |-> "absent"]
    /\ staging = {} /\ journal = {}
    /\ cur = None /\ prev = None
    /\ lock = None /\ running = None
    /\ pc = [p \in Procs |-> "idle"] /\ mem = [p \in Procs |-> Idle]
    /\ crashed = FALSE /\ acked = 0 /\ met = {}
    /\ commands = 0 /\ faults = 0

-----------------------------------------------------------------------------
(* Reading the store. *)

(* read_marker: the completion marker is in the release directory. *)
HasMarker(v) == dirs[v] \in {"complete", "damaged"}

(* Layout::current and ::previous: a selection without a marker reads as none. *)
Usable(v) == IF v /= None /\ HasMarker(v) THEN v ELSE None

InstalledVersions == {v \in Versions : HasMarker(v)}

(* What is left after some more of a tree has been unlinked, in whatever      *)
(* order readdir names its files.                                             *)
AfterUnlink(v) == CASE dirs[v] = "complete" -> {"bare", "damaged"}
                    [] dirs[v] = "damaged" -> {"bare"}
                    [] OTHER -> {"absent"}

(* Moving between steps. *)
Goto(p, step) == pc' = [pc EXCEPT ![p] = step] /\ UNCHANGED mem

(* The command returns, and dropping its AppLock removes the lock directory,  *)
(* whoever made the one that is there now.                                    *)
Return(p) ==
    /\ pc' = [pc EXCEPT ![p] = "idle"] /\ mem' = [mem EXCEPT ![p] = Idle]
    /\ lock' = None

(* The command returns holding no lock. *)
Stop(p) ==
    /\ pc' = [pc EXCEPT ![p] = "idle"] /\ mem' = [mem EXCEPT ![p] = Idle]
    /\ UNCHANGED lock

(* How an install leaves: through Transaction::finish when it has one. *)
Bail(p) == IF mem[p].staged THEN Goto(p, "undo") /\ UNCHANGED lock ELSE Return(p)

Busy == \E p \in Procs : pc[p] /= "idle"

RecoverAtWork == \E p \in Procs : mem[p].cmd = "recover"

Meets(trial, happens) == met' = IF happens THEN met \cup {trial} ELSE met

(* A removal is stopped where it is. *)
Maims == Meets("maimed", \E v \in Versions : dirs[v] = "damaged")

Write(e) == journal' = {x \in journal : File(x) /= File(e)} \cup {e}

Begin(p, step, command) ==
    /\ pc[p] = "idle" /\ commands < MaxCommands
    /\ crashed => "hasty" \in Faults
    /\ RecoverAtWork => "overlap" \in Faults
    /\ lock = None
    /\ met' = met \cup (IF crashed THEN {"hasty"} ELSE {})
                   \cup (IF RecoverAtWork THEN {"overlap"} ELSE {})
    /\ lock' = p
    /\ commands' = commands + 1
    /\ pc' = [pc EXCEPT ![p] = step] /\ mem' = [mem EXCEPT ![p] = command]
    /\ UNCHANGED <<files, running, crashed, acked, faults>>

-----------------------------------------------------------------------------
(* install *)

Install(p, v, activate, prune) ==
    Begin(p, "check", [Idle EXCEPT !.cmd = "install", !.version = v, !.activate = activate,
                                   !.prune = prune, !.started = commands + 1])

(* A downgrade, or other bytes under a version already on disk. *)
Refused(p) ==
    /\ pc[p] = "check"
    /\ \/ Usable(cur) /= None /\ Usable(cur) > mem[p].version
       \/ HasMarker(mem[p].version)
    /\ Return(p)
    /\ UNCHANGED <<files, others>>

(* Downgrades are allowed when the caller says so. *)
AlreadyPresent(p) ==
    /\ pc[p] = "check" /\ HasMarker(mem[p].version)
    /\ mem' = [mem EXCEPT ![p].previous = Usable(cur)]
    /\ pc' = [pc EXCEPT ![p] = "finish"]
    /\ UNCHANGED <<files, lock, others>>

BeginStaging(p) ==
    /\ pc[p] = "check" /\ ~HasMarker(mem[p].version)
    /\ staging' = staging \cup {mem[p].started}
    /\ mem' = [mem EXCEPT ![p].previous = Usable(cur)]
    /\ pc' = [pc EXCEPT ![p] = "begin"]
    /\ UNCHANGED <<dirs, cur, prev, journal, lock, others>>

BeginJournal(p) ==
    /\ pc[p] = "begin"
    /\ Write([version |-> mem[p].version, phase |-> "stage",
              previous |-> None, started |-> mem[p].started])
    /\ mem' = [mem EXCEPT ![p].staged = TRUE]
    /\ pc' = [pc EXCEPT ![p] = "stage"]
    /\ UNCHANGED <<dirs, staging, cur, prev, lock, others>>

(* Anything the download, the archive or the manifest is refused for. *)
StageFails(p) ==
    /\ pc[p] = "stage"
    /\ Bail(p)
    /\ UNCHANGED <<files, others>>

(* A release this platform cannot run is kept but not activated. *)
Staged(p) ==
    /\ pc[p] = "stage" /\ mem[p].started \in staging
    /\ \E runnable \in BOOLEAN :
         mem' = [mem EXCEPT ![p].activate = @ /\ runnable]
    /\ pc' = [pc EXCEPT ![p] = "commit"]
    /\ UNCHANGED <<files, lock, others>>

(* The rename needs the name to be free, or an empty directory. *)
CommitDirectory(p) ==
    /\ pc[p] = "commit" /\ mem[p].started \in staging
    /\ dirs[mem[p].version] \in {"absent", "bare"}
    /\ dirs' = [dirs EXCEPT ![mem[p].version] = "complete"]
    /\ Goto(p, "finish")
    /\ UNCHANGED <<staging, cur, prev, journal, lock, others>>

CommitRefused(p) ==
    /\ pc[p] = "commit"
    /\ dirs[mem[p].version] /= "absent" \/ mem[p].started \notin staging
    /\ Bail(p)
    /\ UNCHANGED <<files, others>>

-----------------------------------------------------------------------------
(* The tail of an install, and the selection change rollback shares. *)

Activates(p) == mem[p].activate /\ mem[p].previous /= mem[p].version

(* The guard says the app is running: nothing is selected. *)
Running(p) ==
    /\ pc[p] = "finish" /\ Activates(p) /\ running /= None
    /\ Bail(p)
    /\ UNCHANGED <<files, others>>

(* Mutant of JournalActivation: the guard is not asked.                       *)
JournalUnguarded(p) ==
    /\ pc[p] = "finish" /\ Activates(p)
    /\ Write([version |-> mem[p].version, phase |-> "activate",
              previous |-> mem[p].previous, started |-> mem[p].started])
    /\ Goto(p, "prev")
    /\ UNCHANGED <<dirs, staging, cur, prev, lock, others>>

JournalActivation(p) ==
    /\ pc[p] = "finish" /\ Activates(p) /\ running = None
    /\ Write([version |-> mem[p].version, phase |-> "activate",
              previous |-> mem[p].previous, started |-> mem[p].started])
    /\ Goto(p, "prev")
    /\ UNCHANGED <<dirs, staging, cur, prev, lock, others>>

NotActivated(p) ==
    /\ pc[p] = "finish" /\ ~Activates(p)
    /\ Goto(p, "prune")
    /\ UNCHANGED <<files, lock, others>>

(* apply_selection: the fallback first, then the selection. *)
WritePrevious(p) ==
    /\ pc[p] = "prev"
    /\ prev' = IF mem[p].previous \in {None, mem[p].version} THEN prev ELSE mem[p].previous
    /\ Goto(p, "cur")
    /\ UNCHANGED <<dirs, staging, cur, journal, lock, others>>

WriteCurrent(p) ==
    /\ pc[p] = "cur"
    /\ cur' = mem[p].version
    /\ Goto(p, "unjournal")
    /\ UNCHANGED <<dirs, staging, prev, journal, lock, others>>

(* The entry goes: the selection is done, and stays done. *)
RemoveEntry(p) ==
    /\ pc[p] = "unjournal" /\ mem[p].cmd /= "recover"
    /\ journal' = {x \in journal : File(x) /= <<mem[p].version, "activate">>}
    /\ acked' = mem[p].started
    /\ IF mem[p].cmd = "install" THEN Goto(p, "prune") /\ UNCHANGED lock ELSE Return(p)
    /\ UNCHANGED <<dirs, staging, cur, prev, running, crashed, met, commands, faults>>

(* Mutants of Keep: the selected release, or the fallback, is not spared.     *)
KeepFallback(p) == {Usable(prev), mem[p].version}
KeepSelected(p) == {Usable(cur), mem[p].version}

Keep(p) == {Usable(cur), Usable(prev), mem[p].version}

Prune(p) ==
    /\ pc[p] = "prune"
    /\ LET doomed == IF mem[p].prune THEN InstalledVersions \ Keep(p) ELSE {}
       IN  IF doomed = {}
           THEN Bail(p)
           ELSE /\ mem' = [mem EXCEPT ![p].doomed = doomed]
                /\ pc' = [pc EXCEPT ![p] = "unlink"]
                /\ UNCHANGED lock
    /\ UNCHANGED <<files, others>>

(* Oldest first, one tree at a time. *)
Unlink(p, v) ==
    /\ pc[p] = "unlink" /\ v \in mem[p].doomed
    /\ \A w \in mem[p].doomed : v <= w
    /\ \E left \in AfterUnlink(v) :
         /\ dirs' = [dirs EXCEPT ![v] = left]
         /\ mem' = [mem EXCEPT ![p].doomed = IF left = "absent" THEN @ \ {v} ELSE @]
    /\ UNCHANGED <<staging, cur, prev, journal, lock, pc, others>>

Pruned(p) ==
    /\ pc[p] = "unlink" /\ mem[p].doomed = {}
    /\ Bail(p)
    /\ UNCHANGED <<files, others>>

(* Transaction::finish, after a success and after a clean failure. *)
RemoveStaging(p) ==
    /\ pc[p] = "undo"
    /\ staging' = staging \ {mem[p].started}
    /\ Goto(p, "unstage")
    /\ UNCHANGED <<dirs, cur, prev, journal, lock, others>>

RemoveStageEntry(p) ==
    /\ pc[p] = "unstage"
    /\ journal' = {x \in journal : File(x) /= <<mem[p].version, "stage">>}
    /\ Return(p)
    /\ UNCHANGED <<dirs, staging, cur, prev, others>>

-----------------------------------------------------------------------------
(* rollback *)

Rollback(p) ==
    Begin(p, "rollback", [Idle EXCEPT !.cmd = "rollback", !.started = commands + 1])

RollbackRefused(p) ==
    /\ pc[p] = "rollback"
    /\ Usable(cur) = None \/ Usable(prev) = None \/ running /= None
    /\ Return(p)
    /\ UNCHANGED <<files, others>>

(* The version rolled back from becomes the fallback. *)
RollbackJournal(p) ==
    /\ pc[p] = "rollback"
    /\ Usable(cur) /= None /\ Usable(prev) /= None /\ running = None
    /\ mem' = [mem EXCEPT ![p].version = Usable(prev), ![p].previous = Usable(cur)]
    /\ Write([version |-> Usable(prev), phase |-> "activate",
              previous |-> Usable(cur), started |-> mem[p].started])
    /\ pc' = [pc EXCEPT ![p] = "prev"]
    /\ UNCHANGED <<dirs, staging, cur, prev, lock, others>>

-----------------------------------------------------------------------------
(* recover *)

(* Mutant of Recover: the locks of killed processes are left.                 *)
RecoverLocked(p) ==
    /\ pc[p] = "idle"
    /\ Busy => "overlap" \in Faults
    /\ Meets("overlap", Busy)
    /\ pc' = [pc EXCEPT ![p] = "next"]
    /\ mem' = [mem EXCEPT ![p] = [Idle EXCEPT !.cmd = "recover",
                                              !.todo = {File(e) : e \in journal}]]
    /\ UNCHANGED <<files, lock, running, crashed, acked, commands, faults>>

(* AppLock::break_all, then JournalEntry::all. *)
Recover(p) ==
    /\ pc[p] = "idle"
    /\ Busy => "overlap" \in Faults
    /\ Meets("overlap", Busy)
    /\ lock' = None
    /\ pc' = [pc EXCEPT ![p] = "next"]
    /\ mem' = [mem EXCEPT ![p] = [Idle EXCEPT !.cmd = "recover",
                                              !.todo = {File(e) : e \in journal}]]
    /\ UNCHANGED <<files, running, crashed, acked, commands, faults>>

(* Entries are taken in the order of their file names: of one version, its    *)
(* activation before its staging.  Version names sort in any order.           *)
Takes(p, file) ==
    /\ file \in mem[p].todo
    /\ file[2] = "stage" => <<file[1], "activate">> \notin mem[p].todo

(* The entry is read, the app locked and the staging directory removed, or    *)
(* somebody else has the lock or has removed the entry since it was listed.   *)
RecoverEntry(p) ==
    /\ pc[p] = "next"
    /\ \E file \in mem[p].todo :
         /\ Takes(p, file)
         /\ IF lock = None /\ \E e \in journal : File(e) = file
            THEN LET e == CHOOSE e \in journal : File(e) = file
                 IN  /\ staging' = IF e.phase = "stage" THEN staging \ {e.started}
                                                        ELSE staging
                     /\ mem' = [mem EXCEPT
                                  ![p].version = e.version, ![p].previous = e.previous,
                                  ![p].started = e.started, ![p].todo = @ \ {file},
                                  ![p].activate = (e.phase = "activate")]
                     /\ pc' = [pc EXCEPT ![p] = IF e.phase = "activate" THEN "decide"
                                                ELSE "unjournal"]
                     /\ lock' = p
            ELSE Stop(p) /\ UNCHANGED staging
    /\ UNCHANGED <<dirs, cur, prev, journal, others>>

Decide(p) ==
    /\ pc[p] = "decide"
    /\ Goto(p, IF HasMarker(mem[p].version) THEN "prev" ELSE "restore")
    /\ UNCHANGED <<files, lock, others>>

(* usable_fallback *)
Fallback(p) ==
    IF Usable(mem[p].previous) /= None THEN Usable(mem[p].previous)
    ELSE IF Usable(cur) /= None THEN Usable(cur)
    ELSE IF InstalledVersions /= {}
         THEN CHOOSE v \in InstalledVersions : \A w \in InstalledVersions : w <= v
         ELSE None

RestoreSelection(p) ==
    /\ pc[p] = "restore"
    /\ cur' = Fallback(p)
    /\ Goto(p, "unjournal")
    /\ UNCHANGED <<dirs, staging, prev, journal, lock, others>>

(* Mutant of Repaired: the entry outlives its repair.                         *)
RepairedEntryKept(p) ==
    /\ pc[p] = "unjournal" /\ mem[p].cmd = "recover"
    /\ acked' = IF mem[p].activate THEN mem[p].started ELSE acked
    /\ lock' = None
    /\ Goto(p, "next")
    /\ UNCHANGED <<files, running, crashed, met, commands, faults>>

(* The entry is removed and its lock dropped. *)
Repaired(p) ==
    /\ pc[p] = "unjournal" /\ mem[p].cmd = "recover"
    /\ journal' = {x \in journal :
                     File(x) /= <<mem[p].version, IF mem[p].activate THEN "activate"
                                                                      ELSE "stage">>}
    /\ acked' = IF mem[p].activate THEN mem[p].started ELSE acked
    /\ lock' = None
    /\ Goto(p, "next")
    /\ UNCHANGED <<dirs, staging, cur, prev, running, crashed, met, commands, faults>>

(* Mutant of SweepStaging: only what an entry claimed is removed.             *)
StagingNotSwept(p) ==
    /\ pc[p] = "next" /\ mem[p].todo = {}
    /\ Goto(p, "sweep")
    /\ UNCHANGED <<files, lock, others>>

(* Every entry is done, and what no entry claims goes. *)
SweepStaging(p) ==
    /\ pc[p] = "next" /\ mem[p].todo = {}
    /\ staging' = {}
    /\ Goto(p, "sweep")
    /\ UNCHANGED <<dirs, cur, prev, journal, lock, others>>

SweepIncomplete(p) ==
    /\ pc[p] = "sweep"
    /\ \E v \in Versions : dirs[v] = "bare" /\ dirs' = [dirs EXCEPT ![v] = "absent"]
    /\ Goto(p, "sweep")
    /\ UNCHANGED <<staging, cur, prev, journal, lock, others>>

Recovered(p) ==
    /\ pc[p] = "sweep" /\ \A v \in Versions : dirs[v] /= "bare"
    /\ Stop(p)
    /\ crashed' = FALSE
    /\ UNCHANGED <<files, running, acked, met, commands, faults>>

-----------------------------------------------------------------------------
(* The machine around the store. *)

(* The host launches the selected release; it never asks the installer. *)
Launch ==
    /\ running = None /\ Usable(cur) /= None
    /\ running' = Usable(cur)
    /\ UNCHANGED <<files, lock, pc, mem, crashed, acked, met, commands, faults>>

Exit ==
    /\ running /= None
    /\ running' = None
    /\ UNCHANGED <<files, lock, pc, mem, crashed, acked, met, commands, faults>>

Kill(p) ==
    /\ "kill" \in Faults /\ faults < MaxFaults
    /\ pc[p] /= "idle"
    /\ faults' = faults + 1 /\ crashed' = TRUE
    /\ Stop(p) /\ Maims
    /\ UNCHANGED <<files, running, acked, commands>>

PowerCut ==
    /\ "power" \in Faults /\ faults < MaxFaults
    /\ faults' = faults + 1 /\ crashed' = TRUE
    /\ running' = None /\ Maims
    /\ pc' = [p \in Procs |-> "idle"] /\ mem' = [p \in Procs |-> Idle]
    /\ UNCHANGED <<files, lock, acked, commands>>

(* One write fails and the error is passed up.  Inside the transaction it is  *)
(* still tidied up; before it has its entry, and while tidying, it is not.    *)
IoError(p) ==
    /\ "io" \in Faults /\ faults < MaxFaults
    /\ pc[p] \notin {"idle", "check", "rollback"}
    /\ faults' = faults + 1
    /\ CASE pc[p] \in {"next", "sweep"} -> Stop(p)
         [] pc[p] \in {"undo", "unstage"} -> Return(p)
         [] OTHER -> Bail(p)
    /\ IF pc[p] \in {"prev", "cur", "unjournal"} THEN Meets("stale", mem[p].cmd /= "recover")
                                                  ELSE Maims
    /\ UNCHANGED <<files, running, crashed, acked, commands>>

-----------------------------------------------------------------------------
InstallNext(p) ==
    \/ (\E v \in Versions, activate, prune \in BOOLEAN : Install(p, v, activate, prune))
    \/ Refused(p) \/ AlreadyPresent(p) \/ BeginStaging(p) \/ BeginJournal(p)
    \/ StageFails(p) \/ Staged(p) \/ CommitDirectory(p) \/ CommitRefused(p)
    \/ Running(p) \/ JournalActivation(p) \/ NotActivated(p)
    \/ WritePrevious(p) \/ WriteCurrent(p) \/ RemoveEntry(p)
    \/ Prune(p) \/ (\E v \in Versions : Unlink(p, v)) \/ Pruned(p)
    \/ RemoveStaging(p) \/ RemoveStageEntry(p)

RollbackNext(p) == Rollback(p) \/ RollbackRefused(p) \/ RollbackJournal(p)

RecoverNext(p) ==
    \/ Recover(p) \/ RecoverEntry(p) \/ Decide(p) \/ RestoreSelection(p) \/ Repaired(p)
    \/ SweepStaging(p) \/ SweepIncomplete(p) \/ Recovered(p)

ProcNext(p) == InstallNext(p) \/ RollbackNext(p) \/ RecoverNext(p)

Next ==
    \/ (\E p \in Procs : ProcNext(p) \/ Kill(p) \/ IoError(p))
    \/ Launch \/ Exit \/ PowerCut

Spec == Init /\ [][Next]_vars

(* A command runs until it returns or is stopped, and after a crash somebody  *)
(* runs `paperctl recover`.                                                   *)
FairSpec ==
    /\ Spec
    /\ \A p \in Procs : WF_vars(pc[p] /= "idle" /\ ProcNext(p))
    /\ WF_vars(crashed /\ \E p \in Procs : Recover(p))

-----------------------------------------------------------------------------
(* Properties. *)

(* Nothing is at work beside recover, and no removal was stopped between a    *)
(* file and the marker; nor was anything else met.                            *)
Careful == met \cap {"overlap", "maimed"} = {}
Prompt == met = {}

(* The module comment's invariant: "the selected version is a complete        *)
(* release directory, or there is no selected version", at every instant and  *)
(* whatever is killed or fails: no prune, replayed activation or restored     *)
(* fallback leaves `current` on a directory that is not all there.            *)
SelectedWhole == cur /= None => dirs[cur] = "complete"

(* It holds for as long as recover does not break the lock of a command at    *)
(* work and no removal is stopped with the marker still there: through other  *)
(* removals that are stopped, and commands started before recover.            *)
SelectedComplete == Careful => SelectedWhole

(* "So an update never replaces the running version of an active app": its    *)
(* directory is not pruned, although the guard is asked before the journal    *)
(* is written and the app may be launched between the two.                    *)
RunningWhole == running /= None => dirs[running] = "complete"
RunningKept == Prompt => RunningWhole

(* A recovery that ran to its end after a crash leaves no staging directory,  *)
(* no intent, no lock and no release directory that is not all there.         *)
RecoveredClean ==
    [][crashed /\ ~crashed' /\ Careful
        => /\ staging = {} /\ journal = {} /\ lock = None
           /\ \A v \in Versions : dirs[v] \in {"absent", "complete"}]_vars

(* Once reported done, a selection is only replaced by a later request:       *)
(* recover never brings an older intent back over it ("finishing is what the  *)
(* operator asked for"), while every crash was recovered first and no         *)
(* selection change was stopped by an I/O error (install.rs 671).             *)
LatestWins ==
    [][Prompt => \A p \in Procs : pc[p] \in {"cur", "restore"} /\ cur' /= cur
                                  => mem[p].started >= acked]_vars

(* "Keep the previous release": the fallback on record can be rolled back to. *)
FallbackWhole == prev /= None => dirs[prev] = "complete"
FallbackUsable == Prompt => FallbackWhole

(* No lock is left behind for good: a killed process's is broken by recover,  *)
(* which never locks itself out.                                              *)
LockReleased == lock /= None ~> lock = None
=============================================================================
