--------------------------- MODULE UpgradeProofs ---------------------------
(***************************************************************************)
(* Proofs about the update transaction, for any set of releases, any state *)
(* versions and any number of commands, power cuts and kills.              *)
(*                                                                         *)
(* Almost nothing that matters here is inductive by itself: whether a swap *)
(* or a removal is safe depends on how far the process has come and on     *)
(* what the journal says, so the invariant is a table of what each step    *)
(* and each journal phase promise.                                         *)
(***************************************************************************)
EXTENDS Upgrade, TLAPS

Preparing == {"stage", "verify_bundle", "refuse", "commit_dir", "note_commit", "snapshot", "copy",
              "note_snapshot", "activate", "rc_staged", "rc_release", "rc_failed"}
Swapping  == {"stand_down", "sel_prev", "sel_cur", "verify"}
Grading   == {"bring_up", "grade", "commit"}
Undone    == {"revert_prev", "restore_rm", "restore_put", "rc_done", "rb_verify",
              "rb_bring_up", "rb_grade", "rolled_back"}
Undoing   == Undone \cup {"rb_activate", "rb_stand_down", "revert_cur", "fail"}
Placed    == {"note_commit", "snapshot", "copy", "note_snapshot", "activate",
              "stand_down", "sel_prev", "sel_cur"}

(* A running command's record is the one on disk, and its phase follows from  *)
(* the step the command is at.                                                *)
PhaseInv ==
    /\ pc /= "idle" => mem = journal
    /\ pc \in Preparing => journal.phase = "prepare"
    /\ pc \in Swapping => journal.phase = "activate"
    /\ pc \in Grading => journal.phase = "verify"
    /\ pc = "prune" => journal.phase = "commit"
    /\ pc \in Undoing => journal.phase \in {"activate", "verify"}

(* A snapshot is only ever one of a release that was selected.                *)
SnapshotInv ==
    /\ mem.snapshot => mem.from /= None
    /\ journal.snapshot => journal.from /= None
    /\ pc \in {"copy", "note_snapshot"} => mem.from /= None
    /\ pc = "restore_put" => mem.snapshot

(* The release an open transaction goes back to is on disk.                   *)
FromInv == InFlight /\ journal.from /= None => dirs[journal.from] = "complete"

(* Which release the links name, by step and by phase.                        *)
SelectionInv ==
    /\ journal.phase = "prepare" => current = journal.from
    /\ pc \in Grading \cup {"verify"} \/ journal.phase = "commit" => current = journal.to
    /\ pc \in Undone \/ journal.phase = "rolled-back" => current = journal.from
    /\ pc \in Grading \cup {"verify", "sel_cur"} => previous = journal.from
    /\ InFlight \/ journal.phase = "failed" => current \in {journal.from, journal.to}

(* The candidate is never the release it replaces, and is complete from its   *)
(* rename until it is selected.                                               *)
CandidateInv ==
    /\ pc \in Placed \cup {"commit_dir"} => journal.to /= None /\ journal.to /= journal.from
    /\ pc \in Placed => dirs[journal.to] = "complete"

(* A staged candidate is claimed by the journal, or could not be removed.     *)
StagingInv ==
    /\ \A d \in staging : d \in refused \/ (journal.phase = "prepare" /\ d = journal.staged)
    /\ pc \in {"refuse", "note_commit", "snapshot", "copy", "note_snapshot", "activate",
               "rc_release", "rc_failed"} => staging \subseteq refused

(* The session stays down from the stand-down to the bring-up.                *)
SessionInv ==
    /\ pc \in {"sel_prev", "sel_cur"} => session = None /\ stock
    /\ pc = "revert_cur" /\ cmd /= "reconcile" => session = None /\ stock
    /\ pc \in {"verify", "bring_up"} => session = None
    /\ pc = "grade" => session \in {None, current}
    /\ pc = "commit" \/ journal.phase = "commit" => current \in trusted

TypeInv == TypeOK /\ PhaseInv /\ SnapshotInv

SafeInv == CurrentComplete /\ FromInv /\ SelectionInv /\ CandidateInv /\ StagingInv
           /\ SessionInv

IInv == TypeInv /\ SafeInv

-----------------------------------------------------------------------------
(* The records a command writes are records. *)

LEMMA NoRecordType == NoRecord \in Record
  BY DEF NoRecord, Record, Phases, Optional

LEMMA FieldTypes ==
    ASSUME NEW r \in Record
    PROVE  r.from \in Optional /\ r.to \in Optional /\ r.previous_before \in Optional
  BY DEF Record

LEMMA FlagUpdate ==
    ASSUME NEW r \in Record
    PROVE  /\ [r EXCEPT !.staged = 0] \in Record
           /\ [r EXCEPT !.snapshot = TRUE] \in Record
  BY DEF Record

LEMMA PhaseUpdate ==
    ASSUME NEW r \in Record, NEW phase \in Phases
    PROVE  /\ [r EXCEPT !.phase = phase] \in Record
           /\ [r EXCEPT !.staged = 0, !.phase = phase] \in Record
  BY DEF Record

LEMMA OpeningType ==
    ASSUME NEW from \in Optional, NEW to \in Optional, NEW before \in Optional, NEW n \in Nat
    PROVE  /\ [Opening(from, to) EXCEPT !.previous_before = before, !.staged = n] \in Record
           /\ [Opening(from, to) EXCEPT !.phase = "activate", !.previous_before = before]
                 \in Record
  BY DEF Opening, NoRecord, Record, Phases, Optional

-----------------------------------------------------------------------------
(* Types, phases and snapshots. *)

LEMMA TypeInvInit == Init => TypeInv
  <1> SUFFICES ASSUME Init PROVE TypeInv
    OBVIOUS
  <1>1. TypeOK
    BY NoRecordType DEF Init, TypeOK, Optional, Contents, Steps
  <1>2. PhaseInv /\ SnapshotInv
    BY DEF Init, PhaseInv, SnapshotInv, NoRecord, Preparing, Swapping, Grading, Undone, Undoing
  <1> QED
    BY <1>1, <1>2 DEF TypeInv

LEMMA TypeInvStep == TypeInv /\ [Next]_vars => TypeInv'
  <1> SUFFICES ASSUME TypeInv, [Next]_vars PROVE TypeInv'
    OBVIOUS
  <1>1. CASE RunStart
    <2> USE <1>1
    <2>0. commands + 1 \in Nat
      BY DEF TypeInv, TypeOK
    <2>a. [Opening(current, None) EXCEPT !.previous_before = previous,
                                         !.staged = commands + 1] \in Record
      BY <2>0, OpeningType DEF TypeInv, TypeOK, Optional
    <2>1. journal' \in Record /\ mem' \in Record
      BY <2>a DEF RunStart
    <2>2. TypeOK'
      BY <2>1 DEF TypeInv, TypeOK, links, state, world, counts, RunStart, Steps, RunSteps,
          Contents
    <2>3. PhaseInv'
      BY DEF TypeInv, TypeOK, PhaseInv, Record, Preparing, Swapping, Grading, Undone,
          Undoing, links, state, world, proc, counts, RunStart, Opening, NoRecord,
          InFlight
    <2>4. SnapshotInv'
      BY DEF TypeInv, TypeOK, PhaseInv, SnapshotInv, Record, NoRecord, links, state,
          world, proc, counts, RunStart, Opening, InFlight
    <2> QED
      BY <2>2, <2>3, <2>4 DEF TypeInv
  <1>2. CASE Refuse
    <2> USE <1>2
    <2>1. journal' \in Record /\ mem' \in Record
      BY NoRecordType, PhaseUpdate DEF TypeInv, TypeOK, Refuse, Conclude, Return,
          Phases
    <2>2. TypeOK'
      BY <2>1 DEF TypeInv, TypeOK, links, state, world, counts, Refuse, Conclude,
          Return, Steps
    <2>3. PhaseInv'
      BY DEF TypeInv, TypeOK, PhaseInv, Record, Preparing, Swapping, Grading, Undone,
          Undoing, links, state, world, proc, counts, Refuse, Conclude, Return
    <2>4. SnapshotInv'
      BY DEF TypeInv, TypeOK, PhaseInv, SnapshotInv, Record, NoRecord, links, state,
          world, proc, counts, Refuse, Conclude, Return
    <2> QED
      BY <2>2, <2>3, <2>4 DEF TypeInv
  <1>3. CASE RemoveOldRelease
    <2> USE <1>3
    <2>1. TypeOK'
      BY DEF TypeInv, TypeOK, links, state, world, counts, RemoveOldRelease, RemoveTree,
          Goto, Steps, RunSteps
    <2>2. PhaseInv'
      BY DEF TypeInv, TypeOK, PhaseInv, Record, Preparing, Swapping, Grading, Undone,
          Undoing, links, state, world, proc, counts, RemoveOldRelease, RemoveTree, Goto
    <2>3. SnapshotInv'
      BY DEF TypeInv, TypeOK, PhaseInv, SnapshotInv, Record, NoRecord, links, state,
          world, proc, counts, RemoveOldRelease, RemoveTree, Goto
    <2> QED
      BY <2>1, <2>2, <2>3 DEF TypeInv
  <1>4. CASE CommitRelease
    <2> USE <1>4
    <2>1. TypeOK'
      BY DEF TypeInv, TypeOK, links, state, world, counts, CommitRelease, Goto, Steps,
          RunSteps
    <2>2. PhaseInv'
      BY DEF TypeInv, TypeOK, PhaseInv, Record, Preparing, Swapping, Grading, Undone,
          Undoing, links, state, world, proc, counts, CommitRelease, Goto, Exists
    <2>3. SnapshotInv'
      BY DEF TypeInv, TypeOK, PhaseInv, SnapshotInv, Record, NoRecord, links, state,
          world, proc, counts, CommitRelease, Goto, Exists
    <2> QED
      BY <2>1, <2>2, <2>3 DEF TypeInv
  <1>5. CASE NoteCommit
    <2> USE <1>5
    <2>1. journal' \in Record /\ mem' \in Record
      BY FlagUpdate DEF TypeInv, TypeOK, NoteCommit, Write
    <2>2. TypeOK'
      BY <2>1 DEF TypeInv, TypeOK, links, state, world, counts, NoteCommit, Write, Steps,
          RunSteps
    <2>3. PhaseInv'
      BY DEF TypeInv, TypeOK, PhaseInv, Record, Preparing, Swapping, Grading, Undone,
          Undoing, links, state, world, proc, counts, NoteCommit, Write
    <2>4. SnapshotInv'
      BY DEF TypeInv, TypeOK, PhaseInv, SnapshotInv, Record, NoRecord, links, state,
          world, proc, counts, NoteCommit, Write
    <2> QED
      BY <2>2, <2>3, <2>4 DEF TypeInv
  <1>6. CASE NoteSnapshot
    <2> USE <1>6
    <2>1. journal' \in Record /\ mem' \in Record
      BY FlagUpdate DEF TypeInv, TypeOK, NoteSnapshot, Write
    <2>2. TypeOK'
      BY <2>1 DEF TypeInv, TypeOK, links, state, world, counts, NoteSnapshot, Write,
          Steps, RunSteps
    <2>3. PhaseInv'
      BY DEF TypeInv, TypeOK, PhaseInv, Record, Preparing, Swapping, Grading, Undone,
          Undoing, links, state, world, proc, counts, NoteSnapshot, Write
    <2>4. SnapshotInv'
      BY DEF TypeInv, TypeOK, PhaseInv, SnapshotInv, Record, NoRecord, links, state,
          world, proc, counts, NoteSnapshot, Write
    <2> QED
      BY <2>2, <2>3, <2>4 DEF TypeInv
  <1>7. CASE StandDownFails
    <2> USE <1>7
    <2>1. TypeOK'
      BY NoRecordType DEF TypeInv, TypeOK, links, state, world, counts, StandDownFails,
          SessionWillNotStandDown, Leave, Return, Steps, Optional
    <2>2. PhaseInv'
      BY DEF TypeInv, TypeOK, PhaseInv, Record, Preparing, Swapping, Grading, Undone,
          Undoing, links, state, world, proc, counts, StandDownFails,
          SessionWillNotStandDown, Leave, Return
    <2>3. SnapshotInv'
      BY DEF TypeInv, TypeOK, PhaseInv, SnapshotInv, Record, NoRecord, links, state,
          world, proc, counts, StandDownFails, SessionWillNotStandDown, Leave, Return
    <2> QED
      BY <2>1, <2>2, <2>3 DEF TypeInv
  <1>8. CASE SelectPrevious
    <2> USE <1>8
    <2>1. current' \in Optional /\ previous' \in Optional
      BY FieldTypes DEF TypeInv, TypeOK, SelectPrevious, Goto, Leave, Return
    <2>2. TypeOK'
      BY <2>1, NoRecordType DEF TypeInv, TypeOK, state, world, counts, SelectPrevious,
          Goto, Leave, Return, Steps, RunSteps
    <2>3. PhaseInv'
      BY DEF TypeInv, TypeOK, PhaseInv, Record, Preparing, Swapping, Grading, Undone,
          Undoing, links, state, world, proc, counts, SelectPrevious, Goto, Leave, Return
    <2>4. SnapshotInv'
      BY DEF TypeInv, TypeOK, PhaseInv, SnapshotInv, Record, NoRecord, links, state,
          world, proc, counts, SelectPrevious, Goto, Leave, Return
    <2> QED
      BY <2>2, <2>3, <2>4 DEF TypeInv
  <1>9. CASE SelectCurrent
    <2> USE <1>9
    <2>1. current' \in Optional /\ previous' \in Optional
      BY FieldTypes DEF TypeInv, TypeOK, SelectCurrent, Goto, Leave, Return
    <2>2. TypeOK'
      BY <2>1, NoRecordType DEF TypeInv, TypeOK, state, world, counts, SelectCurrent,
          Goto, Leave, Return, Steps, RunSteps
    <2>3. PhaseInv'
      BY DEF TypeInv, TypeOK, PhaseInv, Record, Preparing, Swapping, Grading, Undone,
          Undoing, links, state, world, proc, counts, SelectCurrent, Selectable, Goto,
          Leave, Return
    <2>4. SnapshotInv'
      BY DEF TypeInv, TypeOK, PhaseInv, SnapshotInv, Record, NoRecord, links, state,
          world, proc, counts, SelectCurrent, Selectable, Goto, Leave, Return
    <2> QED
      BY <2>2, <2>3, <2>4 DEF TypeInv
  <1>10. CASE RollbackStart
    <2> USE <1>10
    <2>1. journal' \in Record /\ mem' \in Record
      BY OpeningType DEF TypeInv, TypeOK, RollbackStart, Optional
    <2>2. TypeOK'
      BY <2>1 DEF TypeInv, TypeOK, links, state, world, counts, RollbackStart, Steps,
          RollBackSteps, Contents
    <2>3. PhaseInv'
      BY DEF TypeInv, TypeOK, PhaseInv, Record, Preparing, Swapping, Grading, Undone,
          Undoing, links, state, world, proc, counts, RollbackStart, Opening, NoRecord,
          InFlight
    <2>4. SnapshotInv'
      BY DEF TypeInv, TypeOK, PhaseInv, SnapshotInv, Record, NoRecord, links, state,
          world, proc, counts, RollbackStart, Opening, InFlight
    <2> QED
      BY <2>2, <2>3, <2>4 DEF TypeInv
  <1>11. CASE RollBackStandDownFails
    <2> USE <1>11
    <2>1. TypeOK'
      BY DEF TypeInv, TypeOK, links, state, world, counts, RollBackStandDownFails,
          SessionWillNotStandDown, Goto, Steps, RollBackSteps, Optional
    <2>2. PhaseInv'
      BY DEF TypeInv, TypeOK, PhaseInv, Record, Preparing, Swapping, Grading, Undone,
          Undoing, links, state, world, proc, counts, RollBackStandDownFails,
          SessionWillNotStandDown, Goto
    <2>3. SnapshotInv'
      BY DEF TypeInv, TypeOK, PhaseInv, SnapshotInv, Record, NoRecord, links, state,
          world, proc, counts, RollBackStandDownFails, SessionWillNotStandDown, Goto
    <2> QED
      BY <2>1, <2>2, <2>3 DEF TypeInv
  <1>12. CASE RollBackUnhealthy
    <2> USE <1>12
    <2>1. TypeOK'
      BY DEF TypeInv, TypeOK, links, state, world, counts, RollBackUnhealthy,
          SessionStandsDown, SessionWillNotStandDown, Goto, Steps, RollBackSteps, Optional
    <2>2. PhaseInv'
      BY DEF TypeInv, TypeOK, PhaseInv, Record, Preparing, Swapping, Grading, Undone,
          Undoing, links, state, world, proc, counts, RollBackUnhealthy,
          SessionStandsDown, SessionWillNotStandDown, Goto
    <2>3. SnapshotInv'
      BY DEF TypeInv, TypeOK, PhaseInv, SnapshotInv, Record, NoRecord, links, state,
          world, proc, counts, RollBackUnhealthy, SessionStandsDown,
          SessionWillNotStandDown, Goto
    <2> QED
      BY <2>1, <2>2, <2>3 DEF TypeInv
  <1>13. CASE RevertCurrent
    <2> USE <1>13
    <2>1. current' \in Optional /\ previous' \in Optional
      BY FieldTypes DEF TypeInv, TypeOK, RevertCurrent, Goto, Leave, Return
    <2>2. TypeOK'
      BY <2>1, NoRecordType DEF TypeInv, TypeOK, state, world, counts, RevertCurrent,
          Goto, Leave, Return, Steps, RollBackSteps, RevertSteps
    <2>3. PhaseInv'
      BY DEF TypeInv, TypeOK, PhaseInv, Record, Preparing, Swapping, Grading, Undone,
          Undoing, links, state, world, proc, counts, RevertCurrent, Selectable, Goto,
          Leave, Return
    <2>4. SnapshotInv'
      BY DEF TypeInv, TypeOK, PhaseInv, SnapshotInv, Record, NoRecord, links, state,
          world, proc, counts, RevertCurrent, Selectable, Goto, Leave, Return
    <2> QED
      BY <2>2, <2>3, <2>4 DEF TypeInv
  <1>14. CASE PutSnapshotBack
    <2> USE <1>14
    <2>1. mem.from \in Versions
      BY FieldTypes DEF TypeInv, TypeOK, SnapshotInv, PutSnapshotBack, Optional
    <2>2. live' \in Contents
      BY <2>1 DEF TypeInv, TypeOK, PutSnapshotBack
    <2>3. TypeOK'
      BY <2>2, NoRecordType DEF TypeInv, TypeOK, links, world, counts, PutSnapshotBack,
          AfterRestore, Goto, Leave, Return, Steps, RollBackSteps, ReconcileSteps
    <2>4. PhaseInv'
      BY DEF TypeInv, TypeOK, PhaseInv, Record, Preparing, Swapping, Grading, Undone,
          Undoing, links, state, world, proc, counts, PutSnapshotBack, AfterRestore, Goto,
          Leave, Return
    <2>5. SnapshotInv'
      BY DEF TypeInv, TypeOK, PhaseInv, SnapshotInv, Record, NoRecord, links, state,
          world, proc, counts, PutSnapshotBack, AfterRestore, Goto, Leave, Return
    <2> QED
      BY <2>3, <2>4, <2>5 DEF TypeInv
  <1>15. CASE DiscardStaging
    <2> USE <1>15
    <2>1. TypeOK'
      BY DEF TypeInv, TypeOK, links, state, world, counts, DiscardStaging, RemoveStaging, Goto, Steps,
          Record, ReconcileSteps
    <2>2. PhaseInv'
      BY DEF TypeInv, TypeOK, PhaseInv, Record, Preparing, Swapping, Grading, Undone,
          Undoing, links, state, world, proc, counts, DiscardStaging, RemoveStaging, Goto
    <2>3. SnapshotInv'
      BY DEF TypeInv, TypeOK, PhaseInv, SnapshotInv, Record, NoRecord, links, state,
          world, proc, counts, DiscardStaging, RemoveStaging, Goto
    <2> QED
      BY <2>1, <2>2, <2>3 DEF TypeInv
  <1>16. CASE DiscardedStaging
    <2> USE <1>16
    <2>1. journal' \in Record /\ mem' \in Record
      BY NoRecordType, PhaseUpdate DEF TypeInv, TypeOK, DiscardedStaging, Conclude,
          Return, Phases
    <2>2. TypeOK'
      BY <2>1 DEF TypeInv, TypeOK, links, state, world, counts, DiscardedStaging,
          Conclude, Return, Steps
    <2>3. PhaseInv'
      BY DEF TypeInv, TypeOK, PhaseInv, Record, Preparing, Swapping, Grading, Undone,
          Undoing, links, state, world, proc, counts, DiscardedStaging, Conclude, Return
    <2>4. SnapshotInv'
      BY DEF TypeInv, TypeOK, PhaseInv, SnapshotInv, Record, NoRecord, links, state,
          world, proc, counts, DiscardedStaging, Conclude, Return
    <2> QED
      BY <2>2, <2>3, <2>4 DEF TypeInv
  <1>17. CASE TakeDisplay
    <2> USE <1>17
    <2>1. TypeOK'
      BY DEF TypeInv, TypeOK, links, state, proc, counts, TakeDisplay
    <2>2. PhaseInv'
      BY DEF TypeInv, TypeOK, PhaseInv, Record, Preparing, Swapping, Grading, Undone,
          Undoing, links, state, world, proc, counts, TakeDisplay
    <2>3. SnapshotInv'
      BY DEF TypeInv, TypeOK, PhaseInv, SnapshotInv, Record, NoRecord, links, state,
          world, proc, counts, TakeDisplay
    <2> QED
      BY <2>1, <2>2, <2>3 DEF TypeInv
  <1> USE ConstantsAssumption DEF TypeInv, TypeOK, PhaseInv, SnapshotInv, Record,
      NoRecord, Optional, Contents, Phases, Steps, RunSteps, RollBackSteps, RevertSteps,
      ReconcileSteps, Preparing, Swapping, Grading, Undone, Undoing, links, state, world,
      proc, counts
  <1>a. mem.staged \in Nat
    OBVIOUS
  <1>18. CASE Stage
    <2>1. staging' \subseteq Nat
      BY <1>a, <1>18 DEF Stage
    <2> QED
      BY <2>1, <1>18 DEF Stage, Goto
  <1>19. ASSUME NEW v \in Versions, Verified(v) PROVE TypeInv'
    BY <1>19 DEF Verified, Write
  <1>20. CASE PrepareFails \/ AlreadySelected
    <2>1. staging' \subseteq Nat /\ refused' \subseteq Nat
      BY <1>a, <1>20 DEF PrepareFails, AlreadySelected, RemoveStaging
    <2>2. UNCHANGED <<dirs, links, state, world, trusted, faults, commands, sound,
                      mem, cmd, journal>>
      BY <1>20 DEF PrepareFails, AlreadySelected, RemoveStaging, Goto
    <2>3. pc' = "refuse" /\ pc \in {"verify_bundle", "commit_dir"}
      BY <1>20 DEF PrepareFails, AlreadySelected, Goto
    <2> QED
      BY <2>1, <2>2, <2>3
  <1>21. CASE NotYetSelected
    BY <1>21 DEF NotYetSelected, Goto
  <1>22. CASE NoSnapshotNeeded
    BY <1>22 DEF NoSnapshotNeeded, Write
  <1>23. CASE SnapshotNeeded
    BY <1>23 DEF SnapshotNeeded, Goto
  <1>24. CASE CopySnapshot
    BY <1>24 DEF CopySnapshot, Goto
  <1>25. CASE SnapshotFails
    BY <1>25 DEF SnapshotFails, Leave, Return
  <1>26. CASE Activate
    BY <1>26 DEF Activate, Write
  <1>27. CASE StandDown
    BY <1>27 DEF StandDown, SessionStandsDown, Goto
  <1>28. CASE Verify
    BY <1>28 DEF Verify, Write
  <1>29. CASE BringUp
    BY <1>29 DEF BringUp, SupervisorStarts, Goto
  <1>30. CASE BringUpFails
    BY <1>30 DEF BringUpFails, Leave, Return
  <1>31. CASE GradeReady
    BY <1>31 DEF GradeReady, Goto
  <1>32. CASE GradeUnhealthy
    BY <1>32 DEF GradeUnhealthy, Goto
  <1>33. CASE Commit
    BY <1>33 DEF Commit, Write
  <1>34. ASSUME NEW v \in Versions, Prune(v) PROVE TypeInv'
    BY <1>34 DEF Prune, RemoveTree, Prunable, Goto
  <1>35. CASE Upgraded
    BY <1>35 DEF Upgraded, Leave, Return
  <1>36. CASE RollBack
    BY <1>36 DEF RollBack, Write
  <1>37. CASE RollBackStandDown
    BY <1>37 DEF RollBackStandDown, SessionStandsDown, Goto
  <1>38. CASE RollBackVerify
    BY <1>38 DEF RollBackVerify, Write
  <1>39. CASE RollBackBringUp
    BY <1>39 DEF RollBackBringUp, SupervisorStarts, Goto
  <1>40. CASE RolledBack
    BY <1>40 DEF RolledBack, Conclude, Return
  <1>41. CASE Stranded
    BY <1>41 DEF Stranded, Conclude, Return
  <1>42. CASE RestoreFallbackLink
    BY <1>42 DEF RestoreFallbackLink, Goto
  <1>43. CASE NothingToRestore
    BY <1>43 DEF NothingToRestore, AfterRestore, Goto
  <1>44. CASE RemoveLiveState
    BY <1>44 DEF RemoveLiveState, HasSnapshot, Goto
  <1>45. CASE ReconcileStart
    BY <1>45 DEF ReconcileStart, InFlight
  <1>46. CASE DiscardRelease
    BY <1>46 DEF DiscardRelease, Discardable, RemoveTree, Goto
  <1>54. CASE LeaveRelease
    BY <1>54 DEF LeaveRelease, Goto
  <1>47. CASE Reverted
    BY <1>47 DEF Reverted, Conclude, Return
  <1>48. CASE Launch
    BY <1>48 DEF Launch
  <1>49. CASE SessionWritesState
    BY <1>49 DEF SessionWritesState
  <1>50. CASE SessionExits
    BY <1>50 DEF SessionExits
  <1>51. CASE PowerCut
    BY <1>51 DEF PowerCut, Return
  <1>52. CASE Kill
    BY <1>52 DEF Kill, Return
  <1>53. CASE UNCHANGED vars
    BY <1>53 DEF vars
  <1> QED
    BY <1>1, <1>2, <1>3, <1>4, <1>5, <1>6, <1>7, <1>8, <1>9, <1>10, <1>11, <1>12, <1>13,
        <1>14, <1>15, <1>16, <1>17, <1>18, <1>19, <1>20, <1>21, <1>22, <1>23, <1>24,
        <1>25, <1>26, <1>27, <1>28, <1>29, <1>30, <1>31, <1>32, <1>33, <1>34, <1>35,
        <1>36, <1>37, <1>38, <1>39, <1>40, <1>41, <1>42, <1>43, <1>44, <1>45, <1>46,
        <1>47, <1>48, <1>49, <1>50, <1>51, <1>52, <1>53, <1>54 DEF Next, ProcessNext, RunNext,
        RollBackNext, RevertNext, ReconcileNext, SessionNext, FaultNext

(* Every variable has the type the code gives it, whatever is interrupted.    *)
(* The snapshot that is put back is one the transaction took, so it is never  *)
(* looked up under a release that does not exist.                             *)
THEOREM TypeCorrect == Spec => []TypeOK
  <1>1. TypeInv => TypeOK
    BY DEF TypeInv
  <1> QED
    BY TypeInvInit, TypeInvStep, <1>1, PTL DEF Spec

-----------------------------------------------------------------------------
(* The selection, the candidate, the staging directory and the session. *)

LEMMA IInvInit == Init => IInv
  <1> SUFFICES ASSUME Init PROVE SafeInv
    BY TypeInvInit DEF IInv
  <1> QED
    BY ConstantsAssumption DEF Init, SafeInv, CurrentComplete, FromInv, SelectionInv,
        CandidateInv, StagingInv, SessionInv, InFlight, NoRecord, Optional, Grading, Undone,
        Placed

LEMMA SafeInvStep == IInv /\ [Next]_vars => SafeInv'
  <1> SUFFICES ASSUME IInv, [Next]_vars PROVE SafeInv'
    OBVIOUS
  <1>1. CASE CommitRelease
    <2> USE <1>1 DEF IInv, SafeInv, TypeInv, TypeOK, PhaseInv, Record, links, state, world,
        counts, Goto, CommitRelease
    <2>1. CurrentComplete' /\ FromInv'
      BY DEF CurrentComplete, FromInv, CandidateInv, SelectionInv, Preparing, InFlight, Optional
    <2>2. SelectionInv' /\ StagingInv' /\ SessionInv'
      BY DEF SelectionInv, StagingInv, SessionInv, Grading, Undone, InFlight
    <2>3. CandidateInv'
      BY DEF CandidateInv, Placed, Optional
    <2> QED
      BY <2>1, <2>2, <2>3
  <1>2. CASE DiscardRelease
    <2>1. current' = current /\ journal' = journal /\ journal.from = current
      BY <1>2 DEF IInv, SafeInv, TypeInv, PhaseInv, SelectionInv, Preparing, DiscardRelease,
          Goto, links
    <2>2. current \in Versions => dirs'[current] = dirs[current]
      BY <1>2 DEF IInv, TypeInv, TypeOK, DiscardRelease, Discardable, RemoveTree
    <2>3. CurrentComplete' /\ FromInv'
      BY <2>1, <2>2 DEF IInv, SafeInv, TypeInv, TypeOK, CurrentComplete, FromInv, InFlight,
          Optional
    <2>4. SelectionInv' /\ StagingInv' /\ SessionInv' /\ CandidateInv'
      BY <1>2 DEF IInv, SafeInv, TypeInv, TypeOK, PhaseInv, Record, SelectionInv, StagingInv,
          SessionInv, CandidateInv, Placed, Grading, Undone, Preparing, InFlight, links, state,
          world, counts, Goto, DiscardRelease, Discardable, RemoveTree
    <2> QED
      BY <2>3, <2>4 DEF SafeInv
  <1> USE ConstantsAssumption DEF IInv, SafeInv, TypeInv, TypeOK, PhaseInv,
      CurrentComplete, FromInv, SelectionInv, CandidateInv, StagingInv, SessionInv,
      Record, Preparing, Swapping, Grading, Undone, Undoing, Placed, InFlight, links,
      state, world, proc, counts
  <1>3. CASE RunStart
    BY <1>3 DEF RunStart, Opening, NoRecord
  <1>4. CASE Stage
    BY <1>4 DEF Stage, Goto
  <1>5. CASE PrepareFails \/ AlreadySelected
    BY <1>5 DEF PrepareFails, AlreadySelected, RemoveStaging, Goto
  <1>6. ASSUME NEW v \in Versions, Verified(v) PROVE SafeInv'
    BY <1>6 DEF Verified, Write
  <1>7. CASE Refuse
    BY <1>7 DEF Refuse, Conclude, Return
  <1>8. CASE NotYetSelected
    BY <1>8 DEF NotYetSelected, Goto
  <1>9. CASE RemoveOldRelease
    BY <1>9 DEF RemoveOldRelease, RemoveTree, Goto
  <1>10. CASE NoteCommit
    BY <1>10 DEF NoteCommit, Write
  <1>11. CASE NoSnapshotNeeded
    BY <1>11 DEF NoSnapshotNeeded, Write
  <1>12. CASE SnapshotNeeded
    BY <1>12 DEF SnapshotNeeded, Goto
  <1>13. CASE CopySnapshot
    BY <1>13 DEF CopySnapshot, Goto
  <1>14. CASE SnapshotFails
    BY <1>14 DEF SnapshotFails, Leave, Return
  <1>15. CASE NoteSnapshot
    BY <1>15 DEF NoteSnapshot, Write
  <1>16. CASE Activate
    BY <1>16 DEF Activate, Write
  <1>17. CASE StandDown
    BY <1>17 DEF StandDown, SessionStandsDown, Goto
  <1>18. CASE StandDownFails
    BY <1>18 DEF StandDownFails, SessionWillNotStandDown, Leave, Return
  <1>19. CASE SelectPrevious
    BY <1>19 DEF SelectPrevious, Goto, Leave, Return
  <1>20. CASE SelectCurrent
    BY <1>20 DEF SelectCurrent, Selectable, Goto, Leave, Return
  <1>21. CASE Verify
    BY <1>21 DEF Verify, Write
  <1>22. CASE BringUp
    BY <1>22 DEF BringUp, SupervisorStarts, Goto
  <1>23. CASE BringUpFails
    BY <1>23 DEF BringUpFails, Leave, Return
  <1>24. CASE GradeReady
    BY <1>24 DEF GradeReady, Goto
  <1>25. CASE GradeUnhealthy
    BY <1>25 DEF GradeUnhealthy, Goto
  <1>26. CASE Commit
    BY <1>26 DEF Commit, Write
  <1>27. ASSUME NEW v \in Versions, Prune(v) PROVE SafeInv'
    BY <1>27 DEF Prune, RemoveTree, Prunable, Goto
  <1>28. CASE Upgraded
    BY <1>28 DEF Upgraded, Leave, Return
  <1>29. CASE RollbackStart
    BY <1>29 DEF RollbackStart, Opening, NoRecord
  <1>30. CASE RollBack
    BY <1>30 DEF RollBack, Write
  <1>31. CASE RollBackStandDown
    BY <1>31 DEF RollBackStandDown, SessionStandsDown, Goto
  <1>32. CASE RollBackStandDownFails
    BY <1>32 DEF RollBackStandDownFails, SessionWillNotStandDown, Goto
  <1>33. CASE RollBackVerify
    BY <1>33 DEF RollBackVerify, Write
  <1>34. CASE RollBackBringUp
    BY <1>34 DEF RollBackBringUp, SupervisorStarts, Goto
  <1>35. CASE RollBackUnhealthy
    BY <1>35 DEF RollBackUnhealthy, SessionStandsDown, SessionWillNotStandDown, Goto
  <1>36. CASE RolledBack
    BY <1>36 DEF RolledBack, Conclude, Return
  <1>37. CASE Stranded
    BY <1>37 DEF Stranded, Conclude, Return
  <1>38. CASE RevertCurrent
    BY <1>38 DEF RevertCurrent, Selectable, Goto, Leave, Return
  <1>39. CASE RestoreFallbackLink
    BY <1>39 DEF RestoreFallbackLink, Goto
  <1>40. CASE NothingToRestore
    BY <1>40 DEF NothingToRestore, AfterRestore, Goto
  <1>41. CASE RemoveLiveState
    BY <1>41 DEF RemoveLiveState, HasSnapshot, Goto
  <1>42. CASE PutSnapshotBack
    BY <1>42 DEF PutSnapshotBack, AfterRestore, Goto, Leave, Return
  <1>43. CASE ReconcileStart
    BY <1>43 DEF ReconcileStart
  <1>44. CASE DiscardStaging
    BY <1>44 DEF DiscardStaging, RemoveStaging, Goto
  <1>54. CASE LeaveRelease
    BY <1>54 DEF LeaveRelease, Goto
  <1>45. CASE DiscardedStaging
    BY <1>45 DEF DiscardedStaging, Conclude, Return
  <1>46. CASE Reverted
    BY <1>46 DEF Reverted, Conclude, Return
  <1>47. CASE Launch
    BY <1>47 DEF Launch
  <1>48. CASE TakeDisplay
    BY <1>48 DEF TakeDisplay
  <1>49. CASE SessionWritesState
    BY <1>49 DEF SessionWritesState
  <1>50. CASE SessionExits
    BY <1>50 DEF SessionExits
  <1>51. CASE PowerCut
    BY <1>51 DEF PowerCut, Return
  <1>52. CASE Kill
    BY <1>52 DEF Kill, Return
  <1>53. CASE UNCHANGED vars
    BY <1>53 DEF vars
  <1> QED
    BY <1>1, <1>2, <1>3, <1>4, <1>5, <1>6, <1>7, <1>8, <1>9, <1>10, <1>11, <1>12, <1>13,
        <1>14, <1>15, <1>16, <1>17, <1>18, <1>19, <1>20, <1>21, <1>22, <1>23, <1>24,
        <1>25, <1>26, <1>27, <1>28, <1>29, <1>30, <1>31, <1>32, <1>33, <1>34, <1>35,
        <1>36, <1>37, <1>38, <1>39, <1>40, <1>41, <1>42, <1>43, <1>44, <1>45, <1>46,
        <1>47, <1>48, <1>49, <1>50, <1>51, <1>52, <1>53, <1>54 DEF Next, ProcessNext, RunNext,
        RollBackNext, RevertNext, ReconcileNext, SessionNext, FaultNext

LEMMA IInvInvariant == Spec => []IInv
  <1>1. IInv /\ [Next]_vars => IInv'
    BY TypeInvStep, SafeInvStep DEF IInv
  <1> QED
    BY IInvInit, <1>1, PTL DEF Spec

(* `current` names a complete release directory at every instant, through     *)
(* every power cut and kill: what the boot launcher and stock's hook read.    *)
THEOREM SelectionIsComplete == Spec => []CurrentComplete
  <1>1. IInv => CurrentComplete
    BY DEF IInv, SafeInv
  <1> QED
    BY IInvInvariant, <1>1, PTL

(* A finished journal names the release that is selected.                     *)
THEOREM JournalIsTrue == Spec => []JournalTruth
  <1>1. IInv => JournalTruth
    BY DEF IInv, SafeInv, SelectionInv, JournalTruth
  <1> QED
    BY IInvInvariant, <1>1, PTL

(* What is selected once nothing is in flight was selected before, or was     *)
(* graded ready, or is the candidate of a transaction journalled as failed.   *)
THEOREM SelectionIsGraded == Spec => []SelectedWasGraded
  <1>1. IInv => SelectedWasGraded
    BY DEF IInv, SafeInv, TypeInv, TypeOK, Record, Phases, SelectionInv, SessionInv, InFlight,
        Settled, SelectedWasGraded
  <1> QED
    BY IInvInvariant, <1>1, PTL

(* A staged candidate is left when nothing is in flight only where removing   *)
(* it was refused (upgrade.rs 229-258, 427-446).                              *)
THEOREM StagingIsClaimed == Spec => []NoOrphanStaging
  <1>1. IInv => NoOrphanStaging
    BY DEF IInv, SafeInv, StagingInv, InFlight, Settled, NoOrphanStaging
  <1> QED
    BY IInvInvariant, <1>1, PTL

-----------------------------------------------------------------------------
(* What a step may never do. *)

LEMMA OnlyCommitCommits ==
    ASSUME TypeInv, [Next]_vars, journal'.phase = "commit", journal.phase /= "commit"
    PROVE  Commit
  <1>1. ASSUME RunNext PROVE Commit
    <2>1. ~RunStart
      BY DEF RunStart, Opening, NoRecord
    <2>2. ~Refuse /\ ~PrepareFails /\ ~AlreadySelected
      BY DEF TypeInv, TypeOK, Record, Refuse, PrepareFails, AlreadySelected, Conclude, Goto
    <2>3. \A v \in Versions : ~Verified(v)
      BY DEF TypeInv, TypeOK, PhaseInv, Record, Verified, Write
    <2>4. ~NoteCommit /\ ~NoSnapshotNeeded /\ ~NoteSnapshot /\ ~Activate /\ ~Verify
      BY DEF TypeInv, TypeOK, PhaseInv, Record, NoteCommit, NoSnapshotNeeded, NoteSnapshot,
          Activate, Verify, Write
    <2> QED
      BY <1>1, <2>1, <2>2, <2>3, <2>4 DEF RunNext, Stage, NotYetSelected, RemoveOldRelease,
          CommitRelease, SnapshotNeeded, CopySnapshot, SnapshotFails, StandDown, StandDownFails,
          SelectPrevious, SelectCurrent, BringUp, BringUpFails, GradeReady, GradeUnhealthy, Prune,
          Upgraded, Goto, Leave
  <1>2. ~RollBackNext
    BY DEF TypeInv, TypeOK, Record, RollBackNext, RollbackStart, RollBack,
        RollBackStandDown, RollBackStandDownFails, RollBackVerify, RollBackBringUp,
        RollBackUnhealthy, RolledBack, Stranded, Goto, Write, Return, Leave, Conclude,
        Opening, NoRecord
  <1>3. ~RevertNext /\ ~ReconcileNext
    BY DEF TypeInv, TypeOK, Record, RevertNext, ReconcileNext, RevertCurrent,
        RestoreFallbackLink, NothingToRestore, RemoveLiveState, PutSnapshotBack,
        ReconcileStart, DiscardStaging, DiscardRelease, LeaveRelease, DiscardedStaging, Reverted,
        Goto,
        Write, Return, Leave, Conclude, Opening, NoRecord
  <1>4. ~SessionNext /\ ~FaultNext /\ ~UNCHANGED vars
    BY DEF SessionNext, FaultNext, Launch, TakeDisplay, SessionWritesState, SessionExits,
        PowerCut, Kill, Return, vars
  <1> QED
    BY <1>1, <1>2, <1>3, <1>4 DEF Next, ProcessNext

LEMMA OnlySelectionMoves ==
    ASSUME [Next]_vars, current' /= current
    PROVE  SelectCurrent \/ RevertCurrent
  BY DEF Next, ProcessNext, RunNext, RollBackNext, RevertNext, ReconcileNext, SessionNext,
      FaultNext, RunStart, Stage, PrepareFails, Refuse, RemoveStaging, Verified, AlreadySelected, NotYetSelected,
      RemoveOldRelease, CommitRelease, NoteCommit, NoSnapshotNeeded, SnapshotNeeded,
      CopySnapshot, SnapshotFails, NoteSnapshot, Activate, StandDown, StandDownFails,
      SelectPrevious, SelectCurrent, Verify, BringUp, BringUpFails, GradeReady,
      GradeUnhealthy, Commit, Prune, Upgraded, RollbackStart, RollBack, RollBackStandDown,
      RollBackStandDownFails, RollBackVerify, RollBackBringUp, RollBackUnhealthy,
      RolledBack, Stranded, RevertCurrent, RestoreFallbackLink, NothingToRestore,
      RemoveLiveState, PutSnapshotBack, ReconcileStart, DiscardStaging, DiscardRelease, LeaveRelease,
      DiscardedStaging, Reverted, Launch, TakeDisplay, SessionWritesState, SessionExits,
      PowerCut, Kill, links, proc, vars

(* COMMIT is journalled over a candidate that is selected and was graded      *)
(* ready, with the release it replaced as a complete fallback.                *)
THEOREM CommitsAreEarned == Spec => CommitIsEarned
  <1>1. ASSUME IInv, [Next]_vars, journal'.phase = "commit", journal.phase /= "commit"
        PROVE  /\ current = journal'.to /\ current \in trusted
               /\ previous = journal'.from
               /\ previous /= None => dirs[previous] = "complete"
    <2>1. Commit
      BY <1>1, OnlyCommitCommits DEF IInv
    <2>2. journal'.to = journal.to /\ journal'.from = journal.from
      BY <1>1, <2>1 DEF IInv, TypeInv, TypeOK, PhaseInv, Record, Commit, Write
    <2>3. pc \in Grading /\ pc = "commit" /\ InFlight
      BY <1>1, <2>1 DEF IInv, TypeInv, PhaseInv, Commit, Grading, InFlight
    <2> QED
      BY <1>1, <2>2, <2>3 DEF IInv, SafeInv, FromInv, SelectionInv, SessionInv
  <1> QED
    BY IInvInvariant, <1>1, PTL DEF Spec, CommitIsEarned

(* A run or a rollback moves the selection only with the session down and     *)
(* stock running.                                                             *)
THEOREM SwapsAreAtStock == Spec => SwapOnlyAtStock
  <1>1. ASSUME IInv, [Next]_vars, current' /= current, cmd /= "reconcile"
        PROVE  session = None /\ stock
    BY <1>1, OnlySelectionMoves DEF IInv, SafeInv, SessionInv, SelectCurrent, RevertCurrent
  <1> QED
    BY IInvInvariant, <1>1, PTL DEF Spec, SwapOnlyAtStock
-----------------------------------------------------------------------------
(* State the restored release can read, while paperctl is only ever cut by    *)
(* the power and nothing starts a session over an open transaction.           *)
Gentle == "kill" \notin Faults /\ ~Autostart

Noting    == {"stage", "verify_bundle", "refuse", "commit_dir", "note_commit", "snapshot", "copy",
              "note_snapshot"}
Selecting == {"activate", "stand_down", "sel_prev", "sel_cur"}
Reverting == {"revert_cur", "revert_prev", "restore_rm", "restore_put", "rc_done"}
Restored  == {"rc_done", "rb_verify", "rb_bring_up", "rb_grade", "rolled_back"}

(* What runs is what is selected; and over a transaction that was cut, or is  *)
(* being undone, it is at most the release to go back to.                     *)
RunsInv ==
    /\ session \in {None, current}
    /\ InFlight /\ pc \in {"idle", "stand_down"} \cup Reverting => session \in {None, journal.from}

(* Whoever may still write the state writes what the old release can read, or *)
(* there is a snapshot it can read, kept until the transaction ends.          *)
BackedInv ==
    InFlight /\ sound =>
        /\ journal.from \in Versions
        /\ journal.snapshot => CanRead(journal.from, snap[journal.from])
        /\ ~journal.snapshot =>
              /\ CanRead(journal.from, live)
              /\ current = journal.from \/ ReadableBy(current, journal.from)
              /\ pc \in Selecting => ReadableBy(journal.to, journal.from)
        /\ pc = "note_snapshot" => CanRead(journal.from, snap[journal.from])
        /\ pc \in Restored => CanRead(journal.from, live)

NotedInv == pc \in Noting => ~journal.snapshot

StateInv == RunsInv /\ NotedInv /\ BackedInv /\ StateReadable

(* What the steps need to know of reading state. *)
LEMMA Reading ==
    /\ \A r \in Versions : CanRead(r, r) /\ CanRead(r, "empty") /\ ~CanRead(r, "absent")
    /\ \A r, w \in Versions : CanRead(r, w) <=> ReadableBy(w, r)
  <1>1. \A r \in Versions : r # "empty" /\ r # "absent"
    BY ConstantsAssumption
  <1>2. \A r \in Versions : ReadableBy(r, r)
    BY ConstantsAssumption DEF ReadableBy
  <1> QED
    BY <1>1, <1>2, ConstantsAssumption DEF CanRead

LEMMA StateInvInit == Init => StateInv
  BY ConstantsAssumption DEF Init, StateInv, RunsInv, NotedInv, BackedInv, StateReadable, InFlight,
      NoRecord, Noting

(* A command that is left where it stands leaves the state as it was. *)
LEMMA BackedStays ==
    ASSUME BackedInv, pc' = "idle", UNCHANGED <<journal, current, live, snap, sound>>
    PROVE  BackedInv'
  BY DEF BackedInv, InFlight, Selecting, Restored

LEMMA StateInvStep ==
    ASSUME Gentle, IInv, StateInv, [Next]_vars
    PROVE  StateInv'
  <1> DEFINE Now == TypeOK /\ PhaseInv /\ SnapshotInv /\ FromInv /\ SelectionInv /\ SessionInv
                    /\ CandidateInv
  <1>0. Now
    BY DEF IInv, TypeInv, SafeInv
  <1>16. CASE StandDownFails
    <2>1. pc' = "idle" /\ UNCHANGED <<journal, current, live, snap, sound>>
      BY <1>16 DEF StandDownFails, SessionWillNotStandDown, Leave, Return, links, state, counts
    <2>2. BackedInv'
      BY <2>1, BackedStays DEF StateInv
    <2>3. RunsInv' /\ NotedInv' /\ StateReadable'
      BY <1>0, <1>16, <2>1 DEF StandDownFails, SessionWillNotStandDown, Leave, Return, TypeOK,
          PhaseInv, SelectionInv, StateInv, RunsInv, NotedInv, StateReadable, Record, Settled, InFlight, Preparing, Swapping, Grading, Undone, Undoing,
          Noting, Reverting, Steps, RunSteps, RollBackSteps, RevertSteps, ReconcileSteps
    <2> QED
      BY <2>2, <2>3 DEF StateInv
  <1>49. CASE PowerCut
    <2>1. pc' = "idle" /\ UNCHANGED <<journal, current, live, snap, sound>>
      BY <1>49 DEF PowerCut, Return, links, state, counts
    <2>2. BackedInv'
      BY <2>1, BackedStays DEF StateInv
    <2>3. RunsInv' /\ NotedInv' /\ StateReadable'
      BY <1>0, <1>49, <2>1 DEF PowerCut, Return, TypeOK, PhaseInv, SelectionInv, StateInv, RunsInv,
          NotedInv, StateReadable, Record, Settled, InFlight, Preparing, Swapping, Grading, Undone, Undoing,
          Noting, Reverting, Steps, RunSteps, RollBackSteps, RevertSteps, ReconcileSteps
    <2> QED
      BY <2>2, <2>3 DEF StateInv
  <1> USE Reading, ConstantsAssumption DEF TypeOK, PhaseInv, SnapshotInv, FromInv,
      SelectionInv, SessionInv, CandidateInv, StateInv, RunsInv, NotedInv, BackedInv,
      StateReadable, Record, Optional, Contents, Preparing, Swapping, Grading, Undone,
      Undoing, Placed, Noting, Selecting, Reverting, Restored, Settled, InFlight, Gentle,
      links, state, world, proc, counts
  <1>1. CASE Stage
    BY <1>0, <1>1 DEF Stage, Goto
  <1>2. CASE PrepareFails \/ AlreadySelected
    BY <1>0, <1>2 DEF PrepareFails, AlreadySelected, RemoveStaging, Goto
  <1>3. ASSUME NEW v \in Versions, Verified(v) PROVE StateInv'
    BY <1>0, <1>3 DEF Verified, Write
  <1>4. CASE Refuse
    BY <1>0, <1>4 DEF Refuse, Conclude, Return
  <1>5. CASE NotYetSelected
    BY <1>0, <1>5 DEF NotYetSelected, Goto
  <1>6. CASE RemoveOldRelease
    BY <1>0, <1>6 DEF RemoveOldRelease, Goto
  <1>7. CASE CommitRelease
    BY <1>0, <1>7 DEF CommitRelease, Goto
  <1>8. CASE NoteCommit
    BY <1>0, <1>8 DEF NoteCommit, Write
  <1>9. CASE NoSnapshotNeeded
    BY <1>0, <1>9 DEF NoSnapshotNeeded, Write
  <1>10. CASE SnapshotNeeded
    BY <1>0, <1>10 DEF SnapshotNeeded, Goto
  <1>11. CASE CopySnapshot
    BY <1>0, <1>11 DEF CopySnapshot, Goto
  <1>12. CASE SnapshotFails
    BY <1>0, <1>12 DEF SnapshotFails, Leave, Return
  <1>13. CASE NoteSnapshot
    BY <1>0, <1>13 DEF NoteSnapshot, Write
  <1>14. CASE Activate
    BY <1>0, <1>14 DEF Activate, Write
  <1>15. CASE StandDown
    BY <1>0, <1>15 DEF StandDown, SessionStandsDown, Goto
  <1>17. CASE SelectPrevious
    BY <1>0, <1>17 DEF SelectPrevious, Goto, Leave, Return
  <1>18. CASE SelectCurrent
    BY <1>0, <1>18 DEF SelectCurrent, Selectable, Goto, Leave, Return
  <1>19. CASE Verify
    BY <1>0, <1>19 DEF Verify, Write
  <1>20. CASE BringUp
    BY <1>0, <1>20 DEF BringUp, SupervisorStarts, Goto
  <1>21. CASE BringUpFails
    BY <1>0, <1>21 DEF BringUpFails, Leave, Return
  <1>22. CASE GradeReady
    BY <1>0, <1>22 DEF GradeReady, Goto
  <1>23. CASE GradeUnhealthy
    BY <1>0, <1>23 DEF GradeUnhealthy, Goto
  <1>24. CASE Commit
    BY <1>0, <1>24 DEF Commit, Write
  <1>25. ASSUME NEW v \in Versions, Prune(v) PROVE StateInv'
    BY <1>0, <1>25 DEF Prune, Goto
  <1>26. CASE Upgraded
    BY <1>0, <1>26 DEF Upgraded, Leave, Return
  <1>27. CASE RollBack
    BY <1>0, <1>27 DEF RollBack, Write
  <1>28. CASE RollBackStandDown
    BY <1>0, <1>28 DEF RollBackStandDown, SessionStandsDown, Goto
  <1>29. CASE RollBackStandDownFails
    BY <1>0, <1>29 DEF RollBackStandDownFails, SessionWillNotStandDown, Goto
  <1>30. CASE RollBackVerify
    BY <1>0, <1>30 DEF RollBackVerify, Write
  <1>31. CASE RollBackBringUp
    BY <1>0, <1>31 DEF RollBackBringUp, SupervisorStarts, Goto
  <1>32. CASE RollBackUnhealthy
    BY <1>0, <1>32 DEF RollBackUnhealthy, SessionStandsDown, SessionWillNotStandDown, Goto
  <1>33. CASE RolledBack
    BY <1>0, <1>33 DEF RolledBack, Conclude, Return
  <1>34. CASE Stranded
    BY <1>0, <1>34 DEF Stranded, Conclude, Return
  <1>35. CASE RevertCurrent
    BY <1>0, <1>35 DEF RevertCurrent, Selectable, Goto, Leave, Return
  <1>36. CASE RestoreFallbackLink
    BY <1>0, <1>36 DEF RestoreFallbackLink, Goto
  <1>37. CASE NothingToRestore
    BY <1>0, <1>37 DEF NothingToRestore, HasSnapshot, AfterRestore, Goto
  <1>38. CASE RemoveLiveState
    BY <1>0, <1>38 DEF RemoveLiveState, HasSnapshot, Goto
  <1>39. CASE PutSnapshotBack
    BY <1>0, <1>39 DEF PutSnapshotBack, AfterRestore, Goto, Leave, Return
  <1>40. CASE ReconcileStart
    BY <1>0, <1>40 DEF ReconcileStart
  <1>41. CASE DiscardStaging
    BY <1>0, <1>41 DEF DiscardStaging, RemoveStaging, Goto
  <1>54. CASE LeaveRelease
    BY <1>0, <1>54 DEF LeaveRelease, Goto
  <1>42. CASE DiscardRelease
    BY <1>0, <1>42 DEF DiscardRelease, Goto
  <1>43. CASE DiscardedStaging
    BY <1>0, <1>43 DEF DiscardedStaging, Conclude, Return
  <1>44. CASE Reverted
    BY <1>0, <1>44 DEF Reverted, Conclude, Return
  <1>45. CASE Launch
    BY <1>0, <1>45 DEF Launch
  <1>46. CASE TakeDisplay
    BY <1>0, <1>46 DEF TakeDisplay
  <1>47. CASE SessionWritesState
    BY <1>0, <1>47 DEF SessionWritesState
  <1>48. CASE SessionExits
    BY <1>0, <1>48 DEF SessionExits
  <1>50. CASE RunStart
    BY <1>0, <1>50 DEF RunStart, Opening, NoRecord
  <1>51. CASE RollbackStart
    BY <1>0, <1>51 DEF RollbackStart, Opening, NoRecord
  <1>52. CASE Kill
    BY <1>52 DEF Kill
  <1>53. CASE UNCHANGED vars
    BY <1>0, <1>53 DEF vars
  <1> QED
    BY <1>1, <1>2, <1>3, <1>4, <1>5, <1>6, <1>7, <1>8, <1>9, <1>10, <1>11, <1>12,
        <1>13, <1>14, <1>15, <1>16, <1>17, <1>18, <1>19, <1>20, <1>21, <1>22, <1>23,
        <1>24, <1>25, <1>26, <1>27, <1>28, <1>29, <1>30, <1>31, <1>32, <1>33, <1>34,
        <1>35, <1>36, <1>37, <1>38, <1>39, <1>40, <1>41, <1>42, <1>43, <1>44, <1>45,
        <1>46, <1>47, <1>48, <1>49, <1>50, <1>51, <1>52, <1>53, <1>54 DEF Next, ProcessNext, RunNext,
        RollBackNext, RevertNext, ReconcileNext, SessionNext, FaultNext

(* A rollback or a revert hands the restored release state it can read, if it *)
(* could read it when the command began, as long as paperctl is not killed    *)
(* beside its session and no session is started over an open transaction.     *)
THEOREM RestoredStateIsReadable == ASSUME Gentle PROVE Spec => []StateReadable
  <1>1. IInv /\ StateInv /\ [Next]_vars => IInv' /\ StateInv'
    BY TypeInvStep, SafeInvStep, StateInvStep DEF IInv
  <1>2. StateInv => StateReadable
    BY DEF StateInv
  <1> QED
    BY IInvInit, StateInvInit, <1>1, <1>2, PTL DEF Spec
=============================================================================
