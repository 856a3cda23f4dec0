--------------------------- MODULE InstallerProofs ---------------------------
(***************************************************************************)
(* Proofs about the install transaction, for any versions, any number of   *)
(* processes and commands, and any number of kills, power cuts and failing *)
(* writes.                                                                 *)
(*                                                                         *)
(* The argument has three layers, each resting on the one before: what     *)
(* command a process at a given step is carrying out (TypeInv); that one   *)
(* process is at work at a time, and what it may select and prune          *)
(* (SafeInv, while Careful); and that a recorded intent is never older     *)
(* than the selection it would replace (FreshInv, while Prompt).  What a   *)
(* store has met it has met for good, so each layer is an invariant until  *)
(* its first trial.  The last section carries what UpgradeProofs shows of  *)
(* the upgrade over to the system where both are.                          *)
(***************************************************************************)
EXTENDS MCRecovery, FiniteSetTheorems, WellFoundedInduction, TLAPS

Installing == {"check", "begin", "stage", "commit", "finish", "prune", "unlink", "undo",
               "unstage"}
Recovering == {"next", "decide", "restore", "sweep"}
Selecting  == {"prev", "cur", "unjournal"}

(* What the command of a process is, by the step the process is at.           *)
CommandAt(s, m) ==
    /\ s = "idle" => m = Idle
    /\ s \in Installing => m.cmd = "install"
    /\ s = "rollback" => m.cmd = "rollback"
    /\ s \in Recovering => m.cmd = "recover"
    /\ s \in Selecting => m.cmd /= "none"
    /\ s \notin {"idle", "rollback", "next", "sweep"} => m.version /= None
    /\ m.staged => m.cmd = "install"

CommandInv == \A p \in Procs : CommandAt(pc[p], mem[p])

TypeInv == TypeOK /\ CommandInv

(* With recover run alone, one process is at work at a time, and it has the   *)
(* lock whenever it touches the app.                                          *)
Exclusive == \A p, q \in Procs : pc[p] /= "idle" /\ pc[q] /= "idle" => p = q

LockAt(p) ==
    /\ pc[p] \notin {"idle", "next", "sweep"} => lock = p
    /\ pc[p] \in {"next", "sweep"} => lock = None

(* What is about to be selected is complete, and what is selected is not      *)
(* about to be pruned.                                                        *)
SelectingAt(p) ==
    /\ pc[p] \in {"finish", "prev", "cur"} => dirs[mem[p].version] = "complete"
    /\ pc[p] = "unlink" => cur \notin mem[p].doomed

(* The file of the entry a recovery is at work on. *)
Claimed(p) == <<mem[p].version, IF mem[p].activate THEN "activate" ELSE "stage">>

(* A recovery has every entry still to do, but for the one in its hands.      *)
ReplayAt(p) ==
    /\ pc[p] = "next" => \A e \in journal : File(e) \in mem[p].todo
    /\ pc[p] \notin {"next", "sweep"} /\ mem[p].cmd = "recover" =>
          \A e \in journal : File(e) \in mem[p].todo \cup {Claimed(p)}
    /\ pc[p] \in {"prev", "cur"} /\ mem[p].cmd = "recover" => mem[p].activate
    /\ pc[p] \in {"decide", "restore"} => mem[p].activate
    /\ pc[p] = "sweep" => journal = {} /\ staging = {}

SafeAt(p) == LockAt(p) /\ SelectingAt(p) /\ ReplayAt(p)

(* A directory keeps its marker after losing something else only while the    *)
(* prune that is removing it goes on.                                         *)
Unharmed == \A v \in Versions : dirs[v] /= "damaged"

MarkerInv ==
    \A v \in Versions : dirs[v] = "damaged" =>
        \E p \in Procs : pc[p] = "unlink" /\ v \in mem[p].doomed

SafeInv == Exclusive /\ (\A p \in Procs : SafeAt(p)) /\ MarkerInv /\ SelectedWhole

-----------------------------------------------------------------------------
(* With recover run first after a crash, and writes that do not fail, an      *)
(* intent is never older than what happened since.                            *)

(* The intent a process that changes the selection is carrying out.           *)
Intent(p) == [version |-> mem[p].version, phase |-> "activate",
              previous |-> mem[p].previous, started |-> mem[p].started]

Acting(p) ==
    \/ pc[p] \in {"decide", "restore", "prev", "cur"}
    \/ pc[p] = "unjournal" /\ (mem[p].cmd /= "recover" \/ mem[p].activate)

FreshAt(p) ==
    /\ Acting(p) => Intent(p) \in journal
    /\ crashed /\ pc[p] /= "idle" => mem[p].cmd = "recover"
    /\ pc[p] /= "idle" /\ mem[p].cmd /= "recover" => mem[p].started = commands
    /\ pc[p] = "cur" => mem[p].previous \in {None, mem[p].version, prev}
    /\ pc[p] \in {"begin", "stage", "commit", "finish"} => mem[p].previous = cur
    /\ pc[p] = "unlink" => prev \notin mem[p].doomed
    /\ pc[p] /= "restore"

(* Both sides of a recorded intent are complete, one of them is selected, and *)
(* nobody forgets it.                                                         *)
Valid(e) ==
    /\ dirs[e.version] = "complete" /\ (e.previous /= None => dirs[e.previous] = "complete")
    /\ cur \in {e.previous, e.version} /\ running \in {None, e.previous, cur}
    /\ acked <= e.started /\ e.started <= commands
    /\ crashed \/ \E p \in Procs : Acting(p) /\ mem[p].cmd /= "recover"

Intents == {e \in journal : e.phase = "activate"}

IntentInv ==
    /\ acked <= commands
    /\ \A e \in Intents : Valid(e)
    /\ \A e, f \in Intents : e = f

(* What runs is one of the two releases a prune spares.                       *)
RunningInv == running /= None => running \in {cur, prev}

FreshInv == (\A p \in Procs : FreshAt(p)) /\ IntentInv /\ RunningInv /\ FallbackWhole
-----------------------------------------------------------------------------
(* Types: what a step writes into the one process it moves. *)

LEMMA IdleType == Idle \in Local
  BY DEF Idle, Local, Optional

LEMMA UsableType ==
    ASSUME TypeOK, NEW v \in Optional
    PROVE  /\ Usable(v) \in Optional
           /\ Usable(v) /= None => Usable(v) \in Versions /\ HasMarker(Usable(v))
  BY DEF Usable, Optional

LEMMA LocalUpdate ==
    ASSUME NEW m \in Local
    PROVE  /\ \A v \in Optional : [m EXCEPT !.previous = v] \in Local
           /\ \A v, w \in Optional : [m EXCEPT !.version = v, !.previous = w] \in Local
           /\ \A b \in BOOLEAN : [m EXCEPT !.activate = b] \in Local
           /\ [m EXCEPT !.staged = TRUE] \in Local
           /\ \A d \in SUBSET Versions : [m EXCEPT !.doomed = d] \in Local
           /\ \A v, w \in Optional, n \in Nat, t \in SUBSET Files, b \in BOOLEAN :
                [m EXCEPT !.version = v, !.previous = w, !.started = n, !.todo = t,
                          !.activate = b] \in Local
  BY DEF Local

LEMMA NewCommand ==
           /\ \A v \in Versions, a, b \in BOOLEAN, n \in Nat :
                [Idle EXCEPT !.cmd = "install", !.version = v, !.activate = a, !.prune = b,
                             !.started = n] \in Local
           /\ \A n \in Nat : [Idle EXCEPT !.cmd = "rollback", !.started = n] \in Local
           /\ \A t \in SUBSET Files : [Idle EXCEPT !.cmd = "recover", !.todo = t] \in Local
  BY DEF Idle, Local, Optional

LEMMA Moves ==
    ASSUME TypeInv, NEW p \in Procs, NEW s \in Steps, NEW m \in Local, CommandAt(s, m),
           pc' = [pc EXCEPT ![p] = s], mem' = [mem EXCEPT ![p] = m]
    PROVE  pc' \in [Procs -> Steps] /\ mem' \in [Procs -> Local] /\ CommandInv'
  BY DEF TypeInv, TypeOK, CommandInv

LEMMA GoesTo ==
    ASSUME TypeInv, NEW p \in Procs, NEW s \in Steps, Goto(p, s), CommandAt(s, mem[p])
    PROVE  pc' \in [Procs -> Steps] /\ mem' \in [Procs -> Local] /\ CommandInv'
  BY DEF TypeInv, TypeOK, CommandInv, Goto

LEMMA Leaves ==
    ASSUME TypeInv, NEW p \in Procs, Return(p) \/ Stop(p)
    PROVE  /\ pc' \in [Procs -> Steps] /\ mem' \in [Procs -> Local] /\ CommandInv'
           /\ lock' \in Procs \cup {None}
  <1>1. CommandAt("idle", Idle)
    BY DEF CommandAt, Idle, Installing, Recovering, Selecting
  <1>2. lock' \in Procs \cup {None}
    BY DEF TypeInv, TypeOK, Return, Stop
  <1> QED
    BY <1>1, <1>2, IdleType, Moves DEF Return, Stop, Steps

LEMMA Bails ==
    ASSUME TypeInv, NEW p \in Procs, Bail(p), mem[p].version /= None
    PROVE  /\ pc' \in [Procs -> Steps] /\ mem' \in [Procs -> Local] /\ CommandInv'
           /\ lock' \in Procs \cup {None}
  <1>1. CASE mem[p].staged
    <2>1. CommandAt("undo", mem[p])
      BY <1>1 DEF TypeInv, CommandInv, CommandAt, Installing, Recovering, Selecting
    <2> QED
      BY <1>1, <2>1, GoesTo DEF Bail, Steps, TypeInv, TypeOK
  <1>2. CASE ~mem[p].staged
    BY <1>2, Leaves DEF Bail
  <1> QED
    BY <1>1, <1>2

LEMMA TypeInvInit == Init => TypeInv
  <1> SUFFICES ASSUME Init PROVE TypeInv
    OBVIOUS
  <1>1. TypeOK
    BY IdleType DEF Init, TypeOK, Optional, Steps
  <1>2. CommandInv
    BY DEF Init, CommandInv, CommandAt, Idle, Installing, Recovering, Selecting
  <1> QED
    BY <1>1, <1>2 DEF TypeInv

LEMMA InstallType ==
    ASSUME TypeInv, NEW p \in Procs, InstallNext(p) PROVE TypeInv'
  <1> USE DEF TypeInv, TypeOK
  <1> DEFINE At == CommandAt(pc[p], mem[p])
             Moved == /\ pc' \in [Procs -> Steps] /\ mem' \in [Procs -> Local]
                      /\ CommandInv'
  <1>1. At /\ mem[p] \in Local
    BY DEF CommandInv
  <1>2. ASSUME NEW v \in Versions, NEW a \in BOOLEAN, NEW b \in BOOLEAN, Install(p, v, a, b)
        PROVE  TypeInv'
    <2> DEFINE m == [Idle EXCEPT !.cmd = "install", !.version = v, !.activate = a,
                                 !.prune = b, !.started = commands + 1]
    <2>1. m \in Local
      <3>1. commands + 1 \in Nat
        OBVIOUS
      <3> QED
        BY <3>1, NewCommand
    <2>2. CommandAt("check", m)
      BY ConstantsAssumption DEF CommandAt, Idle, Installing, Recovering, Selecting
    <2>3. pc' = [pc EXCEPT ![p] = "check"] /\ mem' = [mem EXCEPT ![p] = m]
      BY <1>2 DEF Install, Begin
    <2> HIDE DEF m
    <2>4. Moved
      BY <2>1, <2>2, <2>3, Moves DEF Steps
    <2> QED
      BY <1>2, <2>4 DEF Install, Begin, files, Trials
  <1>3. CASE Refused(p) \/ RemoveStageEntry(p)
    <2>1. Moved /\ lock' \in Procs \cup {None}
      BY <1>3, Leaves DEF Refused, RemoveStageEntry
    <2> QED
      BY <1>3, <2>1 DEF Refused, RemoveStageEntry, files, others
  <1>4. CASE AlreadyPresent(p) \/ BeginStaging(p)
    <2> DEFINE m == [mem[p] EXCEPT !.previous = Usable(cur)]
    <2>1. m \in Local
      BY <1>1, LocalUpdate, UsableType
    <2>2. CommandAt("finish", m) /\ CommandAt("begin", m)
      BY <1>1, <1>4 DEF CommandAt, Installing, Recovering, Selecting, Local, AlreadyPresent,
          BeginStaging
    <2>3. mem' = [mem EXCEPT ![p] = m]
      BY <1>4 DEF AlreadyPresent, BeginStaging
    <2>4. pc' = [pc EXCEPT ![p] = "finish"] \/ pc' = [pc EXCEPT ![p] = "begin"]
      BY <1>4 DEF AlreadyPresent, BeginStaging
    <2> HIDE DEF m
    <2>5. Moved
      BY <2>1, <2>2, <2>3, <2>4, Moves DEF Steps
    <2>6. mem[p].started \in Nat
      BY <1>1 DEF Local
    <2> QED
      BY <1>4, <2>5, <2>6 DEF AlreadyPresent, BeginStaging, files, others
  <1>5. CASE BeginJournal(p)
    <2> DEFINE m == [mem[p] EXCEPT !.staged = TRUE]
    <2>1. m \in Local
      BY <1>1, LocalUpdate
    <2>2. CommandAt("stage", m)
      BY <1>1, <1>5 DEF CommandAt, Installing, Recovering, Selecting, Local, BeginJournal
    <2>3. mem' = [mem EXCEPT ![p] = m]
      BY <1>5 DEF BeginJournal
    <2> HIDE DEF m
    <2>4. Moved
      BY <1>5, <2>1, <2>2, <2>3, Moves DEF BeginJournal, Steps
    <2>5. mem[p].version \in Versions /\ mem[p].started \in Nat
      BY <1>1, <1>5 DEF CommandAt, BeginJournal, Local, Optional
    <2>6. journal' \subseteq Entry
      BY <1>5, <2>5 DEF BeginJournal, Write, Entry, Optional
    <2> QED
      BY <1>5, <2>4, <2>6 DEF BeginJournal, others
  <1>6. CASE StageFails(p) \/ CommitRefused(p) \/ Running(p) \/ Pruned(p)
    <2>1. Bail(p) /\ mem[p].version /= None
      BY <1>1, <1>6 DEF StageFails, CommitRefused, Running, Pruned, CommandAt
    <2>2. Moved /\ lock' \in Procs \cup {None}
      BY <2>1, Bails
    <2> QED
      BY <1>6, <2>2 DEF StageFails, CommitRefused, Running, Pruned, files, others
  <1>7. CASE Staged(p)
    <2>1. PICK b \in BOOLEAN : mem' = [mem EXCEPT ![p] = [mem[p] EXCEPT !.activate = @ /\ b]]
      BY <1>7 DEF Staged
    <2> DEFINE m == [mem[p] EXCEPT !.activate = @ /\ b]
    <2>2. m \in Local
      BY <1>1, LocalUpdate DEF Local
    <2>3. CommandAt("commit", m)
      BY <1>1, <1>7 DEF CommandAt, Installing, Recovering, Selecting, Local, Staged
    <2>4. Moved
      BY <1>7, <2>1, <2>2, <2>3, Moves DEF Staged, Steps
    <2> QED
      BY <1>7, <2>4 DEF Staged, files, others
  <1>8. CASE CommitDirectory(p)
    <2>1. CommandAt("finish", mem[p])
      BY <1>1, <1>8 DEF CommandAt, Installing, Recovering, Selecting, CommitDirectory
    <2>2. Moved
      BY <1>8, <2>1, GoesTo DEF CommitDirectory, Steps
    <2> QED
      BY <1>8, <2>2 DEF CommitDirectory, others
  <1>9. CASE JournalActivation(p)
    <2>1. CommandAt("prev", mem[p])
      BY <1>1, <1>9 DEF CommandAt, Installing, Recovering, Selecting, JournalActivation
    <2>2. Moved
      BY <1>9, <2>1, GoesTo DEF JournalActivation, Steps
    <2>3. mem[p].version \in Versions /\ mem[p].started \in Nat /\ mem[p].previous \in Optional
      BY <1>1, <1>9 DEF CommandAt, JournalActivation, Local, Optional
    <2>4. journal' \subseteq Entry
      BY <1>9, <2>3 DEF JournalActivation, Write, Entry
    <2> QED
      BY <1>9, <2>2, <2>4 DEF JournalActivation, others
  <1>10. CASE NotActivated(p) \/ RemoveStaging(p)
    <2>1. /\ NotActivated(p) => CommandAt("prune", mem[p])
          /\ RemoveStaging(p) => CommandAt("unstage", mem[p])
      BY <1>1 DEF CommandAt, Installing, Recovering, Selecting, NotActivated, RemoveStaging
    <2>2. Moved
      BY <1>10, <2>1, GoesTo DEF NotActivated, RemoveStaging, Steps
    <2> QED
      BY <1>10, <2>2 DEF NotActivated, RemoveStaging, files, others
  <1>11. CASE WritePrevious(p) \/ WriteCurrent(p)
    <2>1. /\ WritePrevious(p) => CommandAt("cur", mem[p])
          /\ WriteCurrent(p) => CommandAt("unjournal", mem[p])
      BY <1>1 DEF CommandAt, Installing, Recovering, Selecting, WritePrevious, WriteCurrent
    <2>2. Moved
      BY <1>11, <2>1, GoesTo DEF WritePrevious, WriteCurrent, Steps
    <2>3. mem[p].version \in Optional /\ mem[p].previous \in Optional
      BY <1>1 DEF Local
    <2> QED
      BY <1>11, <2>2, <2>3 DEF WritePrevious, WriteCurrent, others
  <1>12. CASE RemoveEntry(p)
    <2>1. mem[p].cmd = "install" => CommandAt("prune", mem[p])
      BY <1>1, <1>12 DEF CommandAt, Installing, Recovering, Selecting, RemoveEntry
    <2>2. \/ mem[p].cmd = "install" /\ Goto(p, "prune") /\ UNCHANGED lock
          \/ Return(p)
      BY <1>12 DEF RemoveEntry
    <2>3. Moved /\ lock' \in Procs \cup {None}
      BY <2>1, <2>2, GoesTo, Leaves DEF Steps
    <2>4. mem[p].started \in Nat
      BY <1>1 DEF Local
    <2> QED
      BY <1>12, <2>3, <2>4 DEF RemoveEntry
  <1>13. CASE Prune(p)
    <2> DEFINE doomed == IF mem[p].prune THEN InstalledVersions \ Keep(p) ELSE {}
    <2>1. CASE doomed = {}
      BY <1>1, <1>13, <2>1, Bails DEF Prune, CommandAt, files, others
    <2>2. CASE doomed /= {}
      <3> DEFINE m == [mem[p] EXCEPT !.doomed = doomed]
      <3>1. doomed \in SUBSET Versions
        BY DEF InstalledVersions
      <3>2. mem' = [mem EXCEPT ![p] = m] /\ pc' = [pc EXCEPT ![p] = "unlink"]
        BY <1>13, <2>2 DEF Prune
      <3>3. UNCHANGED <<lock, files, others>>
        BY <1>13, <2>2 DEF Prune
      <3> HIDE DEF doomed
      <3>4. m \in Local
        BY <1>1, <3>1, LocalUpdate
      <3>5. CommandAt("unlink", m)
        BY <1>1, <1>13 DEF CommandAt, Installing, Recovering, Selecting, Local, Prune
      <3> HIDE DEF m
      <3>6. Moved
        BY <3>2, <3>4, <3>5, Moves DEF Steps
      <3> QED
        BY <3>3, <3>6 DEF files, others
    <2> QED
      BY <2>1, <2>2
  <1>14. ASSUME NEW v \in Versions, Unlink(p, v) PROVE TypeInv'
    <2>1. PICK left \in AfterUnlink(v) :
             /\ dirs' = [dirs EXCEPT ![v] = left]
             /\ mem' = [mem EXCEPT ![p].doomed = IF left = "absent" THEN @ \ {v} ELSE @]
      BY <1>14 DEF Unlink
    <2>2. left \in {"absent", "complete", "bare", "damaged"}
      BY <2>1, ConstantsAssumption DEF AfterUnlink
    <2> DEFINE d == IF left = "absent" THEN mem[p].doomed \ {v} ELSE mem[p].doomed
               m == [mem[p] EXCEPT !.doomed = d]
    <2>3. d \in SUBSET Versions
      BY <1>1 DEF Local
    <2>4. mem' = [mem EXCEPT ![p] = m]
      BY <2>1
    <2> HIDE DEF d
    <2>5. m \in Local
      BY <1>1, <2>3, LocalUpdate
    <2>6. CommandAt("unlink", m)
      BY <1>1, <1>14 DEF CommandAt, Installing, Recovering, Selecting, Local, Unlink
    <2>7. pc' = [pc EXCEPT ![p] = "unlink"]
      BY <1>14 DEF Unlink
    <2> HIDE DEF m
    <2>8. Moved
      BY <2>4, <2>5, <2>6, <2>7, Moves DEF Steps
    <2>9. dirs' \in [Versions -> {"absent", "complete", "bare", "damaged"}]
      BY <2>1, <2>2
    <2> QED
      BY <1>14, <2>8, <2>9 DEF Unlink, others
  <1> QED
    BY <1>2, <1>3, <1>4, <1>5, <1>6, <1>7, <1>8, <1>9, <1>10, <1>11, <1>12, <1>13, <1>14
    DEF InstallNext

LEMMA RollbackType ==
    ASSUME TypeInv, NEW p \in Procs, RollbackNext(p) PROVE TypeInv'
  <1> USE DEF TypeInv, TypeOK
  <1> DEFINE At == CommandAt(pc[p], mem[p])
             Moved == /\ pc' \in [Procs -> Steps] /\ mem' \in [Procs -> Local]
                      /\ CommandInv'
  <1>1. At /\ mem[p] \in Local
    BY DEF CommandInv
  <1>2. CASE Rollback(p)
    <2> DEFINE m == [Idle EXCEPT !.cmd = "rollback", !.started = commands + 1]
    <2>1. m \in Local
      <3>1. commands + 1 \in Nat
        OBVIOUS
      <3> QED
        BY <3>1, NewCommand
    <2>2. CommandAt("rollback", m)
      BY DEF CommandAt, Idle, Installing, Recovering, Selecting
    <2>3. pc' = [pc EXCEPT ![p] = "rollback"] /\ mem' = [mem EXCEPT ![p] = m]
      BY <1>2 DEF Rollback, Begin
    <2> HIDE DEF m
    <2>4. Moved
      BY <2>1, <2>2, <2>3, Moves DEF Steps
    <2> QED
      BY <1>2, <2>4 DEF Rollback, Begin, files, Trials
  <1>3. CASE RollbackRefused(p)
    BY <1>3, Leaves DEF RollbackRefused, files, others
  <1>4. CASE RollbackJournal(p)
    <2> DEFINE m == [mem[p] EXCEPT !.version = Usable(prev), !.previous = Usable(cur)]
    <2>1. Usable(prev) \in Versions /\ Usable(cur) \in Optional
      BY <1>4, UsableType DEF RollbackJournal
    <2>2. m \in Local
      BY <1>1, <2>1, LocalUpdate DEF Optional
    <2>3. CommandAt("prev", m)
      BY <1>1, <1>4 DEF CommandAt, Installing, Recovering, Selecting, Local, RollbackJournal
    <2>4. pc' = [pc EXCEPT ![p] = "prev"] /\ mem' = [mem EXCEPT ![p] = m]
      BY <1>4 DEF RollbackJournal
    <2> HIDE DEF m
    <2>5. Moved
      BY <2>2, <2>3, <2>4, Moves DEF Steps
    <2>6. journal' \subseteq Entry
      BY <1>1, <1>4, <2>1 DEF RollbackJournal, Write, Entry, Local
    <2> QED
      BY <1>4, <2>5, <2>6 DEF RollbackJournal, others
  <1> QED
    BY <1>2, <1>3, <1>4 DEF RollbackNext

(* The entry a recovery takes is the one its file name stands for.            *)
LEMMA TakenEntry ==
    ASSUME TypeOK, NEW file, \E e \in journal : File(e) = file
    PROVE  LET e == CHOOSE e \in journal : File(e) = file
           IN  /\ e \in journal /\ e \in Entry /\ File(e) = file
               /\ file = <<e.version, e.phase>>
  BY DEF TypeOK, File

(* Finitely many versions, if there are any, have a newest one: a smallest    *)
(* set without one would still lack it after losing an element.               *)
LEMMA NewestExists ==
    ASSUME NEW S \in SUBSET Versions, S /= {}
    PROVE  \E v \in S : \A w \in S : w <= v
  <1> DEFINE Newest(T) == \E v \in T : \A w \in T : w <= v
             Bad == {T \in SUBSET S : T /= {} /\ ~Newest(T)}
  <1>1. IsFiniteSet(S) /\ S \subseteq Nat
    BY FS_Subset, ConstantsAssumption
  <1>2. SUFFICES ASSUME Bad /= {} PROVE FALSE
    OBVIOUS
  <1>3. Bad \subseteq FiniteSubsetsOf(S)
    BY <1>1, FS_Subset DEF FiniteSubsetsOf
  <1>4. PICK T \in Bad : \A W \in Bad : <<W, T>> \notin StrictSubsetOrdering(S)
    <2> HIDE DEF Bad
    <2> QED
      BY <1>2, <1>3, FS_StrictSubsetOrderingWellFounded, WFMin
  <1>5. PICK x \in T : TRUE
    OBVIOUS
  <1>6. CASE T \ {x} = {}
    <2>1. \A w \in T : w = x
      BY <1>6
    <2> QED
      BY <1>1, <1>5, <2>1
  <1>7. CASE T \ {x} /= {}
    <2>1. T \ {x} \notin Bad
      BY <1>4, <1>5 DEF StrictSubsetOrdering
    <2>2. PICK v \in T \ {x} : \A w \in T \ {x} : w <= v
      BY <1>7, <2>1
    <2>3. v \in Nat /\ x \in Nat /\ T \subseteq Nat
      BY <1>1, <1>5, <2>2
    <2>4. Newest(T)
      <3>1. CASE x <= v
        BY <2>2, <2>3, <3>1
      <3>2. CASE v <= x
        BY <1>5, <2>2, <2>3, <3>2
      <3> QED
        BY <2>3, <3>1, <3>2
    <2> QED
      BY <2>4
  <1> QED
    BY <1>6, <1>7

LEMMA FallbackType ==
    ASSUME TypeOK, NEW p \in Procs
    PROVE  /\ Fallback(p) \in Optional
           /\ Fallback(p) /= None => HasMarker(Fallback(p))
  <1>1. InstalledVersions \subseteq Versions /\ \A v \in InstalledVersions : HasMarker(v)
    BY DEF InstalledVersions
  <1>2. CASE Usable(mem[p].previous) /= None \/ Usable(cur) /= None
    <2>1. mem[p].previous \in Optional /\ cur \in Optional
      BY DEF TypeOK, Local
    <2> QED
      BY <1>2, <2>1, UsableType DEF Fallback
  <1>3. CASE Usable(mem[p].previous) = None /\ Usable(cur) = None
    <2>1. CASE InstalledVersions = {}
      BY <1>3, <2>1 DEF Fallback, Optional
    <2>2. CASE InstalledVersions /= {}
      <3>1. PICK v \in InstalledVersions : \A w \in InstalledVersions : w <= v
        BY <1>1, <2>2, NewestExists
      <3>2. Fallback(p) \in InstalledVersions
        BY <1>3, <2>2, <3>1 DEF Fallback
      <3> QED
        BY <1>1, <3>2 DEF Optional
    <2> QED
      BY <2>1, <2>2
  <1> QED
    BY <1>2, <1>3

LEMMA RecoverType ==
    ASSUME TypeInv, NEW p \in Procs, RecoverNext(p) PROVE TypeInv'
  <1> USE DEF TypeInv, TypeOK
  <1> DEFINE At == CommandAt(pc[p], mem[p])
             Moved == /\ pc' \in [Procs -> Steps] /\ mem' \in [Procs -> Local]
                      /\ CommandInv'
  <1>1. At /\ mem[p] \in Local
    BY DEF CommandInv
  <1>2. CASE Recover(p)
    <2> DEFINE t == {File(e) : e \in journal}
               m == [Idle EXCEPT !.cmd = "recover", !.todo = t]
    <2>1. t \in SUBSET Files
      BY DEF File, Files, Entry
    <2>2. pc' = [pc EXCEPT ![p] = "next"] /\ mem' = [mem EXCEPT ![p] = m]
      BY <1>2 DEF Recover
    <2> HIDE DEF t
    <2>3. m \in Local
      BY <2>1, NewCommand
    <2>4. CommandAt("next", m)
      BY DEF CommandAt, Idle, Installing, Recovering, Selecting
    <2> HIDE DEF m
    <2>5. Moved
      BY <2>2, <2>3, <2>4, Moves DEF Steps
    <2> QED
      BY <1>2, <2>5 DEF Recover, files, others, Meets, Trials
  <1>3. CASE RecoverEntry(p)
    <2>1. PICK file \in mem[p].todo :
            IF lock = None /\ \E e \in journal : File(e) = file
            THEN LET e == CHOOSE e \in journal : File(e) = file
                 IN  /\ staging' = IF e.phase = "stage" THEN staging \ {e.started}
                                                        ELSE staging
                     /\ mem' = [mem EXCEPT
                                  ![p].version = e.version, ![p].previous = e.previous,
                                  ![p].started = e.started, ![p].todo = @ \ {file},
                                  ![p].activate = (e.phase = "activate")]
                     /\ pc' = [pc EXCEPT ![p] = IF e.phase = "activate" THEN "decide"
                                                ELSE "unjournal"]
                     /\ lock' = p
            ELSE Stop(p) /\ UNCHANGED staging
      BY <1>3 DEF RecoverEntry
    <2>2. UNCHANGED <<dirs, cur, prev, journal, others>>
      BY <1>3 DEF RecoverEntry
    <2>3. CASE lock = None /\ \E e \in journal : File(e) = file
      <3> DEFINE e == CHOOSE e \in journal : File(e) = file
                 t == mem[p].todo \ {file}
                 b == (e.phase = "activate")
                 s == IF e.phase = "activate" THEN "decide" ELSE "unjournal"
                 m == [mem[p] EXCEPT !.version = e.version, !.previous = e.previous,
                                     !.started = e.started, !.todo = t, !.activate = b]
      <3>1. e \in Entry
        BY <2>3, TakenEntry
      <3>2. /\ mem' = [mem EXCEPT ![p] = m] /\ pc' = [pc EXCEPT ![p] = s]
            /\ lock' = p /\ staging' \subseteq staging
        BY <2>1, <2>3
      <3> HIDE DEF e
      <3>3. /\ e.version \in Versions /\ e.version \in Optional /\ e.previous \in Optional
            /\ e.started \in Nat
            /\ t \in SUBSET Files /\ b \in BOOLEAN /\ s \in Steps
        BY <1>1, <3>1 DEF Entry, Local, Optional, Steps
      <3> HIDE DEF t, b
      <3>4. m \in Local
        BY <1>1, <3>3, LocalUpdate
      <3>5. CommandAt(s, m)
        BY <1>1, <1>3, <3>3, ConstantsAssumption DEF CommandAt, Installing, Recovering,
            Selecting, Local, RecoverEntry
      <3> HIDE DEF m, s
      <3>6. Moved
        BY <3>2, <3>3, <3>4, <3>5, Moves
      <3> QED
        BY <2>2, <3>2, <3>6 DEF others
    <2>4. CASE ~(lock = None /\ \E e \in journal : File(e) = file)
      BY <2>1, <2>2, <2>4, Leaves DEF others
    <2> QED
      BY <2>3, <2>4
  <1>4. CASE Decide(p) \/ RestoreSelection(p)
    <2>1. /\ Decide(p) => CommandAt("prev", mem[p]) /\ CommandAt("restore", mem[p])
          /\ RestoreSelection(p) => CommandAt("unjournal", mem[p])
      BY <1>1 DEF CommandAt, Installing, Recovering, Selecting, Decide, RestoreSelection
    <2>2. Moved
      BY <1>4, <2>1, GoesTo DEF Decide, RestoreSelection, Steps
    <2>3. cur' \in Optional
      BY <1>4, FallbackType DEF Decide, RestoreSelection, files
    <2> QED
      BY <1>4, <2>2, <2>3 DEF Decide, RestoreSelection, files, others
  <1>5. CASE Repaired(p)
    <2>1. CommandAt("next", mem[p])
      BY <1>1, <1>5 DEF CommandAt, Installing, Recovering, Selecting, Repaired
    <2>2. Moved
      BY <1>5, <2>1, GoesTo DEF Repaired, Steps
    <2>3. mem[p].started \in Nat
      BY <1>1 DEF Local
    <2> QED
      BY <1>5, <2>2, <2>3 DEF Repaired
  <1>6. CASE SweepStaging(p) \/ SweepIncomplete(p)
    <2>1. CommandAt("sweep", mem[p])
      BY <1>1, <1>6 DEF CommandAt, Installing, Recovering, Selecting, SweepStaging,
          SweepIncomplete
    <2>2. Moved
      BY <1>6, <2>1, GoesTo DEF SweepStaging, SweepIncomplete, Steps
    <2> QED
      BY <1>6, <2>2 DEF SweepStaging, SweepIncomplete, others
  <1>7. CASE Recovered(p)
    BY <1>7, Leaves DEF Recovered, files
  <1> QED
    BY <1>2, <1>3, <1>4, <1>5, <1>6, <1>7 DEF RecoverNext

LEMMA TypeInvStep == TypeInv /\ [Next]_vars => TypeInv'
  <1> SUFFICES ASSUME TypeInv, [Next]_vars PROVE TypeInv'
    OBVIOUS
  <1> USE DEF TypeInv, TypeOK, Meets, Maims, Trials
  <1>1. ASSUME NEW p \in Procs, Kill(p) PROVE TypeInv'
    BY <1>1, Leaves DEF Kill, files
  <1>2. ASSUME NEW p \in Procs, IoError(p) PROVE TypeInv'
    <2>1. \/ Return(p) \/ Stop(p)
          \/ Bail(p) /\ pc[p] \notin {"idle", "rollback", "next", "sweep"}
      BY <1>2 DEF IoError
    <2>2. pc[p] \notin {"idle", "rollback", "next", "sweep"} => mem[p].version /= None
      BY DEF CommandInv, CommandAt
    <2>3. /\ pc' \in [Procs -> Steps] /\ mem' \in [Procs -> Local] /\ CommandInv'
          /\ lock' \in Procs \cup {None}
      BY <2>1, <2>2, Leaves, Bails
    <2> QED
      BY <1>2, <2>3 DEF IoError, files
  <1>3. CASE PowerCut
    <2>1. pc' \in [Procs -> Steps] /\ mem' \in [Procs -> Local]
      BY <1>3, IdleType DEF PowerCut, Steps
    <2>2. CommandInv'
      BY <1>3 DEF PowerCut, CommandInv, CommandAt, Idle, Installing, Recovering, Selecting
    <2> QED
      BY <1>3, <2>1, <2>2 DEF PowerCut, files, Optional
  <1>4. CASE Launch \/ Exit
    <2>1. running' \in Optional
      BY <1>4, UsableType DEF Launch, Exit, Optional
    <2>2. CommandInv'
      BY <1>4 DEF Launch, Exit, CommandInv
    <2> QED
      BY <1>4, <2>1, <2>2 DEF Launch, Exit, files
  <1>5. CASE UNCHANGED vars
    BY <1>5 DEF vars, files, others, CommandInv
  <1> QED
    BY <1>1, <1>2, <1>3, <1>4, <1>5, InstallType, RollbackType, RecoverType
    DEF Next, ProcNext

(* What was met stays met. *)
LEMMA MetGrows == [Next]_vars => met \subseteq met'
  <1> USE DEF others, Meets, Maims, Begin
  <1>1. ASSUME NEW p \in Procs, InstallNext(p) PROVE met \subseteq met'
    BY <1>1 DEF InstallNext, Install, Refused, AlreadyPresent, BeginStaging, BeginJournal,
        StageFails, Staged, CommitDirectory, CommitRefused, Running, JournalActivation,
        NotActivated, WritePrevious, WriteCurrent, RemoveEntry, Prune, Unlink, Pruned,
        RemoveStaging, RemoveStageEntry
  <1>2. ASSUME NEW p \in Procs, RollbackNext(p) PROVE met \subseteq met'
    BY <1>2 DEF RollbackNext, Rollback, RollbackRefused, RollbackJournal
  <1>3. ASSUME NEW p \in Procs, RecoverNext(p) PROVE met \subseteq met'
    BY <1>3 DEF RecoverNext, Recover, RecoverEntry, Decide, RestoreSelection, Repaired,
        SweepStaging, SweepIncomplete, Recovered
  <1>4. ASSUME NEW p \in Procs, Kill(p) \/ IoError(p) PROVE met \subseteq met'
    BY <1>4 DEF Kill, IoError
  <1>5. CASE PowerCut \/ Launch \/ Exit \/ UNCHANGED vars
    BY <1>5 DEF PowerCut, Launch, Exit, vars
  <1> QED
    BY <1>1, <1>2, <1>3, <1>4, <1>5 DEF Next, ProcNext

(* Every reachable store is well typed.                                       *)
THEOREM TypeCorrect == Spec => []TypeOK
  BY TypeInvInit, TypeInvStep, PTL DEF Spec, TypeInv

-----------------------------------------------------------------------------
(* The store is selected from safely. *)

LEMMA OthersRest ==
    ASSUME TypeInv, Exclusive, NEW p \in Procs, pc[p] /= "idle", NEW q \in Procs, q /= p
    PROVE  pc[q] = "idle" /\ mem[q] = Idle
  BY DEF TypeInv, CommandInv, CommandAt, Exclusive

LEMMA OneMoves ==
    ASSUME TypeInv, NEW p \in Procs, ProcNext(p) \/ Kill(p) \/ IoError(p),
           NEW q \in Procs, q /= p
    PROVE  pc'[q] = pc[q] /\ mem'[q] = mem[q]
  <1> USE DEF TypeInv, TypeOK, Goto, Return, Stop, Bail, Begin
  <1>1. CASE InstallNext(p)
    BY <1>1 DEF InstallNext, Install, Refused, AlreadyPresent, BeginStaging, BeginJournal,
        StageFails, Staged, CommitDirectory, CommitRefused, Running, JournalActivation,
        NotActivated, WritePrevious, WriteCurrent, RemoveEntry, Prune, Unlink, Pruned,
        RemoveStaging, RemoveStageEntry
  <1>2. CASE RollbackNext(p)
    BY <1>2 DEF RollbackNext, Rollback, RollbackRefused, RollbackJournal
  <1>3. CASE RecoverNext(p)
    BY <1>3 DEF RecoverNext, Recover, RecoverEntry, Decide, RestoreSelection, Repaired,
        SweepStaging, SweepIncomplete, Recovered
  <1>4. CASE Kill(p) \/ IoError(p)
    BY <1>4 DEF Kill, IoError
  <1> QED
    BY <1>1, <1>2, <1>3, <1>4 DEF ProcNext

(* After a step of the process at work only that process is to be looked at.  *)
LEMMA OneIsLookedAt ==
    ASSUME TypeInv, Exclusive, NEW p \in Procs, pc[p] /= "idle",
           ProcNext(p) \/ Kill(p) \/ IoError(p), SafeAt(p)'
    PROVE  Exclusive' /\ \A q \in Procs : SafeAt(q)'
  <1>1. \A q \in Procs : q /= p => pc'[q] = "idle" /\ mem'[q] = Idle
    BY OthersRest, OneMoves
  <1>2. \A q \in Procs : q /= p => SafeAt(q)'
    BY <1>1 DEF SafeAt, LockAt, SelectingAt, ReplayAt, Idle
  <1> QED
    BY <1>1, <1>2 DEF Exclusive

(* Only a prune at work leaves a tree with its marker and not its files.      *)
LEMMA NoHarm ==
    ASSUME SafeInv, NEW p \in Procs, pc[p] \notin {"idle", "unlink"}
    PROVE  Unharmed
  BY DEF SafeInv, MarkerInv, Exclusive, Unharmed

LEMMA NobodyAtWork ==
    ASSUME TypeInv, SafeInv, lock = None, ~RecoverAtWork
    PROVE  \A q \in Procs : pc[q] = "idle"
  <1> SUFFICES ASSUME NEW q \in Procs, pc[q] /= "idle" PROVE FALSE
    OBVIOUS
  <1>1. pc[q] \in {"next", "sweep"}
    BY ConstantsAssumption DEF SafeInv, SafeAt, LockAt
  <1> QED
    BY <1>1 DEF TypeInv, CommandInv, CommandAt, Recovering, RecoverAtWork

(* Leaving, or going on without touching the files, is always safe.           *)
LEMMA LeavingIsSafe ==
    ASSUME TypeInv, SafeInv, NEW p \in Procs, pc[p] /= "idle",
           Return(p) \/ Stop(p) \/ (Bail(p) /\ pc[p] \notin {"next", "sweep"})
    PROVE  SafeAt(p)'
  <1>1. mem[p] \in Local /\ p \in DOMAIN pc /\ p \in DOMAIN mem
    BY DEF TypeInv, TypeOK
  <1>2. CASE Return(p) \/ Stop(p)
    <2>1. pc'[p] = "idle" /\ mem'[p] = Idle
      BY <1>1, <1>2 DEF Return, Stop
    <2> QED
      BY <2>1 DEF SafeAt, LockAt, SelectingAt, ReplayAt, Idle
  <1>3. CASE Bail(p) /\ mem[p].staged /\ pc[p] \notin {"next", "sweep"}
    <2>1. pc'[p] = "undo" /\ mem' = mem /\ lock' = lock
      BY <1>1, <1>3 DEF Bail, Goto
    <2>2. mem[p].cmd = "install"
      BY <1>3 DEF TypeInv, CommandInv, CommandAt
    <2>3. lock = p
      BY <1>3 DEF SafeInv, SafeAt, LockAt
    <2> QED
      BY <2>1, <2>2, <2>3 DEF SafeAt, LockAt, SelectingAt, ReplayAt
  <1> QED
    BY <1>2, <1>3 DEF Bail

LEMMA BeginningIsSafe ==
    ASSUME TypeInv, SafeInv, Careful', NEW p \in Procs,
           NEW s \in {"check", "rollback"}, NEW m \in Local, m.cmd /= "recover", Begin(p, s, m)
    PROVE  SafeInv'
  <1>1. \A q \in Procs : pc[q] = "idle" /\ mem[q] = Idle
    BY NobodyAtWork DEF Begin, TypeInv, CommandInv, CommandAt, Careful
  <1>2. /\ pc'[p] = s /\ mem'[p] = m
        /\ \A q \in Procs : q /= p => pc'[q] = "idle" /\ mem'[q] = Idle
    BY <1>1 DEF Begin, TypeInv, TypeOK
  <1>3. Exclusive'
    BY <1>2 DEF Exclusive
  <1>4. SafeAt(p)' /\ \A q \in Procs : q /= p => SafeAt(q)'
    BY <1>2 DEF Begin, SafeAt, LockAt, SelectingAt, ReplayAt, Idle
  <1>5. MarkerInv' /\ SelectedWhole'
    BY <1>1 DEF SafeInv, MarkerInv, SelectedWhole, Begin, files
  <1> QED
    BY <1>3, <1>4, <1>5 DEF SafeInv

LEMMA InstallIsSafe ==
    ASSUME TypeInv, SafeInv, Careful',
           NEW p \in Procs, InstallNext(p)
    PROVE  SafeInv'
  <1>1. /\ CommandAt(pc[p], mem[p]) /\ mem[p] \in Local /\ SafeAt(p)
        /\ p \in DOMAIN pc /\ p \in DOMAIN mem
    BY DEF TypeInv, TypeOK, CommandInv, SafeInv
  <1> DEFINE Kept == MarkerInv' /\ SelectedWhole'
  <1>2. ASSUME pc[p] /= "idle", SafeAt(p)', Kept PROVE SafeInv'
    BY <1>2, OneIsLookedAt DEF SafeInv, ProcNext
  <1>a. pc[p] \notin {"idle", "unlink"} => Unharmed
    BY NoHarm
  <1>3. pc[p] \notin {"idle", "unlink"} /\ UNCHANGED <<dirs, cur>> => Kept
    BY <1>a DEF SafeInv, MarkerInv, SelectedWhole, Unharmed
  <1> USE DEF SafeAt
  <1>4. ASSUME NEW v \in Versions, NEW a \in BOOLEAN, NEW b \in BOOLEAN, Install(p, v, a, b)
        PROVE  SafeInv'
    <2>1. commands + 1 \in Nat
      BY DEF TypeInv, TypeOK
    <2> DEFINE m == [Idle EXCEPT !.cmd = "install", !.version = v, !.activate = a,
                                 !.prune = b, !.started = commands + 1]
    <2>2. m \in Local /\ m.cmd /= "recover"
      BY <2>1, NewCommand DEF Idle
    <2>3. Begin(p, "check", m)
      BY <1>4 DEF Install
    <2> HIDE DEF m
    <2> QED
      BY <2>2, <2>3, BeginningIsSafe
  <1>5. CASE \/ Refused(p) \/ RemoveStageEntry(p) \/ StageFails(p) \/ CommitRefused(p)
             \/ Running(p)
    BY <1>2, <1>3, <1>5, LeavingIsSafe DEF Refused, RemoveStageEntry, StageFails,
        CommitRefused, Running, files
  <1>b. CASE Pruned(p)
    <2>1. Unharmed /\ UNCHANGED <<dirs, cur>>
      BY <1>b DEF Pruned, SafeInv, MarkerInv, Exclusive, Unharmed, files
    <2>2. SafeAt(p)'
      BY <1>b, LeavingIsSafe DEF Pruned
    <2> QED
      BY <1>2, <1>b, <2>1, <2>2 DEF Pruned, SafeInv, Unharmed, MarkerInv, SelectedWhole
  <1>6. CASE AlreadyPresent(p)
    <2>1. dirs[mem[p].version] = "complete"
      BY <1>1, <1>a, <1>6 DEF AlreadyPresent, HasMarker, Unharmed, CommandAt, Local, Optional
    <2>2. SafeAt(p)'
      BY <1>1, <1>6, <2>1 DEF AlreadyPresent, LockAt, SelectingAt, ReplayAt, CommandAt,
          Installing, Local, files
    <2> QED
      BY <1>2, <1>3, <1>6, <2>2 DEF AlreadyPresent, files
  <1>7. CASE BeginStaging(p) \/ BeginJournal(p) \/ Staged(p)
    <2>1. mem'[p].cmd = "install"
      BY <1>1, <1>7 DEF BeginStaging, BeginJournal, Staged, CommandAt, Installing, Local
    <2>2. pc'[p] \in {"begin", "stage", "commit"} /\ lock' = p
      BY <1>1, <1>7 DEF BeginStaging, BeginJournal, Staged, LockAt
    <2>3. SafeAt(p)'
      BY <2>1, <2>2 DEF LockAt, SelectingAt, ReplayAt
    <2> QED
      BY <1>2, <1>3, <1>7, <2>3 DEF BeginStaging, BeginJournal, Staged, files
  <1>8. CASE CommitDirectory(p)
    <2>1. mem[p].cmd = "install" /\ mem[p].version \in Versions
      BY <1>1, <1>8 DEF CommitDirectory, CommandAt, Installing, Local, Optional
    <2>2. dirs'[mem[p].version] = "complete"
      BY <1>8, <2>1 DEF CommitDirectory, TypeInv, TypeOK
    <2>3. SafeAt(p)'
      BY <1>1, <1>8, <2>1, <2>2 DEF CommitDirectory, Goto, LockAt, SelectingAt, ReplayAt
    <2>4. Kept
      BY <1>a, <1>8, <2>1 DEF CommitDirectory, SafeInv, MarkerInv, SelectedWhole, TypeInv,
          TypeOK, Optional, Unharmed
    <2> QED
      BY <1>2, <1>8, <2>3, <2>4 DEF CommitDirectory
  <1>9. CASE JournalActivation(p) \/ NotActivated(p)
    <2>1. mem[p].cmd = "install"
      BY <1>1, <1>9 DEF JournalActivation, NotActivated, CommandAt, Installing
    <2>2. SafeAt(p)'
      BY <1>1, <1>9, <2>1 DEF JournalActivation, NotActivated, Goto, LockAt, SelectingAt,
          ReplayAt, files
    <2> QED
      BY <1>2, <1>3, <1>9, <2>2 DEF JournalActivation, NotActivated, files
  <1>10. CASE WritePrevious(p)
    <2>1. SafeAt(p)'
      BY <1>1, <1>10 DEF WritePrevious, Goto, LockAt, SelectingAt, ReplayAt, Claimed
    <2> QED
      BY <1>2, <1>3, <1>10, <2>1 DEF WritePrevious
  <1>11. CASE WriteCurrent(p)
    <2>1. SafeAt(p)'
      BY <1>1, <1>11 DEF WriteCurrent, Goto, LockAt, SelectingAt, ReplayAt, Claimed
    <2>2. Kept
      BY <1>1, <1>a, <1>11 DEF WriteCurrent, SelectingAt, MarkerInv, Unharmed,
          SelectedWhole
    <2> QED
      BY <1>2, <1>11, <2>1, <2>2 DEF WriteCurrent
  <1>12. CASE RemoveEntry(p)
    <2>1. CASE mem[p].cmd = "install"
      <3>1. SafeAt(p)'
        BY <1>1, <1>12, <2>1 DEF RemoveEntry, Goto, LockAt, SelectingAt, ReplayAt, Selecting
      <3> QED
        BY <1>2, <1>3, <1>12, <3>1 DEF RemoveEntry
    <2>2. CASE mem[p].cmd /= "install"
      <3>1. Return(p) /\ pc[p] /= "idle"
        BY <1>12, <2>2 DEF RemoveEntry
      <3>2. SafeAt(p)'
        BY <3>1, LeavingIsSafe
      <3> QED
        BY <1>2, <1>3, <1>12, <3>1, <3>2 DEF RemoveEntry
    <2> QED
      BY <2>1, <2>2
  <1>13. CASE Prune(p)
    <2> DEFINE doomed == IF mem[p].prune THEN InstalledVersions \ Keep(p) ELSE {}
    <2>1. CASE doomed = {}
      BY <1>2, <1>3, <1>13, <2>1, LeavingIsSafe DEF Prune, files
    <2>2. CASE doomed /= {}
      <3>1. cur \notin doomed
        <4>1. CASE cur = None
          BY <4>1, ConstantsAssumption DEF InstalledVersions
        <4>2. CASE cur /= None
          BY <4>2 DEF Keep, Usable, HasMarker, SafeInv, SelectedWhole
        <4> QED
          BY <4>1, <4>2
      <3>2. mem'[p].doomed = doomed /\ mem'[p].cmd = "install" /\ pc'[p] = "unlink"
        <4>1. /\ mem' = [mem EXCEPT ![p] = [mem[p] EXCEPT !.doomed = doomed]]
              /\ pc' = [pc EXCEPT ![p] = "unlink"] /\ pc[p] = "prune"
          BY <1>13, <2>2 DEF Prune
        <4> HIDE DEF doomed
        <4> QED
          BY <1>1, <4>1 DEF Local, CommandAt, Installing
      <3>3. UNCHANGED <<lock, files, others>> /\ lock = p
        BY <1>1, <1>13, <2>2 DEF Prune, LockAt
      <3> HIDE DEF doomed
      <3>4. SafeAt(p)'
        BY <3>1, <3>2, <3>3 DEF LockAt, SelectingAt, ReplayAt, files
      <3> QED
        BY <1>2, <1>3, <1>13, <3>3, <3>4 DEF Prune, files
    <2> QED
      BY <2>1, <2>2
  <1>14. ASSUME NEW v \in Versions, Unlink(p, v) PROVE SafeInv'
    <2>1. PICK left \in AfterUnlink(v) :
             /\ dirs' = [dirs EXCEPT ![v] = left]
             /\ mem' = [mem EXCEPT ![p].doomed = IF left = "absent" THEN @ \ {v} ELSE @]
      BY <1>14 DEF Unlink
    <2>2. \A w \in Versions : dirs[w] = "damaged" => w \in mem[p].doomed
      BY <1>14 DEF Unlink, SafeInv, MarkerInv, Exclusive
    <2>3. /\ mem'[p].doomed \subseteq mem[p].doomed /\ mem'[p].cmd = mem[p].cmd
          /\ \A w \in mem[p].doomed : (w = v /\ left = "absent") \/ w \in mem'[p].doomed
      BY <1>1, <2>1 DEF Local
    <2>4. v /= cur
      BY <1>1, <1>14 DEF Unlink, SelectingAt
    <2>a. MarkerInv'
      <3> SUFFICES ASSUME NEW w \in Versions, dirs'[w] = "damaged"
                   PROVE  pc'[p] = "unlink" /\ w \in mem'[p].doomed
        BY DEF MarkerInv
      <3>1. w \in mem[p].doomed /\ ~(w = v /\ left = "absent")
        BY <1>14, <2>1, <2>2 DEF Unlink, TypeInv, TypeOK
      <3> QED
        BY <1>14, <2>3, <3>1 DEF Unlink
    <2>5. Kept
      BY <1>14, <2>1, <2>4, <2>a DEF Unlink, SafeInv, SelectedWhole, TypeInv, TypeOK, Optional
    <2>6. SafeAt(p)'
      BY <1>1, <1>14, <2>3 DEF Unlink, LockAt, SelectingAt, ReplayAt, CommandAt, Installing
    <2> QED
      BY <1>2, <1>14, <2>5, <2>6 DEF Unlink
  <1>15. CASE RemoveStaging(p)
    <2>1. SafeAt(p)'
      BY <1>1, <1>15 DEF RemoveStaging, Goto, LockAt, SelectingAt, ReplayAt, CommandAt,
          Installing
    <2> QED
      BY <1>2, <1>3, <1>15, <2>1 DEF RemoveStaging
  <1> QED
    BY <1>4, <1>5, <1>6, <1>7, <1>8, <1>9, <1>10, <1>11, <1>12, <1>13, <1>14, <1>15, <1>b
    DEF InstallNext

LEMMA RollbackIsSafe ==
    ASSUME TypeInv, SafeInv, Careful', NEW p \in Procs, RollbackNext(p)
    PROVE  SafeInv'
  <1>1. /\ CommandAt(pc[p], mem[p]) /\ mem[p] \in Local /\ SafeAt(p)
        /\ p \in DOMAIN pc /\ p \in DOMAIN mem
    BY DEF TypeInv, TypeOK, CommandInv, SafeInv
  <1> DEFINE Kept == MarkerInv' /\ SelectedWhole'
  <1>2. ASSUME pc[p] /= "idle", SafeAt(p)', Kept PROVE SafeInv'
    BY <1>2, OneIsLookedAt DEF SafeInv, ProcNext
  <1>a. pc[p] \notin {"idle", "unlink"} => Unharmed
    BY NoHarm
  <1>3. pc[p] \notin {"idle", "unlink"} /\ UNCHANGED <<dirs, cur>> => Kept
    BY <1>a DEF SafeInv, MarkerInv, SelectedWhole, Unharmed
  <1>4. CASE Rollback(p)
    <2>1. commands + 1 \in Nat
      BY DEF TypeInv, TypeOK
    <2> DEFINE m == [Idle EXCEPT !.cmd = "rollback", !.started = commands + 1]
    <2>2. m \in Local /\ m.cmd /= "recover"
      BY <2>1, NewCommand DEF Idle
    <2>3. Begin(p, "rollback", m)
      BY <1>4 DEF Rollback
    <2> HIDE DEF m
    <2> QED
      BY <2>2, <2>3, BeginningIsSafe
  <1>5. CASE RollbackRefused(p)
    BY <1>2, <1>3, <1>5, LeavingIsSafe DEF RollbackRefused, files
  <1>6. CASE RollbackJournal(p)
    <2>1. /\ mem'[p].version = Usable(prev) /\ mem'[p].cmd = "rollback"
          /\ pc'[p] = "prev" /\ lock' = p
      BY <1>1, <1>6 DEF RollbackJournal, Local, CommandAt, SafeAt, LockAt
    <2>2. Usable(prev) \in Versions /\ HasMarker(Usable(prev))
      BY <1>6, UsableType DEF RollbackJournal, TypeInv, TypeOK
    <2>3. dirs'[Usable(prev)] = "complete"
      BY <1>a, <1>6, <2>2 DEF RollbackJournal, HasMarker, Unharmed
    <2>4. SafeAt(p)'
      BY <2>1, <2>3 DEF SafeAt, LockAt, SelectingAt, ReplayAt
    <2> QED
      BY <1>2, <1>3, <1>6, <2>4 DEF RollbackJournal
  <1> QED
    BY <1>4, <1>5, <1>6 DEF RollbackNext

LEMMA RecoverIsSafe ==
    ASSUME TypeInv, SafeInv, Careful', NEW p \in Procs, RecoverNext(p)
    PROVE  SafeInv'
  <1>1. /\ CommandAt(pc[p], mem[p]) /\ mem[p] \in Local /\ SafeAt(p)
        /\ p \in DOMAIN pc /\ p \in DOMAIN mem
    BY DEF TypeInv, TypeOK, CommandInv, SafeInv
  <1> DEFINE Kept == MarkerInv' /\ SelectedWhole'
  <1>2. ASSUME pc[p] /= "idle", SafeAt(p)', Kept PROVE SafeInv'
    BY <1>2, OneIsLookedAt DEF SafeInv, ProcNext
  <1>a. pc[p] \notin {"idle", "unlink"} => Unharmed
    BY NoHarm
  <1>3. pc[p] \notin {"idle", "unlink"} /\ UNCHANGED <<dirs, cur>> => Kept
    BY <1>a DEF SafeInv, MarkerInv, SelectedWhole, Unharmed
  <1>4. CASE Recover(p)
    <2> DEFINE t == {File(e) : e \in journal}
    <2>1. \A q \in Procs : pc[q] = "idle" /\ mem[q] = Idle
      BY <1>4 DEF Recover, Busy, Meets, Careful, TypeInv, CommandInv, CommandAt
    <2>2. /\ pc'[p] = "next" /\ mem'[p] = [Idle EXCEPT !.cmd = "recover", !.todo = t]
          /\ \A q \in Procs : q /= p => pc'[q] = "idle" /\ mem'[q] = Idle
      BY <1>1, <1>4, <2>1 DEF Recover
    <2>3. lock' = None /\ journal' = journal /\ UNCHANGED <<dirs, cur>>
      BY <1>4 DEF Recover, files
    <2>4. \A e \in journal : File(e) \in t
      OBVIOUS
    <2> HIDE DEF t
    <2>5. mem'[p].todo = t /\ mem'[p].cmd = "recover"
      BY <2>2 DEF Idle
    <2>6. SafeAt(p)'
      <3>1. (\A e \in journal : File(e) \in mem[p].todo)'
        BY <2>3, <2>4, <2>5 DEF File
      <3> QED
        BY <2>2, <2>3, <3>1 DEF SafeAt, LockAt, SelectingAt, ReplayAt
    <2>7. \A q \in Procs : q /= p => SafeAt(q)'
      BY <2>2 DEF SafeAt, LockAt, SelectingAt, ReplayAt, Idle
    <2>8. Exclusive'
      BY <2>2 DEF Exclusive
    <2>9. Kept
      BY <2>1, <2>3 DEF SafeInv, MarkerInv, SelectedWhole
    <2> QED
      BY <2>6, <2>7, <2>8, <2>9 DEF SafeInv
  <1>5. CASE RecoverEntry(p)
    <2>1. PICK file \in mem[p].todo :
            IF lock = None /\ \E e \in journal : File(e) = file
            THEN LET e == CHOOSE e \in journal : File(e) = file
                 IN  /\ staging' = IF e.phase = "stage" THEN staging \ {e.started}
                                                        ELSE staging
                     /\ mem' = [mem EXCEPT
                                  ![p].version = e.version, ![p].previous = e.previous,
                                  ![p].started = e.started, ![p].todo = @ \ {file},
                                  ![p].activate = (e.phase = "activate")]
                     /\ pc' = [pc EXCEPT ![p] = IF e.phase = "activate" THEN "decide"
                                                ELSE "unjournal"]
                     /\ lock' = p
            ELSE Stop(p) /\ UNCHANGED staging
      BY <1>5 DEF RecoverEntry
    <2>2. UNCHANGED <<dirs, cur, journal>> /\ pc[p] = "next" /\ mem[p].cmd = "recover"
      BY <1>1, <1>5 DEF RecoverEntry, CommandAt, Recovering
    <2>3. CASE lock = None /\ \E e \in journal : File(e) = file
      <3> DEFINE e == CHOOSE e \in journal : File(e) = file
      <3>1. e \in Entry /\ file = <<e.version, e.phase>>
        BY <2>3, TakenEntry DEF TypeInv
      <3>2. /\ mem' = [mem EXCEPT ![p] =
                        [mem[p] EXCEPT !.version = e.version, !.previous = e.previous,
                                       !.started = e.started, !.todo = @ \ {file},
                                       !.activate = (e.phase = "activate")]]
            /\ pc' = [pc EXCEPT ![p] = IF e.phase = "activate" THEN "decide"
                                       ELSE "unjournal"]
            /\ lock' = p
        BY <2>1, <2>3
      <3> HIDE DEF e
      <3>3. /\ mem'[p].version = e.version /\ mem'[p].todo = mem[p].todo \ {file}
            /\ mem'[p].activate = (e.phase = "activate") /\ mem'[p].cmd = "recover"
        BY <1>1, <2>2, <3>2 DEF Local
      <3>4. pc'[p] \in {"decide", "unjournal"} /\ (pc'[p] = "decide" => e.phase = "activate")
        BY <1>1, <3>2
      <3>5. file = <<mem'[p].version, IF mem'[p].activate THEN "activate" ELSE "stage">>
        BY <3>1, <3>3 DEF Entry
      <3>6. \A x \in journal : File(x) \in mem'[p].todo \cup {file}
        BY <1>1, <2>2, <3>3 DEF SafeAt, ReplayAt
      <3>7. (\A x \in journal : File(x) \in mem[p].todo \cup {Claimed(p)})'
        BY <2>2, <3>5, <3>6 DEF Claimed, File
      <3>8. SafeAt(p)'
        BY <3>2, <3>3, <3>4, <3>7 DEF SafeAt, LockAt, SelectingAt, ReplayAt
      <3> QED
        BY <1>2, <1>3, <2>2, <3>8
    <2>4. CASE ~(lock = None /\ \E e \in journal : File(e) = file)
      <3>1. SafeAt(p)'
        BY <2>1, <2>2, <2>4, LeavingIsSafe
      <3> QED
        BY <1>2, <1>3, <2>2, <3>1
    <2> QED
      BY <2>3, <2>4
  <1>6. CASE Decide(p)
    <2>1. mem[p].version \in Versions
      BY <1>1, <1>6 DEF Decide, CommandAt, Local, Optional
    <2>2. pc'[p] \in {"prev", "restore"} /\ (pc'[p] = "prev" => dirs[mem[p].version] = "complete")
      BY <1>1, <1>a, <1>6, <2>1 DEF Decide, Goto, HasMarker, Unharmed
    <2>3. SafeAt(p)'
      BY <1>1, <1>6, <2>2 DEF Decide, Goto, SafeAt, LockAt, SelectingAt, ReplayAt, Claimed,
          files, CommandAt, Recovering
    <2> QED
      BY <1>2, <1>3, <1>6, <2>3 DEF Decide, files
  <1>7. CASE RestoreSelection(p)
    <2>1. SafeAt(p)'
      BY <1>1, <1>7 DEF RestoreSelection, Goto, SafeAt, LockAt, SelectingAt, ReplayAt, Claimed
    <2>2. Fallback(p) \in Optional /\ (Fallback(p) /= None => HasMarker(Fallback(p)))
      BY FallbackType DEF TypeInv
    <2>3. Kept
      BY <1>a, <1>7, <2>2 DEF RestoreSelection, HasMarker, MarkerInv, Unharmed,
          SelectedWhole, Optional
    <2> QED
      BY <1>2, <1>7, <2>1, <2>3 DEF RestoreSelection
  <1>8. CASE Repaired(p)
    <2>1. /\ pc'[p] = "next" /\ mem' = mem /\ lock' = None
          /\ journal' = {x \in journal : File(x) /= Claimed(p)}
          /\ UNCHANGED <<dirs, cur>>
      BY <1>1, <1>8 DEF Repaired, Goto, Claimed
    <2>2. \A x \in journal : File(x) \in mem[p].todo \cup {Claimed(p)}
      BY <1>1, <1>8 DEF Repaired, SafeAt, ReplayAt
    <2>3. (\A x \in journal : File(x) \in mem[p].todo)'
      BY <2>1, <2>2 DEF File
    <2>4. SafeAt(p)'
      BY <2>1, <2>3 DEF SafeAt, LockAt, SelectingAt, ReplayAt
    <2> QED
      BY <1>2, <1>3, <1>8, <2>1, <2>4 DEF Repaired
  <1>9. CASE SweepStaging(p)
    <2>1. journal = {}
      BY <1>1, <1>9 DEF SweepStaging, SafeAt, ReplayAt
    <2>2. SafeAt(p)'
      BY <1>1, <1>9, <2>1 DEF SweepStaging, Goto, SafeAt, LockAt, SelectingAt, ReplayAt
    <2> QED
      BY <1>2, <1>3, <1>9, <2>2 DEF SweepStaging
  <1>10. CASE SweepIncomplete(p)
    <2>1. SafeAt(p)'
      BY <1>1, <1>10 DEF SweepIncomplete, Goto, SafeAt, LockAt, SelectingAt, ReplayAt
    <2>2. Kept
      BY <1>a, <1>10 DEF SweepIncomplete, SafeInv, MarkerInv, Unharmed, SelectedWhole,
          TypeInv, TypeOK, Optional
    <2> QED
      BY <1>2, <1>10, <2>1, <2>2 DEF SweepIncomplete
  <1>11. CASE Recovered(p)
    BY <1>2, <1>3, <1>11, LeavingIsSafe DEF Recovered, files
  <1> QED
    BY <1>4, <1>5, <1>6, <1>7, <1>8, <1>9, <1>10, <1>11 DEF RecoverNext

LEMMA SafeInvInit == Init => SafeInv
  BY DEF Init, SafeInv, Exclusive, SafeAt, LockAt, SelectingAt, ReplayAt, Idle, MarkerInv,
      SelectedWhole

LEMMA SafeInvStep ==
    ASSUME Careful', TypeInv, SafeInv, [Next]_vars
    PROVE  SafeInv'
  <1>1. ASSUME NEW p \in Procs, Kill(p) \/ IoError(p) PROVE SafeInv'
    <2>1. /\ pc[p] /= "idle" /\ UNCHANGED <<dirs, cur>>
          /\ Return(p) \/ Stop(p) \/ (Bail(p) /\ pc[p] \notin {"next", "sweep"})
      BY <1>1 DEF Kill, IoError, files
    <2>2. SafeAt(p)'
      BY <2>1, LeavingIsSafe
    <2>3. Exclusive' /\ \A q \in Procs : SafeAt(q)'
      BY <1>1, <2>1, <2>2, OneIsLookedAt DEF SafeInv
    <2>4. Unharmed
      <3>1. CASE pc[p] = "unlink"
        BY <1>1, <3>1 DEF Kill, IoError, Maims, Meets, Careful, Unharmed
      <3> QED
        BY <2>1, <3>1, NoHarm
    <2> QED
      BY <2>1, <2>3, <2>4 DEF SafeInv, MarkerInv, Unharmed, SelectedWhole
  <1>2. CASE PowerCut
    <2>1. Unharmed /\ UNCHANGED dirs
      BY <1>2 DEF PowerCut, Maims, Meets, Careful, Unharmed, files
    <2> QED
      BY <1>2, <2>1 DEF PowerCut, SafeInv, Exclusive, SafeAt, LockAt, SelectingAt, ReplayAt,
          Idle, MarkerInv, Unharmed, SelectedWhole, files
  <1>3. CASE Launch \/ Exit \/ UNCHANGED vars
    BY <1>3 DEF Launch, Exit, vars, SafeInv, Exclusive, SafeAt, LockAt, SelectingAt, ReplayAt,
        Claimed, MarkerInv, SelectedWhole, files, others
  <1> QED
    BY <1>1, <1>2, <1>3, InstallIsSafe, RollbackIsSafe, RecoverIsSafe DEF Next, ProcNext

LEMMA SafeInvariant == Spec => [](TypeInv /\ (Careful => SafeInv))
  <1>1. TypeInv /\ (Careful => SafeInv) /\ [Next]_vars => TypeInv' /\ (Careful => SafeInv)'
    <2> SUFFICES ASSUME TypeInv, Careful => SafeInv, [Next]_vars, Careful'
                 PROVE  TypeInv' /\ SafeInv'
      BY TypeInvStep
    <2>1. Careful
      BY MetGrows DEF Careful
    <2> QED
      BY <2>1, TypeInvStep, SafeInvStep
  <1>2. Init => TypeInv /\ (Careful => SafeInv)
    BY TypeInvInit, SafeInvInit
  <1> QED
    BY <1>1, <1>2, PTL DEF Spec

(* Whatever is killed, cut off or fails on the way, the selected version is a *)
(* complete release, or there is none, until recover breaks the lock of a     *)
(* command at work or a removal is stopped with the marker still there.       *)
THEOREM SelectedIsComplete == Spec => []SelectedComplete
  BY SafeInvariant, PTL DEF SafeInv, SelectedComplete

(* A recovery that runs to its end leaves no trace of what was interrupted,   *)
(* under the same two provisos.                                               *)
THEOREM RecoveryIsClean == Spec => RecoveredClean
  <1>2. ASSUME TypeInv, Careful => SafeInv, Next, crashed, ~crashed', Careful
        PROVE  /\ staging = {} /\ journal = {} /\ lock = None
               /\ \A v \in Versions : dirs[v] \in {"absent", "complete"}
    <2>1. PICK p \in Procs : Recovered(p)
      <3>1. ASSUME NEW q \in Procs, InstallNext(q) \/ RollbackNext(q) PROVE FALSE
        BY <1>2, <3>1 DEF InstallNext, Install, Begin, Refused, AlreadyPresent, BeginStaging,
            BeginJournal, StageFails, Staged, CommitDirectory, CommitRefused, Running,
            JournalActivation, NotActivated, WritePrevious, WriteCurrent, RemoveEntry, Prune,
            Unlink, Pruned, RemoveStaging, RemoveStageEntry, RollbackNext, Rollback,
            RollbackRefused, RollbackJournal, others
      <3>2. ASSUME NEW q \in Procs, RecoverNext(q) PROVE Recovered(q)
        BY <1>2, <3>2 DEF RecoverNext, Recover, RecoverEntry, Decide, RestoreSelection,
            Repaired, SweepStaging, SweepIncomplete, others
      <3>3. ASSUME NEW q \in Procs, Kill(q) \/ IoError(q) PROVE FALSE
        BY <1>2, <3>3 DEF Kill, IoError
      <3>4. ~Launch /\ ~Exit /\ ~PowerCut
        BY <1>2 DEF Launch, Exit, PowerCut
      <3> QED
        BY <1>2, <3>1, <3>2, <3>3, <3>4 DEF Next, ProcNext
    <2>2. SafeAt(p) /\ pc[p] = "sweep" /\ \A v \in Versions : dirs[v] /= "bare"
      BY <1>2, <2>1 DEF SafeInv, Recovered
    <2> QED
      BY <1>2, <2>2, NoHarm DEF SafeAt, LockAt, ReplayAt, Unharmed, TypeInv, TypeOK
  <1>3. TypeInv /\ (Careful => SafeInv) /\ [Next]_vars =>
          [crashed /\ ~crashed' /\ Careful
             => /\ staging = {} /\ journal = {} /\ lock = None
                /\ \A v \in Versions : dirs[v] \in {"absent", "complete"}]_vars
    BY <1>2
  <1> QED
    BY <1>3, SafeInvariant, PTL DEF Spec, RecoveredClean

-----------------------------------------------------------------------------
(* Intents are fresh. *)

LEMMA IdleIsFresh ==
    ASSUME NEW q \in Procs, pc'[q] = "idle", mem'[q] = Idle
    PROVE  FreshAt(q)'
  BY DEF FreshAt, Acting, Idle

(* Only the process at work, or a crash, keeps an intent open.                *)
LEMMA NoIntent ==
    ASSUME TypeInv, SafeInv, FreshInv, NEW p \in Procs, pc[p] /= "idle",
           mem[p].cmd /= "recover", ~Acting(p)
    PROVE  Intents = {} /\ ~crashed
  <1>1. ~crashed
    BY DEF FreshInv, FreshAt
  <1>2. \A q \in Procs : ~Acting(q)
    <2> SUFFICES ASSUME NEW q \in Procs, Acting(q) PROVE FALSE
      OBVIOUS
    <2> QED
      BY DEF SafeInv, Exclusive, Acting
  <1> QED
    BY <1>1, <1>2 DEF FreshInv, IntentInv, Valid

LEMMA OneIntent ==
    ASSUME TypeInv, FreshInv, NEW p \in Procs, Acting(p)
    PROVE  Intents = {Intent(p)} /\ Valid(Intent(p))
  <1>1. Intent(p) \in Intents
    BY DEF FreshInv, FreshAt, Intents, Intent
  <1> QED
    BY <1>1 DEF FreshInv, IntentInv

(* A recovery leaves an intent open only after a crash. *)
LEMMA IntentAfterCrash ==
    ASSUME TypeInv, SafeInv, FreshInv, NEW p \in Procs, pc[p] /= "idle",
           mem[p].cmd = "recover", Intents /= {}
    PROVE  crashed
  <1>1. \A q \in Procs : Acting(q) => mem[q].cmd = "recover"
    BY DEF SafeInv, Exclusive, Acting
  <1> QED
    BY <1>1 DEF FreshInv, IntentInv, Valid

(* A step that leaves the links, the intents and the clock alone.             *)
LEMMA Undisturbed ==
    ASSUME TypeInv, SafeInv, FreshInv, NEW p \in Procs, pc[p] /= "idle",
           ProcNext(p) \/ Kill(p) \/ IoError(p), FreshAt(p)',
           \/ Intents' = {}
           \/ /\ Intents' = Intents
              /\ \/ crashed'
                 \/ mem[p].cmd = "recover" /\ crashed' = crashed
                 \/ mem'[p].cmd /= "recover" /\ Acting(p)',
           \A v \in Versions : dirs[v] = "complete" => dirs'[v] = "complete",
           UNCHANGED <<cur, prev, running, acked, commands>>
    PROVE  FreshInv'
  <1>1. \A q \in Procs : FreshAt(q)'
    BY OthersRest, OneMoves, IdleIsFresh DEF SafeInv
  <1>2. IntentInv'
    <2>1. CASE Intents' = {}
      BY <2>1 DEF FreshInv, IntentInv
    <2>2. CASE Intents' = Intents /\ Intents /= {}
      <3>1. crashed' \/ \E q \in Procs : Acting(q)' /\ mem'[q].cmd /= "recover"
        BY <2>2, IntentAfterCrash
      <3>2. \A e \in Intents : e.version \in Versions /\ e.previous \in Optional
        BY DEF Intents, TypeInv, TypeOK, Entry
      <3>3. \A e \in Intents : Valid(e)'
        BY <3>1, <3>2 DEF FreshInv, IntentInv, Valid, Optional
      <3> QED
        BY <2>2, <3>3 DEF FreshInv, IntentInv
    <2> QED
      BY <2>1, <2>2
  <1>3. RunningInv' /\ FallbackWhole'
    BY DEF FreshInv, RunningInv, FallbackWhole, TypeInv, TypeOK, Optional
  <1> QED
    BY <1>1, <1>2, <1>3 DEF FreshInv

LEMMA FreshBeginning ==
    ASSUME Prompt', TypeInv, SafeInv, FreshInv, NEW p \in Procs,
           NEW s \in {"check", "rollback"}, NEW m \in Local, m.cmd /= "recover",
           m.started = commands + 1, Begin(p, s, m)
    PROVE  FreshInv'
  <1>1. \A q \in Procs : pc[q] = "idle" /\ mem[q] = Idle
    BY NobodyAtWork DEF Begin, TypeInv, CommandInv, CommandAt, Prompt
  <1>2. /\ pc'[p] = s /\ mem'[p] = m
        /\ \A q \in Procs : q /= p => pc'[q] = "idle" /\ mem'[q] = Idle
    BY <1>1 DEF Begin, TypeInv, TypeOK
  <1>3. ~crashed /\ UNCHANGED <<files, running, crashed, acked>> /\ commands' = commands + 1
    BY DEF Begin, Prompt
  <1>4. \A q \in Procs : FreshAt(q)'
    BY <1>2, <1>3, IdleIsFresh DEF FreshAt, Acting
  <1>5. Intents' = {}
    BY <1>1, <1>3 DEF FreshInv, IntentInv, Valid, Acting, Intents, files
  <1>6. IntentInv'
    BY <1>3, <1>5 DEF IntentInv, FreshInv, TypeInv, TypeOK
  <1>7. RunningInv' /\ FallbackWhole'
    BY <1>3 DEF FreshInv, RunningInv, FallbackWhole, files
  <1> QED
    BY <1>4, <1>6, <1>7 DEF FreshInv

(* A new intent: to a complete release, from the one that is selected, while  *)
(* the app is not running.                                                    *)
LEMMA FreshIntent ==
    ASSUME TypeInv, SafeInv, FreshInv, NEW p \in Procs, pc[p] /= "idle",
           ProcNext(p), mem[p].cmd /= "recover", ~Acting(p), FreshAt(p)',
           pc'[p] = "prev", mem'[p].cmd = mem[p].cmd, mem'[p].started = mem[p].started,
           mem'[p].version \in Versions, dirs[mem'[p].version] = "complete",
           mem'[p].previous = cur, running = None, Write(Intent(p)'),
           UNCHANGED <<dirs, cur, prev, running, acked, commands, crashed>>
    PROVE  FreshInv'
  <1>1. Intents = {} /\ ~crashed
    BY NoIntent
  <1>2. Intents' = {Intent(p)'}
    BY <1>1 DEF Write, Intents, Intent
  <1>3. \A q \in Procs : FreshAt(q)'
    BY OthersRest, OneMoves, IdleIsFresh DEF SafeInv
  <1>4. Acting(p)'
    BY DEF Acting
  <1>5. mem[p].started = commands /\ acked <= commands /\ commands \in Nat
    BY DEF FreshInv, FreshAt, IntentInv, TypeInv, TypeOK
  <1>6. (Valid(Intent(p)))'
    BY <1>4, <1>5 DEF Valid, Intent, SafeInv, SelectedWhole
  <1>7. IntentInv'
    BY <1>2, <1>5, <1>6 DEF IntentInv
  <1> QED
    BY <1>3, <1>7 DEF FreshInv, RunningInv, FallbackWhole

LEMMA FreshInstall ==
    ASSUME Prompt', TypeInv, SafeInv, FreshInv, TypeInv', NEW p \in Procs, InstallNext(p)
    PROVE  FreshInv'
  <1>1. /\ CommandAt(pc[p], mem[p]) /\ mem[p] \in Local /\ SafeAt(p) /\ FreshAt(p)
        /\ p \in DOMAIN pc /\ p \in DOMAIN mem
    BY DEF TypeInv, TypeOK, CommandInv, SafeInv, FreshInv
  <1>2. ProcNext(p)
    BY DEF ProcNext
  <1> DEFINE Links == UNCHANGED <<cur, prev, running, acked, commands>>
             Kept == \A v \in Versions : dirs[v] = "complete" => dirs'[v] = "complete"
  <1>3. ASSUME NEW v \in Versions, NEW a \in BOOLEAN, NEW b \in BOOLEAN, Install(p, v, a, b)
        PROVE  FreshInv'
    <2>1. commands + 1 \in Nat
      BY DEF TypeInv, TypeOK
    <2> DEFINE m == [Idle EXCEPT !.cmd = "install", !.version = v, !.activate = a,
                                 !.prune = b, !.started = commands + 1]
    <2>2. m \in Local /\ m.cmd /= "recover" /\ m.started = commands + 1
      BY <2>1, NewCommand DEF Idle
    <2>3. Begin(p, "check", m)
      BY <1>3 DEF Install
    <2> HIDE DEF m
    <2> QED
      BY <2>2, <2>3, FreshBeginning
  <1>4. CASE \/ Refused(p) \/ RemoveStageEntry(p) \/ StageFails(p) \/ CommitRefused(p)
             \/ Running(p) \/ Pruned(p)
    <2>1. /\ pc[p] \in Installing /\ ~Acting(p) /\ mem[p].cmd = "install"
          /\ Return(p) \/ Bail(p)
      BY <1>1, <1>4 DEF Refused, RemoveStageEntry, StageFails, CommitRefused, Running, Pruned,
          Installing, Acting, CommandAt
    <2>2. Links /\ Kept /\ crashed' = crashed /\ Intents' \subseteq Intents
      BY <1>4 DEF Refused, RemoveStageEntry, StageFails, CommitRefused, Running, Pruned, files,
          others, Intents
    <2>3. Intents' = {}
      BY <2>1, <2>2, NoIntent DEF Installing
    <2>4. \/ pc'[p] = "idle" /\ mem'[p] = Idle
          \/ pc'[p] = "undo" /\ mem' = mem
      BY <1>1, <2>1 DEF Return, Bail, Goto
    <2>5. FreshAt(p)'
      BY <1>1, <2>1, <2>2, <2>4, IdleIsFresh DEF FreshAt, Acting, Installing
    <2> QED
      BY <1>2, <2>1, <2>2, <2>3, <2>5, Undisturbed DEF Installing
  <1>5. CASE AlreadyPresent(p) \/ BeginStaging(p) \/ BeginJournal(p) \/ Staged(p)
             \/ CommitDirectory(p) \/ NotActivated(p) \/ RemoveStaging(p)
    <2>1. pc[p] \in Installing /\ ~Acting(p) /\ mem[p].cmd = "install"
      BY <1>1, <1>5 DEF AlreadyPresent, BeginStaging, BeginJournal, Staged, CommitDirectory,
          NotActivated, RemoveStaging, Installing, Acting, CommandAt
    <2>2. Links /\ crashed' = crashed /\ Intents' \subseteq Intents
      BY <1>5 DEF AlreadyPresent, BeginStaging, BeginJournal, Write, Staged, CommitDirectory,
          NotActivated, RemoveStaging, files, others, Intents
    <2>3. Kept
      BY <1>5 DEF AlreadyPresent, BeginStaging, BeginJournal, Staged, CommitDirectory,
          NotActivated, RemoveStaging, files, TypeInv, TypeOK
    <2>4. Intents' = {}
      BY <2>1, <2>2, NoIntent DEF Installing
    <2>5. /\ pc'[p] \in {"begin", "stage", "commit", "finish", "prune", "unstage"}
          /\ mem'[p].cmd = "install" /\ mem'[p].started = mem[p].started
      BY <1>1, <1>5, <2>1 DEF AlreadyPresent, BeginStaging, BeginJournal, Staged,
          CommitDirectory, NotActivated, RemoveStaging, Goto, Local
    <2>6. Usable(cur) = cur
      BY DEF Usable, HasMarker, SafeInv, SelectedWhole
    <2>7. pc'[p] \in {"begin", "stage", "commit", "finish"} => mem'[p].previous = cur
      BY <1>1, <1>5, <2>6 DEF AlreadyPresent, BeginStaging, BeginJournal, Staged,
          CommitDirectory, NotActivated, RemoveStaging, Goto, Local, FreshAt
    <2>8. FreshAt(p)'
      BY <1>1, <2>1, <2>2, <2>5, <2>7 DEF FreshAt, Acting, Installing
    <2> QED
      BY <1>2, <2>1, <2>2, <2>3, <2>4, <2>8, Undisturbed DEF Installing
  <1>6. CASE JournalActivation(p)
    <2>1. /\ mem[p].cmd = "install" /\ ~Acting(p) /\ mem[p].version \in Versions
          /\ dirs[mem[p].version] = "complete" /\ mem[p].previous = cur /\ running = None
      BY <1>1, <1>6 DEF JournalActivation, Installing, Acting, CommandAt, SafeAt, SelectingAt,
          FreshAt, Local, Optional
    <2>2. /\ pc'[p] = "prev" /\ mem' = mem
          /\ UNCHANGED <<dirs, cur, prev, running, acked, commands, crashed>>
          /\ Write(Intent(p))
      BY <1>1, <1>6 DEF JournalActivation, Goto, others, Intent
    <2>3. Intent(p)' = Intent(p)
      BY <2>2 DEF Intent
    <2>4. FreshAt(p)'
      BY <1>1, <1>6, <2>1, <2>2, <2>3, NoIntent DEF FreshAt, Acting, Write, JournalActivation
    <2> QED
      BY <1>2, <1>6, <2>1, <2>2, <2>3, <2>4, FreshIntent DEF JournalActivation
  <1>7. CASE WritePrevious(p)
    <2> DEFINE e == Intent(p)
    <2>1. Acting(p) /\ Intents = {e} /\ Valid(e) /\ e \in journal
      BY <1>1, <1>7, OneIntent DEF WritePrevious, Acting, FreshAt
    <2>2. /\ pc'[p] = "cur" /\ mem' = mem /\ Intents' = Intents
          /\ UNCHANGED <<dirs, journal, cur, running, acked, commands, crashed>>
          /\ prev' = IF mem[p].previous \in {None, mem[p].version} THEN prev ELSE mem[p].previous
      BY <1>1, <1>7 DEF WritePrevious, Goto, others, Intents
    <2>3. FreshAt(p)'
      BY <1>1, <1>7, <2>1, <2>2 DEF FreshAt, Acting, Intent, WritePrevious
    <2>4. \A q \in Procs : FreshAt(q)'
      BY <1>2, <1>7, <2>3, OthersRest, OneMoves, IdleIsFresh DEF SafeInv, WritePrevious
    <2>5. crashed' \/ \E q \in Procs : Acting(q)' /\ mem'[q].cmd /= "recover"
      BY <1>7, <2>1, <2>2, IntentAfterCrash DEF Acting, WritePrevious
    <2>6. Valid(e)'
      BY <2>1, <2>2, <2>5 DEF Valid, Intent
    <2>7. Intent(p)' = Intent(p)
      BY <2>2 DEF Intent
    <2>8. IntentInv'
      BY <2>1, <2>2, <2>6, <2>7 DEF IntentInv, FreshInv
    <2>9. RunningInv'
      BY <2>1, <2>2 DEF RunningInv, FreshInv, Valid, Intent
    <2>10. FallbackWhole'
      BY <2>1, <2>2 DEF FallbackWhole, FreshInv, Valid, Intent
    <2> QED
      BY <2>4, <2>8, <2>9, <2>10 DEF FreshInv
  <1>8. CASE WriteCurrent(p)
    <2> DEFINE e == Intent(p)
    <2>1. Acting(p) /\ Intents = {e} /\ Valid(e) /\ e \in journal
      BY <1>1, <1>8, OneIntent DEF WriteCurrent, Acting, FreshAt
    <2>2. /\ pc'[p] = "unjournal" /\ mem' = mem /\ Intents' = Intents
          /\ UNCHANGED <<dirs, journal, prev, running, acked, commands, crashed>>
          /\ cur' = mem[p].version
      BY <1>1, <1>8 DEF WriteCurrent, Goto, others, Intents
    <2>3. Acting(p)'
      BY <1>1, <1>8, <2>2 DEF Acting, WriteCurrent, SafeAt, ReplayAt
    <2>4. Intent(p)' = Intent(p)
      BY <2>2 DEF Intent
    <2>5. FreshAt(p)'
      BY <1>1, <1>8, <2>1, <2>2, <2>3, <2>4 DEF FreshAt, WriteCurrent
    <2>6. \A q \in Procs : FreshAt(q)'
      BY <1>2, <1>8, <2>5, OthersRest, OneMoves, IdleIsFresh DEF SafeInv, WriteCurrent
    <2>7. crashed' \/ \E q \in Procs : Acting(q)' /\ mem'[q].cmd /= "recover"
      BY <1>8, <2>1, <2>2, <2>3, IntentAfterCrash DEF WriteCurrent
    <2>8. Valid(e)'
      BY <2>1, <2>2, <2>4, <2>7 DEF Valid, Intent
    <2>9. IntentInv'
      BY <2>1, <2>2, <2>4, <2>8 DEF IntentInv, FreshInv
    <2>10. RunningInv' /\ FallbackWhole'
      BY <1>1, <1>8, <2>1, <2>2 DEF RunningInv, FallbackWhole, FreshInv, FreshAt, Valid, Intent,
          WriteCurrent
    <2> QED
      BY <2>6, <2>9, <2>10 DEF FreshInv
  <1>9. CASE RemoveEntry(p)
    <2>1. Acting(p) /\ Intents = {Intent(p)} /\ Valid(Intent(p))
      BY <1>1, <1>9, OneIntent DEF RemoveEntry, Acting
    <2>2. /\ journal' = {x \in journal : File(x) /= <<mem[p].version, "activate">>}
          /\ acked' = mem[p].started
          /\ UNCHANGED <<dirs, cur, prev, running, crashed, commands>>
          /\ \/ pc'[p] = "prune" /\ mem' = mem
             \/ pc'[p] = "idle" /\ mem'[p] = Idle
      BY <1>1, <1>9 DEF RemoveEntry, Goto, Return
    <2>3. Intents' = {}
      BY <2>1, <2>2 DEF Intents, Intent, File
    <2>4. FreshAt(p)'
      BY <1>1, <1>9, <2>2, IdleIsFresh DEF FreshAt, Acting, RemoveEntry
    <2>5. \A q \in Procs : FreshAt(q)'
      BY <1>2, <1>9, <2>4, OthersRest, OneMoves, IdleIsFresh DEF SafeInv, RemoveEntry
    <2>6. IntentInv'
      BY <2>1, <2>2, <2>3 DEF IntentInv, Valid, Intent
    <2> QED
      BY <2>2, <2>5, <2>6 DEF FreshInv, RunningInv, FallbackWhole
  <1>10. CASE Prune(p)
    <2> DEFINE doomed == IF mem[p].prune THEN InstalledVersions \ Keep(p) ELSE {}
    <2>1. pc[p] = "prune" /\ ~Acting(p) /\ mem[p].cmd = "install"
      BY <1>1, <1>10 DEF Prune, Installing, Acting, CommandAt
    <2>2. Links /\ Kept /\ crashed' = crashed /\ Intents' = Intents
      BY <1>10 DEF Prune, files, others, Intents
    <2>3. Intents' = {}
      BY <2>1, <2>2, NoIntent
    <2>4. prev \notin doomed
      <3>1. CASE prev = None
        BY <3>1, ConstantsAssumption DEF InstalledVersions
      <3>2. CASE prev /= None
        BY <3>2 DEF Keep, Usable, HasMarker, FreshInv, FallbackWhole
      <3> QED
        BY <3>1, <3>2
    <2>5. \/ pc'[p] = "idle" /\ mem'[p] = Idle
          \/ pc'[p] = "undo" /\ mem'[p] = mem[p]
          \/ pc'[p] = "unlink" /\ mem'[p] = [mem[p] EXCEPT !.doomed = doomed]
      BY <1>1, <1>10 DEF Prune, Bail, Return, Goto
    <2> HIDE DEF doomed
    <2>6. FreshAt(p)'
      BY <1>1, <2>1, <2>2, <2>4, <2>5, IdleIsFresh DEF FreshAt, Acting, Local
    <2> QED
      BY <1>2, <2>1, <2>2, <2>3, <2>6, Undisturbed
  <1>11. ASSUME NEW v \in Versions, Unlink(p, v) PROVE FreshInv'
    <2>1. PICK left \in AfterUnlink(v) :
             /\ dirs' = [dirs EXCEPT ![v] = left]
             /\ mem' = [mem EXCEPT ![p].doomed = IF left = "absent" THEN @ \ {v} ELSE @]
      BY <1>11 DEF Unlink
    <2>2. pc[p] = "unlink" /\ ~Acting(p) /\ mem[p].cmd = "install" /\ v \in mem[p].doomed
      BY <1>1, <1>11 DEF Unlink, Installing, Acting, CommandAt
    <2>3. Links /\ pc' = pc /\ crashed' = crashed /\ Intents' = Intents
      BY <1>11 DEF Unlink, others, Intents
    <2>4. Intents' = {}
      BY <2>2, <2>3, NoIntent
    <2>5. mem'[p].doomed \subseteq mem[p].doomed /\ mem'[p].cmd = mem[p].cmd
          /\ mem'[p].started = mem[p].started
      BY <1>1, <2>1 DEF Local
    <2>6. FreshAt(p)'
      BY <1>1, <2>2, <2>3, <2>5 DEF FreshAt, Acting
    <2>7. \A q \in Procs : FreshAt(q)'
      BY <1>2, <2>2, <2>6, OthersRest, OneMoves, IdleIsFresh DEF SafeInv
    <2>8. v /= cur /\ v /= prev
      BY <1>1, <2>2 DEF SafeAt, SelectingAt, FreshAt
    <2>9. IntentInv' /\ RunningInv'
      BY <2>3, <2>4 DEF IntentInv, RunningInv, FreshInv
    <2>10. FallbackWhole'
      BY <2>1, <2>3, <2>8 DEF FallbackWhole, FreshInv, TypeInv, TypeOK, Optional
    <2> QED
      BY <2>7, <2>9, <2>10 DEF FreshInv
  <1> QED
    BY <1>3, <1>4, <1>5, <1>6, <1>7, <1>8, <1>9, <1>10, <1>11 DEF InstallNext

LEMMA FreshRollback ==
    ASSUME Prompt', TypeInv, SafeInv, FreshInv, NEW p \in Procs, RollbackNext(p)
    PROVE  FreshInv'
  <1>1. /\ CommandAt(pc[p], mem[p]) /\ mem[p] \in Local /\ SafeAt(p) /\ FreshAt(p)
        /\ p \in DOMAIN pc /\ p \in DOMAIN mem
    BY DEF TypeInv, TypeOK, CommandInv, SafeInv, FreshInv
  <1>2. ProcNext(p)
    BY DEF ProcNext
  <1>3. CASE Rollback(p)
    <2>1. commands + 1 \in Nat
      BY DEF TypeInv, TypeOK
    <2> DEFINE m == [Idle EXCEPT !.cmd = "rollback", !.started = commands + 1]
    <2>2. m \in Local /\ m.cmd /= "recover" /\ m.started = commands + 1
      BY <2>1, NewCommand DEF Idle
    <2>3. Begin(p, "rollback", m)
      BY <1>3 DEF Rollback
    <2> HIDE DEF m
    <2> QED
      BY <2>2, <2>3, FreshBeginning
  <1>4. CASE RollbackRefused(p)
    <2>1. pc[p] = "rollback" /\ ~Acting(p) /\ mem[p].cmd = "rollback" /\ Return(p)
      BY <1>1, <1>4 DEF RollbackRefused, Acting, CommandAt
    <2>2. UNCHANGED <<dirs, cur, prev, running, acked, commands, crashed>> /\ Intents' = Intents
      BY <1>4 DEF RollbackRefused, files, others, Intents
    <2>3. Intents' = {}
      BY <2>1, <2>2, NoIntent
    <2>4. FreshAt(p)'
      BY <1>1, <2>1, IdleIsFresh DEF Return
    <2> QED
      BY <1>2, <2>1, <2>2, <2>3, <2>4, Undisturbed
  <1>5. CASE RollbackJournal(p)
    <2>1. mem[p].cmd = "rollback" /\ ~Acting(p) /\ running = None /\ pc[p] = "rollback"
      BY <1>1, <1>5 DEF RollbackJournal, Acting, CommandAt
    <2>2. Usable(prev) \in Versions /\ HasMarker(Usable(prev))
      BY <1>5, UsableType DEF RollbackJournal, TypeInv, TypeOK
    <2>3. dirs[Usable(prev)] = "complete" /\ Usable(cur) = cur
      BY <2>1, <2>2, NoHarm DEF HasMarker, Usable, SafeInv, Unharmed, SelectedWhole
    <2>4. /\ pc'[p] = "prev"
          /\ mem'[p] = [mem[p] EXCEPT !.version = Usable(prev), !.previous = Usable(cur)]
          /\ UNCHANGED <<dirs, cur, prev, running, acked, commands, crashed>>
      BY <1>1, <1>5 DEF RollbackJournal, others
    <2>5. /\ mem'[p].cmd = mem[p].cmd /\ mem'[p].started = mem[p].started
          /\ mem'[p].version = Usable(prev) /\ mem'[p].previous = Usable(cur)
      BY <1>1, <2>4 DEF Local
    <2>6. Write(Intent(p)')
      BY <1>5, <2>5 DEF RollbackJournal, Intent
    <2>7. FreshAt(p)'
      BY <1>1, <2>1, <2>4, <2>5, <2>6, NoIntent DEF FreshAt, Acting, Write
    <2> QED
      BY <1>2, <2>1, <2>2, <2>3, <2>4, <2>5, <2>6, <2>7, FreshIntent
  <1> QED
    BY <1>3, <1>4, <1>5 DEF RollbackNext

LEMMA FreshRecover ==
    ASSUME Prompt', TypeInv, SafeInv, FreshInv, NEW p \in Procs, RecoverNext(p)
    PROVE  FreshInv'
  <1>1. /\ CommandAt(pc[p], mem[p]) /\ mem[p] \in Local /\ SafeAt(p) /\ FreshAt(p)
        /\ p \in DOMAIN pc /\ p \in DOMAIN mem
    BY DEF TypeInv, TypeOK, CommandInv, SafeInv, FreshInv
  <1>2. ProcNext(p)
    BY DEF ProcNext
  <1>3. CASE Recover(p)
    <2> DEFINE t == {File(e) : e \in journal}
    <2>1. \A q \in Procs : pc[q] = "idle" /\ mem[q] = Idle
      BY <1>3 DEF Recover, Busy, Meets, TypeInv, CommandInv, CommandAt, Prompt
    <2>2. /\ pc'[p] = "next" /\ mem'[p] = [Idle EXCEPT !.cmd = "recover", !.todo = t]
          /\ \A q \in Procs : q /= p => pc'[q] = "idle" /\ mem'[q] = Idle
          /\ UNCHANGED <<files, running, crashed, acked, commands>>
      BY <1>1, <1>3, <2>1 DEF Recover
    <2> HIDE DEF t
    <2>3. \A q \in Procs : FreshAt(q)'
      <3>1. mem'[p].cmd = "recover"
        BY <2>2 DEF Idle
      <3>2. FreshAt(p)'
        BY <2>2, <3>1 DEF FreshAt, Acting
      <3> QED
        BY <2>2, <3>2, IdleIsFresh
    <2>4. \A e \in Intents : crashed
      BY <2>1 DEF FreshInv, IntentInv, Valid, Acting
    <2>5. IntentInv' /\ RunningInv' /\ FallbackWhole'
      BY <2>2, <2>4 DEF FreshInv, IntentInv, Intents, Valid, RunningInv, FallbackWhole, files,
          others
    <2> QED
      BY <2>3, <2>5 DEF FreshInv
  <1>4. CASE RecoverEntry(p)
    <2>1. PICK file \in mem[p].todo :
            IF lock = None /\ \E e \in journal : File(e) = file
            THEN LET e == CHOOSE e \in journal : File(e) = file
                 IN  /\ staging' = IF e.phase = "stage" THEN staging \ {e.started}
                                                        ELSE staging
                     /\ mem' = [mem EXCEPT
                                  ![p].version = e.version, ![p].previous = e.previous,
                                  ![p].started = e.started, ![p].todo = @ \ {file},
                                  ![p].activate = (e.phase = "activate")]
                     /\ pc' = [pc EXCEPT ![p] = IF e.phase = "activate" THEN "decide"
                                                ELSE "unjournal"]
                     /\ lock' = p
            ELSE Stop(p) /\ UNCHANGED staging
      BY <1>4 DEF RecoverEntry
    <2>2. /\ UNCHANGED <<dirs, cur, prev, journal, running, acked, commands, crashed>>
          /\ pc[p] = "next" /\ mem[p].cmd = "recover" /\ Intents' = Intents
      BY <1>1, <1>4 DEF RecoverEntry, CommandAt, Recovering, others, Intents
    <2>3. SUFFICES FreshAt(p)'
      BY <1>2, <2>2, Undisturbed
    <2>4. CASE lock = None /\ \E e \in journal : File(e) = file
      <3> DEFINE e == CHOOSE e \in journal : File(e) = file
      <3>1. e \in journal /\ e \in Entry
        BY <2>4, TakenEntry DEF TypeInv
      <3>2. /\ mem' = [mem EXCEPT ![p] =
                        [mem[p] EXCEPT !.version = e.version, !.previous = e.previous,
                                       !.started = e.started, !.todo = @ \ {file},
                                       !.activate = (e.phase = "activate")]]
            /\ pc' = [pc EXCEPT ![p] = IF e.phase = "activate" THEN "decide"
                                       ELSE "unjournal"]
        BY <2>1, <2>4
      <3> HIDE DEF e
      <3>3. /\ mem'[p].version = e.version /\ mem'[p].previous = e.previous
            /\ mem'[p].started = e.started /\ mem'[p].cmd = "recover"
            /\ mem'[p].activate = (e.phase = "activate")
            /\ pc'[p] = IF e.phase = "activate" THEN "decide" ELSE "unjournal"
        BY <1>1, <2>2, <3>2 DEF Local
      <3>4. e.phase = "activate" => Intent(p)' = e
        BY <3>1, <3>3 DEF Intent, Entry
      <3> QED
        BY <2>2, <3>1, <3>3, <3>4 DEF FreshAt, Acting
    <2>5. CASE ~(lock = None /\ \E e \in journal : File(e) = file)
      BY <1>1, <2>1, <2>5, IdleIsFresh DEF Stop
    <2> QED
      BY <2>4, <2>5
  <1>5. CASE Decide(p)
    <2>1. Acting(p) /\ Valid(Intent(p)) /\ mem[p].cmd = "recover"
      BY <1>1, <1>5, OneIntent DEF Decide, Acting, CommandAt, Recovering
    <2>2. pc'[p] = "prev" /\ mem' = mem /\ UNCHANGED <<files, others>> /\ Intents' = Intents
      BY <1>1, <1>5, <2>1 DEF Decide, Goto, HasMarker, Valid, Intent, Intents, files
    <2>3. Intent(p)' = Intent(p)
      BY <2>2 DEF Intent
    <2>4. FreshAt(p)'
      BY <1>1, <2>1, <2>2, <2>3 DEF FreshAt, Acting, files, others
    <2> QED
      BY <1>2, <1>5, <2>1, <2>2, <2>4, Undisturbed DEF Decide, files, others
  <1>6. CASE RestoreSelection(p)
    BY <1>1, <1>6 DEF RestoreSelection, FreshAt
  <1>7. CASE Repaired(p)
    <2>1. /\ pc[p] = "unjournal" /\ mem[p].cmd = "recover"
          /\ pc'[p] = "next" /\ mem' = mem
          /\ journal' = {x \in journal : File(x) /= Claimed(p)}
          /\ acked' = IF mem[p].activate THEN mem[p].started ELSE acked
          /\ UNCHANGED <<dirs, cur, prev, running, crashed, commands>>
      BY <1>1, <1>7 DEF Repaired, Goto, Claimed
    <2>2. FreshAt(p)'
      BY <1>1, <2>1 DEF FreshAt, Acting
    <2>3. CASE mem[p].activate
      <3>1. Intents = {Intent(p)} /\ Valid(Intent(p))
        BY <2>1, <2>3, OneIntent DEF Acting
      <3>2. Intents' = {}
        BY <2>1, <2>3, <3>1 DEF Intents, Intent, File, Claimed
      <3>3. IntentInv'
        BY <2>1, <2>3, <3>1, <3>2 DEF IntentInv, Valid, Intent
      <3>4. \A q \in Procs : FreshAt(q)'
        BY <1>2, <2>1, <2>2, OthersRest, OneMoves, IdleIsFresh DEF SafeInv
      <3> QED
        BY <2>1, <3>3, <3>4 DEF FreshInv, RunningInv, FallbackWhole
    <2>4. CASE ~mem[p].activate
      <3>1. Intents' = Intents
        BY <2>1, <2>4 DEF Intents, File, Claimed
      <3> QED
        BY <1>2, <2>1, <2>2, <2>4, <3>1, Undisturbed
    <2> QED
      BY <2>3, <2>4
  <1>8. CASE SweepStaging(p) \/ SweepIncomplete(p)
    <2>1. /\ pc[p] \in {"next", "sweep"} /\ mem[p].cmd = "recover"
          /\ pc'[p] = "sweep" /\ mem' = mem /\ Intents' = Intents
          /\ UNCHANGED <<cur, prev, running, acked, commands, crashed>>
      BY <1>1, <1>8 DEF SweepStaging, SweepIncomplete, Goto, CommandAt, Recovering, others,
          Intents
    <2>2. FreshAt(p)'
      BY <2>1 DEF FreshAt, Acting
    <2>3. \A v \in Versions : dirs[v] = "complete" => dirs'[v] = "complete"
      BY <1>8 DEF SweepStaging, SweepIncomplete, TypeInv, TypeOK
    <2> QED
      BY <1>2, <2>1, <2>2, <2>3, Undisturbed
  <1>9. CASE Recovered(p)
    <2>1. /\ pc[p] = "sweep" /\ pc'[p] = "idle" /\ mem'[p] = Idle
          /\ UNCHANGED <<dirs, cur, prev, journal, running, acked, commands>>
      BY <1>1, <1>9 DEF Recovered, Stop, files
    <2>2. Intents' = {}
      BY <1>1, <2>1 DEF SafeAt, ReplayAt, Intents
    <2> QED
      BY <1>2, <2>1, <2>2, IdleIsFresh, Undisturbed
  <1> QED
    BY <1>3, <1>4, <1>5, <1>6, <1>7, <1>8, <1>9 DEF RecoverNext

LEMMA FreshInvInit == Init => FreshInv
  BY DEF Init, FreshInv, FreshAt, Acting, Idle, IntentInv, Intents, RunningInv, FallbackWhole

LEMMA FreshInvStep ==
    ASSUME Prompt', TypeInv, SafeInv, FreshInv, TypeInv', [Next]_vars
    PROVE  FreshInv'
  <1>1. ASSUME NEW p \in Procs, Kill(p) PROVE FreshInv'
    <2>1. /\ pc[p] /= "idle" /\ pc'[p] = "idle" /\ mem'[p] = Idle /\ crashed'
          /\ UNCHANGED <<dirs, cur, prev, journal, running, acked, commands>>
      BY <1>1 DEF Kill, Stop, files, TypeInv, TypeOK
    <2>2. Intents' = Intents
      BY <2>1 DEF Intents
    <2> QED
      BY <1>1, <2>1, <2>2, IdleIsFresh, Undisturbed
  <1>2. ASSUME NEW p \in Procs, IoError(p) PROVE FreshInv'
    <2>1. /\ pc[p] /= "idle"
          /\ UNCHANGED <<dirs, cur, prev, journal, running, crashed, acked, commands>>
      BY <1>2 DEF IoError, files
    <2>2. Intents' = Intents
      BY <2>1 DEF Intents
    <2>3. mem[p].cmd = "recover" \/ ~Acting(p)
      BY <1>2 DEF IoError, Meets, Prompt, Acting, TypeInv, CommandInv, CommandAt, Recovering
    <2>4. \/ pc'[p] = "idle" /\ mem'[p] = Idle
          \/ pc'[p] = "undo" /\ mem' = mem /\ mem[p].cmd = "install" /\ ~crashed
      BY <1>2 DEF IoError, Return, Stop, Bail, Goto, TypeInv, TypeOK, CommandInv, CommandAt,
          FreshInv, FreshAt
    <2>5. FreshAt(p)'
      <3>1. CASE pc'[p] = "idle" /\ mem'[p] = Idle
        BY <3>1, IdleIsFresh
      <3>2. CASE pc'[p] = "undo" /\ mem' = mem /\ mem[p].cmd = "install" /\ ~crashed
        BY <2>1, <3>2 DEF FreshInv, FreshAt, Acting
      <3> QED
        BY <2>4, <3>1, <3>2
    <2>6. CASE mem[p].cmd = "recover"
      BY <1>2, <2>1, <2>2, <2>5, <2>6, Undisturbed
    <2>7. CASE mem[p].cmd /= "recover"
      BY <1>2, <2>1, <2>2, <2>3, <2>5, <2>7, NoIntent, Undisturbed
    <2> QED
      BY <2>6, <2>7
  <1>3. CASE PowerCut
    <2>1. \A q \in Procs : FreshAt(q)'
      BY <1>3, IdleIsFresh DEF PowerCut
    <2>2. IntentInv' /\ RunningInv' /\ FallbackWhole'
      BY <1>3 DEF PowerCut, FreshInv, IntentInv, Intents, Valid, RunningInv, FallbackWhole,
          files
    <2> QED
      BY <2>1, <2>2 DEF FreshInv
  <1>4. CASE Launch
    <2>1. running' = cur /\ UNCHANGED <<files, lock, pc, mem, crashed, acked, commands>>
      BY <1>4 DEF Launch, Usable
    <2>2. \A q \in Procs : FreshAt(q)'
      BY <2>1 DEF FreshInv, FreshAt, Acting, Intent, files
    <2>3. IntentInv' /\ RunningInv' /\ FallbackWhole'
      BY <2>1 DEF FreshInv, IntentInv, Intents, Valid, Acting, RunningInv, FallbackWhole, files
    <2> QED
      BY <2>2, <2>3 DEF FreshInv
  <1>5. CASE Exit
    <2>1. running' = None /\ UNCHANGED <<files, lock, pc, mem, crashed, acked, commands>>
      BY <1>5 DEF Exit
    <2>2. \A q \in Procs : FreshAt(q)'
      BY <2>1 DEF FreshInv, FreshAt, Acting, Intent, files
    <2>3. IntentInv' /\ RunningInv' /\ FallbackWhole'
      BY <2>1 DEF FreshInv, IntentInv, Intents, Valid, Acting, RunningInv, FallbackWhole, files
    <2> QED
      BY <2>2, <2>3 DEF FreshInv
  <1>6. CASE UNCHANGED vars
    BY <1>6 DEF vars, files, others, FreshInv, FreshAt, Acting, Intent, IntentInv, Intents,
        Valid, RunningInv, FallbackWhole
  <1> QED
    BY <1>1, <1>2, <1>3, <1>4, <1>5, <1>6, FreshInstall, FreshRollback, FreshRecover
    DEF Next, ProcNext

LEMMA FreshInvariant == Spec => [](TypeInv /\ (Prompt => SafeInv /\ FreshInv))
  <1> DEFINE Inv == TypeInv /\ (Prompt => SafeInv /\ FreshInv)
  <1>1. Inv /\ [Next]_vars => Inv'
    <2> SUFFICES ASSUME Inv, [Next]_vars, Prompt' PROVE SafeInv' /\ FreshInv'
      BY TypeInvStep
    <2>1. Prompt /\ Careful'
      BY MetGrows DEF Prompt, Careful
    <2>2. TypeInv'
      BY TypeInvStep
    <2> QED
      BY <2>1, <2>2, SafeInvStep, FreshInvStep
  <1>2. Init => Inv
    BY TypeInvInit, SafeInvInit, FreshInvInit
  <1> QED
    BY <1>1, <1>2, PTL DEF Spec

(* The release an app runs from is not pruned beneath it, although it may be  *)
(* launched after the guard was asked: until one of the four Trials is met.   *)
THEOREM RunningIsKept == Spec => []RunningKept
  <1>1. TypeInv /\ (Prompt => SafeInv /\ FreshInv) => RunningKept
    BY DEF SafeInv, SelectedWhole, FreshInv, RunningInv, FallbackWhole, RunningWhole,
        RunningKept
  <1> QED
    BY <1>1, FreshInvariant, PTL

(* The recorded fallback can be rolled back to, until a trial is met. *)
THEOREM FallbackIsUsable == Spec => []FallbackUsable
  BY FreshInvariant, PTL DEF FreshInv, FallbackUsable

(* A selection that was reported done is not undone by an older intent, until *)
(* a trial is met.                                                            *)
THEOREM LatestRequestWins == Spec => LatestWins
  <1>1. ASSUME TypeInv, SafeInv, FreshInv, NEW p \in Procs, pc[p] \in {"cur", "restore"}
        PROVE  mem[p].started >= acked
    <2>1. Acting(p)
      BY <1>1 DEF Acting
    <2>2. Valid(Intent(p))
      BY <1>1, <2>1, OneIntent
    <2>3. mem[p].started \in Nat /\ acked \in Nat
      BY <1>1 DEF TypeInv, TypeOK, Local
    <2> QED
      BY <2>2, <2>3 DEF Valid, Intent
  <1>2. TypeInv /\ (Prompt => SafeInv /\ FreshInv) =>
          (Prompt => \A p \in Procs : pc[p] \in {"cur", "restore"} /\ cur' /= cur
                                      => mem[p].started >= acked)
    BY <1>1
  <1> QED
    BY <1>2, FreshInvariant, PTL DEF LatestWins
-----------------------------------------------------------------------------
(* The platforms of MCRecovery are ones that Upgrade is about. *)
LEMMA RecoveryConstants ==
    /\ None \notin Platforms
    /\ {"empty", "absent"} \cap (Platforms \cup {None}) = {}
    /\ StateVersion \in [Platforms -> Nat]
    /\ RollbackTo \in [Platforms -> Nat]
    /\ \A v \in Platforms : RollbackTo[v] =< StateVersion[v]
    /\ Cuts \subseteq {"power", "kill", "io"}
    /\ MaxFaults \in Nat /\ UpgradeCommands \in Nat
    /\ FALSE \in BOOLEAN
  <1>1. v1 \in Platforms /\ v2 \in Platforms /\ v2 /= v1
    BY RecoveryAssumption DEF Platforms
  <1>2. None \notin Platforms /\ {"empty", "absent"} \cap (Platforms \cup {None}) = {}
    BY RecoveryAssumption DEF Platforms
  <1>3. \A v \in Platforms : RollbackTo[v] =< StateVersion[v]
    BY <1>1 DEF StateVersion, RollbackTo
  <1> QED
    BY <1>2, <1>3, RecoveryAssumption, ConstantsAssumption DEF StateVersion, RollbackTo

(* What is proved of the upgrade by itself holds of it beside an app install:  *)
(* cut by power alone and reconciled, it hands the release it goes back to     *)
(* state that release can read.                                                *)
THEOREM RecoveryStateIsReadable ==
    ASSUME "kill" \notin Cuts
    PROVE  RecoverySpec => []StateReadable
  <1>1. U!Gentle
    BY DEF U!Gentle
  <1>2. U!Spec => []U!StateReadable
    BY <1>1, RecoveryConstants, U!RestoredStateIsReadable
  <1>3. RecoveryInit => U!Init
    BY DEF RecoveryInit
  <1>4. [RecoveryNext]_recoveryVars => [U!Next]_U!vars
    BY DEF RecoveryNext, recoveryVars, UpgradeStep, InstallStep, platform, U!vars, U!links,
       U!state, U!world, U!proc, U!counts
  <1>5. StateReadable <=> U!StateReadable
    BY DEF StateReadable
  <1> QED
    BY <1>2, <1>3, <1>4, <1>5, PTL DEF RecoverySpec, U!Spec
=============================================================================
