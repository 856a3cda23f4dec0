---------------------------- MODULE DeviceProofs ----------------------------
(***************************************************************************)
(* The device's own programs, proved for every number of boot attempts, of *)
(* processes, sessions and faults.                                         *)
(***************************************************************************)
EXTENDS MCDevice, Integers, TLAPS

-----------------------------------------------------------------------------
(* Booting. *)

LauncherPcs ==
    {"off", "decide", "read", "record", "apps", "bring_up", "request", "watch", "good", "done"}
OperPcs == {"none", "enable", "swap", "raise", "unit", "link", "safe", "unlink", "ro"}

Shipped == Releases \union {1, B!Absent}

Durable ==
    [counter : Nat \union {B!Corrupt}, marker : BOOLEAN,
     units : SUBSET {"launcher", "link", "safe"}, app : Shipped, release : Releases \union {1}]
Launcher == [pc : LauncherPcs, starts : Int]
Places == {"none", "home", "elsewhere"}
Session ==
    [alive : BOOLEAN, state : Places, status : Places, app : Shipped,
     by : {"nobody", "launcher", "updater"}]
Operator == [pc : OperPcs, failed : BOOLEAN]
Record == [launches : Int, home : BOOLEAN, moved : BOOLEAN]

BootTypes ==
    /\ durable \in Durable
    /\ rootRw \in BOOLEAN
    /\ launcher \in Launcher
    /\ sess \in Session
    /\ oper \in Operator
    /\ record \in Record

(* The counter on disk is never behind the launches it stands for, and ahead *)
(* of them from the moment an attempt is recorded until it is made.          *)
CounterInv ==
    /\ record.launches <= MAX_BOOT_ATTEMPTS
    /\ durable.counter = B!Corrupt => launcher.pc \in {"off", "decide", "read", "done"}
    /\ durable.counter # B!Corrupt =>
          record.launches <= durable.counter /\ durable.counter <= MAX_BOOT_ATTEMPTS
    /\ launcher.pc = "record" => durable.counter < MAX_BOOT_ATTEMPTS
    /\ launcher.pc \in {"apps", "bring_up"} => record.launches + 1 <= durable.counter

(* A status file that says Home was written since this bring_up.             *)
GradeInv ==
    /\ launcher.pc \in {"request", "watch"} => (sess.status = "home" => record.home)
    /\ launcher.pc = "good" => record.home

(* Until a release is selected, the copies made in this boot are of the one  *)
(* selected, and so is what was started from them.                           *)
ShippedInv ==
    ~record.moved =>
        /\ launcher.pc = "bring_up" => durable.app = durable.release
        /\ sess.alive /\ sess.by = "launcher" => sess.app = durable.release

RemountInv == rootRw => oper.pc \in {"unit", "link", "safe", "unlink", "ro"} \/ oper.failed

BootInv == BootTypes /\ CounterInv /\ GradeInv /\ ShippedInv /\ RemountInv

LEMMA BootTypesStep ==
    ASSUME BootTypes, B!BootNext
    PROVE  BootTypes'
<1> USE DEF B!At, B!Corrupt, B!Absent, BootTypes
<1>1. CASE B!PowerCut
  <2>1. sess' \in Session
    BY <1>1 DEF B!PowerCut, B!NoSession, Session, Places, Shipped
  <2>2. rootRw' \in BOOLEAN
    BY <1>1 DEF B!PowerCut
  <2>3. oper' \in Operator
    BY <1>1 DEF B!PowerCut, Operator, OperPcs
  <2>4. record' \in Record
    BY <1>1 DEF B!PowerCut, Record
  <2>5. launcher' \in Launcher
    BY <1>1 DEF B!PowerCut, Launcher, LauncherPcs
  <2> QED
    BY <1>1, <2>1, <2>2, <2>3, <2>4, <2>5 DEF B!PowerCut
<1>2. CASE B!LauncherFails
  <2>1. launcher' \in Launcher
    BY <1>2 DEF B!LauncherFails, B!To, Launcher, LauncherPcs
  <2>2. durable' \in Durable
    <3>1. CASE durable' = [durable EXCEPT !.marker = @ \/ "safe" \in durable.units]
      <4> DEFINE marked == durable.marker \/ "safe" \in durable.units
      <4>1. marked \in BOOLEAN
        OBVIOUS
      <4>2. durable' = [durable EXCEPT !.marker = marked]
        BY <3>1
      <4> HIDE DEF marked
      <4> QED
        BY <4>1, <4>2 DEF Durable
    <3>2. CASE UNCHANGED durable
      BY <3>2
    <3> QED
      BY <1>2, <3>1, <3>2 DEF B!LauncherFails
  <2> QED
    BY <1>2, <2>1, <2>2 DEF B!LauncherFails
<1>3. CASE B!PowerOn \/ B!CheckMarker \/ B!RequestHome \/ B!WatchSeesHome \/ B!WatchGivesUp
  BY <1>3 DEF B!PowerOn, B!CheckMarker, B!RequestHome, B!WatchSeesHome, B!WatchGivesUp,
     B!Starts, B!Keep, B!To, Launcher, LauncherPcs
<1>4. CASE B!ReadCounter
  <2>1. launcher' \in Launcher
    BY <1>4 DEF B!ReadCounter, B!To, Launcher, LauncherPcs
  <2>2. durable' \in Durable
    BY <1>4 DEF B!ReadCounter, Durable
  <2> QED
    BY <1>4, <2>1, <2>2 DEF B!ReadCounter
<1>5. CASE B!RecordAttempt \/ B!MaterialiseApps
  BY <1>5 DEF B!RecordAttempt, B!MaterialiseApps, B!SameFile, B!To, Launcher, LauncherPcs,
     Durable, Shipped
<1>6. CASE B!BringUp
  <2>1. launcher' \in Launcher
    BY <1>6 DEF B!BringUp, B!To, Launcher, LauncherPcs
  <2>2. sess' \in Session
    BY <1>6 DEF B!BringUp, B!Started, Session, Places, Durable
  <2>3. record' \in Record
    <3> DEFINE home == sess.alive /\ sess.state = "home"
    <3>1. B!OneMore(record.launches) \in Int
      BY DEF B!OneMore, Record
    <3>2. home \in BOOLEAN
      OBVIOUS
    <3>3. record' = [record EXCEPT !.launches = B!OneMore(@), !.home = home]
      BY <1>6 DEF B!BringUp, B!Launched
    <3> HIDE DEF home
    <3> QED
      BY <3>1, <3>2, <3>3 DEF Record
  <2> QED
    BY <1>6, <2>1, <2>2, <2>3 DEF B!BringUp
<1>7. CASE B!MarkGood
  BY <1>7 DEF B!MarkGood, B!To, Launcher, LauncherPcs, Durable, Record
<1>8. CASE B!SupervisorPublishes
  <2> PICK state \in {"home", "elsewhere"} :
          /\ sess' = [sess EXCEPT !.state = state, !.status = state]
          /\ record' = [record EXCEPT !.home = @ \/ state = "home"]
    BY <1>8 DEF B!SupervisorPublishes
  <2>1. sess' \in Session
    BY DEF Session, Places
  <2>2. record' \in Record
    <3> DEFINE home == record.home \/ state = "home"
    <3>1. home \in BOOLEAN
      OBVIOUS
    <3>2. record' = [record EXCEPT !.home = home]
      OBVIOUS
    <3> HIDE DEF home
    <3> QED
      BY <3>1, <3>2 DEF Record
  <2> QED
    BY <1>8, <2>1, <2>2 DEF B!SupervisorPublishes
<1>9. CASE B!SupervisorExits
  BY <1>9 DEF B!SupervisorExits, Session, Places
<1>10. CASE B!Enable \/ B!Disable
  <2>1. durable' \in Durable
    BY <1>10 DEF B!Enable, B!Disable, Durable
  <2> QED
    BY <1>10, <2>1 DEF B!Enable, B!Disable, B!Rest
<1>11. CASE B!ResetCounter
  BY <1>11 DEF B!ResetCounter, B!OperTo, Operator, OperPcs, Durable, Record
<1>12. CASE B!ResetEnable
  BY <1>12 DEF B!ResetEnable, B!OperTo, B!Rest, Operator, OperPcs, Durable
<1>13. CASE B!CounterRots
  <2>1. durable' \in Durable
    BY <1>13 DEF B!CounterRots, Durable
  <2> QED
    BY <1>13, <2>1 DEF B!CounterRots, B!Rest
<1>14. CASE B!ApplyBegins \/ B!RemoveBegins
  <2>1. oper' \in Operator
    <3>1. [pc |-> "unit", failed |-> FALSE] \in Operator /\ [pc |-> "unlink", failed |-> FALSE] \in Operator
      BY DEF Operator, OperPcs
    <3> QED
      BY <1>14, <3>1 DEF B!ApplyBegins, B!RemoveBegins, B!Remount
  <2>2. rootRw' \in BOOLEAN
    BY <1>14 DEF B!ApplyBegins, B!RemoveBegins, B!Remount
  <2> QED
    BY <1>14, <2>1, <2>2 DEF B!ApplyBegins, B!RemoveBegins, B!Remount
<1>15. CASE B!ApplyWrites
  BY <1>15 DEF B!ApplyWrites, B!Writes, B!OperTo, B!Rest, Operator, OperPcs, Durable
<1>16. CASE B!ApplyWriteFails
  BY <1>16 DEF B!ApplyWriteFails, B!AfterFailedWrite, B!OperTo, B!Rest, Operator, OperPcs, Durable
<1>17. CASE B!RemoveUnlinks
  BY <1>17 DEF B!RemoveUnlinks, B!OperTo, B!Rest, Operator, OperPcs, Durable
<1>18. CASE B!RemountReadOnly
  <2>1. rootRw' \in BOOLEAN
    BY <1>18 DEF B!RemountReadOnly
  <2>2. oper' \in Operator
    <3>1. [pc |-> "none", failed |-> FALSE] \in Operator /\ [pc |-> "none", failed |-> TRUE] \in Operator
      BY DEF Operator, OperPcs
    <3> QED
      BY <1>18, <3>1 DEF B!RemountReadOnly
  <2> QED
    BY <1>18, <2>1, <2>2 DEF B!RemountReadOnly
<1>19. CASE B!StandDown \/ B!UpdateEnds
  BY <1>19 DEF B!StandDown, B!UpdateEnds, B!OperTo, B!Rest, Session, Places, Operator, OperPcs
<1>20. CASE B!Reselect
  BY <1>20 DEF B!Reselect, B!OperTo, Operator, OperPcs, Durable, Record
<1>21. CASE B!UpdaterBringsUp
  <2>1. sess' \in Session
    BY <1>21 DEF B!UpdaterBringsUp, B!Started, Session, Places, Durable
  <2> QED
    BY <1>21, <2>1 DEF B!UpdaterBringsUp, B!OperTo, Operator, OperPcs
<1> QED
  BY <1>1, <1>2, <1>3, <1>4, <1>5, <1>6, <1>7, <1>8, <1>9, <1>10, <1>11, <1>12,
     <1>13, <1>14, <1>15, <1>16, <1>17, <1>18, <1>19, <1>20, <1>21
     DEF B!BootNext, B!LauncherNext, B!OperatorNext


LEMMA BootStep ==
    ASSUME AttemptsAssumption, BootInv, B!BootNext
    PROVE  BootInv'
<1> USE DEF B!At, B!Corrupt, B!Absent
<1>0. BootTypes'
  BY BootTypesStep DEF BootInv
<1> DEFINE Rest == CounterInv /\ GradeInv /\ ShippedInv /\ RemountInv
<1> SUFFICES Rest'
  BY <1>0 DEF BootInv
<1> USE BootInv DEF BootInv, BootTypes, Durable, Launcher, Session, Operator, Record,
      CounterInv, GradeInv, ShippedInv, RemountInv
<1>1. CASE B!PowerCut
  BY <1>1, AttemptsAssumption DEF B!PowerCut, B!NoSession
<1>2. CASE B!PowerOn
  BY <1>2, AttemptsAssumption DEF B!PowerOn, B!Starts, B!Keep
<1>3. CASE B!LauncherFails
  BY <1>3, AttemptsAssumption DEF B!LauncherFails, B!To
<1>4. CASE B!CheckMarker \/ B!ReadCounter
  BY <1>4, AttemptsAssumption DEF B!CheckMarker, B!ReadCounter, B!Exhausted, B!To, B!Keep
<1>5. CASE B!RecordAttempt
  BY <1>5, AttemptsAssumption DEF B!RecordAttempt, B!To
<1>6. CASE B!MaterialiseApps
  BY <1>6, AttemptsAssumption DEF B!MaterialiseApps, B!SameFile, B!To
<1>7. CASE B!BringUp
  BY <1>7, AttemptsAssumption DEF B!BringUp, B!Started, B!Launched, B!OneMore, B!To
<1>8. CASE B!RequestHome \/ B!WatchSeesHome \/ B!WatchGivesUp
  BY <1>8, AttemptsAssumption DEF B!RequestHome, B!WatchSeesHome, B!WatchGivesUp, B!To, B!Keep
<1>9. CASE B!MarkGood
  BY <1>9, AttemptsAssumption DEF B!MarkGood, B!To
<1>10. CASE B!SupervisorPublishes
  BY <1>10, AttemptsAssumption DEF B!SupervisorPublishes
<1>11. CASE B!SupervisorExits
  BY <1>11, AttemptsAssumption DEF B!SupervisorExits
<1>12. CASE B!Enable \/ B!Disable
  BY <1>12, AttemptsAssumption DEF B!Enable, B!Disable, B!Rest
<1>13. CASE B!ResetCounter
  BY <1>13, AttemptsAssumption DEF B!ResetCounter, B!Idle, B!Up, B!OperTo
<1>14. CASE B!ResetEnable
  BY <1>14, AttemptsAssumption DEF B!ResetEnable, B!OperTo, B!Rest
<1>15. CASE B!CounterRots
  BY <1>15, AttemptsAssumption DEF B!CounterRots, B!Rest
<1>16. CASE B!ApplyBegins \/ B!RemoveBegins
  BY <1>16, AttemptsAssumption DEF B!ApplyBegins, B!RemoveBegins, B!Remount, B!Idle, B!Up
<1>17. CASE B!ApplyWrites
  BY <1>17, AttemptsAssumption DEF B!ApplyWrites, B!Writes, B!OperTo, B!Rest
<1>18. CASE B!ApplyWriteFails
  BY <1>18, AttemptsAssumption DEF B!ApplyWriteFails, B!AfterFailedWrite, B!OperTo, B!Rest
<1>19. CASE B!RemoveUnlinks
  BY <1>19, AttemptsAssumption DEF B!RemoveUnlinks, B!OperTo, B!Rest
<1>20. CASE B!RemountReadOnly
  BY <1>20, AttemptsAssumption DEF B!RemountReadOnly
<1>21. CASE B!StandDown
  <2>1. /\ oper.pc = "none" /\ oper' = [oper EXCEPT !.pc = "swap"]
        /\ sess' = [sess EXCEPT !.alive = FALSE, !.state = "none"]
        /\ UNCHANGED <<durable, rootRw, launcher, record>>
    BY <1>21 DEF B!StandDown, B!Idle, B!OperTo
  <2>2. CounterInv' /\ RemountInv'
    BY <2>1
  <2>3. GradeInv' /\ ShippedInv'
    BY <2>1
  <2> QED
    BY <2>2, <2>3
<1>24. CASE B!UpdateEnds
  BY <1>24, AttemptsAssumption DEF B!UpdateEnds, B!OperTo, B!Rest
<1>23. CASE B!Reselect
  <2>1. /\ oper.pc = "swap" /\ oper' = [oper EXCEPT !.pc = "raise"]
        /\ durable'.counter = durable.counter
        /\ record' = [record EXCEPT !.moved = TRUE]
        /\ UNCHANGED <<rootRw, launcher, sess>>
    BY <1>23 DEF B!Reselect, B!OperTo
  <2>2. CounterInv'
    BY <2>1
  <2>3. GradeInv' /\ ShippedInv' /\ RemountInv'
    BY <2>1
  <2> QED
    BY <2>2, <2>3
<1>22. CASE B!UpdaterBringsUp
  BY <1>22, AttemptsAssumption DEF B!UpdaterBringsUp, B!Started, B!OperTo
<1> QED
  BY <1>1, <1>2, <1>3, <1>4, <1>5, <1>6, <1>7, <1>8, <1>9, <1>10, <1>11, <1>12, <1>13, <1>14,
     <1>15, <1>16, <1>17, <1>18, <1>19, <1>20, <1>21, <1>22, <1>23,
     <1>24
     DEF B!BootNext, B!LauncherNext, B!OperatorNext

-----------------------------------------------------------------------------
(* Taking the panel. *)

CommandPcs ==
    {"idle", "capture", "wake", "arm", "stop", "present", "wait", "locks", "settle", "restore",
     "await1", "await2", "unwake", "disarm", "verify"}
Reports ==
    {"none", "refused", "unconfirmed", "stranded", "killed", "ok", "not shown", "other frame",
     "regressed", "not held"}
Children == {"none", "opening", "showing", "sent", "other", "unheld", "failed", "hung"}
States == {"up", "down", "failed"}
Owners == {"stock", "panel"}

Unit == [state : States, claimed : BOOLEAN, restarts : Nat, starts : Nat]
Names == [of : Owners, start : Nat]
Command ==
    [pc : CommandPcs, kind : {"hold", "run"}, before : Nat, captured : Names, forced : BOOLEAN,
     record : Children, report : Reports]
Dogs == [mine : BOOLEAN, stray : BOOLEAN]
Taken == [sessions : Nat, faults : Nat, kills : Nat, beneath : BOOLEAN, gaveUp : BOOLEAN,
          spent : BOOLEAN]

TakeoverTypes ==
    /\ xochitl \in Unit
    /\ registry \in Names
    /\ awake \in BOOLEAN
    /\ ledger \in Nat
    /\ cmd \in Command
    /\ child \in Children
    /\ dog \in Dogs
    /\ taken \in Taken

(* A session the budget admits has both its guarded starts before it.        *)
LedgerInv ==
    /\ ledger <= 4
    /\ cmd.pc \in {"present", "wait", "locks", "settle", "restore"} => ledger <= 2
    /\ cmd.pc = "await1" => ledger <= 3

(* Stock is down only inside the session that stopped it, or after a kill of *)
(* it, and the wakelock covers that session from before the stop.            *)
WakeInv ==
    /\ cmd.pc \in {"capture", "wake", "arm", "stop", "unwake", "disarm", "verify"}
          => xochitl.state # "down" \/ taken.spent
    /\ cmd.pc \in {"arm", "stop", "present", "wait", "locks", "settle", "restore", "await1",
                   "await2"} => awake \/ taken.beneath
    /\ cmd.pc \in {"disarm", "verify"} => ~awake
    /\ T!DownMeansAwake

\* What a presenter that is gone can have left as its report.
Ends == {"none", "sent", "other", "unheld", "failed"}

(* The presenter lives only under the command that waits for it, or after    *)
(* that command was killed; stock is not up from the stop until it is gone.  *)
OwnerInv ==
    /\ child \in Ends \union {"opening", "showing", "hung"}
    /\ T!ChildLives => cmd.pc \in {"wait", "idle"}
    /\ cmd.pc = "present" => xochitl.state # "up" \/ taken.beneath
    /\ T!PanelHasOneOwner

SuccessInv ==
    /\ dog.mine => cmd.pc \notin {"idle", "capture", "wake", "arm", "verify"}
    /\ cmd.pc = "idle" /\ cmd.report = "ok" => ~awake
    /\ cmd.record \in Ends
    /\ T!SuccessIsWhole

TakeoverInv == TakeoverTypes /\ LedgerInv /\ WakeInv /\ OwnerInv /\ SuccessInv

LEMMA Fires == ASSUME taken \in Taken, T!Guardian PROVE taken' \in Taken
<1> DEFINE b == taken.beneath \/ cmd.pc \notin {"idle", "capture", "verify"} \/ T!ChildLives
           n == taken.faults + 1
           fired == [taken EXCEPT !.beneath = b]
<1>1. taken' = fired \/ taken' = [fired EXCEPT !.faults = n, !.spent = TRUE]
  BY DEF T!Guardian, Taken
<1>2. b \in BOOLEAN /\ n \in Nat
  BY DEF Taken
<1> HIDE DEF b, n
<1>3. fired \in Taken
  BY <1>2 DEF Taken
<1> HIDE DEF fired
<1> QED
  BY <1>1, <1>2, <1>3 DEF Taken

LEMMA TakeoverTypesStep ==
    ASSUME TakeoverTypes, T!TakeoverNext
    PROVE  TakeoverTypes'
<1> USE DEF TakeoverTypes
<1>0. T!Started(T!ResetFailed(xochitl)) \in Unit /\ T!ResetFailed(xochitl) \in Unit
  <2>1. T!ResetFailed(xochitl) \in Unit
    BY DEF T!ResetFailed, Unit, States
  <2>2. ASSUME NEW u \in Unit PROVE T!Started(u) \in Unit
    <3>1. ASSUME NEW b \in BOOLEAN, NEW n \in Nat
          PROVE  [u EXCEPT !.state = "up", !.claimed = b, !.starts = n] \in Unit
      BY DEF Unit, States
    <3>2. FALSE \in BOOLEAN /\ u.starts + 1 \in Nat
      BY DEF Unit
    <3> QED
      BY <3>1, <3>2 DEF T!Started
  <2> QED
    BY <2>1, <2>2
<1>1. CASE T!Gate
  <2>1. taken' \in Taken
    BY <1>1 DEF T!Gate, T!NoFault, T!Fault, Taken
  <2>2. cmd' \in Command
    <3> DEFINE opened(k) == [T!Idle EXCEPT !.kind = k, !.before = xochitl.restarts]
    <3>1. ASSUME NEW k \in {"hold", "run"}
          PROVE  [opened(k) EXCEPT !.pc = "capture"] \in Command
                 /\ [opened(k) EXCEPT !.report = "refused"] \in Command
      BY DEF T!Idle, T!Panel, Command, CommandPcs, Reports, Names, Owners, Children, Unit
    <3> HIDE DEF opened
    <3>2. \E k \in {"hold", "run"} : cmd' = [opened(k) EXCEPT !.pc = "capture"]
                                    \/ cmd' = [opened(k) EXCEPT !.report = "refused"]
      BY <1>1 DEF T!Gate, opened
    <3> QED
      BY <3>1, <3>2
  <2>3. child' \in Children
    BY <1>1 DEF T!Gate, Children
  <2> QED
    BY <1>1, <2>1, <2>2, <2>3 DEF T!Gate
<1>2. CASE T!CaptureLocks
  <2>1. cmd' \in Command
    BY <1>2 DEF T!CaptureLocks, T!Refuse, Command, CommandPcs, Reports
  <2>2. taken' \in Taken
    BY <1>2 DEF T!CaptureLocks, T!NoFault, T!Fault, Taken
  <2> QED
    BY <1>2, <2>1, <2>2 DEF T!CaptureLocks
<1>3. CASE T!AcquireWake
  <2>1. cmd' \in Command
    BY <1>3 DEF T!AcquireWake, T!Refuse, T!Goto, Command, CommandPcs, Reports
  <2>2. awake' \in BOOLEAN
    BY <1>3 DEF T!AcquireWake
  <2>3. taken' \in Taken
    BY <1>3 DEF T!AcquireWake, T!NoFault, T!Fault, Taken
  <2> QED
    BY <1>3, <2>1, <2>2, <2>3 DEF T!AcquireWake
<1>4. CASE T!ArmWatchdog
  <2>1. cmd' \in Command
    BY <1>4 DEF T!ArmWatchdog, T!Refuse, T!Goto, Command, CommandPcs, Reports
  <2>2. awake' \in BOOLEAN
    BY <1>4 DEF T!ArmWatchdog
  <2>3. dog' \in Dogs
    BY <1>4 DEF T!ArmWatchdog, Dogs
  <2>4. taken' \in Taken
    BY <1>4 DEF T!ArmWatchdog, T!NoFault, T!Fault, Taken
  <2> QED
    BY <1>4, <2>1, <2>2, <2>3, <2>4 DEF T!ArmWatchdog
<1>5. CASE T!StopStock
  <2>1. cmd' \in Command
    BY <1>5 DEF T!StopStock, T!Refuse, T!Goto, Command, CommandPcs, Reports
  <2>2. xochitl' \in Unit
    BY <1>5 DEF T!StopStock, Unit, States
  <2>3. awake' \in BOOLEAN
    BY <1>5 DEF T!StopStock
  <2>4. dog' \in Dogs
    BY <1>5 DEF T!StopStock, Dogs
  <2>5. taken' \in Taken
    BY <1>5 DEF T!StopStock, T!NoFault, T!Fault, Taken
  <2> QED
    BY <1>5, <2>1, <2>2, <2>3, <2>4, <2>5 DEF T!StopStock
<1>6. CASE T!SpawnPresenter
  <2>1. cmd' \in Command
    BY <1>6 DEF T!SpawnPresenter, T!Goto, Command, CommandPcs, Reports
  <2>2. child' \in Children
    BY <1>6 DEF T!SpawnPresenter, Children
  <2>3. taken' \in Taken
    BY <1>6 DEF T!SpawnPresenter, T!NoFault, T!Fault, Taken
  <2> QED
    BY <1>6, <2>1, <2>2, <2>3 DEF T!SpawnPresenter
<1>7. CASE T!Reap
  <2>1. cmd' \in Command
    BY <1>7 DEF T!Reap, Children, Command, CommandPcs, Reports
  <2> QED
    BY <1>7, <2>1 DEF T!Reap
<1>8. CASE T!RestoreLocks
  <2>1. cmd' \in Command
    BY <1>8 DEF T!RestoreLocks, T!Goto, Command, CommandPcs, Reports
  <2>2. registry' \in Names
    BY <1>8 DEF T!RestoreLocks, Names, Owners, Command
  <2>3. taken' \in Taken
    BY <1>8 DEF T!RestoreLocks, T!NoFault, T!Fault, Taken
  <2> QED
    BY <1>8, <2>1, <2>2, <2>3 DEF T!RestoreLocks
<1>9. CASE T!Settle
  <2>1. cmd' \in Command
    BY <1>9 DEF T!Settle, Command, CommandPcs, Reports
  <2> QED
    BY <1>9, <2>1 DEF T!Settle
<1>10. CASE T!Restore
  <2>1. xochitl' \in Unit
    BY <1>0, <1>10 DEF T!Restore, T!StartOnce, T!ReleaseDone
  <2>2. awake' \in BOOLEAN
    BY <1>10 DEF T!Restore, T!StartOnce, T!ReleaseDone
  <2>3. ledger' \in Nat
    BY <1>10 DEF T!Restore, T!StartOnce, T!ReleaseDone
  <2>4. cmd' \in Command
    BY <1>10 DEF T!Restore, T!StartOnce, T!ReleaseDone, T!Goto, Command, CommandPcs, Reports
  <2>5. dog' \in Dogs
    BY <1>10 DEF T!Restore, T!StartOnce, T!ReleaseDone, Dogs
  <2>6. taken' \in Taken
    BY <1>10 DEF T!Restore, T!StartOnce, T!ReleaseDone, T!NoFault, T!Fault, Taken
  <2> QED
    BY <1>10, <2>1, <2>2, <2>3, <2>4, <2>5, <2>6 DEF T!Restore, T!StartOnce, T!ReleaseDone
<1>11. CASE T!RestoreAgain
  <2>1. xochitl' \in Unit
    BY <1>0, <1>11 DEF T!RestoreAgain, T!StartOnce, T!ReleaseDone
  <2>2. awake' \in BOOLEAN
    BY <1>11 DEF T!RestoreAgain, T!StartOnce, T!ReleaseDone
  <2>3. ledger' \in Nat
    BY <1>11 DEF T!RestoreAgain, T!StartOnce, T!ReleaseDone
  <2>4. cmd' \in Command
    BY <1>11 DEF T!RestoreAgain, T!StartOnce, T!ReleaseDone, T!Goto, Command, CommandPcs, Reports
  <2>5. dog' \in Dogs
    BY <1>11 DEF T!RestoreAgain, T!StartOnce, T!ReleaseDone, Dogs
  <2>6. taken' \in Taken
    BY <1>11 DEF T!RestoreAgain, T!StartOnce, T!ReleaseDone, T!NoFault, T!Fault, Taken
  <2> QED
    BY <1>11, <2>1, <2>2, <2>3, <2>4, <2>5, <2>6 DEF T!RestoreAgain, T!StartOnce, T!ReleaseDone
<1>12. CASE T!RestoreGivesUp
  <2>1. awake' \in BOOLEAN
    BY <1>12 DEF T!RestoreGivesUp, T!ReleaseDone, T!Strand, T!DropWatchdog
  <2>2. cmd' \in Command
    BY <1>12 DEF T!RestoreGivesUp, T!ReleaseDone, T!Strand, T!DropWatchdog, T!Goto, Command, CommandPcs, Reports
  <2>3. dog' \in Dogs
    BY <1>12 DEF T!RestoreGivesUp, T!ReleaseDone, T!Strand, T!DropWatchdog, Dogs
  <2>4. taken' \in Taken
    BY <1>12 DEF T!RestoreGivesUp, T!ReleaseDone, T!Strand, T!DropWatchdog, T!NoFault, T!Fault, Taken
  <2>5. xochitl' = xochitl /\ registry' = registry /\ ledger' = ledger /\ child' = child
    BY <1>12 DEF T!RestoreGivesUp, T!ReleaseDone, T!Strand
  <2> QED
    BY <1>12, <2>5, <2>1, <2>2, <2>3, <2>4 DEF T!RestoreGivesUp, T!ReleaseDone, T!Strand, T!DropWatchdog
<1>13. CASE T!ReleaseWake
  <2>1. awake' \in BOOLEAN
    BY <1>13 DEF T!ReleaseWake
  <2>2. cmd' \in Command
    BY <1>13 DEF T!ReleaseWake, T!Goto, Command, CommandPcs, Reports
  <2> QED
    BY <1>13, <2>1, <2>2 DEF T!ReleaseWake
<1>14. CASE T!Disarm
  <2>1. cmd' \in Command
    BY <1>14 DEF T!Disarm, T!Goto, Command, CommandPcs, Reports
  <2>2. dog' \in Dogs
    BY <1>14 DEF T!Disarm, Dogs
  <2> QED
    BY <1>14, <2>1, <2>2 DEF T!Disarm
<1>15. CASE T!Verify
  <2>1. cmd' \in Command
    BY <1>15 DEF T!Verify, T!Verdict, Command, CommandPcs, Reports
  <2> QED
    BY <1>15, <2>1 DEF T!Verify
<1>16. CASE T!ChildOpens
  <2>1. registry' \in Names
    BY <1>16 DEF T!ChildOpens, T!Panel, Names, Owners, Command
  <2>2. child' \in Children
    BY <1>16 DEF T!ChildOpens, Children
  <2>3. taken' \in Taken
    BY <1>16 DEF T!ChildOpens, T!NoFault, T!Fault, Taken
  <2> QED
    BY <1>16, <2>1, <2>2, <2>3 DEF T!ChildOpens
<1>17. CASE T!ChildEnds
  <2>1. child' \in Children
    BY <1>17 DEF T!ChildEnds, Children
  <2>2. taken' \in Taken
    BY <1>17 DEF T!ChildEnds, T!NoFault, T!Fault, Taken
  <2> QED
    BY <1>17, <2>1, <2>2 DEF T!ChildEnds
<1>18. CASE T!ChildHangs
  <2>1. child' \in Children
    BY <1>18 DEF T!ChildHangs, Children
  <2>2. taken' \in Taken
    BY <1>18 DEF T!ChildHangs, T!NoFault, T!Fault, Taken
  <2> QED
    BY <1>18, <2>1, <2>2 DEF T!ChildHangs
<1>19. CASE T!StockClaims
  <2>1. xochitl' \in Unit
    <3>1. ASSUME NEW b \in BOOLEAN PROVE [xochitl EXCEPT !.claimed = b] \in Unit
      BY DEF Unit
    <3>2. ASSUME NEW s \in States, NEW n \in Nat
          PROVE  [xochitl EXCEPT !.restarts = n, !.state = s] \in Unit
      BY DEF Unit
    <3>3. /\ xochitl.state \in States /\ "failed" \in States
          /\ xochitl.restarts + 1 \in Nat /\ TRUE \in BOOLEAN
      BY DEF Unit, States
    <3> QED
      BY <1>19, <3>1, <3>2, <3>3 DEF T!StockClaims
  <2>2. registry' \in Names
    <3>1. T!StockStart(xochitl.starts) \in Names
      BY DEF T!StockStart, Names, Owners, Unit
    <3> QED
      BY <1>19, <3>1 DEF T!StockClaims
  <2> QED
    BY <1>19, <2>1, <2>2 DEF T!StockClaims
<1>20. CASE T!WindowMoves
  <2>1. ledger' \in Nat
    BY <1>20 DEF T!WindowMoves
  <2> QED
    BY <1>20, <2>1 DEF T!WindowMoves
<1>21. CASE T!Kill
  <2>1. cmd' \in Command
    BY <1>21 DEF T!Kill, Command, CommandPcs, Reports
  <2>2. dog' \in Dogs
    BY <1>21 DEF T!Kill, Dogs
  <2>3. taken' \in Taken
    BY <1>21 DEF T!Kill, T!NoFault, T!Fault, Taken
  <2> QED
    BY <1>21, <2>1, <2>2, <2>3 DEF T!Kill
<1>22. CASE T!WatchdogFires
  <2>1. xochitl' \in Unit
    BY <1>0, <1>22 DEF T!WatchdogFires, T!Guardian
  <2>2. awake' \in BOOLEAN
    BY <1>22 DEF T!WatchdogFires, T!Guardian
  <2>3. dog' \in Dogs
    BY <1>22 DEF T!WatchdogFires, T!Guardian, Dogs
  <2>4. taken' \in Taken
    BY <1>22, Fires DEF T!WatchdogFires
  <2> QED
    BY <1>22, <2>1, <2>2, <2>3, <2>4 DEF T!WatchdogFires, T!Guardian
<1>23. CASE T!StrayFires
  <2>1. xochitl' \in Unit
    BY <1>0, <1>23 DEF T!StrayFires, T!Guardian
  <2>2. awake' \in BOOLEAN
    BY <1>23 DEF T!StrayFires, T!Guardian
  <2>3. dog' \in Dogs
    BY <1>23 DEF T!StrayFires, T!Guardian, Dogs
  <2>4. taken' \in Taken
    BY <1>23, Fires DEF T!StrayFires
  <2> QED
    BY <1>23, <2>1, <2>2, <2>3, <2>4 DEF T!StrayFires, T!Guardian
<1>24. CASE T!RestoreErrs
  <2>1. xochitl' \in Unit /\ ledger' \in Nat
    BY <1>0, <1>24 DEF T!RestoreErrs
  <2>2. cmd' \in Command
    BY <1>24 DEF T!RestoreErrs, T!Strand, Command, CommandPcs, Reports
  <2>3. dog' \in Dogs /\ awake' \in BOOLEAN /\ registry' = registry /\ child' = child
    BY <1>24 DEF T!RestoreErrs, T!Strand, T!DropWatchdog, Dogs
  <2>4. taken' \in Taken
    <3> DEFINE g == taken.gaveUp \/ xochitl.state # "up"
               n == taken.faults + 1
    <3>1. taken' = [taken EXCEPT !.faults = n, !.gaveUp = g]
      BY <1>24 DEF T!RestoreErrs
    <3>2. g \in BOOLEAN /\ n \in Nat
      BY DEF Taken
    <3> HIDE DEF g, n
    <3> QED
      BY <3>1, <3>2 DEF Taken
  <2> QED
    BY <2>1, <2>2, <2>3, <2>4
<1> QED
  BY <1>1, <1>2, <1>3, <1>4, <1>5, <1>6, <1>7, <1>8, <1>9, <1>10, <1>11, <1>12, <1>13, <1>14, <1>15, <1>16, <1>17, <1>18, <1>19, <1>20, <1>21, <1>22, <1>23, <1>24
     DEF T!TakeoverNext, T!CommandStep, T!ChildStep

LEMMA LedgerStep ==
    ASSUME TakeoverTypes, LedgerInv, T!TakeoverNext
    PROVE  LedgerInv'
<1> USE DEF TakeoverTypes, Unit, Names, Command, Dogs, Taken, T!NoFault, T!Fault, T!Goto,
      LedgerInv
<1>1. CASE T!Gate
  BY <1>1 DEF T!Gate, T!Idle, T!AllowsTakeover, T!START_LIMIT_BURST, T!Panel
<1>2. CASE T!CaptureLocks
  BY <1>2 DEF T!CaptureLocks, T!Refuse
<1>3. CASE T!AcquireWake
  BY <1>3 DEF T!AcquireWake, T!Refuse
<1>4. CASE T!ArmWatchdog
  BY <1>4 DEF T!ArmWatchdog, T!Refuse
<1>5. CASE T!StopStock
  <2>1. CASE T!Goto("present") /\ T!AllowsSession
    BY <1>5, <2>1 DEF T!StopStock, T!AllowsSession, T!START_BUDGET
  <2>2. CASE T!Refuse
    BY <1>5, <2>2 DEF T!StopStock, T!Refuse
  <2> QED
    BY <1>5, <2>1, <2>2 DEF T!StopStock
<1>6. CASE T!SpawnPresenter
  BY <1>6 DEF T!SpawnPresenter
<1>7. CASE T!Reap
  BY <1>7 DEF T!Reap
<1>8. CASE T!RestoreLocks
  <2>1. CASE T!Goto("settle") /\ UNCHANGED taken
    BY <1>8, <2>1 DEF T!RestoreLocks
  <2>2. CASE cmd' = [cmd EXCEPT !.pc = "restore", !.forced = TRUE] /\ T!Fault
    BY <1>8, <2>2 DEF T!RestoreLocks
  <2> QED
    BY <1>8, <2>1, <2>2 DEF T!RestoreLocks
<1>9. CASE T!Settle
  BY <1>9 DEF T!Settle
<1>10. CASE T!Restore
  <2>1. CASE xochitl.state = "up" /\ cmd.forced
    BY <1>10, <2>1 DEF T!Restore, T!ReleaseDone
  <2>2. CASE xochitl.state = "up" /\ ~cmd.forced
    BY <1>10, <2>2 DEF T!Restore, T!ReleaseDone
  <2>3. CASE xochitl.state # "up" /\ xochitl' = T!Started(T!ResetFailed(xochitl)) /\ UNCHANGED taken
    BY <1>10, <2>3 DEF T!Restore, T!StartOnce, T!Started, T!ResetFailed
  <2>4. CASE xochitl.state # "up" /\ xochitl' \in {xochitl, T!ResetFailed(xochitl)} /\ T!Fault
    BY <1>10, <2>4 DEF T!Restore, T!StartOnce, T!ResetFailed
  <2> QED
    BY <1>10, <2>1, <2>2, <2>3, <2>4 DEF T!Restore, T!StartOnce
<1>11. CASE T!RestoreAgain
  <2>1. CASE xochitl.state = "up" /\ cmd.forced
    BY <1>11, <2>1 DEF T!RestoreAgain, T!ReleaseDone
  <2>2. CASE xochitl.state = "up" /\ ~cmd.forced
    BY <1>11, <2>2 DEF T!RestoreAgain, T!ReleaseDone
  <2>3. CASE xochitl.state # "up" /\ xochitl' = T!Started(T!ResetFailed(xochitl)) /\ UNCHANGED taken
    BY <1>11, <2>3 DEF T!RestoreAgain, T!StartOnce, T!Started, T!ResetFailed
  <2>4. CASE xochitl.state # "up" /\ xochitl' \in {xochitl, T!ResetFailed(xochitl)} /\ T!Fault
    BY <1>11, <2>4 DEF T!RestoreAgain, T!StartOnce, T!ResetFailed
  <2> QED
    BY <1>11, <2>1, <2>2, <2>3, <2>4 DEF T!RestoreAgain, T!StartOnce
<1>12. CASE T!RestoreGivesUp
  <2>1. CASE xochitl.state = "up" /\ cmd.forced
    BY <1>12, <2>1 DEF T!RestoreGivesUp, T!ReleaseDone
  <2>2. CASE xochitl.state = "up" /\ ~cmd.forced
    BY <1>12, <2>2 DEF T!RestoreGivesUp, T!ReleaseDone
  <2>3. CASE xochitl.state # "up"
    BY <1>12, <2>3 DEF T!RestoreGivesUp, T!Strand, T!DropWatchdog
  <2> QED
    BY <2>1, <2>2, <2>3
<1>13. CASE T!ReleaseWake
  BY <1>13 DEF T!ReleaseWake
<1>14. CASE T!Disarm
  BY <1>14 DEF T!Disarm
<1>15. CASE T!Verify
  BY <1>15 DEF T!Verify, T!Verdict, T!Regressed
<1>16. CASE T!ChildOpens
  BY <1>16 DEF T!ChildOpens, T!Panel
<1>17. CASE T!ChildEnds
  BY <1>17 DEF T!ChildEnds
<1>18. CASE T!ChildHangs
  BY <1>18 DEF T!ChildHangs
<1>19. CASE T!StockClaims
  BY <1>19 DEF T!StockClaims, T!StockStart, T!Panel, T!START_LIMIT_BURST
<1>20. CASE T!WindowMoves
  BY <1>20 DEF T!WindowMoves
<1>21. CASE T!Kill
  BY <1>21 DEF T!Kill
<1>22. CASE T!WatchdogFires
  BY <1>22 DEF T!WatchdogFires, T!Guardian, T!Started, T!ResetFailed
<1>23. CASE T!StrayFires
  BY <1>23 DEF T!StrayFires, T!Guardian, T!Started, T!ResetFailed
<1>24. CASE T!RestoreErrs
  BY <1>24 DEF T!RestoreErrs, T!Strand, T!DropWatchdog, T!ResetFailed
<1> QED
  BY <1>1, <1>2, <1>3, <1>4, <1>5, <1>6, <1>7, <1>8, <1>9, <1>10, <1>11, <1>12, <1>13, <1>14, <1>15, <1>16, <1>17, <1>18, <1>19, <1>20, <1>21, <1>22, <1>23, <1>24
     DEF T!TakeoverNext, T!CommandStep, T!ChildStep

(* The guardian lets the device suspend: over a stock that is up, or once its *)
(* own start came to nothing, or beneath a session that it spoilt.            *)
LEMMA Unlocks ==
    ASSUME TakeoverTypes, T!Guardian
    PROVE  /\ ~awake' /\ (xochitl'.state # "down" \/ taken'.spent)
           /\ taken.beneath => taken'.beneath
           /\ taken.gaveUp => taken'.gaveUp
           /\ cmd.pc \notin {"idle", "capture", "verify"} => taken'.beneath
<1> USE DEF TakeoverTypes, Unit, Taken
<1>1. CASE /\ xochitl' = IF xochitl.state = "up" THEN T!ResetFailed(xochitl) ELSE T!Started(T!ResetFailed(xochitl))
           /\ taken' = [taken EXCEPT !.beneath = @ \/ cmd.pc \notin {"idle", "capture", "verify"} \/ T!ChildLives]
  <2>1. xochitl'.state = "up"
    BY <1>1 DEF T!ResetFailed, T!Started
  <2> QED
    BY <1>1, <2>1 DEF T!Guardian
<1>2. CASE taken' = [[taken EXCEPT !.beneath = @ \/ cmd.pc \notin {"idle", "capture", "verify"} \/ T!ChildLives]
                       EXCEPT !.faults = taken.faults + 1, !.spent = TRUE]
  BY <1>2 DEF T!Guardian
<1> QED
  BY <1>1, <1>2 DEF T!Guardian

LEMMA WakeStep ==
    ASSUME TakeoverTypes, WakeInv, T!TakeoverNext
    PROVE  WakeInv'
<1> USE DEF TakeoverTypes, Unit, Names, Command, Dogs, Taken, T!NoFault, T!Fault, T!Goto,
      WakeInv, T!DownMeansAwake, T!ChildLives
<1>1. CASE T!Gate
  BY <1>1 DEF T!Gate, T!Idle, T!AllowsTakeover, T!START_LIMIT_BURST, T!Panel
<1>2. CASE T!CaptureLocks
  <2>1. taken'.beneath = taken.beneath /\ taken'.gaveUp = taken.gaveUp /\ taken'.spent = taken.spent
    BY <1>2 DEF T!CaptureLocks
  <2>2. xochitl' = xochitl /\ (xochitl.state # "down" \/ taken.spent) /\ cmd'.pc \in {"wake", "idle"}
    BY <1>2 DEF T!CaptureLocks, T!Refuse
  <2> QED
    BY <2>1, <2>2
<1>3. CASE T!AcquireWake
  <2>1. taken'.beneath = taken.beneath /\ taken'.gaveUp = taken.gaveUp /\ taken'.spent = taken.spent
    BY <1>3 DEF T!AcquireWake
  <2>2. xochitl.state # "down" \/ taken.spent
    BY <1>3 DEF T!AcquireWake
  <2>3. CASE cmd'.pc = "idle" /\ xochitl' = xochitl
    BY <2>1, <2>2, <2>3
  <2>4. CASE cmd'.pc # "idle"
    BY <1>3, <2>1, <2>2, <2>4 DEF T!AcquireWake, T!Refuse
  <2> QED
    BY <1>3, <2>3, <2>4 DEF T!AcquireWake, T!Refuse
<1>4. CASE T!ArmWatchdog
  <2>1. taken'.beneath = taken.beneath /\ taken'.gaveUp = taken.gaveUp /\ taken'.spent = taken.spent
    BY <1>4 DEF T!ArmWatchdog
  <2>2. xochitl.state # "down" \/ taken.spent
    BY <1>4 DEF T!ArmWatchdog
  <2>3. CASE cmd'.pc = "idle" /\ xochitl' = xochitl
    BY <2>1, <2>2, <2>3
  <2>4. CASE cmd'.pc # "idle"
    BY <1>4, <2>1, <2>2, <2>4 DEF T!ArmWatchdog, T!Refuse
  <2> QED
    BY <1>4, <2>3, <2>4 DEF T!ArmWatchdog, T!Refuse
<1>5. CASE T!StopStock
  <2>1. taken'.beneath = taken.beneath /\ taken'.gaveUp = taken.gaveUp /\ taken'.spent = taken.spent
    BY <1>5 DEF T!StopStock
  <2>2. xochitl.state # "down" \/ taken.spent
    BY <1>5 DEF T!StopStock
  <2>3. CASE cmd'.pc = "idle" /\ xochitl' = xochitl
    BY <2>1, <2>2, <2>3
  <2>4. CASE cmd'.pc # "idle"
    BY <1>5, <2>1, <2>2, <2>4 DEF T!StopStock, T!Refuse, T!AllowsSession, T!START_BUDGET
  <2> QED
    BY <1>5, <2>3, <2>4 DEF T!StopStock, T!Refuse, T!AllowsSession, T!START_BUDGET
<1>6. CASE T!SpawnPresenter
  BY <1>6 DEF T!SpawnPresenter
<1>7. CASE T!Reap
  BY <1>7 DEF T!Reap
<1>8. CASE T!RestoreLocks
  <2>1. CASE T!Goto("settle") /\ UNCHANGED taken
    BY <1>8, <2>1 DEF T!RestoreLocks
  <2>2. CASE cmd' = [cmd EXCEPT !.pc = "restore", !.forced = TRUE] /\ T!Fault
    BY <1>8, <2>2 DEF T!RestoreLocks
  <2> QED
    BY <1>8, <2>1, <2>2 DEF T!RestoreLocks
<1>9. CASE T!Settle
  BY <1>9 DEF T!Settle
<1>10. CASE T!Restore
  <2>1. CASE xochitl.state = "up" /\ cmd.forced
    BY <1>10, <2>1 DEF T!Restore, T!ReleaseDone
  <2>2. CASE xochitl.state = "up" /\ ~cmd.forced
    BY <1>10, <2>2 DEF T!Restore, T!ReleaseDone
  <2>3. CASE xochitl.state # "up" /\ xochitl' = T!Started(T!ResetFailed(xochitl)) /\ UNCHANGED taken
    BY <1>10, <2>3 DEF T!Restore, T!StartOnce, T!Started, T!ResetFailed
  <2>4. CASE xochitl.state # "up" /\ xochitl' \in {xochitl, T!ResetFailed(xochitl)} /\ T!Fault
    BY <1>10, <2>4 DEF T!Restore, T!StartOnce, T!ResetFailed
  <2> QED
    BY <1>10, <2>1, <2>2, <2>3, <2>4 DEF T!Restore, T!StartOnce
<1>11. CASE T!RestoreAgain
  <2>1. CASE xochitl.state = "up" /\ cmd.forced
    BY <1>11, <2>1 DEF T!RestoreAgain, T!ReleaseDone
  <2>2. CASE xochitl.state = "up" /\ ~cmd.forced
    BY <1>11, <2>2 DEF T!RestoreAgain, T!ReleaseDone
  <2>3. CASE xochitl.state # "up" /\ xochitl' = T!Started(T!ResetFailed(xochitl)) /\ UNCHANGED taken
    BY <1>11, <2>3 DEF T!RestoreAgain, T!StartOnce, T!Started, T!ResetFailed
  <2>4. CASE xochitl.state # "up" /\ xochitl' \in {xochitl, T!ResetFailed(xochitl)} /\ T!Fault
    BY <1>11, <2>4 DEF T!RestoreAgain, T!StartOnce, T!ResetFailed
  <2> QED
    BY <1>11, <2>1, <2>2, <2>3, <2>4 DEF T!RestoreAgain, T!StartOnce
<1>12. CASE T!RestoreGivesUp
  <2>1. CASE xochitl.state = "up" /\ cmd.forced
    BY <1>12, <2>1 DEF T!RestoreGivesUp, T!ReleaseDone
  <2>2. CASE xochitl.state = "up" /\ ~cmd.forced
    BY <1>12, <2>2 DEF T!RestoreGivesUp, T!ReleaseDone
  <2>3. CASE xochitl.state # "up"
    <3>1. cmd'.pc = "idle"
      BY <1>12, <2>3 DEF T!RestoreGivesUp, T!Strand
    <3>2. taken'.gaveUp = TRUE
      BY <1>12, <2>3 DEF T!RestoreGivesUp
    <3> QED
      BY <3>1, <3>2
  <2> QED
    BY <2>1, <2>2, <2>3
<1>13. CASE T!ReleaseWake
  BY <1>13 DEF T!ReleaseWake
<1>14. CASE T!Disarm
  BY <1>14 DEF T!Disarm
<1>15. CASE T!Verify
  BY <1>15 DEF T!Verify, T!Verdict, T!Regressed
<1>16. CASE T!ChildOpens
  BY <1>16 DEF T!ChildOpens, T!Panel
<1>17. CASE T!ChildEnds
  BY <1>17 DEF T!ChildEnds
<1>18. CASE T!ChildHangs
  BY <1>18 DEF T!ChildHangs
<1>19. CASE T!StockClaims
  BY <1>19 DEF T!StockClaims, T!StockStart, T!Panel, T!START_LIMIT_BURST
<1>20. CASE T!WindowMoves
  BY <1>20 DEF T!WindowMoves
<1>21. CASE T!Kill
  BY <1>21 DEF T!Kill
<1>22. CASE T!WatchdogFires
  BY <1>22, Unlocks DEF T!WatchdogFires
<1>23. CASE T!StrayFires
  BY <1>23, Unlocks DEF T!StrayFires
<1>24. CASE T!RestoreErrs
  BY <1>24 DEF T!RestoreErrs, T!Strand, T!DropWatchdog, T!ResetFailed
<1> QED
  BY <1>1, <1>2, <1>3, <1>4, <1>5, <1>6, <1>7, <1>8, <1>9, <1>10, <1>11, <1>12, <1>13, <1>14, <1>15, <1>16, <1>17, <1>18, <1>19, <1>20, <1>21, <1>22, <1>23, <1>24
     DEF T!TakeoverNext, T!CommandStep, T!ChildStep

LEMMA OwnerStep ==
    ASSUME TakeoverTypes, OwnerInv, T!TakeoverNext
    PROVE  OwnerInv'
<1> USE DEF TakeoverTypes, Unit, Names, Command, Dogs, Taken, T!NoFault, T!Fault, T!Goto,
      OwnerInv, Ends, T!PanelHasOneOwner, T!ChildLives
<1>1. CASE T!Gate
  BY <1>1 DEF T!Gate, T!Idle, T!AllowsTakeover, T!START_LIMIT_BURST, T!Panel
<1>2. CASE T!CaptureLocks
  BY <1>2 DEF T!CaptureLocks, T!Refuse
<1>3. CASE T!AcquireWake
  BY <1>3 DEF T!AcquireWake, T!Refuse
<1>4. CASE T!ArmWatchdog
  BY <1>4 DEF T!ArmWatchdog, T!Refuse
<1>5. CASE T!StopStock
  BY <1>5 DEF T!StopStock, T!Refuse, T!AllowsSession, T!START_BUDGET
<1>6. CASE T!SpawnPresenter
  BY <1>6 DEF T!SpawnPresenter
<1>7. CASE T!Reap
  BY <1>7 DEF T!Reap
<1>8. CASE T!RestoreLocks
  <2>1. CASE T!Goto("settle") /\ UNCHANGED taken
    BY <1>8, <2>1 DEF T!RestoreLocks
  <2>2. CASE cmd' = [cmd EXCEPT !.pc = "restore", !.forced = TRUE] /\ T!Fault
    BY <1>8, <2>2 DEF T!RestoreLocks
  <2> QED
    BY <1>8, <2>1, <2>2 DEF T!RestoreLocks
<1>9. CASE T!Settle
  BY <1>9 DEF T!Settle
<1>10. CASE T!Restore
  <2>1. CASE xochitl.state = "up" /\ cmd.forced
    BY <1>10, <2>1 DEF T!Restore, T!ReleaseDone
  <2>2. CASE xochitl.state = "up" /\ ~cmd.forced
    BY <1>10, <2>2 DEF T!Restore, T!ReleaseDone
  <2>3. CASE xochitl.state # "up" /\ xochitl' = T!Started(T!ResetFailed(xochitl)) /\ UNCHANGED taken
    BY <1>10, <2>3 DEF T!Restore, T!StartOnce, T!Started, T!ResetFailed
  <2>4. CASE xochitl.state # "up" /\ xochitl' \in {xochitl, T!ResetFailed(xochitl)} /\ T!Fault
    BY <1>10, <2>4 DEF T!Restore, T!StartOnce, T!ResetFailed
  <2> QED
    BY <1>10, <2>1, <2>2, <2>3, <2>4 DEF T!Restore, T!StartOnce
<1>11. CASE T!RestoreAgain
  <2>1. CASE xochitl.state = "up" /\ cmd.forced
    BY <1>11, <2>1 DEF T!RestoreAgain, T!ReleaseDone
  <2>2. CASE xochitl.state = "up" /\ ~cmd.forced
    BY <1>11, <2>2 DEF T!RestoreAgain, T!ReleaseDone
  <2>3. CASE xochitl.state # "up" /\ xochitl' = T!Started(T!ResetFailed(xochitl)) /\ UNCHANGED taken
    BY <1>11, <2>3 DEF T!RestoreAgain, T!StartOnce, T!Started, T!ResetFailed
  <2>4. CASE xochitl.state # "up" /\ xochitl' \in {xochitl, T!ResetFailed(xochitl)} /\ T!Fault
    BY <1>11, <2>4 DEF T!RestoreAgain, T!StartOnce, T!ResetFailed
  <2> QED
    BY <1>11, <2>1, <2>2, <2>3, <2>4 DEF T!RestoreAgain, T!StartOnce
<1>12. CASE T!RestoreGivesUp
  <2>1. CASE xochitl.state = "up" /\ cmd.forced
    BY <1>12, <2>1 DEF T!RestoreGivesUp, T!ReleaseDone
  <2>2. CASE xochitl.state = "up" /\ ~cmd.forced
    BY <1>12, <2>2 DEF T!RestoreGivesUp, T!ReleaseDone
  <2>3. CASE xochitl.state # "up"
    BY <1>12, <2>3 DEF T!RestoreGivesUp, T!Strand, T!DropWatchdog
  <2> QED
    BY <2>1, <2>2, <2>3
<1>13. CASE T!ReleaseWake
  BY <1>13 DEF T!ReleaseWake
<1>14. CASE T!Disarm
  BY <1>14 DEF T!Disarm
<1>15. CASE T!Verify
  BY <1>15 DEF T!Verify, T!Verdict, T!Regressed
<1>16. CASE T!ChildOpens
  BY <1>16 DEF T!ChildOpens, T!Panel
<1>17. CASE T!ChildEnds
  BY <1>17 DEF T!ChildEnds
<1>18. CASE T!ChildHangs
  BY <1>18 DEF T!ChildHangs
<1>19. CASE T!StockClaims
  BY <1>19 DEF T!StockClaims, T!StockStart, T!Panel, T!START_LIMIT_BURST
<1>20. CASE T!WindowMoves
  BY <1>20 DEF T!WindowMoves
<1>21. CASE T!Kill
  BY <1>21 DEF T!Kill
<1>22. CASE T!WatchdogFires
  BY <1>22 DEF T!WatchdogFires, T!Guardian, T!Started, T!ResetFailed
<1>23. CASE T!StrayFires
  BY <1>23 DEF T!StrayFires, T!Guardian, T!Started, T!ResetFailed
<1>24. CASE T!RestoreErrs
  BY <1>24 DEF T!RestoreErrs, T!Strand, T!DropWatchdog, T!ResetFailed
<1> QED
  BY <1>1, <1>2, <1>3, <1>4, <1>5, <1>6, <1>7, <1>8, <1>9, <1>10, <1>11, <1>12, <1>13, <1>14, <1>15, <1>16, <1>17, <1>18, <1>19, <1>20, <1>21, <1>22, <1>23, <1>24
     DEF T!TakeoverNext, T!CommandStep, T!ChildStep

LEMMA SuccessStep ==
    ASSUME TakeoverTypes, WakeInv, OwnerInv, SuccessInv, T!TakeoverNext
    PROVE  SuccessInv'
<1> USE DEF TakeoverTypes, Unit, Names, Command, Dogs, Taken, T!NoFault, T!Fault, T!Goto,
      WakeInv, OwnerInv, SuccessInv, Ends, T!SuccessIsWhole, T!PanelHasOneOwner, T!ChildLives
<1>1. CASE T!Gate
  BY <1>1 DEF T!Gate, T!Idle, T!AllowsTakeover, T!START_LIMIT_BURST, T!Panel
<1>2. CASE T!CaptureLocks
  BY <1>2 DEF T!CaptureLocks, T!Refuse
<1>3. CASE T!AcquireWake
  BY <1>3 DEF T!AcquireWake, T!Refuse
<1>4. CASE T!ArmWatchdog
  BY <1>4 DEF T!ArmWatchdog, T!Refuse
<1>5. CASE T!StopStock
  BY <1>5 DEF T!StopStock, T!Refuse, T!AllowsSession, T!START_BUDGET
<1>6. CASE T!SpawnPresenter
  BY <1>6 DEF T!SpawnPresenter
<1>7. CASE T!Reap
  BY <1>7 DEF T!Reap
<1>8. CASE T!RestoreLocks
  <2>1. CASE T!Goto("settle") /\ UNCHANGED taken
    BY <1>8, <2>1 DEF T!RestoreLocks
  <2>2. CASE cmd' = [cmd EXCEPT !.pc = "restore", !.forced = TRUE] /\ T!Fault
    BY <1>8, <2>2 DEF T!RestoreLocks
  <2> QED
    BY <1>8, <2>1, <2>2 DEF T!RestoreLocks
<1>9. CASE T!Settle
  BY <1>9 DEF T!Settle
<1>10. CASE T!Restore
  <2>1. CASE xochitl.state = "up" /\ cmd.forced
    BY <1>10, <2>1 DEF T!Restore, T!ReleaseDone
  <2>2. CASE xochitl.state = "up" /\ ~cmd.forced
    BY <1>10, <2>2 DEF T!Restore, T!ReleaseDone
  <2>3. CASE xochitl.state # "up" /\ xochitl' = T!Started(T!ResetFailed(xochitl)) /\ UNCHANGED taken
    BY <1>10, <2>3 DEF T!Restore, T!StartOnce, T!Started, T!ResetFailed
  <2>4. CASE xochitl.state # "up" /\ xochitl' \in {xochitl, T!ResetFailed(xochitl)} /\ T!Fault
    BY <1>10, <2>4 DEF T!Restore, T!StartOnce, T!ResetFailed
  <2> QED
    BY <1>10, <2>1, <2>2, <2>3, <2>4 DEF T!Restore, T!StartOnce
<1>11. CASE T!RestoreAgain
  <2>1. CASE xochitl.state = "up" /\ cmd.forced
    BY <1>11, <2>1 DEF T!RestoreAgain, T!ReleaseDone
  <2>2. CASE xochitl.state = "up" /\ ~cmd.forced
    BY <1>11, <2>2 DEF T!RestoreAgain, T!ReleaseDone
  <2>3. CASE xochitl.state # "up" /\ xochitl' = T!Started(T!ResetFailed(xochitl)) /\ UNCHANGED taken
    BY <1>11, <2>3 DEF T!RestoreAgain, T!StartOnce, T!Started, T!ResetFailed
  <2>4. CASE xochitl.state # "up" /\ xochitl' \in {xochitl, T!ResetFailed(xochitl)} /\ T!Fault
    BY <1>11, <2>4 DEF T!RestoreAgain, T!StartOnce, T!ResetFailed
  <2> QED
    BY <1>11, <2>1, <2>2, <2>3, <2>4 DEF T!RestoreAgain, T!StartOnce
<1>12. CASE T!RestoreGivesUp
  <2>1. CASE xochitl.state = "up" /\ cmd.forced
    BY <1>12, <2>1 DEF T!RestoreGivesUp, T!ReleaseDone
  <2>2. CASE xochitl.state = "up" /\ ~cmd.forced
    BY <1>12, <2>2 DEF T!RestoreGivesUp, T!ReleaseDone
  <2>3. CASE xochitl.state # "up"
    BY <1>12, <2>3 DEF T!RestoreGivesUp, T!Strand, T!DropWatchdog
  <2> QED
    BY <2>1, <2>2, <2>3
<1>13. CASE T!ReleaseWake
  BY <1>13 DEF T!ReleaseWake
<1>14. CASE T!Disarm
  BY <1>14 DEF T!Disarm
<1>15. CASE T!Verify
  <2>1. /\ cmd.pc = "verify"
        /\ cmd' = [cmd EXCEPT !.pc = "idle", !.report = T!Verdict]
        /\ UNCHANGED <<xochitl, awake, dog, taken>>
    BY <1>15 DEF T!Verify
  <2>2. cmd'.report = T!Verdict /\ cmd'.record = cmd.record /\ cmd'.kind = cmd.kind
    BY <2>1
  <2>3. T!Verdict = "ok" =>
           /\ cmd.record = "sent" \/ (cmd.kind = "run" /\ cmd.record = "other")
           /\ xochitl.state = "up"
    BY DEF T!Verdict, T!Regressed
  <2> QED
    BY <2>1, <2>2, <2>3
<1>16. CASE T!ChildOpens
  BY <1>16 DEF T!ChildOpens, T!Panel
<1>17. CASE T!ChildEnds
  BY <1>17 DEF T!ChildEnds
<1>18. CASE T!ChildHangs
  BY <1>18 DEF T!ChildHangs
<1>19. CASE T!StockClaims
  BY <1>19 DEF T!StockClaims, T!StockStart, T!Panel, T!START_LIMIT_BURST
<1>20. CASE T!WindowMoves
  BY <1>20 DEF T!WindowMoves
<1>21. CASE T!Kill
  BY <1>21 DEF T!Kill
<1>22. CASE T!WatchdogFires
  BY <1>22 DEF T!WatchdogFires, T!Guardian, T!Started, T!ResetFailed
<1>23. CASE T!StrayFires
  BY <1>23 DEF T!StrayFires, T!Guardian, T!Started, T!ResetFailed
<1>24. CASE T!RestoreErrs
  BY <1>24 DEF T!RestoreErrs, T!Strand, T!DropWatchdog, T!ResetFailed
<1> QED
  BY <1>1, <1>2, <1>3, <1>4, <1>5, <1>6, <1>7, <1>8, <1>9, <1>10, <1>11, <1>12, <1>13, <1>14, <1>15, <1>16, <1>17, <1>18, <1>19, <1>20, <1>21, <1>22, <1>23, <1>24
     DEF T!TakeoverNext, T!CommandStep, T!ChildStep

-----------------------------------------------------------------------------
(* The sweep. *)

ActorPcs ==
    {"idle", "members", "term", "grace", "kill", "force", "release", "check", "walk", "locks",
     "start", "journal", "unlock", "done"}
Outcomes == {"none", "already", "failed", "not_owned", "started"}
Everybody == Pids \union Strays \union {"xochitl"}
Actor ==
    [pc : ActorPcs, source : {"cgroup", "explicit"}, wanted : SUBSET Everybody,
     seen : SUBSET Everybody, killed : SUBSET Everybody, survivors : SUBSET Everybody,
     emptied : BOOLEAN, outcome : Outcomes]

SweepTypes == alive \subseteq Everybody /\ actor \in [Restorers -> Actor]

(* The panel is free of strays from the first start of stock that found it   *)
(* so: strays never come back.  A start that did not is in the journal.      *)
PanelInv ==
    /\ stock \in {"down", "up", "dark"}
    /\ stock = "down" <=> "xochitl" \notin alive
    /\ stock = "up" => alive \cap Strays = {}
    /\ stock = "dark" => journal = TRUE
    /\ \A r \in Restorers : actor[r].pc = "journal" => journal = TRUE \/ alive \cap Strays = {}
    /\ \A r \in Restorers :
          actor[r].pc = "unlock" => alive \cap Strays = {} /\ stock # "dark"



LEMMA SweepTypesStep ==
    ASSUME SweepTypes, W!SweepNext
    PROVE  SweepTypes'
<1>1. ASSUME NEW r \in Restorers, W!SweepStep(r) PROVE SweepTypes'
  <2>0. /\ alive \subseteq Everybody
        /\ W!Members(actor[r]) \subseteq Everybody
        /\ W!DrmHolders \subseteq Everybody
        /\ alive \union {W!Xochitl} \subseteq Everybody
    BY DEF SweepTypes, Everybody, W!Members, W!CgroupMembers, W!Session, W!DrmHolders, W!Xochitl
  <2>00. ASSUME NEW pc \in ActorPcs, NEW survivors \in SUBSET Everybody,
                NEW seen \in SUBSET Everybody, NEW killed \in SUBSET Everybody
         PROVE  /\ [actor EXCEPT ![r].pc = pc] \in [Restorers -> Actor]
                /\ [actor EXCEPT ![r].pc = pc, ![r].seen = seen] \in [Restorers -> Actor]
                /\ [actor EXCEPT ![r].pc = pc, ![r].killed = killed] \in [Restorers -> Actor]
                /\ [actor EXCEPT ![r].pc = pc, ![r].survivors = survivors] \in [Restorers -> Actor]
    BY DEF SweepTypes, Actor
  <2>01. ASSUME NEW outcome \in Outcomes, NEW pc \in ActorPcs
         PROVE  [actor EXCEPT ![r].pc = pc, ![r].outcome = outcome] \in [Restorers -> Actor]
    BY DEF SweepTypes, Actor
  <2>02. ASSUME NEW b \in BOOLEAN, NEW pc \in ActorPcs
         PROVE  [actor EXCEPT ![r].pc = pc, ![r].emptied = b] \in [Restorers -> Actor]
    BY DEF SweepTypes, Actor
  <2>03. ASSUME NEW pc \in ActorPcs, NEW wanted \in SUBSET Everybody
         PROVE  [actor EXCEPT ![r].source = "explicit", ![r].wanted = wanted, ![r].pc = pc]
                    \in [Restorers -> Actor]
    <3> DEFINE to == [actor[r] EXCEPT !.source = "explicit", !.wanted = wanted, !.pc = pc]
    <3>1. to \in Actor
      BY DEF SweepTypes, Actor
    <3>2. [actor EXCEPT ![r] = to] \in [Restorers -> Actor]
      BY <3>1 DEF SweepTypes
    <3> QED
      BY <3>2
  <2> USE <2>0 DEF ActorPcs
  <2>1. CASE W!Terminate(r)
    BY <2>1, <2>00 DEF W!Terminate, W!Goes, SweepTypes
  <2>2. CASE W!RescueStarts(r)
    BY <2>2, <2>00 DEF W!RescueStarts, W!Goes, SweepTypes
  <2>3. CASE W!Read(r)
    BY <2>3, <2>00 DEF W!Read, W!AfterSweep, SweepTypes
  <2>4. CASE W!Term(r)
    BY <2>4, <2>00 DEF W!Term, W!Goes, SweepTypes
  <2>5. CASE W!Settled(r)
    BY <2>5, <2>02 DEF W!Settled, W!AfterSweep, SweepTypes
  <2>6. CASE W!GraceOver(r)
    BY <2>6, <2>00 DEF W!GraceOver, W!AfterSweep, SweepTypes
  <2>7. CASE W!Kill(r)
    <3> DEFINE killed == actor[r].killed \union (actor[r].seen \intersect alive)
    <3>1. killed \in SUBSET Everybody
      BY DEF SweepTypes, Actor
    <3>2. actor' = [actor EXCEPT ![r].pc = "force", ![r].killed = killed]
      BY <2>7 DEF W!Kill
    <3> HIDE DEF killed
    <3>3. actor' \in [Restorers -> Actor]
      BY <3>1, <3>2, <2>00
    <3> QED
      BY <2>7, <3>3 DEF W!Kill, SweepTypes
  <2>8. CASE W!ForceOver(r)
    BY <2>8, <2>00 DEF W!ForceOver, W!AfterSweep, SweepTypes
  <2>9. CASE W!ReleaseDisplay(r)
    BY <2>9, <2>00 DEF W!ReleaseDisplay, W!Goes, SweepTypes
  <2>10. CASE W!AlreadyRunning(r)
    BY <2>10, <2>01 DEF W!AlreadyRunning, Outcomes, SweepTypes
  <2>11. CASE W!StockIsDown(r)
    BY <2>11, <2>00 DEF W!StockIsDown, W!Goes, SweepTypes
  <2>12. CASE W!Walk(r)
    BY <2>12, <2>03 DEF W!Walk, SweepTypes
  <2>13. CASE W!ClearLocks(r)
    BY <2>13, <2>00 DEF W!ClearLocks, W!Goes, SweepTypes
  <2>14. CASE W!StartStock(r)
    <3>1. actor' \in [Restorers -> Actor]
      BY <2>14, <2>00 DEF W!StartStock, W!Goes
    <3>2. alive' \subseteq Everybody
      BY <2>14 DEF W!StartStock, W!ComesUp, W!Untouched, W!Xochitl, SweepTypes, Everybody
    <3> QED
      BY <3>1, <3>2 DEF SweepTypes
  <2>15. CASE W!StartFails(r)
    <3>1. actor' \in [Restorers -> Actor]
      BY <2>15, <2>01 DEF W!StartFails, Outcomes
    <3>2. alive' \subseteq Everybody
      BY <2>15 DEF W!StartFails, W!ComesUp, W!Untouched, W!Xochitl, SweepTypes, Everybody
    <3> QED
      BY <3>1, <3>2 DEF SweepTypes
  <2>16. CASE W!ReadJournal(r)
    BY <2>16, <2>01 DEF W!ReadJournal, Outcomes, SweepTypes, Actor
  <2>17. CASE W!ReleaseWakelock(r)
    BY <2>17, <2>01 DEF W!ReleaseWakelock, Outcomes, SweepTypes
  <2> QED
    BY <1>1, <2>1, <2>2, <2>3, <2>4, <2>5, <2>6, <2>7, <2>8, <2>9, <2>10, <2>11, <2>12, <2>13, <2>14, <2>15, <2>16, <2>17 DEF W!SweepStep
<1>2. CASE W!Fork
  BY <1>2 DEF W!Fork, W!Session, SweepTypes, Everybody
<1>3. CASE W!Exit
  BY <1>3 DEF W!Exit, SweepTypes
<1> QED
  BY <1>1, <1>2, <1>3 DEF W!SweepNext

LEMMA PanelStep ==
    ASSUME ProcessesAssumption, SweepTypes, PanelInv, W!SweepNext
    PROVE  PanelInv'
<1> USE ProcessesAssumption DEF ProcessesAssumption, SweepTypes, Actor, PanelInv
<1>1. ASSUME NEW r \in Restorers, W!SweepStep(r) PROVE PanelInv'
  <2>1. CASE W!Terminate(r)
    BY <2>1 DEF W!Terminate, W!Goes
  <2>2. CASE W!RescueStarts(r)
    BY <2>2 DEF W!RescueStarts, W!Goes
  <2>3. CASE W!Read(r)
    BY <2>3 DEF W!Read, W!Members, W!CgroupMembers, W!Session
  <2>4. CASE W!Term(r)
    BY <2>4 DEF W!Term, W!Goes
  <2>5. CASE W!Settled(r)
    BY <2>5 DEF W!Settled, W!AfterSweep, W!Members, W!CgroupMembers, W!Session
  <2>6. CASE W!GraceOver(r)
    BY <2>6 DEF W!GraceOver, W!Members, W!CgroupMembers, W!Session
  <2>7. CASE W!Kill(r)
    BY <2>7 DEF W!Kill, W!StockAfter, W!Xochitl
  <2>8. CASE W!ForceOver(r)
    BY <2>8 DEF W!ForceOver, W!AfterSweep, W!Members, W!CgroupMembers, W!Session
  <2>9. CASE W!ReleaseDisplay(r)
    BY <2>9 DEF W!ReleaseDisplay, W!Goes
  <2>10. CASE W!AlreadyRunning(r)
    BY <2>10 DEF W!AlreadyRunning
  <2>11. CASE W!StockIsDown(r)
    BY <2>11 DEF W!StockIsDown, W!Goes
  <2>12. CASE W!Walk(r)
    BY <2>12 DEF W!Walk, W!DrmHolders, W!Xochitl
  <2>13. CASE W!ClearLocks(r)
    BY <2>13 DEF W!ClearLocks, W!Goes
  <2>14. CASE W!StartStock(r)
    BY <2>14 DEF W!StartStock, W!ComesUp, W!Untouched, W!Goes, W!DrmHolders, W!Xochitl
  <2>15. CASE W!StartFails(r)
    BY <2>15 DEF W!StartFails, W!ComesUp, W!Untouched, W!DrmHolders, W!Xochitl
  <2>16. CASE W!ReadJournal(r)
    BY <2>16 DEF W!ReadJournal
  <2>17. CASE W!ReleaseWakelock(r)
    BY <2>17 DEF W!ReleaseWakelock
  <2> QED
    BY <1>1, <2>1, <2>2, <2>3, <2>4, <2>5, <2>6, <2>7, <2>8, <2>9, <2>10, <2>11, <2>12, <2>13, <2>14, <2>15, <2>16, <2>17 DEF W!SweepStep
<1>2. CASE W!Fork
  BY <1>2 DEF W!Fork, W!Session
<1>3. CASE W!Exit
  BY <1>3 DEF W!Exit, W!StockAfter, W!Xochitl
<1> QED
  BY <1>1, <1>2, <1>3 DEF W!SweepNext

LEMMA EmptiedStep ==
    ASSUME Layout = "unified", ProcessesAssumption, SweepTypes, W!EmptiedIsEmpty, W!SweepNext
    PROVE  W!EmptiedIsEmpty'
<1> USE ProcessesAssumption DEF ProcessesAssumption, SweepTypes, Actor, W!EmptiedIsEmpty, W!Session
<1>1. ASSUME NEW r \in Restorers, W!SweepStep(r) PROVE W!EmptiedIsEmpty'
  <2>1. CASE W!Terminate(r)
    BY <2>1 DEF W!Terminate, W!Goes
  <2>2. CASE W!RescueStarts(r)
    BY <2>2 DEF W!RescueStarts, W!Goes
  <2>3. CASE W!Read(r)
    BY <2>3 DEF W!Read, W!Members, W!CgroupMembers, W!Session
  <2>4. CASE W!Term(r)
    BY <2>4 DEF W!Term, W!Goes
  <2>5. CASE W!Settled(r)
    BY <2>5 DEF W!Settled, W!AfterSweep, W!Members, W!CgroupMembers, W!Session
  <2>6. CASE W!GraceOver(r)
    BY <2>6 DEF W!GraceOver, W!Members, W!CgroupMembers, W!Session
  <2>7. CASE W!Kill(r)
    BY <2>7 DEF W!Kill, W!StockAfter, W!Xochitl
  <2>8. CASE W!ForceOver(r)
    BY <2>8 DEF W!ForceOver, W!AfterSweep, W!Members, W!CgroupMembers, W!Session
  <2>9. CASE W!ReleaseDisplay(r)
    BY <2>9 DEF W!ReleaseDisplay, W!Goes
  <2>10. CASE W!AlreadyRunning(r)
    BY <2>10 DEF W!AlreadyRunning
  <2>11. CASE W!StockIsDown(r)
    BY <2>11 DEF W!StockIsDown, W!Goes
  <2>12. CASE W!Walk(r)
    BY <2>12 DEF W!Walk, W!DrmHolders, W!Xochitl
  <2>13. CASE W!ClearLocks(r)
    BY <2>13 DEF W!ClearLocks, W!Goes
  <2>14. CASE W!StartStock(r)
    BY <2>14 DEF W!StartStock, W!ComesUp, W!Untouched, W!Goes, W!DrmHolders, W!Xochitl
  <2>15. CASE W!StartFails(r)
    BY <2>15 DEF W!StartFails, W!ComesUp, W!Untouched, W!DrmHolders, W!Xochitl
  <2>16. CASE W!ReadJournal(r)
    BY <2>16 DEF W!ReadJournal
  <2>17. CASE W!ReleaseWakelock(r)
    BY <2>17 DEF W!ReleaseWakelock
  <2> QED
    BY <1>1, <2>1, <2>2, <2>3, <2>4, <2>5, <2>6, <2>7, <2>8, <2>9, <2>10, <2>11, <2>12, <2>13, <2>14, <2>15, <2>16, <2>17 DEF W!SweepStep
<1>2. CASE W!Fork
  BY <1>2 DEF W!Fork, W!Session
<1>3. CASE W!Exit
  BY <1>3 DEF W!Exit, W!StockAfter, W!Xochitl
<1> QED
  BY <1>1, <1>2, <1>3 DEF W!SweepNext

-----------------------------------------------------------------------------
(* Isolation. *)

PlannedUnit(g) == [grants |-> g, directives |-> X!AppService(facilities, g)]

(* What was probed is this machine's, and what was planned and reported is   *)
(* of what was probed.                                                       *)
IsolationInv ==
    /\ facilities # X!None =>
          \E s, b \in BOOLEAN : facilities = X!Probed(machine, s, b)
    /\ unit # X!None => facilities # X!None /\ \E g \in X!Grants : unit = PlannedUnit(g)
    /\ report # X!None => facilities # X!None /\ report = X!Derive(facilities)

LEMMA IsolationStep ==
    ASSUME IsolationInv, X!IsolationNext
    PROVE  IsolationInv'
<1>1. CASE X!Probe
  <2>1. unit = X!None /\ report = X!None
    BY <1>1 DEF X!Probe, IsolationInv
  <2>2. \E s, b \in BOOLEAN : facilities' = X!Probed(machine', s, b)
    BY <1>1 DEF X!Probe
  <2> QED
    BY <1>1, <2>1, <2>2 DEF X!Probe, IsolationInv
<1>2. CASE X!Plan
  BY <1>2 DEF X!Plan, IsolationInv, PlannedUnit
<1>3. CASE X!Report
  BY <1>3 DEF X!Report, IsolationInv, PlannedUnit
<1> QED
  BY <1>1, <1>2, <1>3 DEF X!IsolationNext

(* What a probe calls delegated, or has, the machine has.                    *)
LEMMA ProbedIsSo ==
    ASSUME NEW f, NEW s \in BOOLEAN, NEW b \in BOOLEAN, f = X!Probed(machine, s, b)
    PROVE  /\ f.memory = "delegated" => machine.reach["memory"] = "ours"
           /\ f.pids = "delegated" => X!OwnCgroupReadable(machine) /\ machine.reach["pids"] = "ours"
           /\ f.kill => X!OwnCgroupReadable(machine) /\ machine.kill
           /\ f.seccomp => machine.seccomp
           /\ f.bpf = "yes" => machine.bpf
<1>1. /\ f.memory = X!Controller(machine, "memory")
      /\ f.pids = X!Controller(machine, "pids")
      /\ f.kill = (X!OwnCgroupReadable(machine) /\ machine.kill)
      /\ f.seccomp = (s /\ machine.seccomp)
      /\ f.bpf = IF ~b THEN "unknown" ELSE IF machine.bpf THEN "yes" ELSE "no"
  BY DEF X!Probed
<1> QED
  BY <1>1 DEF X!Controller

LEMMA HonestIsolation == IsolationInv => X!IsolationIsHonest
<1> SUFFICES ASSUME IsolationInv PROVE X!IsolationIsHonest
  OBVIOUS
<1>1. CASE unit = X!None
  BY <1>1 DEF X!IsolationIsHonest, X!NoDecorativeDirective, X!ClaimsAreInForce, X!AlwaysBounded
<1>2. CASE unit # X!None
  <2>1. PICK g \in X!Grants : unit = PlannedUnit(g)
    BY <1>2 DEF IsolationInv
  <2>2. unit.grants = g /\ unit.directives = X!AppService(facilities, g)
    BY <2>1 DEF PlannedUnit
  <2>3. PICK s, b \in BOOLEAN : facilities = X!Probed(machine, s, b)
    BY <1>2 DEF IsolationInv
  <2>4. /\ facilities.memory = "delegated" => machine.reach["memory"] = "ours"
        /\ facilities.pids = "delegated" =>
              X!OwnCgroupReadable(machine) /\ machine.reach["pids"] = "ours"
        /\ facilities.kill => X!OwnCgroupReadable(machine) /\ machine.kill
        /\ facilities.seccomp => machine.seccomp
        /\ facilities.bpf = "yes" => machine.bpf
    BY <2>3, ProbedIsSo
  <2>5. X!NoDecorativeDirective
    <3>1. ASSUME NEW d \in X!AppService(facilities, g) PROVE X!WorksOrFilters(d)
      BY <2>4 DEF X!AppService, X!Always, X!AlwaysFiltered, X!NetworkDirectives,
         X!MemoryDirectives, X!TaskDirectives, X!SyscallDirectives, X!Effective, X!WorksOrFilters
    <3> QED
      BY <2>2, <3>1 DEF X!NoDecorativeDirective
  <2>6. X!AlwaysBounded
    BY <2>2 DEF X!AlwaysBounded, X!AppService, X!Always, X!TaskDirectives
  <2>7. X!ClaimsAreInForce
    <3> SUFFICES ASSUME report # X!None
        PROVE  /\ \A k \in DOMAIN report :
                    (report[k] = "enforced" /\ ~(k = "NetworkReach" /\ unit.grants.network)) =>
                        /\ X!Carriers(k) \ X!AlwaysFiltered /= {}
                        /\ \A d \in X!Carriers(k) : d \in unit.directives /\ X!WorksOrFilters(d)
               /\ report["TreeContainment"] = "enforced" =>
                    (X!OwnCgroupReadable(machine) /\ (machine.kill \/ machine.reach["pids"] = "ours"))
      BY <1>2 DEF X!ClaimsAreInForce
    <3>1. report = X!Derive(facilities)
      BY DEF IsolationInv
    <3>2. report["TreeContainment"] = "enforced" =>
             (X!OwnCgroupReadable(machine) /\ (machine.kill \/ machine.reach["pids"] = "ours"))
      BY <2>4, <3>1 DEF X!Derive, X!TreeFinding, X!TreeTermination, X!Verdict
    <3>3. ASSUME NEW k \in DOMAIN report, report[k] = "enforced",
                 ~(k = "NetworkReach" /\ unit.grants.network)
          PROVE  /\ X!Carriers(k) \ X!AlwaysFiltered /= {}
                 /\ X!Carriers(k) \subseteq unit.directives
      <4>1. k \in {"UserSeparation", "WritableStorage", "DeviceAccess", "MemoryBound", "TaskBound",
                  "CpuBound", "LogBound", "SyscallFilter", "MandatoryAccessControl",
                  "TreeContainment", "NetworkReach", "PrivilegeEscalation"}
        BY <3>1, <3>3 DEF X!Derive
      <4>2. CASE k \in {"UserSeparation", "DeviceAccess", "LogBound", "TreeContainment",
                       "PrivilegeEscalation"}
        BY <2>2, <4>2 DEF X!AlwaysFiltered, X!Carriers, X!AppService, X!Always
      <4>3. CASE k = "MemoryBound"
        BY <2>2, <3>1, <3>3, <4>3 DEF X!Derive, X!AlwaysFiltered, X!Carriers, X!MemoryFinding, X!Verdict,
           X!AppService, X!Always, X!MemoryDirectives
      <4>4. CASE k = "TaskBound"
        BY <2>2, <3>1, <3>3, <4>4 DEF X!Derive, X!AlwaysFiltered, X!Carriers, X!TaskFinding, X!Verdict,
           X!AppService, X!TaskDirectives
      <4>5. CASE k = "SyscallFilter"
        BY <2>2, <3>1, <3>3, <4>5 DEF X!Derive, X!AlwaysFiltered, X!Carriers, X!SyscallFinding, X!Verdict,
           X!AppService, X!SyscallDirectives
      <4>6. CASE k = "NetworkReach"
        <5>1. facilities.bpf = "yes"
          BY <3>1, <3>3, <4>6 DEF X!Derive, X!NetworkFinding
        <5> QED
          BY <2>2, <3>3, <4>6, <5>1 DEF X!AlwaysFiltered, X!Carriers, X!AppService, X!NetworkDirectives
      <4>7. CASE k \in {"WritableStorage", "CpuBound", "MandatoryAccessControl"}
        BY <3>1, <3>3, <4>7 DEF X!Derive, X!MacFinding, X!Verdict
      <4> QED
        BY <4>1, <4>2, <4>3, <4>4, <4>5, <4>6, <4>7
    <3> QED
      BY <1>2, <2>5, <3>2, <3>3 DEF X!NoDecorativeDirective
  <2> QED
    BY <2>5, <2>6, <2>7 DEF X!IsolationIsHonest
<1> QED
  BY <1>1, <1>2

-----------------------------------------------------------------------------
(* The four together: each keeps its invariant while the others rest. *)

DeviceInv == BootInv /\ TakeoverInv /\ SweepTypes /\ PanelInv /\ IsolationInv

LEMMA DeviceInit == ASSUME AttemptsAssumption, ProcessesAssumption, Init PROVE DeviceInv
<1>1. BootInv
  <2>1. B!BootInit
    BY DEF Init
  <2>2. durable \in Durable /\ rootRw \in BOOLEAN
    BY <2>1 DEF B!BootInit, B!Corrupt, B!Absent, Durable, Shipped
  <2>3. launcher \in Launcher /\ record \in Record
    BY <2>1 DEF B!BootInit, Launcher, LauncherPcs, Record
  <2>4. sess \in Session
    BY <2>1 DEF B!BootInit, B!NoSession, B!Absent, Session, Places, Shipped
  <2>5. oper \in Operator
    BY <2>1 DEF B!BootInit, Operator, OperPcs
  <2>6. CounterInv /\ GradeInv /\ ShippedInv /\ RemountInv
    BY <2>1, AttemptsAssumption DEF B!BootInit, B!NoSession, B!Corrupt, CounterInv, GradeInv,
       ShippedInv, RemountInv
  <2> QED
    BY <2>2, <2>3, <2>4, <2>5, <2>6 DEF BootInv, BootTypes
<1>2. TakeoverInv
  <2>1. T!TakeoverInit
    BY DEF Init
  <2>2. TakeoverTypes
    <3>1. PICK crashes \in 0..2 :
            xochitl = [state |-> "up", claimed |-> TRUE, restarts |-> crashes, starts |-> 0]
      BY <2>1 DEF T!TakeoverInit
    <3>2. xochitl \in Unit
      BY <3>1 DEF Unit, States
    <3>3. registry \in Names /\ cmd \in Command
      BY <2>1 DEF T!TakeoverInit, T!StockStart, T!Panel, T!Idle, Names, Owners, Command,
         CommandPcs, Reports, Children
    <3>4. awake \in BOOLEAN
      BY <2>1 DEF T!TakeoverInit
    <3>5. ledger \in Nat /\ child \in Children
      BY <2>1 DEF T!TakeoverInit, Children
    <3>6. dog \in Dogs
      BY <2>1 DEF T!TakeoverInit, Dogs
    <3>7. taken \in Taken
      BY <2>1 DEF T!TakeoverInit, Taken
    <3> QED
      BY <3>2, <3>3, <3>4, <3>5, <3>6, <3>7 DEF TakeoverTypes
  <2>3. LedgerInv /\ WakeInv /\ OwnerInv /\ SuccessInv
    BY <2>1 DEF T!TakeoverInit, T!Idle, LedgerInv, WakeInv, T!DownMeansAwake, OwnerInv, Ends,
       T!ChildLives, T!PanelHasOneOwner, SuccessInv, T!SuccessIsWhole
  <2> QED
    BY <2>2, <2>3 DEF TakeoverInv
<1>3. SweepTypes /\ PanelInv /\ W!EmptiedIsEmpty
  <2>1. W!SweepInit
    BY DEF Init
  <2>2. W!Idle \in Actor /\ W!Idle.pc = "idle" /\ ~W!Idle.emptied
    BY DEF W!Idle, Actor, ActorPcs, Outcomes, Everybody
  <2> QED
    BY <2>1, <2>2, ProcessesAssumption
       DEF W!SweepInit, SweepTypes, Everybody, PanelInv, W!EmptiedIsEmpty
<1>4. IsolationInv
  BY DEF Init, X!IsolationInit, IsolationInv
<1> QED
  BY <1>1, <1>2, <1>3, <1>4 DEF DeviceInv

LEMMA EmptiedInit == ASSUME Init PROVE W!EmptiedIsEmpty
BY DEF Init, W!SweepInit, W!Idle, W!EmptiedIsEmpty

LEMMA DeviceStep ==
    ASSUME AttemptsAssumption, ProcessesAssumption, DeviceInv, [Next]_vars
    PROVE  DeviceInv'
<1>1. BootInv'
  <2>1. CASE B!BootNext
    BY <2>1, BootStep, AttemptsAssumption DEF DeviceInv
  <2>2. CASE UNCHANGED boot
    BY <2>2 DEF DeviceInv, boot, BootInv, BootTypes, CounterInv, GradeInv, ShippedInv, RemountInv
  <2> QED
    BY <2>1, <2>2 DEF Next, vars
<1>2. TakeoverInv'
  <2>1. CASE T!TakeoverNext
    BY <2>1, TakeoverTypesStep, LedgerStep, WakeStep, OwnerStep, SuccessStep
       DEF DeviceInv, TakeoverInv
  <2>2. CASE UNCHANGED takeover
    BY <2>2 DEF DeviceInv, takeover, TakeoverInv, TakeoverTypes, LedgerInv, WakeInv, OwnerInv,
       SuccessInv, T!DownMeansAwake, T!PanelHasOneOwner, T!SuccessIsWhole, T!ChildLives
  <2> QED
    BY <2>1, <2>2 DEF Next, vars
<1>3. (SweepTypes /\ PanelInv)'
  <2>1. CASE W!SweepNext
    BY <2>1, SweepTypesStep, PanelStep, ProcessesAssumption DEF DeviceInv
  <2>2. CASE UNCHANGED sweep
    BY <2>2 DEF DeviceInv, sweep, SweepTypes, PanelInv
  <2> QED
    BY <2>1, <2>2 DEF Next, vars
<1>4. IsolationInv'
  <2>1. CASE X!IsolationNext
    BY <2>1, IsolationStep DEF DeviceInv
  <2>2. CASE UNCHANGED isolation
    BY <2>2 DEF DeviceInv, isolation, IsolationInv, PlannedUnit
  <2> QED
    BY <2>1, <2>2 DEF Next, vars
<1> QED
  BY <1>1, <1>2, <1>3, <1>4 DEF DeviceInv

LEMMA DeviceIsSound == Spec => []DeviceInv
<1>1. Init => DeviceInv
  BY DeviceInit, AttemptsAssumption, ProcessesAssumption
<1>2. DeviceInv /\ [Next]_vars => DeviceInv'
  BY DeviceStep, AttemptsAssumption, ProcessesAssumption
<1> QED
  BY <1>1, <1>2, PTL DEF Spec

-----------------------------------------------------------------------------
(* The results. *)

(* For any number of attempts the launcher is built with, and however often  *)
(* systemd may start it in a boot: with the power cut anywhere a release     *)
(* that never reaches Home is launched MAX_BOOT_ATTEMPTS times at most, the  *)
(* counter is cleared only for a Home of its own session, a session the      *)
(* launcher started runs the app of the release selected as long as none was *)
(* selected since the device booted, and the root filesystem goes back       *)
(* read-only but for a remount that failed (paperclip-launcher.rs,           *)
(* counter.rs, autostart.rs, install.rs).  The session an upgrade brings up  *)
(* is left out: it runs the copies made at the last boot.                    *)
THEOREM BootsAreBounded == Spec => []BootIsSound
<1>1. DeviceInv => BootIsSound
  BY DEF DeviceInv, BootInv, BootIsSound, CounterInv, GradeInv, ShippedInv, RemountInv,
     B!GivesUpAfterMaxAttempts, B!GradedByItsOwnSession, B!At, B!SessionRunsShippedApp,
     B!RootGoesBackReadOnly
<1> QED
  BY <1>1, DeviceIsSound, PTL

(* For any number of commands, kills and faults: the starts on record stay   *)
(* within the unit's limit; stock is not down with the device free to        *)
(* suspend, unless a restore was given up or the guardian's start came to    *)
(* nothing; the panel has one owner and a reported success is whole, unless  *)
(* a stray guardian fired beneath the session (takeover.rs acquire and       *)
(* release_inner, stock.rs, hold.rs).                                        *)
THEOREM TakeoversAreSafe == Spec => []TakeoverIsSafe
<1>1. DeviceInv => TakeoverIsSafe
  BY DEF DeviceInv, TakeoverInv, TakeoverIsSafe, LedgerInv, T!StartsWithinLimit,
     T!START_LIMIT_BURST, WakeInv, OwnerInv, SuccessInv
<1> QED
  BY <1>1, DeviceIsSound, PTL

(* For any number of restorers, processes and strays: a restore that worked  *)
(* lets the wakelock go only over a stock that owns the panel; and where the *)
(* unified hierarchy is mounted alone, so that a tree can be read, a tree    *)
(* reported empty is empty and stays so (process.rs terminate, recovery.rs). *)
THEOREM SweepsTellTheTruth == Layout = "unified" => (Spec => []SweepTellsTheTruth)
<1> SUFFICES ASSUME Layout = "unified" PROVE Spec => []SweepTellsTheTruth
  OBVIOUS
<1> DEFINE Inv == DeviceInv /\ W!EmptiedIsEmpty
<1>1. Init => Inv
  BY DeviceInit, EmptiedInit, AttemptsAssumption, ProcessesAssumption
<1>2. Inv /\ [Next]_vars => Inv'
  <2> SUFFICES ASSUME Inv, [Next]_vars PROVE Inv'
    OBVIOUS
  <2>1. DeviceInv'
    BY DeviceStep, AttemptsAssumption, ProcessesAssumption
  <2>2. CASE W!SweepNext
    BY <2>1, <2>2, EmptiedStep, ProcessesAssumption DEF DeviceInv
  <2>3. CASE UNCHANGED sweep
    BY <2>1, <2>3 DEF sweep, W!EmptiedIsEmpty, W!Session
  <2> QED
    BY <2>2, <2>3 DEF Next, vars
<1>3. Inv => SweepTellsTheTruth
  BY DEF DeviceInv, PanelInv, SweepTellsTheTruth, W!SweepTellsTheTruth, W!StartedOwnsThePanel
<1> QED
  BY <1>1, <1>2, <1>3, PTL DEF Spec

(* On every machine a session can meet: no directive of a unit is accepted   *)
(* and ignored there, what the report calls enforced is carried by           *)
(* directives in force, memory and tasks are bounded (probe.rs, units.rs,    *)
(* report.rs).  The two filters that are written whatever was probed are the *)
(* exception: without seccomp they do nothing, and the claim of no privilege *)
(* escalation rests on the other two directives that carry it.               *)
THEOREM IsolationTellsTheTruth == Spec => []IsolationIsHonest
<1>1. DeviceInv => IsolationIsHonest
  BY HonestIsolation DEF DeviceInv, IsolationIsHonest
<1> QED
  BY <1>1, DeviceIsSound, PTL

=============================================================================
