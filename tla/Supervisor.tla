----------------------------- MODULE Supervisor -----------------------------
(***************************************************************************)
(* The host supervisor: the foreground state machine of host/src/state.rs, *)
(* the runtime loop that feeds it (host/src/linux/runtime.rs), the stock   *)
(* restore it shares with the OnFailure= restore unit                      *)
(* (host/src/linux/recovery.rs, device/src/stock.rs), and the systemd units*)
(* of host/src/units.rs as far as their directives decide anything.        *)
(*                                                                         *)
(* A pass of the loop collects events at one instant and handles them one  *)
(* by one; every systemctl call, wait and side effect of handling is an    *)
(* action of its own, and units, the restore unit, people and time move in *)
(* between.  The states Home and App are one here, "foreground": which it  *)
(* is follows from the owner.                                              *)
(***************************************************************************)
EXTENDS Naturals, Sequences

CONSTANTS
    Apps,               \* the foreground owners other than stock, Home among them
    None,               \* an absent Option
    RestoreAttempts,    \* FailurePolicy::restore_attempts
    SessionFailures,    \* FailurePolicy::session_failures
    StartBudget,        \* device::stock::START_BUDGET
    RestoreBurst,       \* StartLimitBurst= of the restore unit
    MaxCommands,        \* bound on the commands written to the command file
    MaxFaults,          \* bound on crashes, hangs, kills and refused starts
    Faults              \* which of "app", "hang", "compositor", "refuse", "kill" happen

Stock == "stock"
Owners == Apps \cup {Stock}

ASSUME ConstantsAssumption ==
    /\ None \notin Owners /\ Stock \notin Apps
    /\ RestoreAttempts \in Nat \ {0} /\ SessionFailures \in Nat \ {0}
    /\ StartBudget \in Nat /\ RestoreBurst \in Nat
    /\ MaxCommands \in Nat /\ MaxFaults \in Nat
    /\ Faults \subseteq {"app", "hang", "compositor", "refuse", "kill"}

VARIABLES
    state, foreground,  \* Machine
    pending,            \* Machine: the switch that has begun, or None
    recovery,           \* Machine: the restore that is awaited, or None
    failures, spent,    \* Machine: the ledger, and whether it stopped relaunches
    host,               \* the supervisor process
    phase,              \* whether the loop is about to collect or is handling
    queued, events,     \* events for the next pass, and what is left of this one
    todo,               \* what is left of handling the current event
    unit, incoming,     \* Supervisor::session_unit (its owner) and ::incoming
    stock,              \* the stock unit
    target, comp,       \* whether the session target and the compositor are active
    shown,              \* whether the compositor's status file names a client
    apps,               \* the app units
    command, stop,      \* the command file and the stop file
    rescue, onfail,     \* the restore unit's next step, and whether OnFailure= asked for it
    rescues, recent,    \* starts of the restore unit and of stock in their windows
    commands, faults    \* how many commands and faults there have been

machine == <<state, foreground, pending, recovery, failures, spent>>
loop    == <<host, phase, queued, events, todo, unit, incoming>>
world   == <<stock, target, comp, shown, apps>>
control == <<command, stop, commands>>
restore == <<rescue, onfail, rescues>>
vars    == <<machine, loop, world, control, restore, recent, faults>>

Pending == [target : Owners, process_ready : BOOLEAN, display_owned : BOOLEAN,
            stock_running : BOOLEAN, display_released : BOOLEAN, late : BOOLEAN]

NewPending(to) == [target |-> to, process_ready |-> FALSE, display_owned |-> FALSE,
                   stock_running |-> FALSE, display_released |-> FALSE, late |-> FALSE]

Recovery == [attempt : Nat, late : BOOLEAN]

Kinds == {"tick", "switch", "ready", "owned", "released", "stock", "clean", "failed",
          "stalled", "lost", "restore_failed"}
Event(kind, owner) == [kind |-> kind, owner |-> owner]
Events == {e \in [kind : Kinds, owner : Owners \cup {None}] : e.kind = "switch" => e.owner \in Owners}

Restores == {"check", "start1", "wait1", "start2", "wait2"}
Steps == {"terminate", "release_session", "stop_comp", "begin", "start_target", "start_comp",
          "start_app", "halt"} \cup Restores

TypeOK ==
    /\ state \in {"stock", "switching", "foreground", "recovering", "failed"}
    /\ foreground \in Owners
    /\ pending \in Pending \cup {None} /\ recovery \in Recovery \cup {None}
    /\ failures \in Nat /\ spent \in BOOLEAN
    /\ host \in {"running", "exited", "killed"} /\ phase \in {"collect", "handle"}
    /\ queued \in Seq(Events) /\ events \in Seq(Events) /\ todo \in Seq(Steps)
    /\ unit \in Apps \cup {None} /\ incoming \in Owners \cup {None}
    /\ stock \in {"down", "starting", "up", "dark"}
    /\ target \in BOOLEAN /\ comp \in BOOLEAN /\ shown \in BOOLEAN
    /\ apps \in [Apps -> {"off", "on", "hung", "dead"}]
    /\ command \in Owners \cup {None} /\ stop \in BOOLEAN
    /\ rescue \in Restores \cup {"idle"} /\ onfail \in BOOLEAN
    /\ rescues \in Nat /\ recent \in Nat /\ commands \in Nat /\ faults \in Nat

(* Machine::new, with stock running: what a start of the supervisor finds. *)
Init ==
    /\ state = "stock" /\ foreground = Stock
    /\ pending = None /\ recovery = None
    /\ failures = 0 /\ spent = FALSE
    /\ host = "running" /\ phase = "collect"
    /\ queued = <<>> /\ events = <<>> /\ todo = <<>>
    /\ unit = None /\ incoming = None
    /\ stock = "up" /\ target = FALSE /\ comp = FALSE /\ shown = FALSE
    /\ apps = [a \in Apps |-> "off"]
    /\ command = None /\ stop = FALSE
    /\ rescue = "idle" /\ onfail = FALSE /\ rescues = 0 /\ recent = 0
    /\ commands = 0 /\ faults = 0

-----------------------------------------------------------------------------
(* The units. *)

Active(a) == apps[a] \in {"on", "hung"}
StockActive == stock \in {"up", "dark"}

(* What a stop leaves of a unit: an app that does not handle SIGTERM counts   *)
(* as killed by a signal, and one that hangs is killed when the stop times    *)
(* out, which fails its unit.                                                 *)
Left(a, stopped) == IF apps[a] = "hung" THEN "dead" ELSE IF Active(a) THEN stopped ELSE apps[a]

(* Stopping the target stops what is PartOf= it. *)
StopTarget ==
    IF target
    THEN /\ target' = FALSE /\ comp' = FALSE
         /\ \E stopped \in {"off", "dead"} : apps' = [a \in Apps |-> Left(a, stopped)]
    ELSE UNCHANGED <<target, comp, apps>>

StopFailsAUnit == target /\ \E a \in Apps : apps[a] = "hung"

(* systemctl start of stock: the target Conflicts= it, so that stops first.   *)
StartStock ==
    /\ StopTarget
    /\ stock' = IF stock = "down" THEN "starting" ELSE stock
    /\ UNCHANGED shown

(* systemctl start of the target: stock and the restore unit conflict with it.*)
StartTarget ==
    /\ target' = TRUE
    /\ stock' = IF target THEN stock ELSE "down"
    /\ rescue' = IF target THEN rescue ELSE "idle"
    /\ UNCHANGED <<comp, shown, apps>>

-----------------------------------------------------------------------------
(* One pass of Supervisor::run. *)

owner == IF state = "switching" /\ incoming /= None THEN incoming ELSE foreground

CommandEvents == IF command = None THEN <<>> ELSE <<Event("switch", command)>>

(* What the session's unit and the compositor's status file say. *)
SessionEvents ==
    IF unit = None THEN <<>>
    ELSE IF Active(unit)
         THEN IF state /= "foreground"
              THEN <<Event("ready", owner)>> \o (IF shown THEN <<Event("owned", owner)>> ELSE <<>>)
              ELSE IF ~shown THEN <<Event("lost", None)>>
              ELSE IF apps[unit] = "hung" THEN <<Event("stalled", owner)>> ELSE <<>>
         ELSE IF state \in {"foreground", "switching"}
              THEN <<Event(IF apps[unit] = "off" THEN "clean" ELSE "failed", owner)>>
              ELSE <<>>

StockEvents == IF state = "switching" /\ foreground /= Stock /\ StockActive
               THEN <<Event("stock", None)>> ELSE <<>>

(* Supervisor::collect: what was queued comes first, then the clock. *)
Collect ==
    /\ host = "running" /\ phase = "collect"
    /\ events' = queued \o <<Event("tick", None)>> \o CommandEvents
                        \o SessionEvents \o StockEvents
    /\ queued' = <<>> /\ command' = None /\ phase' = "handle"
    /\ UNCHANGED <<machine, host, todo, unit, incoming, world, stop, commands,
                   restore, recent, faults>>

(* The pass is over; a requested stop is honoured at stock. *)
EndPass ==
    /\ host = "running" /\ phase = "handle" /\ events = <<>> /\ todo = <<>>
    /\ IF stop /\ state = "stock"
       THEN host' = "exited" /\ UNCHANGED phase
       ELSE phase' = "collect" /\ UNCHANGED host
    /\ UNCHANGED <<machine, queued, events, todo, unit, incoming, world, control,
                   restore, recent, faults>>

-----------------------------------------------------------------------------
(* Machine::handle, one action per event.  Each leaves in todo what the       *)
(* runtime is to do.                                                          *)

Handles(kinds) ==
    /\ host = "running" /\ phase = "handle" /\ todo = <<>> /\ events /= <<>>
    /\ Head(events).kind \in kinds
    /\ events' = Tail(events)
    /\ UNCHANGED <<host, phase, queued, unit, incoming, world, control, restore,
                   recent, faults>>

Ignore == UNCHANGED machine /\ todo' = <<>>

StartForeground(to) == IF to = Stock THEN <<"release_session", "stop_comp", "check">>
                       ELSE <<"begin", "start_target", "start_comp", "start_app">>

(* Mutant of BeginSwitch: a spent budget is recorded and not obeyed. *)
BeginSwitchUnbudgeted(to) ==
    IF state = "recovering" \/ (foreground = to /\ pending = None)
    THEN Ignore
    ELSE /\ pending' = NewPending(to)
         /\ state' = "switching"
         /\ todo' = (IF state = "foreground" THEN <<"terminate">> ELSE <<>>)
                    \o StartForeground(to)
         /\ UNCHANGED <<foreground, recovery, failures, spent>>

(* begin_switch *)
BeginSwitch(to) ==
    IF \/ state = "recovering"
       \/ to /= Stock /\ spent
       \/ foreground = to /\ pending = None
    THEN Ignore
    ELSE /\ pending' = NewPending(to)
         /\ state' = "switching"
         /\ todo' = (IF state = "foreground" THEN <<"terminate">> ELSE <<>>)
                    \o StartForeground(to)
         /\ UNCHANGED <<foreground, recovery, failures, spent>>

(* enter_recovery, but for the ledger. *)
EnterRecovery ==
    IF state = "recovering"
    THEN UNCHANGED <<state, pending, recovery>> /\ todo' = <<>>
    ELSE /\ state' = "recovering"
         /\ pending' = None
         /\ recovery' = [attempt |-> 1, late |-> FALSE]
         /\ todo' = <<"terminate", "check">>

Arrived(p) == IF p.target = Stock THEN p.stock_running /\ p.display_released
              ELSE p.process_ready /\ p.display_owned

(* observe and settle: the switch is over when everything it promised was seen. *)
Observe(p) ==
    /\ IF Arrived(p)
       THEN /\ foreground' = p.target /\ pending' = None
            /\ state' = IF p.target = Stock THEN "stock" ELSE "foreground"
            /\ failures' = IF p.target = Stock THEN 0 ELSE failures
       ELSE pending' = p /\ UNCHANGED <<foreground, state, failures>>
    /\ todo' = <<>>
    /\ UNCHANGED <<recovery, spent>>

SwitchRequested == Handles({"switch"}) /\ BeginSwitch(Head(events).owner)

ProcessReady ==
    /\ Handles({"ready"})
    /\ IF pending /= None
       THEN Observe([pending EXCEPT !.process_ready = @ \/ pending.target = Head(events).owner])
       ELSE Ignore

DisplayOwned ==
    /\ Handles({"owned"})
    /\ IF pending /= None
       THEN Observe([pending EXCEPT !.display_owned = @ \/ pending.target = Head(events).owner])
       ELSE Ignore

DisplayReleased ==
    /\ Handles({"released"})
    /\ IF pending /= None THEN Observe([pending EXCEPT !.display_released = TRUE]) ELSE Ignore

StockRunning ==
    /\ Handles({"stock"})
    /\ IF state = "recovering"
       THEN /\ state' = "stock" /\ foreground' = Stock
            /\ pending' = None /\ recovery' = None
            /\ todo' = <<>> /\ UNCHANGED <<failures, spent>>
       ELSE IF pending /= None THEN Observe([pending EXCEPT !.stock_running = TRUE]) ELSE Ignore

Ours(o) == o /= Stock /\ (foreground = o \/ (pending /= None /\ pending.target = o))

(* A clean exit is a request to go back to stock. *)
SessionExitedClean ==
    /\ Handles({"clean"})
    /\ IF Ours(Head(events).owner) THEN BeginSwitch(Stock) ELSE Ignore

(* A failure is counted, together with those still inside the window. *)
SessionExitedFailed ==
    /\ Handles({"failed"})
    /\ IF Ours(Head(events).owner)
       THEN \E n \in 1 .. failures + 1 :
              /\ failures' = n
              /\ spent' = (spent \/ n >= SessionFailures)
              /\ EnterRecovery /\ UNCHANGED foreground
       ELSE Ignore

ProgressStalled ==
    /\ Handles({"stalled"})
    /\ IF foreground = Head(events).owner /\ state = "foreground"
       THEN EnterRecovery /\ UNCHANGED <<foreground, failures, spent>>
       ELSE Ignore

DisplayHostLost ==
    /\ Handles({"lost"})
    /\ IF state /= "stock"
       THEN EnterRecovery /\ UNCHANGED <<foreground, failures, spent>>
       ELSE Ignore

(* restore_failed: another attempt, or the end. *)
RestoreFails ==
    LET attempt == IF recovery = None THEN 1 ELSE recovery.attempt
    IN  IF attempt >= RestoreAttempts
        THEN /\ state' = "failed" /\ pending' = None /\ recovery' = None
             /\ todo' = <<"halt">>
             /\ UNCHANGED <<foreground, failures, spent>>
        ELSE /\ recovery' = [attempt |-> attempt + 1, late |-> FALSE]
             /\ todo' = <<"check">>
             /\ UNCHANGED <<state, foreground, pending, failures, spent>>

RestoreFailed == Handles({"restore_failed"}) /\ RestoreFails

(* Mutant of Tick: only a restore has a deadline. *)
TickRestoreOnly ==
    /\ Handles({"tick"})
    /\ IF recovery /= None /\ recovery.late THEN RestoreFails ELSE Ignore

Tick ==
    /\ Handles({"tick"})
    /\ IF pending /= None /\ pending.late
       THEN EnterRecovery /\ UNCHANGED <<foreground, failures, spent>>
       ELSE IF recovery /= None /\ recovery.late THEN RestoreFails ELSE Ignore

-----------------------------------------------------------------------------
(* Supervisor::execute, one action per call that something may interrupt. *)

Does(step) ==
    /\ host = "running" /\ todo /= <<>> /\ Head(todo) = step
    /\ UNCHANGED <<machine, host, phase, events, control>>

Done == todo' = Tail(todo) /\ UNCHANGED queued

(* What was being done is given up, and the event tells the machine why. *)
GiveUp(kind, o) == todo' = <<>> /\ queued' = Append(queued, Event(kind, o))

Refusal == "refuse" \in Faults /\ faults < MaxFaults /\ faults' = faults + 1

(* The unit is stopped and its cgroup swept; a stop that times out fails it.  *)
Terminate ==
    /\ Does("terminate")
    /\ IF unit /= None /\ Active(unit)
       THEN \E stopped \in {"off", "dead"} :
              /\ apps' = [apps EXCEPT ![unit] = Left(unit, stopped)]
              /\ onfail' = (onfail \/ apps[unit] = "hung")
       ELSE UNCHANGED <<apps, onfail>>
    /\ Done
    /\ UNCHANGED <<unit, incoming, stock, target, comp, shown, rescue, rescues, recent, faults>>

(* start_foreground(Stock), before the restore *)
ReleaseSession ==
    /\ Does("release_session")
    /\ unit' = None /\ incoming' = Stock
    /\ Done
    /\ UNCHANGED <<world, restore, recent, faults>>

StopCompositor ==
    /\ Does("stop_comp")
    /\ comp' = FALSE
    /\ Done
    /\ UNCHANGED <<unit, incoming, stock, target, shown, apps, restore, recent, faults>>

(* StartBudget::allows_session *)
BeginSession ==
    /\ Does("begin")
    /\ incoming' = pending.target
    /\ IF recent < StartBudget
       THEN unit' = pending.target /\ Done
       ELSE UNCHANGED unit /\ GiveUp("failed", pending.target)
    /\ UNCHANGED <<world, restore, recent, faults>>

StartSessionTarget ==
    /\ Does("start_target")
    /\ StartTarget /\ Done
    /\ UNCHANGED <<unit, incoming, onfail, rescues, recent, faults>>

StartCompositor ==
    /\ Does("start_comp")
    /\ comp' = TRUE
    /\ Done
    /\ UNCHANGED <<unit, incoming, stock, target, shown, apps, restore, recent, faults>>

StartApp ==
    /\ Does("start_app")
    /\ apps' = [apps EXCEPT ![unit] = IF Active(unit) THEN @ ELSE "on"]
    /\ Done
    /\ UNCHANGED <<unit, incoming, stock, target, comp, shown, restore, recent, faults>>

SystemdRefuses ==
    /\ \E step \in {"start_target", "start_comp", "start_app"} : Does(step)
    /\ Refusal
    /\ GiveUp("failed", pending.target)
    /\ UNCHANGED <<unit, incoming, world, restore, recent>>

Halt ==
    /\ host = "running" /\ todo = <<"halt">>
    /\ host' = "exited" /\ todo' = <<>>
    /\ UNCHANGED <<machine, phase, queued, events, unit, incoming, world, control,
                   restore, recent, faults>>

-----------------------------------------------------------------------------
(* StockRecovery::restore and Stock::restore, run by the supervisor ("host")  *)
(* and by the restore unit ("unit").                                          *)

At(who, step) ==
    IF who = "host" THEN host = "running" /\ todo /= <<>> /\ Head(todo) = step
    ELSE rescue = step

RestoreGoes(who, step) ==
    IF who = "host"
    THEN todo' = <<step>> \o Tail(todo) /\ UNCHANGED <<queued, rescue>>
    ELSE rescue' = step /\ UNCHANGED <<todo, queued>>

(* Supervisor::restore queues what it observed; `paperctl stock` just exits. *)
RestoreEnds(who, observed) ==
    IF who = "host"
    THEN todo' = Tail(todo) /\ queued' = queued \o observed /\ UNCHANGED rescue
    ELSE rescue' = "idle" /\ UNCHANGED <<todo, queued>>

Restored == <<Event("stock", None), Event("released", None)>>
NotRestored == <<Event("restore_failed", None)>>

RestoreUnchanged == UNCHANGED <<machine, host, phase, events, unit, incoming, control,
                                rescues>>

(* Stock runs already, or the panel's holders are reaped before it is started.*)
RestoreCheck(who) ==
    /\ At(who, "check")
    /\ IF StockActive
       THEN RestoreEnds(who, Restored) /\ UNCHANGED comp
       ELSE RestoreGoes(who, "start1") /\ comp' = FALSE
    /\ UNCHANGED <<stock, target, shown, apps, recent, faults, onfail>>
    /\ RestoreUnchanged

(* StartBudget::record; what is above the budget makes no difference. *)
RecordStart == recent' = IF recent < StartBudget THEN recent + 1 ELSE recent

(* start_once: recorded before it is asked for, and asked for only when stock *)
(* did not come up meanwhile.                                                 *)
RestoreStart(who) ==
    /\ \/ At(who, "start1") /\ ~StockActive /\ RestoreGoes(who, "wait1")
       \/ At(who, "start2") /\ RestoreGoes(who, "wait2")
    /\ RecordStart
    /\ StartStock /\ onfail' = (onfail \/ StopFailsAUnit)
    /\ UNCHANGED faults
    /\ RestoreUnchanged

(* systemctl start of stock is refused, which is not retried. *)
RestoreRefused(who) ==
    /\ (At(who, "start1") /\ ~StockActive) \/ At(who, "start2")
    /\ Refusal
    /\ RestoreEnds(who, NotRestored)
    /\ RecordStart
    /\ UNCHANGED <<world, onfail>>
    /\ RestoreUnchanged

(* Mutant of RestoreUp: a start that was accepted counts as stock running.    *)
RestoreAccepted(who) ==
    /\ At(who, "wait1") \/ At(who, "wait2")
    /\ RestoreEnds(who, Restored)
    /\ UNCHANGED <<world, recent, faults, onfail>>
    /\ RestoreUnchanged

(* Active, and the journal says whether it also has the panel. *)
RestoreUp(who) ==
    /\ At(who, "start1") \/ At(who, "wait1") \/ At(who, "wait2")
    /\ StockActive
    /\ RestoreEnds(who, IF stock = "dark" THEN NotRestored ELSE Restored)
    /\ UNCHANGED <<world, recent, faults, onfail>>
    /\ RestoreUnchanged

(* wait_active ran out: one guarded retry, then no more. *)
RestoreTimesOut(who) ==
    /\ ~StockActive
    /\ \/ At(who, "wait1") /\ RestoreGoes(who, "start2")
       \/ At(who, "wait2") /\ RestoreEnds(who, NotRestored)
    /\ UNCHANGED <<world, recent, faults, onfail>>
    /\ RestoreUnchanged

RestoreNext(who) ==
    \/ RestoreCheck(who) \/ RestoreStart(who) \/ RestoreRefused(who)
    \/ RestoreUp(who) \/ RestoreTimesOut(who)

-----------------------------------------------------------------------------
(* The machine around the supervisor. *)

hostAndMachine == <<machine, loop, control>>

(* OnFailure= starts the restore unit, within its own start limit; it         *)
(* conflicts with the session target.  A unit already starting is not started *)
(* twice.                                                                     *)
RescueStarts ==
    /\ onfail /\ onfail' = FALSE
    /\ IF rescue = "idle" /\ rescues < RestoreBurst
       THEN StopTarget /\ rescue' = "check" /\ rescues' = rescues + 1
       ELSE UNCHANGED <<target, comp, apps, rescue, rescues>>
    /\ UNCHANGED <<hostAndMachine, stock, shown, recent, faults>>

(* A start that was asked for comes to something, late or not. *)
StockAnswers ==
    /\ stock = "starting"
    /\ stock' \in {"up", "dark", "down"}
    /\ UNCHANGED <<hostAndMachine, target, comp, shown, apps, restore, recent, faults>>

(* The compositor writes its status file when a client comes or goes; nothing *)
(* does when it stops.                                                        *)
CompositorWrites ==
    /\ comp
    /\ shown' \in BOOLEAN /\ (shown' => \E a \in Apps : Active(a))
    /\ UNCHANGED <<hostAndMachine, stock, target, comp, apps, restore, recent, faults>>

Fault(kind) == kind \in Faults /\ faults < MaxFaults /\ faults' = faults + 1

AppExits(a) ==
    /\ Active(a)
    /\ apps' = [apps EXCEPT ![a] = "off"]
    /\ UNCHANGED <<hostAndMachine, stock, target, comp, shown, restore, recent, faults>>

AppCrashes(a) ==
    /\ Fault("app") /\ Active(a)
    /\ apps' = [apps EXCEPT ![a] = "dead"] /\ onfail' = TRUE
    /\ UNCHANGED <<hostAndMachine, stock, target, comp, shown, rescue, rescues, recent>>

AppHangs(a) ==
    /\ Fault("hang") /\ apps[a] = "on"
    /\ apps' = [apps EXCEPT ![a] = "hung"]
    /\ UNCHANGED <<hostAndMachine, stock, target, comp, shown, restore, recent>>

CompositorCrashes ==
    /\ Fault("compositor") /\ comp
    /\ comp' = FALSE /\ onfail' = TRUE
    /\ UNCHANGED <<hostAndMachine, stock, target, shown, apps, rescue, rescues, recent>>

HostKilled ==
    /\ Fault("kill") /\ host = "running"
    /\ host' = "killed" /\ todo' = <<>> /\ onfail' = TRUE
    /\ UNCHANGED <<machine, phase, queued, events, unit, incoming, world, control,
                   rescue, rescues, recent>>

(* Deadlines pass. *)
SwitchExpires ==
    /\ pending /= None /\ ~pending.late
    /\ pending' = [pending EXCEPT !.late = TRUE]
    /\ UNCHANGED <<state, foreground, recovery, failures, spent, loop, world, control,
                   restore, recent, faults>>

RestoreExpires ==
    /\ recovery /= None /\ ~recovery.late
    /\ recovery' = [recovery EXCEPT !.late = TRUE]
    /\ UNCHANGED <<state, foreground, pending, failures, spent, loop, world, control,
                   restore, recent, faults>>

(* Starts fall out of the ten minute windows. *)
WindowPasses ==
    /\ recent > 0 \/ rescues > 0
    /\ recent' = 0 /\ rescues' = 0
    /\ UNCHANGED <<hostAndMachine, world, rescue, onfail, faults>>

(* Somebody writes the command file. *)
WriteCommand(to) ==
    /\ host = "running" /\ commands < MaxCommands
    /\ command' = to /\ commands' = commands + 1
    /\ UNCHANGED <<machine, loop, world, stop, restore, recent, faults>>

(* SystemdSession::stand_down: the stop file, then a stop of the target. *)
RequestStop ==
    /\ host = "running" /\ ~stop
    /\ stop' = TRUE
    /\ StopTarget /\ onfail' = (onfail \/ StopFailsAUnit)
    /\ UNCHANGED <<machine, loop, stock, shown, command, commands, rescue, rescues, recent,
                   faults>>

-----------------------------------------------------------------------------
HandleNext ==
    \/ SwitchRequested \/ ProcessReady \/ DisplayOwned \/ DisplayReleased \/ StockRunning
    \/ SessionExitedClean \/ SessionExitedFailed \/ ProgressStalled \/ DisplayHostLost
    \/ RestoreFailed \/ Tick

ExecuteNext ==
    \/ Terminate \/ ReleaseSession \/ StopCompositor \/ BeginSession \/ StartSessionTarget
    \/ StartCompositor \/ StartApp \/ SystemdRefuses \/ Halt

HostNext == Collect \/ EndPass \/ HandleNext \/ ExecuteNext \/ RestoreNext("host")

WorldNext ==
    \/ RescueStarts \/ RestoreNext("unit") \/ StockAnswers \/ CompositorWrites
    \/ (\E a \in Apps : AppExits(a) \/ AppCrashes(a) \/ AppHangs(a))
    \/ CompositorCrashes \/ HostKilled \/ SwitchExpires \/ RestoreExpires \/ WindowPasses
    \/ (\E to \in Owners : WriteCommand(to)) \/ RequestStop

Next == HostNext \/ WorldNext

Spec == Init /\ [][Next]_vars

(* The loop keeps running while the process lives, and deadlines pass. *)
Fairness == WF_vars(HostNext) /\ WF_vars(SwitchExpires) /\ WF_vars(RestoreExpires)

FairSpec == Spec /\ Fairness

-----------------------------------------------------------------------------
(* Properties. *)

(* When a pass ends with the machine at stock, stock is running, or the       *)
(* failure of the restore that left it down is still to be handled: neither a *)
(* restore that timed out, a refused session nor a stale event makes the      *)
(* supervisor settle on a stock that is not there.                            *)
ToldOfFailure(s) == \E i \in DOMAIN s : s[i].kind = "restore_failed"

StockTruth ==
    host = "running" /\ phase = "collect" /\ state = "stock" =>
        StockActive \/ ToldOfFailure(queued)

(* runtime.rs, Outcome::StoppedAtStock: "It was asked to stop and stock owns  *)
(* the display."                                                              *)
StoppedAtStock == host = "exited" /\ state = "stock" => StockActive

(* "Stop retrying": once the failure budget is spent the session target is    *)
(* never started again, whatever is asked for, in this pass or later.         *)
SpentStaysAtStock == [][spent => (target' => target)]_vars

(* No switch and no recovery is stuck: each ends at an owner, at stock or     *)
(* halted.                                                                    *)
AlwaysResolves ==
    state \in {"switching", "recovering"} ~>
        (state \in {"stock", "foreground", "failed"} \/ host /= "running")

=============================================================================
