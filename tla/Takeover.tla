------------------------------ MODULE Takeover ------------------------------
(***************************************************************************)
(* Taking the display from stock and giving it back: platform/device       *)
(* takeover.rs, stock.rs, session.rs and hold.rs, as `paperctl open` and   *)
(* `paperctl run` use them.  One command at a time runs the acquire and    *)
(* release order; it may be killed between any two steps, its presenting   *)
(* child and the detached watchdog outlive it.                             *)
(***************************************************************************)
EXTENDS Naturals

CONSTANTS
    MaxSessions, \* commands issued
    MaxFaults,   \* refused system calls, failed starts, a hung child
    MaxKills     \* SIGKILLs of the command

VARIABLES
    unit,     \* xochitl.service as systemd sees it
    registry, \* who /tmp/epframebuffer.lock names: a start of stock, or ours
    awake,    \* the kernel holds our wakelock tag
    ledger,   \* starts recorded in /tmp/paperclip-xochitl-starts, still in the window
    cmd,      \* the command
    child,    \* its presenting half, a process of its own
    dog,      \* detached watchdogs: the command's, and one a killed command left
    taken     \* what the bounds count, and how a session ended badly

tvars == <<unit, registry, awake, ledger, cmd, child, dog, taken>>

START_LIMIT_BURST == 4
START_BUDGET == 3

\* Whom the registry's first line names.
StockStart(n) == [of |-> "stock", start |-> n]
Panel == [of |-> "panel", start |-> 0]

Idle == [pc |-> "idle", kind |-> "hold", before |-> 0, captured |-> Panel, forced |-> FALSE,
         record |-> "none", report |-> "none"]

TakeoverInit ==
    /\ \E crashes \in 0..2 : unit = [state |-> "up", claimed |-> TRUE, restarts |-> crashes, starts |-> 0]
    /\ registry = StockStart(0)
    /\ awake = FALSE
    /\ ledger = 0
    /\ cmd = Idle
    /\ child = "none"
    /\ dog = [mine |-> FALSE, stray |-> FALSE]
    /\ taken = [sessions |-> 0, faults |-> 0, kills |-> 0,
                beneath |-> FALSE, gaveUp |-> FALSE, spent |-> FALSE]

Fault == taken.faults < MaxFaults /\ taken' = [taken EXCEPT !.faults = @ + 1]
NoFault == UNCHANGED taken
ChildLives == child \in {"opening", "showing", "hung"}

\* Err out of acquire: what was taken so far is dropped with it.
Refuse == cmd' = [cmd EXCEPT !.pc = "idle", !.report = "refused"]
Goto(pc) == cmd' = [cmd EXCEPT !.pc = pc]

-----------------------------------------------------------------------------
\* xochitl.service and systemd

\* `systemctl start`: the unit is active as soon as its process runs.
Started(u) == [u EXCEPT !.state = "up", !.claimed = FALSE, !.starts = @ + 1]
ResetFailed(u) == [u EXCEPT !.restarts = 0, !.state = IF @ = "failed" THEN "down" ELSE @]

\* Some way into its start stock reaches checkLockFile: it takes the registry,
\* or finds a live foreign holder and aborts, and systemd restarts it until
\* the start limit.
StockClaims ==
    /\ unit.state = "up" /\ ~unit.claimed
    /\ IF registry = Panel /\ ChildLives
       THEN /\ unit' = [unit EXCEPT !.restarts = @ + 1,
                                    !.state = IF unit.restarts + 1 >= START_LIMIT_BURST THEN "failed" ELSE @]
            /\ UNCHANGED registry
       ELSE /\ unit' = [unit EXCEPT !.claimed = TRUE]
            /\ registry' = StockStart(unit.starts)
    /\ UNCHANGED <<awake, ledger, cmd, child, dog, taken>>

\* A stamp leaves the 600 s window.
WindowMoves ==
    /\ ledger > 0 /\ ledger' = ledger - 1
    /\ UNCHANGED <<unit, registry, awake, cmd, child, dog, taken>>

-----------------------------------------------------------------------------
\* Takeover::acquire

AllowsTakeover == START_LIMIT_BURST - unit.restarts > 2

\* wait_until_safe_to_stop and the caller's preflight: nothing is touched yet.
\* The rest of the health record (mounts, failed units) and a blank frame are
\* one choice.
Gate ==
    /\ cmd.pc = "idle" /\ taken.sessions < MaxSessions
    /\ ~ChildLives
    /\ taken' = [taken EXCEPT !.sessions = @ + 1]
    /\ \E kind \in {"hold", "run"}, healthy \in BOOLEAN :
          LET opened == [Idle EXCEPT !.kind = kind, !.before = unit.restarts]
          IN  cmd' = IF unit.state = "up" /\ healthy /\ AllowsTakeover
                     THEN [opened EXCEPT !.pc = "capture"]
                     ELSE [opened EXCEPT !.report = "refused"]
    /\ child' = "none"
    /\ UNCHANGED <<unit, registry, awake, ledger, dog>>

CaptureLocks ==
    /\ cmd.pc = "capture"
    /\ \/ cmd' = [cmd EXCEPT !.pc = "wake", !.captured = registry] /\ NoFault
       \/ Refuse /\ Fault
    /\ UNCHANGED <<unit, registry, awake, ledger, child, dog>>

AcquireWake ==
    /\ cmd.pc = "wake"
    /\ \/ Goto("arm") /\ awake' = TRUE /\ NoFault
       \/ Refuse /\ UNCHANGED awake /\ Fault
    /\ UNCHANGED <<unit, registry, ledger, child, dog>>

ArmWatchdogBestEffort ==
    /\ cmd.pc = "arm" /\ Goto("stop") /\ UNCHANGED awake
    /\ \/ dog' = [dog EXCEPT !.mine = TRUE] /\ NoFault
       \/ UNCHANGED dog /\ Fault
    /\ UNCHANGED <<unit, registry, ledger, child>>
ArmWatchdog ==
    /\ cmd.pc = "arm"
    /\ \/ Goto("stop") /\ dog' = [dog EXCEPT !.mine = TRUE] /\ UNCHANGED awake /\ NoFault
       \/ Refuse /\ awake' = FALSE /\ UNCHANGED dog /\ Fault
    /\ UNCHANGED <<unit, registry, ledger, child>>

AllowsSession == ledger < START_BUDGET

\* Stock::stop_for_session.  A refused stop, or a systemctl that does not run,
\* leaves the unit as it was.
StopStock ==
    /\ cmd.pc = "stop"
    /\ \/ /\ AllowsSession /\ NoFault
          /\ Goto("present")
          /\ unit' = [unit EXCEPT !.state = IF @ = "up" THEN "down" ELSE @]
          /\ UNCHANGED <<awake, dog>>
       \/ /\ \/ ~AllowsSession /\ NoFault
             \/ AllowsSession /\ Fault
          /\ Refuse
          /\ dog' = [dog EXCEPT !.mine = FALSE]
          /\ awake' = FALSE
          /\ UNCHANGED unit
    /\ UNCHANGED <<registry, ledger, child>>

-----------------------------------------------------------------------------
\* The presenting half: spawned, opens the engine, holds, clears, reports, and
\* is reaped before the parent goes on.

SpawnPresenter ==
    /\ cmd.pc = "present"
    /\ \/ Goto("wait") /\ child' = "opening" /\ NoFault
       \/ Goto("locks") /\ UNCHANGED child /\ Fault
    /\ UNCHANGED <<unit, registry, awake, ledger, dog>>

ChildOpens ==
    /\ child = "opening"
    /\ \/ child' = "showing" /\ registry' = Panel /\ NoFault
       \/ child' = "failed" /\ UNCHANGED registry /\ Fault
    /\ UNCHANGED <<unit, awake, ledger, cmd, dog>>

\* present_and_hold and PanelRecord: the frame that was sent, another frame, one
\* no engine plane came back holding, or no report at all.
ChildEnds ==
    /\ child = "showing"
    /\ \/ child' = "sent" /\ NoFault
       \/ child' \in {"other", "unheld", "failed"} /\ Fault
    /\ UNCHANGED <<unit, registry, awake, ledger, cmd, dog>>

ChildHangs ==
    /\ child = "showing" /\ child' = "hung" /\ Fault
    /\ UNCHANGED <<unit, registry, awake, ledger, cmd, dog>>

Reap ==
    /\ cmd.pc = "wait" /\ ~ChildLives
    /\ cmd' = [cmd EXCEPT !.pc = "locks", !.record = child]
    /\ UNCHANGED <<unit, registry, awake, ledger, child, dog, taken>>

-----------------------------------------------------------------------------
\* Takeover::release_inner

RestoreLocksAndSleep ==
    /\ cmd.pc = "locks" /\ Goto("settle")
    /\ registry' = cmd.captured /\ awake' = FALSE
    /\ UNCHANGED <<unit, ledger, child, dog, taken>>
RestoreLocks ==
    /\ cmd.pc = "locks"
    /\ \/ Goto("settle") /\ registry' = cmd.captured /\ NoFault
       \/ cmd' = [cmd EXCEPT !.pc = "restore", !.forced = TRUE] /\ UNCHANGED registry /\ Fault
    /\ UNCHANGED <<unit, awake, ledger, child, dog>>

\* wait_for_free_panel: the registry reads as it was captured, or five seconds pass.
Settle ==
    /\ cmd.pc = "settle"
    /\ cmd' = [cmd EXCEPT !.pc = "restore", !.forced = (registry # cmd.captured)]
    /\ UNCHANGED <<unit, registry, awake, ledger, child, dog, taken>>

\* start_once: reset-failed, record the stamp, start.  What systemctl says of
\* the first and the last is ignored: either may do nothing.
StartOnce(then) ==
    /\ ledger' = ledger + 1
    /\ Goto(then)
    /\ \/ unit' = Started(ResetFailed(unit)) /\ NoFault
       \/ unit' \in {unit, ResetFailed(unit)} /\ Fault
    /\ UNCHANGED <<registry, awake, child, dog>>

\* What the end of release does on each way out; Drop follows the errors.
ReleaseDone ==
    /\ IF cmd.forced
       THEN cmd' = [cmd EXCEPT !.pc = "idle", !.report = "unconfirmed"] /\ awake' = FALSE
            /\ dog' = [dog EXCEPT !.mine = FALSE]
       ELSE Goto("unwake") /\ UNCHANGED <<awake, dog>>
    /\ UNCHANGED <<unit, registry, ledger, child, taken>>

Restore ==
    /\ cmd.pc = "restore"
    /\ IF unit.state = "up" THEN ReleaseDone ELSE StartOnce("await1")

RestoreAgain ==
    /\ cmd.pc = "await1"
    /\ IF unit.state = "up" THEN ReleaseDone ELSE StartOnce("await2")

\* The restore failed.  The watchdog is a field of the Takeover, and dropping it
\* kills the guardian whatever release decided.
DropWatchdog == dog' = [dog EXCEPT !.mine = FALSE]
Strand ==
    /\ cmd' = [cmd EXCEPT !.pc = "idle", !.report = "stranded"]
    /\ awake' = FALSE
    /\ DropWatchdog
    /\ UNCHANGED <<registry, child>>

\* Two guarded starts did nothing.
RestoreGivesUp ==
    /\ cmd.pc = "await2"
    /\ IF unit.state = "up" THEN ReleaseDone
       ELSE Strand /\ taken' = [taken EXCEPT !.gaveUp = TRUE] /\ UNCHANGED <<unit, ledger>>

\* restore's own errors, each of which ends it: systemctl cannot be run, before
\* or after the limiter was reset, or the stamp cannot be written, which may
\* leave any part of the record (fs::write empties it first).
RestoreErrs ==
    /\ cmd.pc \in {"restore", "await1", "await2"} /\ Strand
    /\ taken.faults < MaxFaults
    /\ taken' = [taken EXCEPT !.faults = @ + 1, !.gaveUp = @ \/ unit.state # "up"]
    /\ \/ UNCHANGED <<unit, ledger>>
       \/ /\ unit.state # "up" /\ cmd.pc # "await2"
          /\ unit' \in {unit, ResetFailed(unit)} /\ ledger' \in 0..(ledger + 1)

ReleaseWake ==
    /\ cmd.pc = "unwake" /\ Goto("disarm") /\ awake' = FALSE
    /\ UNCHANGED <<unit, registry, ledger, child, dog, taken>>

Disarm ==
    /\ cmd.pc = "disarm" /\ Goto("verify") /\ dog' = [dog EXCEPT !.mine = FALSE]
    /\ UNCHANGED <<unit, registry, awake, ledger, child, taken>>

\* open_and_hold after the release: the presenter's own failure, the digests'
\* agreement (open only), the health read again, then the readback's verdict.
Regressed == unit.state # "up" \/ unit.restarts > cmd.before
Verdict ==
    IF cmd.record \in {"none", "failed"} THEN "not shown"
    ELSE IF cmd.record = "other" /\ cmd.kind = "hold" THEN "other frame"
    ELSE IF Regressed THEN "regressed"
    ELSE IF cmd.record = "unheld" THEN "not held"
    ELSE "ok"

Verify ==
    /\ cmd.pc = "verify"
    /\ cmd' = [cmd EXCEPT !.pc = "idle", !.report = Verdict]
    /\ UNCHANGED <<unit, registry, awake, ledger, child, dog, taken>>

-----------------------------------------------------------------------------
\* SIGKILL runs no Drop: the watchdog, the wakelock and the child stay.
Kill ==
    /\ cmd.pc # "idle" /\ taken.kills < MaxKills
    /\ taken' = [taken EXCEPT !.kills = @ + 1]
    /\ cmd' = [cmd EXCEPT !.pc = "idle", !.report = "killed"]
    /\ dog' = [mine |-> FALSE, stray |-> dog.stray \/ dog.mine]
    /\ UNCHANGED <<unit, registry, awake, ledger, child>>

\* The guardian's script, after the budget: reset-failed, start what is not
\* active, and unlock, whatever became of the start.  A hold's budget outlasts
\* its presenter and its release; a `run` session has no end of its own.
Guardian ==
    LET fired == [taken EXCEPT !.beneath = @ \/ cmd.pc \notin {"idle", "capture", "verify"} \/ ChildLives]
    IN  /\ awake' = FALSE
        /\ \/ /\ unit' = IF unit.state = "up" THEN ResetFailed(unit) ELSE Started(ResetFailed(unit))
              /\ taken' = fired
           \/ /\ unit.state # "up" /\ taken.faults < MaxFaults
              /\ unit' \in {unit, ResetFailed(unit)}
              /\ taken' = [fired EXCEPT !.faults = @ + 1, !.spent = TRUE]

WatchdogFires ==
    /\ dog.mine /\ (child = "hung" \/ (cmd.kind = "run" /\ cmd.pc = "wait"))
    /\ dog' = [dog EXCEPT !.mine = FALSE]
    /\ Guardian
    /\ UNCHANGED <<registry, ledger, cmd, child>>

StrayFires ==
    /\ dog.stray
    /\ child \notin {"opening", "showing"} \/ cmd.kind = "run" \/ cmd.pc # "idle"
    /\ dog' = [dog EXCEPT !.stray = FALSE]
    /\ Guardian
    /\ UNCHANGED <<registry, ledger, cmd, child>>

CommandStep ==
    \/ CaptureLocks \/ AcquireWake \/ ArmWatchdog \/ StopStock \/ SpawnPresenter \/ Reap
    \/ RestoreLocks \/ Settle \/ Restore \/ RestoreAgain \/ RestoreGivesUp \/ RestoreErrs
    \/ ReleaseWake \/ Disarm \/ Verify
ChildStep == ChildOpens \/ ChildEnds

TakeoverNext ==
    \/ Gate \/ CommandStep \/ ChildStep \/ ChildHangs \/ StockClaims \/ WindowMoves
    \/ Kill \/ WatchdogFires \/ StrayFires

TakeoverFairness ==
    /\ WF_tvars(CommandStep) /\ WF_tvars(ChildStep) /\ WF_tvars(StockClaims)
    /\ WF_tvars(WatchdogFires) /\ WF_tvars(StrayFires)

TakeoverSpec == TakeoverInit /\ [][TakeoverNext]_tvars /\ TakeoverFairness

-----------------------------------------------------------------------------
\* The start ledger never passes the unit's own start limit: a session that
\* the budget admits can still make both guarded starts (stock.rs).
StartsWithinLimit == ledger <= START_LIMIT_BURST

\* Unless a watchdog fired beneath a session, stock is never down with nothing
\* holding the wakelock, except once a restore has failed: the command's, which
\* it reports, or the guardian's, whose script unlocks whatever its start came
\* to.  A suspend in that window resumes into a second stock (takeover.rs, the
\* release order).
DownMeansAwake ==
    unit.state = "down" /\ ~taken.beneath => awake \/ taken.gaveUp \/ taken.spent

\* A command that reports success showed the frame, and left stock up, the
\* wakelock free and no guardian of its own behind (hold.rs, open.rs).
SuccessIsWhole ==
    cmd.pc = "idle" /\ cmd.report = "ok" /\ ~taken.beneath
        => /\ cmd.record = "sent" \/ (cmd.kind = "run" /\ cmd.record = "other")
           /\ unit.state = "up"
           /\ ~dog.mine /\ ~(awake /\ taken.kills = 0)

\* The panel has one owner: stock is started only once the presenting process
\* is gone (hold.rs: it "can never successfully start Xochitl" while it lives),
\* unless a watchdog fired beneath the session.
PanelHasOneOwner == ~taken.beneath => ~(unit.state = "up" /\ ChildLives)

\* Stock comes up again after any kill: it is not up only until the release or
\* the watchdog starts it, unless the command has said that it could not, the
\* guardian's own start came to nothing, or the watchdog was spent beneath a
\* session that was still going.
StockReturns == unit.state # "up" ~> (unit.state = "up" \/ taken.gaveUp \/ taken.spent \/ taken.beneath)

=============================================================================
