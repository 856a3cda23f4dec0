--------------------------------- MODULE Boot ---------------------------------
(***************************************************************************)
(* The boot path (platform/boot): the launcher unit systemd starts at      *)
(* every boot, the durable attempt counter and the autostart marker it     *)
(* decides by, the safe-mode unit behind its start limit, and the operator *)
(* commands that install the units and reset the record (boot install.rs,  *)
(* paperctl autostart).  Power may go at any step; the root directory and  *)
(* the root filesystem survive it, /run does not.  The supervisor is only  *)
(* what the launcher can see of it: a process and a status file.           *)
(***************************************************************************)
EXTENDS Integers

CONSTANTS
    MAX_BOOT_ATTEMPTS,
    StartLimitBurst,   \* launcher starts systemd allows in one interval
    Releases           \* releases `current` may select, as numbers from 1

VARIABLES
    durable,  \* what a power cut leaves: counter, marker, units, app binary, release
    rootRw,   \* the root filesystem is mounted read-write
    launcher, \* the launcher process and its unit's starts in this boot
    sess,     \* the supervisor and /run/paperclip/status
    oper,     \* the operator's command
    record    \* launches since the counter was last cleared; Home seen since the
              \* launcher's bring_up; another release selected in this boot

bvars == <<durable, rootRw, launcher, sess, oper, record>>

Corrupt == -1
Absent == 0
NoSession ==
    [alive |-> FALSE, state |-> "none", status |-> "none", app |-> Absent, by |-> "nobody"]

BootInit ==
    /\ durable = [counter |-> 0, marker |-> FALSE, units |-> {}, app |-> Absent, release |-> 1]
    /\ rootRw = FALSE
    /\ launcher = [pc |-> "off", starts |-> 0]
    /\ sess = NoSession
    /\ oper = [pc |-> "none", failed |-> FALSE]
    /\ record = [launches |-> 0, home |-> FALSE, moved |-> FALSE]

At(pc) == launcher.pc = pc
To(pc) == launcher' = [launcher EXCEPT !.pc = pc]
Keep == UNCHANGED <<durable, rootRw, sess, oper, record>>

---------------------------------------------------------------------------
(* systemd *)

\* The unit is wanted by the boot target and its Condition holds.
Starts == /\ {"launcher", "link"} \subseteq durable.units
          /\ ~durable.marker

PowerCut ==
    /\ ~At("off")
    /\ launcher' = [pc |-> "off", starts |-> 0]
    /\ sess' = NoSession
    /\ rootRw' = FALSE
    /\ oper' = [pc |-> "none", failed |-> FALSE]
    /\ record' = [record EXCEPT !.home = FALSE, !.moved = FALSE]
    /\ UNCHANGED durable

PowerOn ==
    /\ At("off")
    /\ launcher' = IF Starts THEN [pc |-> "decide", starts |-> 1]
                             ELSE [pc |-> "done", starts |-> 0]
    /\ Keep

\* The launcher fails or dies: Restart=on-failure inside the start limit,
\* and beyond it OnFailure= runs the safe-mode unit, which writes the marker.
LauncherFails ==
    /\ launcher.pc \notin {"off", "done"}
    /\ \/ /\ launcher.starts < StartLimitBurst
          /\ launcher' = IF durable.marker THEN [launcher EXCEPT !.pc = "done"]
                         ELSE [pc |-> "decide", starts |-> launcher.starts + 1]
          /\ UNCHANGED durable
       \/ /\ launcher.starts = StartLimitBurst
          /\ To("done")
          /\ durable' = [durable EXCEPT !.marker = @ \/ "safe" \in durable.units]
    /\ UNCHANGED <<rootRw, sess, oper, record>>

---------------------------------------------------------------------------
(* The launcher *)

Exhausted(counter) == counter >= MAX_BOOT_ATTEMPTS

\* run: the marker first.
CheckMarker ==
    /\ At("decide")
    /\ To(IF durable.marker THEN "done" ELSE "read")
    /\ Keep

\* A counter that does not parse fails the launcher (LauncherFails); an
\* exhausted one turns autostart off for the boots to come.
ReadCounter ==
    /\ At("read")
    /\ durable.counter # Corrupt
    /\ \/ /\ Exhausted(durable.counter)
          /\ durable' = [durable EXCEPT !.marker = TRUE]
          /\ To("done")
       \/ /\ ~Exhausted(durable.counter)
          /\ To("record")
          /\ UNCHANGED durable
    /\ UNCHANGED <<rootRw, sess, oper, record>>

RecordAttemptInMemory ==
    /\ At("record")
    /\ durable.counter # Corrupt
    /\ To("apps")
    /\ UNCHANGED <<durable, rootRw, sess, oper, record>>

\* Reads the counter again, so that a reset in between is counted from.
RecordAttempt ==
    /\ At("record")
    /\ durable.counter # Corrupt
    /\ durable' = [durable EXCEPT !.counter = @ + 1]
    /\ To("apps")
    /\ UNCHANGED <<rootRw, sess, oper, record>>

SameFile == durable.app = durable.release

\* materialise_shipped_apps: the copy is staged, so only the rename shows.
MaterialiseApps ==
    /\ At("apps")
    /\ durable' = [durable EXCEPT !.app = IF SameFile THEN @ ELSE durable.release]
    /\ To("bring_up")
    /\ UNCHANGED <<rootRw, sess, oper, record>>

\* Counted up to one past the limit.
OneMore(launches) == IF launches > MAX_BOOT_ATTEMPTS THEN launches ELSE launches + 1

\* bring_up: the stop and status files are removed before the supervisor is
\* started, and a running one is left running.
Started(by) ==
    [sess EXCEPT !.status = "none", !.alive = TRUE,
                 !.state = IF sess.alive THEN @ ELSE "elsewhere",
                 !.app = IF sess.alive THEN @ ELSE durable.app,
                 !.by = IF sess.alive THEN @ ELSE by]

Launched ==
    record' = [record EXCEPT !.launches = OneMore(@),
                             !.home = sess.alive /\ sess.state = "home"]

BringUpKeepsStatus ==
    /\ At("bring_up")
    /\ sess' = [Started("launcher") EXCEPT !.status = sess.status]
    /\ Launched
    /\ To("request")
    /\ UNCHANGED <<durable, rootRw, oper>>

BringUp ==
    /\ At("bring_up")
    /\ sess' = Started("launcher")
    /\ Launched
    /\ To("request")
    /\ UNCHANGED <<durable, rootRw, oper>>

RequestHome == At("request") /\ To("watch") /\ Keep

\* watch_for_home: Home is graded, anything else leaves the counter as it is.
WatchSeesHome ==
    /\ At("watch") /\ sess.status = "home"
    /\ To("good")
    /\ Keep
WatchGivesUp ==
    /\ At("watch") /\ sess.status # "home"
    \* failed, recovering, a dead supervisor, or the 45 second deadline
    /\ To("done")
    /\ Keep

MarkGood ==
    /\ At("good")
    /\ durable' = [durable EXCEPT !.counter = 0]
    /\ record' = [record EXCEPT !.launches = 0]
    /\ To("done")
    /\ UNCHANGED <<rootRw, sess, oper>>

LauncherNext ==
    \/ CheckMarker \/ ReadCounter \/ RecordAttempt \/ MaterialiseApps
    \/ BringUp \/ RequestHome \/ WatchSeesHome \/ WatchGivesUp \/ MarkGood

---------------------------------------------------------------------------
(* The supervisor, as the launcher sees it *)

SupervisorPublishes ==
    /\ sess.alive
    /\ \E state \in {"home", "elsewhere"} : \* starting, failed, recovering
        /\ sess' = [sess EXCEPT !.state = state, !.status = state]
        /\ record' = [record EXCEPT !.home = @ \/ state = "home"]
    /\ UNCHANGED <<durable, rootRw, launcher, oper>>

SupervisorExits ==
    /\ sess.alive
    /\ sess' = [sess EXCEPT !.alive = FALSE, !.state = "none"]
    /\ UNCHANGED <<durable, rootRw, launcher, oper, record>>

---------------------------------------------------------------------------
(* The operator, on a device that is up *)

Up == ~At("off")
Idle == Up /\ oper.pc = "none"
OperTo(pc) == oper' = [oper EXCEPT !.pc = pc]
Rest == UNCHANGED <<rootRw, launcher, sess, record>>

Enable == /\ Idle
          /\ durable' = [durable EXCEPT !.marker = FALSE]
          /\ UNCHANGED oper /\ Rest

Disable == /\ Idle
           /\ durable' = [durable EXCEPT !.marker = TRUE]
           /\ UNCHANGED oper /\ Rest

\* Reset: the counter first, then the marker.
ResetCounter ==
    /\ Idle
    /\ durable' = [durable EXCEPT !.counter = 0]
    \* a launch recorded before the reset and not yet made is not counted after it
    /\ record' = [record EXCEPT !.launches =
                    IF launcher.pc \in {"apps", "bring_up"} THEN -1 ELSE 0]
    /\ OperTo("enable")
    /\ UNCHANGED <<rootRw, launcher, sess>>
ResetEnable ==
    /\ oper.pc = "enable"
    /\ durable' = [durable EXCEPT !.marker = FALSE]
    /\ OperTo("none") /\ Rest

\* upgrade, rollback and reconcile (Upgrade), wherever the launcher is: the
\* session is stood down, another release selected, and the session brought up
\* again without materialise_shipped_apps.  It may end after any step.
StandDown ==
    /\ Idle
    /\ sess' = [sess EXCEPT !.alive = FALSE, !.state = "none"]
    /\ OperTo("swap")
    /\ UNCHANGED <<durable, rootRw, launcher, record>>
Reselect ==
    /\ oper.pc = "swap"
    /\ \E release \in Releases : durable' = [durable EXCEPT !.release = release]
    /\ record' = [record EXCEPT !.moved = TRUE]
    /\ OperTo("raise")
    /\ UNCHANGED <<rootRw, launcher, sess>>
UpdaterBringsUp ==
    /\ oper.pc = "raise"
    /\ sess' = Started("updater")
    /\ OperTo("none")
    /\ UNCHANGED <<durable, rootRw, launcher, record>>
UpdateEnds ==
    /\ oper.pc \in {"swap", "raise"}
    /\ OperTo("none")
    /\ UNCHANGED durable /\ Rest

\* The counter's block goes bad.
CounterRots ==
    /\ Idle /\ launcher.pc = "done"
    /\ durable' = [durable EXCEPT !.counter = Corrupt]
    /\ UNCHANGED oper /\ Rest

\* Units are read only as the device boots, so it does not matter to the
\* launcher when these run.
Remount(pc) ==
    /\ Idle /\ At("done")
    /\ rootRw' = TRUE
    /\ oper' = [pc |-> pc, failed |-> FALSE]
    /\ UNCHANGED <<durable, launcher, sess, record>>
ApplyBegins == Remount("unit")
RemoveBegins == Remount("unlink")

Writes(file) == durable' = [durable EXCEPT !.units = @ \union {file}]
\* The closure of apply: the launcher unit, its link, the safe-mode unit.
\* A write that fails skips to the remount.
ApplyWrites ==
    /\ \/ oper.pc = "unit" /\ Writes("launcher") /\ OperTo("link")
       \/ oper.pc = "link" /\ Writes("link") /\ OperTo("safe")
       \/ oper.pc = "safe" /\ Writes("safe") /\ OperTo("ro")
    /\ Rest
AfterFailedWrite == "ro"
ApplyWriteFails ==
    /\ oper.pc \in {"unit", "link", "safe"}
    /\ OperTo(AfterFailedWrite)
    \* the old link is removed before the new one is made
    /\ durable' = [durable EXCEPT !.units = IF oper.pc = "link" THEN @ \ {"link"} ELSE @]
    /\ Rest

\* remove: a file that cannot be removed is passed over.
RemoveUnlinks ==
    /\ oper.pc = "unlink"
    /\ \E left \in SUBSET (durable.units) :
          durable' = [durable EXCEPT !.units = left]
    /\ OperTo("ro")
    /\ Rest

\* remount("ro") and daemon-reload.
RemountReadOnly ==
    /\ oper.pc = "ro"
    /\ \/ rootRw' = FALSE /\ oper' = [pc |-> "none", failed |-> FALSE]
       \/ UNCHANGED rootRw /\ oper' = [pc |-> "none", failed |-> TRUE]
    /\ UNCHANGED <<durable, launcher, sess, record>>

OperatorNext ==
    \/ Enable \/ Disable \/ ResetCounter \/ ResetEnable \/ CounterRots
    \/ StandDown \/ Reselect \/ UpdaterBringsUp \/ UpdateEnds
    \/ ApplyBegins \/ ApplyWrites \/ ApplyWriteFails
    \/ RemoveBegins \/ RemoveUnlinks \/ RemountReadOnly

BootNext ==
    \/ PowerCut \/ PowerOn \/ LauncherFails \/ LauncherNext
    \/ SupervisorPublishes \/ SupervisorExits \/ OperatorNext

BootSpec == BootInit /\ [][BootNext]_bvars

---------------------------------------------------------------------------
(* Properties *)

\* However the power goes, and however often systemd restarts the launcher,
\* a release that never reaches Home is started at most MAX_BOOT_ATTEMPTS
\* times: the attempt is on disk before the supervisor is brought up.
GivesUpAfterMaxAttempts == record.launches <= MAX_BOOT_ATTEMPTS

\* The counter is cleared only for a Home the session of this bring_up
\* reached, never for a status file an earlier supervisor left behind.
GradedByItsOwnSession == At("good") => record.home

\* A supervisor the launcher started runs the app binary of the release
\* selected, not the copy an earlier release left in the app's directory,
\* while no release was selected since the device booted.
SessionRunsShippedApp ==
    sess.alive /\ sess.by = "launcher" /\ ~record.moved => sess.app = durable.release

\* paperclip-launcher.rs:186-190: an upgrade brings the app binaries forward with
\* it, so that the session it brings up does not run the last release's copies.
\* The code does not keep it: the updater's bring_up makes no copies.
UpgradeBringsAppsForward ==
    sess.alive /\ sess.by = "updater" /\ sess.app # Absent => sess.app = durable.release

\* The install commands never leave the root filesystem writable, whichever
\* of their writes failed, unless the remount itself did.
RootGoesBackReadOnly == rootRw => oper.pc # "none" \/ oper.failed

\* A device that is started over and over reaches Home or is reset over and
\* over: it cannot be launched for ever without ever clearing the counter.
LaunchesEndOrArrive ==
    []<><<BringUp>>_bvars => []<><<MarkGood \/ ResetCounter>>_bvars

===============================================================================
