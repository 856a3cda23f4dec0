------------------------------- MODULE Sweep -------------------------------
(***************************************************************************)
(* Emptying a session's processes and handing the panel back               *)
(* (platform/host/src/linux/{process,recovery,systemd}.rs).  The            *)
(* supervisor sweeps the session's cgroup and then restores stock; the     *)
(* restore unit that systemd starts beside it (OnFailure=) restores stock  *)
(* on its own.  Each restore reaps whoever holds a DRM descriptor with the *)
(* same sweep.  Processes fork and exit on their own between any two steps.*)
(***************************************************************************)
EXTENDS Naturals, FiniteSets

CONSTANTS
    Restorers,      \* who runs the recovery: the supervisor, the restore unit
    Pids,           \* processes that may come to life in the session's cgroup
    Strays,         \* processes outside it that hold a DRM descriptor
    Hard,           \* the processes that ignore SIGTERM
    Stuck,          \* the processes SIGKILL does not end either
    Layout          \* where the unified hierarchy is mounted: "unified", "hybrid"

VARIABLES
    alive,          \* the processes that exist
    term,           \* those SIGTERM was delivered to
    actor,          \* Restorers -> where its recovery stands
    stock,          \* xochitl.service: "down", "up", "dark" (up without the panel)
    registry,       \* the advisory display locks name somebody
    awake,          \* the wakelock is held
    journal         \* stock's journal shows a failed atomic commit

wvars == <<alive, term, actor, stock, registry, awake, journal>>

Xochitl == "xochitl"
Session == alive \cap Pids

(* drm_holders: every process but ourselves with a descriptor into /dev/dri. *)
DrmHolders == alive \cap (Strays \cup {Xochitl})

Idle == [pc |-> "idle", source |-> "cgroup", wanted |-> {}, seen |-> {}, killed |-> {},
         survivors |-> {}, emptied |-> FALSE, outcome |-> "none"]

SweepInit ==
    /\ \E first \in SUBSET Pids, held \in SUBSET Strays : first /= {} /\ alive = first \cup held
    /\ term = {}
    /\ actor = [r \in Restorers |-> Idle]
    /\ stock = "down"
    /\ registry = TRUE
    /\ awake = TRUE
    /\ journal = FALSE

-----------------------------------------------------------------------------
(* cgroup_members: cgroup.procs below /sys/fs/cgroup.  A directory that cannot *)
(* be read contributes nobody, and on a hybrid mount the unit's is not there.  *)
CgroupMembers == IF Layout = "unified" THEN Session ELSE {}

(* A plausible bug: the list read for the SIGTERM is never read again. *)
SnapshotMembers(a) ==
    IF a.pc \in {"grace", "force"} THEN a.seen \cap alive
    ELSE IF a.source = "cgroup" THEN CgroupMembers ELSE a.wanted \cap alive

(* members: read anew for every decision. *)
Members(a) == IF a.source = "cgroup" THEN CgroupMembers ELSE a.wanted \cap alive

Goes(r, pc) == actor' = [actor EXCEPT ![r].pc = pc]

(* Stock's process is one of those a signal can reach. *)
StockAfter(killed) == stock' = IF Xochitl \in killed THEN "down" ELSE stock

(* terminate: everybody in the tree is read, *)
Read(r) ==
    /\ actor[r].pc = "members"
    /\ actor' = [actor EXCEPT ![r].pc = "term", ![r].seen = Members(actor[r])]
    /\ UNCHANGED <<alive, term, stock, registry, awake, journal>>

(* asked to end, *)
Term(r) ==
    /\ actor[r].pc = "term"
    /\ term' = term \cup (actor[r].seen \cap alive)
    /\ Goes(r, "grace")
    /\ UNCHANGED <<alive, stock, registry, awake, journal>>

AfterSweep(r) == IF actor[r].source = "cgroup" THEN "release" ELSE "locks"

(* settle found the tree empty before its budget ran out, *)
Settled(r) ==
    /\ actor[r].pc \in {"grace", "force"}
    /\ Members(actor[r]) = {}
    /\ actor' = [actor EXCEPT ![r].pc = AfterSweep(r),
                              ![r].emptied = @ \/ actor[r].source = "cgroup"]
    /\ UNCHANGED <<alive, term, stock, registry, awake, journal>>

(* or the grace ran out with somebody left, who is about to be killed. *)
GraceOver(r) ==
    /\ actor[r].pc = "grace"
    /\ Members(actor[r]) /= {}
    /\ actor' = [actor EXCEPT ![r].pc = "kill", ![r].seen = Members(actor[r])]
    /\ UNCHANGED <<alive, term, stock, registry, awake, journal>>

Kill(r) ==
    /\ actor[r].pc = "kill"
    /\ LET killed == actor[r].seen \ Stuck
       IN  alive' = alive \ killed /\ StockAfter(killed)
    /\ actor' = [actor EXCEPT ![r].pc = "force",
                              ![r].killed = @ \cup (actor[r].seen \cap alive)]
    /\ UNCHANGED <<term, registry, awake, journal>>

(* The second budget is over: by then the sum of both is, so whoever is left *)
(* is a survivor and nobody is signalled again.                              *)
ForceOver(r) ==
    /\ actor[r].pc = "force"
    /\ Members(actor[r]) /= {}
    /\ actor' = [actor EXCEPT ![r].pc = AfterSweep(r), ![r].survivors = Members(actor[r])]
    /\ UNCHANGED <<alive, term, stock, registry, awake, journal>>

-----------------------------------------------------------------------------
(* The supervisor is asked to end the session: terminate over its cgroup. *)
Terminate(r) ==
    /\ r = "supervisor"
    /\ actor[r].pc = "idle"
    /\ Goes(r, "members")
    /\ UNCHANGED <<alive, term, stock, registry, awake, journal>>

(* systemd starts `paperctl stock --from-unit`. *)
RescueStarts(r) ==
    /\ r /= "supervisor"
    /\ actor[r].pc = "idle"
    /\ Goes(r, "check")
    /\ UNCHANGED <<alive, term, stock, registry, awake, journal>>

(* release_display: both lock files are removed. *)
ReleaseDisplay(r) ==
    /\ actor[r].pc = "release"
    /\ registry' = FALSE
    /\ Goes(r, "check")
    /\ UNCHANGED <<alive, term, stock, awake, journal>>

(* restore: stock is up already, and only the wakelock is left to release. *)
AlreadyRunning(r) ==
    /\ actor[r].pc = "check"
    /\ stock /= "down"
    /\ awake' = FALSE
    /\ actor' = [actor EXCEPT ![r].pc = "done", ![r].outcome = "already"]
    /\ UNCHANGED <<alive, term, stock, registry, journal>>

StockIsDown(r) ==
    /\ actor[r].pc = "check"
    /\ stock = "down"
    /\ Goes(r, "walk")
    /\ UNCHANGED <<alive, term, stock, registry, awake, journal>>

(* reap_stray_drm_holders: the set is taken once, then swept. *)
Walk(r) ==
    /\ actor[r].pc = "walk"
    /\ actor' = [actor EXCEPT ![r].source = "explicit", ![r].wanted = DrmHolders,
                              ![r].pc = IF DrmHolders = {} THEN "locks" ELSE "members"]
    /\ UNCHANGED <<alive, term, stock, registry, awake, journal>>

(* clear_stale_locks. *)
ClearLocks(r) ==
    /\ actor[r].pc = "locks"
    /\ registry' = FALSE
    /\ Goes(r, "start")
    /\ UNCHANGED <<alive, term, stock, awake, journal>>

(* It comes up without the panel if somebody still holds it. *)
ComesUp ==
    LET dark == DrmHolders /= {}
    IN  /\ stock' = IF dark THEN "dark" ELSE "up"
        /\ journal' = (journal \/ dark)
        /\ alive' = alive \cup {Xochitl}
        /\ term' = term \ {Xochitl}
        /\ registry' = TRUE

Untouched == UNCHANGED <<stock, journal, alive, term, registry>>

(* Stock::restore, its policy in one step: recorded, started, waited for.  It *)
(* spends from the start budget (Takeover) and is never refused by it.        *)
StartStock(r) ==
    /\ actor[r].pc = "start"
    /\ IF stock = "down" THEN ComesUp ELSE Untouched
    /\ Goes(r, "journal")
    /\ UNCHANGED awake

(* systemctl cannot be run, the record cannot be written, or two guarded      *)
(* starts did not bring stock back in time, the last perhaps later than the   *)
(* wait: the wakelock is kept.                                                *)
StartFails(r) ==
    /\ actor[r].pc = "start"
    /\ Untouched \/ (stock = "down" /\ ComesUp)
    /\ actor' = [actor EXCEPT ![r].pc = "done", ![r].outcome = "failed"]
    /\ UNCHANGED awake

(* The journal, not systemctl, says whether stock owns the panel. *)
ReadJournal(r) ==
    /\ actor[r].pc = "journal"
    /\ actor' = [actor EXCEPT ![r].pc = IF journal THEN "done" ELSE "unlock",
                              ![r].outcome = IF journal THEN "not_owned" ELSE @]
    /\ UNCHANGED <<alive, term, stock, registry, awake, journal>>

(* release_wakelock, the last step of a restore that worked. *)
ReleaseWakelock(r) ==
    /\ actor[r].pc = "unlock"
    /\ awake' = FALSE
    /\ actor' = [actor EXCEPT ![r].pc = "done", ![r].outcome = "started"]
    /\ UNCHANGED <<alive, term, stock, registry, journal>>

-----------------------------------------------------------------------------
(* A process of the session starts another one in the same cgroup. *)
Fork ==
    \E p \in Session, q \in Pids \ (alive \cup Stuck) :
        /\ q \notin term
        /\ \A r \in Restorers : q \notin actor[r].killed
        /\ alive' = alive \cup {q}
        /\ UNCHANGED <<term, actor, stock, registry, awake, journal>>

(* A process ends by itself, or because it was asked to. *)
Exit ==
    \E p \in alive \ Stuck :
        /\ p \in term => p \notin Hard
        /\ p = Xochitl => p \in term
        /\ alive' = alive \ {p}
        /\ StockAfter({p})
        /\ UNCHANGED <<term, actor, registry, awake, journal>>

SweepStep(r) ==
    \/ Terminate(r) \/ RescueStarts(r) \/ Read(r) \/ Term(r) \/ Settled(r) \/ GraceOver(r)
    \/ Kill(r) \/ ForceOver(r) \/ ReleaseDisplay(r) \/ AlreadyRunning(r) \/ StockIsDown(r)
    \/ Walk(r) \/ ClearLocks(r) \/ StartStock(r) \/ StartFails(r) \/ ReadJournal(r)
    \/ ReleaseWakelock(r)

SweepNext == (\E r \in Restorers : SweepStep(r)) \/ Fork \/ Exit

SweepSpec == SweepInit /\ [][SweepNext]_wvars

-----------------------------------------------------------------------------
(* process.rs, `emptied`: a sweep that reported the session's tree empty left *)
(* nobody in it, whatever forked between its reads, and nobody comes back.    *)
EmptiedIsEmpty ==
    \A r \in Restorers : actor[r].emptied => Session = {}

(* recovery.rs: a restore that succeeds by starting stock releases the        *)
(* wakelock only over a stock that owns the panel; with a holder that even    *)
(* SIGKILL leaves behind it keeps the device awake.                           *)
StartedOwnsThePanel ==
    \A r \in Restorers : actor[r].pc = "unlock" => stock /= "dark"

(* Both promises of the recovery's steps. *)
SweepTellsTheTruth == EmptiedIsEmpty /\ StartedOwnsThePanel

=============================================================================
