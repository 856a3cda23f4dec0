------------------------------ MODULE MCDevice ------------------------------
(***************************************************************************)
(* The programs that take the device and give it back: the takeover        *)
(* commands, the boot launcher, the recovery's sweep and the isolation     *)
(* plan.  `which` names the one that runs; the others rest.                *)
(***************************************************************************)
EXTENDS Naturals

CONSTANTS
    MaxSessions, MaxFaults, MaxKills,
    MAX_BOOT_ATTEMPTS, StartLimitBurst, Releases,
    Restorers, Pids, Strays, Hard, Stuck, Layout

\* counter.rs: a positive number of attempts.
ASSUME AttemptsAssumption == MAX_BOOT_ATTEMPTS \in Nat \ {0}

\* Three kinds of processes: the session's cgroup, strays outside it, and stock.
ASSUME ProcessesAssumption == Pids \cap Strays = {} /\ "xochitl" \notin Pids \union Strays

VARIABLES
    which,
    xochitl, registry, awake, ledger, cmd, child, dog, taken,
    durable, rootRw, launcher, sess, oper, record,
    alive, term, actor, stock, locks, wakelock, journal,
    machine, facilities, unit, report

T == INSTANCE Takeover WITH unit <- xochitl
B == INSTANCE Boot
W == INSTANCE Sweep WITH registry <- locks, awake <- wakelock
X == INSTANCE Isolation

takeover  == <<xochitl, registry, awake, ledger, cmd, child, dog, taken>>
boot      == <<durable, rootRw, launcher, sess, oper, record>>
sweep     == <<alive, term, actor, stock, locks, wakelock, journal>>
isolation == <<machine, facilities, unit, report>>
vars == <<which, takeover, boot, sweep, isolation>>

-----------------------------------------------------------------------------
\* A component that does not run starts in one chosen initial state.
Init ==
    /\ which \in {"takeover", "boot", "sweep", "isolation"}
    /\ T!TakeoverInit /\ (which = "takeover" \/ xochitl.restarts = 0)
    /\ B!BootInit
    /\ W!SweepInit /\ (which = "sweep" \/ alive = Pids)
    /\ X!IsolationInit
    /\ \/ which = "isolation"
       \/ machine = [v2 |-> TRUE, v1 |-> FALSE, kill |-> TRUE, seccomp |-> TRUE, bpf |-> TRUE,
                     confining |-> TRUE, reach |-> [c \in X!Controllers |-> "ours"]]

Next ==
    /\ UNCHANGED which
    /\ \/ which = "takeover" /\ T!TakeoverNext /\ UNCHANGED <<boot, sweep, isolation>>
       \/ which = "boot" /\ B!BootNext /\ UNCHANGED <<takeover, sweep, isolation>>
       \/ which = "sweep" /\ W!SweepNext /\ UNCHANGED <<takeover, boot, isolation>>
       \/ which = "isolation" /\ X!IsolationNext /\ UNCHANGED <<takeover, boot, sweep>>

Spec == Init /\ [][Next]_vars

-----------------------------------------------------------------------------
\* A takeover (takeover.rs, stock.rs, hold.rs), killed wherever it may be: the
\* start ledger stays within the unit's own limit, stock is never down with the
\* device free to suspend, the panel has one owner, and a command that reports
\* success left nothing behind - all but for a watchdog that fired beneath it, a
\* restore that gave up or a guardian whose start of stock came to nothing.
TakeoverIsSafe ==
    which = "takeover" =>
        T!StartsWithinLimit /\ T!DownMeansAwake /\ T!SuccessIsWhole /\ T!PanelHasOneOwner

\* Starting at boot (paperclip-launcher.rs, counter.rs, autostart.rs), with the
\* power cut anywhere: a release that never reaches Home is tried
\* MAX_BOOT_ATTEMPTS times at most and is graded by its own session only, the
\* session the launcher starts runs the app of the release selected unless one
\* was selected since the boot, and the root filesystem goes back read-only.
BootIsSound ==
    which = "boot" =>
        /\ B!GivesUpAfterMaxAttempts /\ B!GradedByItsOwnSession
        /\ B!SessionRunsShippedApp /\ B!RootGoesBackReadOnly

\* The recovery's sweep (process.rs, recovery.rs), two of them at once: a tree
\* reported empty is empty and stays so, and the wakelock is let go only over a
\* stock that owns the panel.
SweepTellsTheTruth == which = "sweep" => W!SweepTellsTheTruth

\* The isolation of an app (probe.rs, units.rs, report.rs), on every machine it may
\* meet: no directive is written that has no effect there, but for the two filters
\* that units.rs:670-672 writes unconditionally on a systemd without seccomp; what
\* the report calls in force is, by a directive other than those two; and memory
\* and tasks are bounded whatever is missing.
IsolationIsHonest == which = "isolation" => X!IsolationIsHonest
=============================================================================
