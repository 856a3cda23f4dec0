----------------------------- MODULE MCRecovery -----------------------------
(***************************************************************************)
(* What is left to count on when every interruption is followed by its     *)
(* recovery: platform upgrades cut by power alone and reconciled, and app  *)
(* installs after whose crashes `paperctl recover` is run before anything  *)
(* else.  `which` names the one that runs; the other rests.                *)
(***************************************************************************)
EXTENDS Installer

CONSTANTS v1, v2, v3, Cuts, UpgradeCommands

VARIABLES
    which,
    releases, staged, current, previous, record, live, snap, session, stock,
    trusted, sound, refused, step, cmd, held, cuts, upgrades

MCVersions == 1 .. 3

\* Three platforms, none of them a mark for what is absent.
ASSUME RecoveryAssumption ==
    /\ v1 /= v2 /\ v1 /= v3 /\ v2 /= v3
    /\ {None, "empty", "absent"} \cap {v1, v2, v3} = {}
    /\ None \notin {"empty", "absent"}
    /\ Cuts \subseteq {"power", "kill", "io"} /\ UpgradeCommands \in Nat

\* v2 writes state v1 cannot read; v3 writes state every one of them can.
Platforms == {v1, v2, v3}
StateVersion == [v \in Platforms |-> IF v = v1 THEN 1 ELSE 2]
RollbackTo == [v \in Platforms |-> IF v = v2 THEN 2 ELSE 1]

U == INSTANCE UpgradeProofs WITH
       Versions <- Platforms, Faults <- Cuts, MaxCommands <- UpgradeCommands, Autostart <- FALSE,
       dirs <- releases, staging <- staged, journal <- record, pc <- step, mem <- held,
       faults <- cuts, commands <- upgrades

platform == <<releases, staged, current, previous, record, live, snap, session, stock,
              trusted, sound, refused, step, cmd, held, cuts, upgrades>>
recoveryVars == <<which, platform, vars>>

-----------------------------------------------------------------------------
RecoveryInit ==
    /\ which \in {"upgrade", "install"}
    /\ U!Init /\ (which = "upgrade" \/ current = None)
    /\ Init

UpgradeStep(A) == which = "upgrade" /\ A /\ UNCHANGED <<which, vars>>
InstallStep(A) == which = "install" /\ A /\ UNCHANGED <<which, platform>>

RecoveryNext == UpgradeStep(U!Next) \/ InstallStep(Next)

\* The fairness of Upgrade!FairSpec and Installer!FairSpec: a command runs until
\* it returns or is stopped, and somebody runs the recovery after a crash.
Fairness ==
    /\ WF_recoveryVars(UpgradeStep(step /= "idle" /\ U!ProcessNext))
    /\ WF_recoveryVars(UpgradeStep(U!ReconcileStart))
    /\ SF_recoveryVars(UpgradeStep(live = "absent" /\ U!PutSnapshotBack))
    /\ \A p \in Procs : WF_recoveryVars(InstallStep(pc[p] /= "idle" /\ ProcNext(p)))
    /\ WF_recoveryVars(InstallStep(crashed /\ \E p \in Procs : Recover(p)))

RecoverySpec == RecoveryInit /\ [][RecoveryNext]_recoveryVars /\ Fairness

-----------------------------------------------------------------------------
\* A rollback or a revert hands the restored release state it can read
\* (snapshot_for_rollback, restore_snapshot in upgrade.rs).
StateReadable == U!StateReadable

\* reconcile ends every interrupted transaction, however often it is itself
\* interrupted (upgrade.rs 417).
EventuallyResolved == U!EventuallyResolved
=============================================================================
