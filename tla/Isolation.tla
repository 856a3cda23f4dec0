------------------------------ MODULE Isolation ------------------------------
(***************************************************************************)
(* What a session's unit file restricts and what the isolation report says *)
(* of it (platform/host/src/{facilities,probe,units,report}.rs and the     *)
(* `isolation` and `units` commands of paperctl).  Facilities are probed    *)
(* from the machine, the app's unit is planned from them and from what the *)
(* app was granted, and the report is derived from the same facilities. A  *)
(* question the probe asks systemctl may go unanswered, each on its own.   *)
(***************************************************************************)
EXTENDS Naturals, FiniteSets

VARIABLES
    machine,        \* what the kernel and systemd really do here
    facilities,     \* Facilities, None until probed
    unit,           \* the app unit that was written: its grants and directives
    report          \* mechanism -> verdict

xvars == <<machine, facilities, unit, report>>

None == [none |-> TRUE]

Controllers == {"memory", "pids"}

(* A machine: which hierarchies are mounted under /sys/fs/cgroup, how far each *)
(* controller goes, whether cgroup.kill exists, how systemd was built, the LSM. *)
Machines ==
    [v2 : BOOLEAN, v1 : BOOLEAN, kill : BOOLEAN, seccomp : BOOLEAN, bpf : BOOLEAN,
     confining : BOOLEAN, reach : [Controllers -> {"absent", "kernel", "ours"}]]

(* cgroup_layout: from what is mounted, not from systemd's version. *)
CgroupLayout(m) ==
    IF m.v2 THEN (IF m.v1 THEN "hybrid" ELSE "unified") ELSE IF m.v1 THEN "legacy" ELSE "none"

(* own_cgroup_file: our cgroup is looked for directly below /sys/fs/cgroup,   *)
(* which is where it is only when the unified hierarchy is the only one.      *)
OwnCgroupReadable(m) == CgroupLayout(m) = "unified"

(* A plausible bug: the kernel is asked instead of our own cgroup. *)
KernelController(m, name) ==
    IF m.reach[name] /= "absent" THEN "delegated" ELSE "absent"

(* controller: delegated only if our own cgroup lists it. *)
Controller(m, name) ==
    IF OwnCgroupReadable(m) /\ m.reach[name] = "ours" THEN "delegated"
    ELSE IF m.reach[name] /= "absent" THEN "not_delegated" ELSE "absent"

(* Facilities as probe reads them.  `systemctl --version` is run once for each *)
(* of the two build features; no answer is no seccomp, and an unknown BPF.     *)
Probed(m, seccompAnswered, bpfAnswered) ==
    [cgroup  |-> CgroupLayout(m),
     memory  |-> Controller(m, "memory"),
     pids    |-> Controller(m, "pids"),
     kill    |-> OwnCgroupReadable(m) /\ m.kill,
     seccomp |-> seccompAnswered /\ m.seccomp,
     bpf     |-> IF ~bpfAnswered THEN "unknown" ELSE IF m.bpf THEN "yes" ELSE "no",
     confining |-> m.confining]

(* tree_termination: how the supervisor would empty a session's processes. *)
TreeTermination(f) ==
    IF f.kill THEN "cgroup.kill" ELSE IF f.pids = "delegated" THEN "cgroup.procs" ELSE "proc walk"

-----------------------------------------------------------------------------
(* SessionGrants::derive: the storage directory and the network, if granted. *)
Grants == [storage : BOOLEAN, network : BOOLEAN]

(* The directives app_service writes on every machine, whatever was probed;   *)
(* two of them are seccomp filters.                                           *)
AlwaysFiltered == {"RestrictSUIDSGID", "LockPersonality"}
Always ==
    {"User", "NoNewPrivileges", "CapabilityBoundingSet", "ProtectSystem",
     "ProtectControlGroups", "DevicePolicy", "InaccessiblePaths", "ReadOnlyPaths", "KillMode",
     "LogRateLimit", "LimitAS"} \cup AlwaysFiltered

(* The network is closed by whichever mechanism this systemd has. *)
NetworkDirectives(f, g) ==
    IF g.network THEN {}
    ELSE (IF f.bpf = "yes" THEN {"IPAddressDeny"} ELSE {})
         \cup (IF f.seccomp THEN {"RestrictAddressFamilies"} ELSE {})

(* MemoryMax= only where the controller is ours; LimitAS= is written anyway. *)
MemoryDirectives(f) == IF f.memory = "delegated" THEN {"MemoryMax"} ELSE {}

TaskDirectives(f) == IF f.pids = "delegated" THEN {"TasksMax"} ELSE {"LimitNPROC"}

SyscallDirectives(f) == IF f.seccomp THEN {"SystemCallFilter"} ELSE {}

(* app_service: every directive of the planned unit. *)
AppService(f, g) ==
    Always \cup NetworkDirectives(f, g) \cup MemoryDirectives(f) \cup TaskDirectives(f)
           \cup SyscallDirectives(f)
           \cup (IF g.storage THEN {"ReadWritePaths"} ELSE {})

-----------------------------------------------------------------------------
Verdict(b, yes, no) == IF b THEN yes ELSE no

MemoryFinding(f) == Verdict(f.memory = "delegated", "enforced", "partial")
TaskFinding(f) == Verdict(f.pids = "delegated", "enforced", "partial")
TreeFinding(f) == Verdict(TreeTermination(f) /= "proc walk", "enforced", "partial")
SyscallFinding(f) == Verdict(f.seccomp, "enforced", "ineffective")
MacFinding(f) == Verdict(f.confining, "partial", "absent")

NetworkFinding(f) ==
    CASE f.bpf = "yes" -> "enforced"
      [] f.bpf = "no" /\ f.seccomp -> "partial"
      [] OTHER -> "ineffective"

(* IsolationReport::derive. *)
Derive(f) ==
    [UserSeparation |-> "enforced", WritableStorage |-> "partial", DeviceAccess |-> "enforced",
     MemoryBound |-> MemoryFinding(f), TaskBound |-> TaskFinding(f),
     CpuBound |-> Verdict(f.cgroup = "none", "absent", "partial"),
     LogBound |-> "enforced", SyscallFilter |-> SyscallFinding(f),
     MandatoryAccessControl |-> MacFinding(f), TreeContainment |-> TreeFinding(f),
     NetworkReach |-> NetworkFinding(f), PrivilegeEscalation |-> "enforced"]

-----------------------------------------------------------------------------
IsolationInit ==
    /\ machine \in Machines
    /\ facilities = None
    /\ unit = None
    /\ report = None

(* probe, on the machine the session will run on. *)
Probe ==
    /\ facilities = None
    /\ \E s, b \in BOOLEAN : facilities' = Probed(machine, s, b)
    /\ UNCHANGED <<machine, unit, report>>

(* UnitSet::plan for an app: install_home_unit, or `paperctl units`. *)
Plan ==
    /\ facilities /= None
    /\ unit = None
    /\ \E g \in Grants : unit' = [grants |-> g, directives |-> AppService(facilities, g)]
    /\ UNCHANGED <<machine, facilities, report>>

(* `paperctl isolation`. *)
Report ==
    /\ facilities /= None
    /\ report = None
    /\ report' = Derive(facilities)
    /\ UNCHANGED <<machine, facilities, unit>>

IsolationNext == Probe \/ Plan \/ Report

IsolationSpec == IsolationInit /\ [][IsolationNext]_xvars

-----------------------------------------------------------------------------
(* What systemd and the kernel make of a directive: the controllers count only *)
(* when they reach our cgroup, IPAddressDeny= is BPF, the syscall directives   *)
(* are seccomp; the rest is done by systemd itself before the exec.            *)
Effective(d, m) ==
    CASE d = "MemoryMax" -> m.reach["memory"] = "ours"
      [] d = "TasksMax" -> m.reach["pids"] = "ours"
      [] d = "IPAddressDeny" -> m.bpf
      [] d \in {"RestrictAddressFamilies", "SystemCallFilter"} \cup AlwaysFiltered -> m.seccomp
      [] OTHER -> TRUE

(* The directives that carry a claim of the report. *)
Carriers(mechanism) ==
    CASE mechanism = "UserSeparation" -> {"User"}
      [] mechanism = "DeviceAccess" -> {"DevicePolicy"}
      [] mechanism = "MemoryBound" -> {"MemoryMax", "LimitAS"}
      [] mechanism = "TaskBound" -> {"TasksMax"}
      [] mechanism = "LogBound" -> {"LogRateLimit"}
      [] mechanism = "SyscallFilter" -> {"SystemCallFilter"}
      [] mechanism = "TreeContainment" -> {"KillMode"}
      [] mechanism = "NetworkReach" -> {"IPAddressDeny"}
      [] mechanism = "PrivilegeEscalation" ->
            {"NoNewPrivileges", "CapabilityBoundingSet", "RestrictSUIDSGID"}
      [] OTHER -> {}

(* docs/isolation.md:15 of a directive that is accepted and does nothing:     *)
(* "Paperclip does not write these".  The code does not keep it: see          *)
(* AlwaysFiltered.                                                            *)
EveryDirectiveWorks ==
    unit /= None => \A d \in unit.directives : Effective(d, machine)

(* A directive works here, or is one of the two that are written whatever was *)
(* probed, on a machine whose systemd has no seccomp.                         *)
WorksOrFilters(d) == Effective(d, machine) \/ (d \in AlwaysFiltered /\ ~machine.seccomp)

(* units.rs: "a directive is emitted only when Facilities says it does        *)
(* something": of what is planned from the facilities nothing is accepted and *)
(* ignored, whatever the probe was answered.                                  *)
NoDecorativeDirective ==
    unit /= None => \A d \in unit.directives : WorksOrFilters(d)

(* report.rs: a mechanism that may be claimed is carried by directives of the *)
(* unit that this machine enforces (the network only for an app that was not  *)
(* granted it; RestrictSUIDSGID= is one carrier of three, and does nothing    *)
(* without seccomp), and a contained tree can be read by the supervisor.      *)
ClaimsAreInForce ==
    (unit /= None /\ report /= None) =>
        /\ \A k \in DOMAIN report :
              (report[k] = "enforced" /\ ~(k = "NetworkReach" /\ unit.grants.network)) =>
                  /\ Carriers(k) \ AlwaysFiltered /= {}
                  /\ \A d \in Carriers(k) : d \in unit.directives /\ WorksOrFilters(d)
        /\ report["TreeContainment"] = "enforced" =>
              (OwnCgroupReadable(machine) /\ (machine.kill \/ machine.reach["pids"] = "ours"))

(* units.rs: "never by leaving the app unrestricted": whatever the machine    *)
(* lacks, memory and tasks stay bounded by something that is enforced.        *)
AlwaysBounded ==
    unit /= None =>
        /\ {"MemoryMax", "LimitAS"} \cap unit.directives /= {}
        /\ {"TasksMax", "LimitNPROC"} \cap unit.directives /= {}

(* The unit and the report tell the truth about the machine: no directive that *)
(* does nothing but the two filters written unconditionally, no claim that     *)
(* nothing in force carries, no session left unbounded.                        *)
IsolationIsHonest == NoDecorativeDirective /\ ClaimsAreInForce /\ AlwaysBounded
=============================================================================
