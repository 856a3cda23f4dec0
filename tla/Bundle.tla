------------------------------- MODULE Bundle -------------------------------
(***************************************************************************)
(* A platform bundle: packed from a build directory that may be built into *)
(* while it is read (paperctl upgrade package, updater bundle.rs), and      *)
(* checked before the device stages it (read_release and verify_payload,    *)
(* updater manifest.rs).                                                   *)
(***************************************************************************)
EXTENDS Integers, Sequences, FiniteSets

CONSTANTS
    REQUIRED_COMPONENTS,  \* a sequence: the components every release holds, in order
    Includes,             \* the --include lists a packager may give
    Keys, Trusted,        \* signing keys; the device's
    STATE_VERSION,        \* the state version the release writes
    MaxBuilds,            \* components rebuilt
    MaxFaults,            \* reads or writes that fail
    MaxPackages           \* package commands

VARIABLES
    parts,   \* the build directory: name -> the file there
    pkg,     \* the package command under way
    file,    \* the bundle at --out
    device,  \* what the device last accepted
    spent    \* budgets

buvars == <<parts, pkg, file, device, spent>>

Required == {REQUIRED_COMPONENTS[i] : i \in DOMAIN REQUIRED_COMPONENTS}
Files == Required \cup UNION {{list[i] : i \in DOMAIN list} : list \in Includes}
Escapes(name) == name = "../outside"
InBin(name) == name \in Required
Idle == [at |-> "idle"]
NoFile == [is |-> "none"]

BundleInit ==
    /\ parts = [f \in Files |-> [rev |-> 0, machine |-> "aarch64"]]
    /\ pkg = Idle
    /\ file = NoFile
    /\ device = NoFile
    /\ spent = [builds |-> 0, faults |-> 0, packages |-> 0]

\* A build in the same directory replaces a component, for the target or by
\* mistake for the machine it runs on.
Build(f, machine) ==
    /\ spent.builds < MaxBuilds
    /\ parts' = [parts EXCEPT ![f] = [rev |-> @.rev + 1, machine |-> machine]]
    /\ spent' = [spent EXCEPT !.builds = @ + 1]
    /\ pkg' = IF pkg = Idle THEN pkg ELSE [pkg EXCEPT !.disturbed = TRUE]
    /\ UNCHANGED <<file, device>>

---------------------------------------------------------------------------
(* package *)

\* What is not read off the disk: release.toml's numbers, or the flags over them.
Package(notes, include, back, key) ==
    /\ pkg = Idle /\ spent.packages < MaxPackages
    /\ pkg' = [at |-> "measure", todo |-> REQUIRED_COMPONENTS \o include, components |-> <<>>,
               notes |-> notes, writes |-> STATE_VERSION, back |-> back, key |-> key, disturbed |-> FALSE]
    /\ spent' = [spent EXCEPT !.packages = @ + 1]
    /\ UNCHANGED <<parts, file, device>>

\* measure: one component's size and digest, read off the disk.
Measure ==
    /\ pkg.at = "measure" /\ pkg.todo # <<>>
    /\ LET f == Head(pkg.todo)
       IN  pkg' = [pkg EXCEPT !.todo = Tail(@),
                              !.components = Append(@, [name |-> f, digest |-> parts[f]])]
    /\ UNCHANGED <<parts, file, device, spent>>

Names(m) == {m.components[i].name : i \in DOMAIN m.components}

\* PlatformManifest::check.
CheckNames(m) ==
    /\ \A i, j \in DOMAIN m.components : m.components[i].name = m.components[j].name => i = j
    /\ \A n \in Names(m) : ~Escapes(n)
    /\ Required \subseteq Names(m)

Check(m) == m.back <= m.writes /\ CheckNames(m)

\* escape, and what TOML makes of the result: backslash and quote are handled.
Escape(notes) == IF notes = "newline" THEN "does not parse" ELSE "parses"

\* to_document, signed as rendered.
ToDocument(m) ==
    [components |-> m.components, writes |-> m.writes, back |-> m.back, notes |-> m.notes,
     toml |-> Escape(m.notes)]

\* The manifest is checked, rendered and signed; then the output is created, empty.
Sign ==
    /\ pkg.at = "measure" /\ pkg.todo = <<>>
    /\ IF Check(pkg)
       THEN /\ pkg' = [pkg EXCEPT !.at = "pack", !.todo = pkg.components]
            /\ file' = [is |-> "bundle", document |-> ToDocument(pkg), key |-> pkg.key,
                        held |-> <<>>, whole |-> FALSE, undisturbed |-> FALSE]
       ELSE pkg' = Idle /\ UNCHANGED file
    /\ UNCHANGED <<parts, device, spent>>

\* build: a component is read again, and appended with the mode its place gives it.
AppendComponent ==
    /\ pkg.at = "pack" /\ pkg.todo # <<>>
    /\ LET name == Head(pkg.todo).name
       IN  file' = [file EXCEPT !.held = Append(@, [name |-> name, bytes |-> parts[name],
                                                    mode |-> IF InBin(name) THEN 755 ELSE 644])]
    /\ pkg' = [pkg EXCEPT !.todo = Tail(@)]
    /\ UNCHANGED <<parts, device, spent>>

Finish ==
    /\ pkg.at = "pack" /\ pkg.todo = <<>>
    /\ file' = [file EXCEPT !.whole = TRUE, !.undisturbed = ~pkg.disturbed]
    /\ pkg' = Idle
    /\ UNCHANGED <<parts, device, spent>>

\* A read or write fails: the command ends, and the output stays as far as it got.
PackageFails ==
    /\ pkg # Idle /\ spent.faults < MaxFaults
    /\ pkg' = Idle
    /\ spent' = [spent EXCEPT !.faults = @ + 1]
    /\ UNCHANGED <<parts, file, device>>

---------------------------------------------------------------------------
(* On the device *)

\* extract_tree reads to the archive's end; then read_release: within its size,
\* signed for this domain by a trusted key, parsed, and checked again.
ReadRelease(b) == b.whole /\ b.key \in Trusted /\ b.document.toml = "parses" /\ Check(b.document)

Held(b, name) == {b.held[i].bytes : i \in {j \in DOMAIN b.held : b.held[j].name = name}}

\* verify_payload: size and digest of every component, then the machine of a program.
VerifyPayload(b) ==
    \A i \in DOMAIN b.document.components :
        LET c == b.document.components[i]
        IN  Held(b, c.name) = {c.digest} /\ (InBin(c.name) => c.digest.machine = "aarch64")

\* Nothing in the bundle that the signed manifest does not name.
ListedOnly(b) == \A i \in DOMAIN b.held : b.held[i].name \in Names(b.document)

Take ==
    /\ file # NoFile
    /\ ReadRelease(file) /\ VerifyPayload(file) /\ ListedOnly(file)
    /\ device' = file
    /\ UNCHANGED <<parts, pkg, file, spent>>

BundleNext ==
    \/ \E f \in Files, machine \in {"aarch64", "x86_64"} : Build(f, machine)
    \/ \E notes \in {"plain", "quoted", "newline"}, include \in Includes, back \in STATE_VERSION .. STATE_VERSION + 1, key \in Keys :
          Package(notes, include, back, key)
    \/ Measure \/ Sign \/ AppendComponent \/ Finish \/ PackageFails
    \/ Take

BundleSpec == BundleInit /\ [][BundleNext]_buvars

---------------------------------------------------------------------------
(* Properties *)

\* What the device accepts is, file for file, what a trusted key signed, every
\* required program is there and built for this machine, however the directory was
\* built into between measuring and packing (verify_payload, read_release).
AcceptedIsSigned ==
    device # NoFile =>
        /\ device.key \in Trusted /\ Required \subseteq Names(device.document)
        /\ \A i \in DOMAIN device.held : \E j \in DOMAIN device.document.components :
              device.document.components[j] = [name |-> device.held[i].name, digest |-> device.held[i].bytes]
        /\ \A i \in DOMAIN device.held : device.held[i].name \in Required => device.held[i].bytes.machine = "aarch64"

\* A bundle packed from a directory nobody touched, for the right machine and with
\* notes on one line, is one the device accepts: what package signs, parse reads.
UndisturbedBundleInstalls ==
    file # NoFile /\ file.whole /\ file.undisturbed /\ file.key \in Trusted =>
        \/ ReadRelease(file) /\ VerifyPayload(file)
        \/ file.document.notes = "newline"
        \/ \E i \in DOMAIN file.document.components :
              InBin(file.document.components[i].name) /\ file.document.components[i].digest.machine # "aarch64"
=============================================================================
