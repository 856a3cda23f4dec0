----------------------------- MODULE MCSoftware -----------------------------
(***************************************************************************)
(* How software reaches a device and how the operator looks at it: the     *)
(* catalog, the archive format, the platform root, the release train, the  *)
(* platform bundle, `paperctl` over SSH and `paperctl doctor`.  `which`    *)
(* names the one that runs; the others rest.                               *)
(***************************************************************************)
EXTENDS Integers, Sequences, FiniteSets, TLC

CONSTANTS
    Versions, Keys, Trusted,
    Prereleases, Contents, MaxSerial, CatalogFaults,
    Sources, Foreign, EntryLimit, FileLimit, TotalLimit,
    MAX_ENTRYPOINT_BYTES, MAX_ASSET_BYTES, MAX_PACKAGE_BYTES,
    RootCommands, RootFaults,
    AppDirs, REQUIRED_COMPONENTS, Compiled, Runs, MaxVersion, MaxEdits, TrainCommands,
    Components, Includes, STATE_VERSION, MaxBuilds, MaxPackages,
    MaxFaults,
    Shells, Hosts, USB_HOST, RETAIN, Pids, MaxRuns, MaxMoves, MaxKills, MaxPolls,
    Here, Parts, MaxPid, MaxEvents, MaxDrops, MaxCommands

\* semver versions are numbers from one; the component list and every list of
\* --include arguments are lists of names; run_log.rs keeps a number of records, and a
\* binary comes in a number of pieces.
ASSUME VersionsAssumption == MaxVersion \in Nat \ {0} /\ Here \in Int
ASSUME ListsAssumption == Components \in Seq(STRING) /\ \A list \in Includes : list \in Seq(STRING)
ASSUME DeskAssumption == RETAIN \in Nat /\ MaxRuns \in Nat /\ Parts \in Nat

VARIABLES
    which,
    served, past, pub, cache, reader, got, seen, faults,
    source, checked, archive, out, taken,
    root, apps, cmd, rootSpent,
    tree, hub, run, uploads, used,
    parts, pkg, file, device, bundleSpent,
    config, up, shell, jobs, logs, record, deskSpent,
    tablet, files, doctor, deploys, spent

D == INSTANCE Distribution WITH MaxFaults <- CatalogFaults
K == INSTANCE Packaging WITH tree <- source
R == INSTANCE PlatformRoot WITH MaxCommands <- RootCommands, MaxFaults <- RootFaults, spent <- rootSpent
T == INSTANCE ReleaseTrain WITH MaxCommands <- TrainCommands
B == INSTANCE Bundle WITH REQUIRED_COMPONENTS <- Components, spent <- bundleSpent
O == INSTANCE Operator WITH spent <- deskSpent
X == INSTANCE Doctor

catalog   == <<served, past, pub, cache, reader, got, seen, faults>>
packaging == <<source, checked, archive, out, taken>>
platform  == <<root, apps, cmd, rootSpent>>
train     == <<tree, hub, run, uploads, used>>
bundle    == <<parts, pkg, file, device, bundleSpent>>
desk      == <<config, up, shell, jobs, logs, record, deskSpent>>
examined  == <<tablet, files, doctor, deploys, spent>>
vars == <<which, catalog, packaging, platform, train, bundle, desk, examined>>

\* An archive's limits are numbers, a source tree is one `check` and `build` can
\* read: declared paths are relative (RelativePath) and what is below a path is below
\* a directory.
ASSUME PackagesAssumption ==
    /\ EntryLimit \in Nat /\ FileLimit \in Nat /\ TotalLimit \in Nat
    /\ Foreign \subseteq [path : Seq(STRING), kind : {"file", "dir", "link"}, size : Nat, holds : Nat,
                          declares : [entrypoint : Seq(STRING), assets : SUBSET Seq(STRING),
                                      runnable : BOOLEAN, aarch64 : BOOLEAN]]
    /\ \A t \in Sources :
         /\ t.manifest \in [entrypoint : Seq(STRING), assets : SUBSET Seq(STRING),
                            runnable : BOOLEAN, aarch64 : BOOLEAN]
         /\ IsFiniteSet(t.manifest.assets)
         /\ \A path \in K!Declared(t.manifest) : K!Lexical(path)
         /\ \A path \in DOMAIN t.nodes :
              /\ t.nodes[path].size \in Nat
              /\ \A p \in K!Parents(path) \intersect DOMAIN t.nodes : t.nodes[p].kind = "dir"

-----------------------------------------------------------------------------
\* Nodes and manifests, as Packaging writes them.
File(size) == [kind |-> "file", size |-> size]
Dir == [kind |-> "dir", size |-> 0]
Manifest == <<"paper.toml">>
Undeclared == [entrypoint |-> <<>>, assets |-> {}, runnable |-> FALSE, aarch64 |-> FALSE]

\* Source trees: whole ones, and ones `check` or `build` must refuse.
Bin == <<"bin", "app">>
Art == <<"art">>
Hidden == <<"art", ".paperclip-x">>
Plain == [entrypoint |-> Bin, assets |-> {Art}, runnable |-> TRUE, aarch64 |-> TRUE]
Whole ==
    (Manifest :> File(1)) @@ (<<"bin">> :> Dir) @@ (Bin :> File(2))
        @@ (Art :> File(1)) @@ (<<"obj">> :> File(1))
SourceTrees ==
    {[nodes |-> Whole, manifest |-> m] :
        m \in {Plain, [Plain EXCEPT !.assets = {Manifest}], [Plain EXCEPT !.aarch64 = FALSE]}}
    \cup {[nodes |-> (Art :> n) @@ Whole, manifest |-> Plain] :
            n \in {Dir, File(4), [kind |-> "link", size |-> 1]}}
    \cup {[nodes |-> (Hidden :> File(1)) @@ (Art :> Dir) @@ Whole,
           manifest |-> [Plain EXCEPT !.assets = {Hidden}]]}

\* Entries of an archive made elsewhere: escaping, hidden, repeated, oversized,
\* a header that lies about its size, a link.
Entry(path, kind, size, holds, declares) ==
    [path |-> path, kind |-> kind, size |-> size, holds |-> holds, declares |-> declares]
ForeignEntries ==
    {Entry(p, "file", 2, h, Undeclared) : p \in {Bin, Art, <<"art", "x">>, Hidden, <<"..", "x">>}, h \in {1, 2}}
    \cup {Entry(p, k, 0, 0, Undeclared) : p \in {Art, <<"bin">>}, k \in {"dir", "link"}}
    \cup {Entry(Manifest, "file", 1, 1, Plain), Entry(Art, "file", 4, 4, Undeclared)}

\* The components of a platform bundle and the --include lists given with them.
ComponentList == <<"paperclip-host", "home">>
IncludeLists == {<<>>, <<"asset">>, <<"asset", "asset">>, <<"../outside">>}

-----------------------------------------------------------------------------
\* A component that does not run starts in one chosen initial state.
Init ==
    /\ which \in {"catalog", "packaging", "platform", "train", "bundle", "desk", "examined"}
    /\ D!DistInit
    /\ K!PackagingInit /\ (which = "packaging" \/ source = [nodes |-> Whole, manifest |-> Plain])
    /\ R!RootInit /\ (which = "platform" \/ (apps.packages /\ ~apps.inside))
    /\ T!RelInit
    /\ B!BundleInit
    /\ O!OperatorInit /\ (which = "desk" \/ up = Hosts)
    /\ X!DoctorInit /\ (which = "examined" \/ (tablet.ready /\ files.inode[1].version < Here))

Next ==
    /\ UNCHANGED which
    /\ \/ /\ which = "catalog" /\ D!DistNext
          /\ UNCHANGED <<packaging, platform, train, bundle, desk, examined>>
       \/ /\ which = "packaging" /\ K!PackagingNext
          /\ UNCHANGED <<catalog, platform, train, bundle, desk, examined>>
       \/ /\ which = "platform" /\ R!RootNext
          /\ UNCHANGED <<catalog, packaging, train, bundle, desk, examined>>
       \/ /\ which = "train" /\ T!RelNext
          /\ UNCHANGED <<catalog, packaging, platform, bundle, desk, examined>>
       \/ /\ which = "bundle" /\ B!BundleNext
          /\ UNCHANGED <<catalog, packaging, platform, train, desk, examined>>
       \/ /\ which = "desk" /\ O!OperatorNext
          /\ UNCHANGED <<catalog, packaging, platform, train, bundle, examined>>
       \/ /\ which = "examined" /\ X!DoctorNext
          /\ UNCHANGED <<catalog, packaging, platform, train, bundle, desk>>

Spec == Init /\ [][Next]_vars

-----------------------------------------------------------------------------
\* The catalog (publish.rs, catalog.rs), stopped anywhere on either side and
\* read through a stale mirror: a published version never changes its content,
\* what an index lists is complete, nothing untrusted reaches the installer,
\* and the index shown as fresh never goes back.
CatalogIsSound ==
    /\ [](which = "catalog" => D!VersionIsImmutable /\ D!ListedIsComplete /\ D!OnlyTrustedContent)
    /\ D!FreshMovesForward

\* Archives (archive.rs, check.rs), whoever made them: nothing is written outside
\* the destination, disk use is bounded even when headers lie, an accepted
\* archive is whole, and what is built is what the manifest declares.
PackagingIsSound ==
    which = "packaging" =>
        K!NothingEscapes /\ K!DiskIsBounded /\ K!AcceptedIsWhole /\ K!BuiltIsDeclared

\* The platform root (upgrade.rs, remove.rs), killed between any two steps:
\* app data is kept unless its removal was asked for, a removal that was cut
\* short can be run again, and once installed paperctl is never absent until it
\* is removed.
RootIsSound ==
    /\ [](which = "platform" => R!DataIsKept /\ R!RemovalCanBeFinished)
    /\ R!PaperctlNeverAbsent

\* From the tree to the device (release.yml, release_sign.rs, bundle.rs,
\* manifest.rs): a published digest names the archive beside it, what is signed
\* is what the workflow built, a device accepts only what a trusted key signed,
\* and a bundle nobody disturbed installs.
ShippedIsWhatWasBuilt ==
    /\ which = "train" => T!DigestNamesTheArchive /\ T!SignedIsWhatWasBuilt
    /\ which = "bundle" => B!AcceptedIsSigned /\ B!UndisturbedBundleInstalls

\* At the desk (remote.rs, run_log.rs, doctor.rs, deploy.rs): the exit status of
\* a detached run is its own unless another run had its pid on that tablet, the
\* quiet run log is bounded, a verdict about a tablet nothing happened to is true
\* of it, a healthy one is held by nobody but stock, and while connections hold
\* and deploys do not overlap the paperctl in place is one that runs.
DeskTellsTheTruth ==
    /\ which = "desk" => O!ReportedExitIsItsOwn /\ O!QuietLogIsBounded
    /\ which = "examined" =>
           X!UndisturbedVerdictIsTrue /\ X!HealthyMeansNobodyElse /\ X!LivePaperctlRuns
=============================================================================
