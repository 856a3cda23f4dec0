---------------------------- MODULE ReleaseTrain ----------------------------
(***************************************************************************)
(* How a release is made: the planner that compares what the tree declares *)
(* with what is published (xtask plan_release.rs), the workflow that builds *)
(* and publishes what is missing (release.yml), and sign-release, run by   *)
(* the workflow and by hand (paperctl release_sign.rs).  Two workflow runs, *)
(* a person and commits to the tree interleave; a step of any may fail.    *)
(* Module Bundle is what sign-release packs for the platform.              *)
(***************************************************************************)
EXTENDS Integers, FiniteSets

CONSTANTS
    AppDirs,              \* directories under apps/ that hold a paper.toml
    REQUIRED_COMPONENTS,  \* what a platform bundle must hold
    Compiled,             \* what the workflow compiles for one
    Runs,                 \* workflow runs
    MaxVersion,           \* versions declared
    MaxEdits,             \* commits to the tree
    MaxFaults,            \* failing steps
    MaxCommands           \* commands run by hand

VARIABLES
    tree,     \* the tip of main: per unit the version, the manifest's text and the code
    hub,      \* the releases published, by tag
    run,      \* the workflow runs
    uploads,  \* sign-release commands whose upload has begun
    used      \* budgets

relvars == <<tree, hub, run, uploads, used>>

\* bundled_app_dirs: what ships inside the platform is not published by itself.
BundledAppDirs == AppDirs \cap REQUIRED_COMPONENTS
Units == {"platform"} \cup (AppDirs \ BundledAppDirs)
Tags == Units \X (1 .. MaxVersion)
NoRelease == [is |-> "none"]
NoDocument == [is |-> "none"]

\* What the toolchain makes of a unit's source; two linkers give two files.
BuildOf(source, linker) == [code |-> source.code, text |-> source.text, linker |-> linker]

\* content_digest: of the declared manifest, the code not included.
ContentDigest(declared) == [version |-> declared.version, text |-> declared.text]

Tag(u, declared) == <<u, declared.version>>

RelInit ==
    /\ tree = [u \in Units |-> [version |-> 1, text |-> 0, code |-> 0]]
    /\ hub = [t \in Tags |-> NoRelease]
    /\ run = [r \in Runs |-> [at |-> "waiting", commit |-> tree, step |-> [u \in Units |-> "none"]]]
    /\ uploads = {}
    /\ used = [edits |-> 0, faults |-> 0, commands |-> 0]

Spend(kind) == used' = [used EXCEPT ![kind] = @ + 1]
Fault == used.faults < MaxFaults /\ Spend("faults")

---------------------------------------------------------------------------
(* The tree *)

Commit(u, declared) ==
    /\ used.edits < MaxEdits
    /\ tree' = [tree EXCEPT ![u] = declared]
    /\ Spend("edits")
    /\ UNCHANGED <<hub, run, uploads>>

Bump(u) == tree[u].version < MaxVersion /\ Commit(u, [tree[u] EXCEPT !.version = @ + 1, !.text = @ + 1])
EditManifest(u) == Commit(u, [tree[u] EXCEPT !.text = @ + 1])
EditCode(u) == Commit(u, [tree[u] EXCEPT !.code = @ + 1])

---------------------------------------------------------------------------
(* The planner and the workflow *)

\* classify: a tag nobody published is to be published; one published with the
\* digest declared now is up to date; anything else is a conflict.
Classify(u, declared) ==
    LET released == hub[Tag(u, declared)]
    IN  CASE released = NoRelease -> "publish"
          [] released # NoRelease /\ released.digest = ContentDigest(declared) -> "up_to_date"
          [] OTHER -> "conflict"

\* build_plan, and the jobs the workflow starts from it.  The planner's exit code
\* on a conflict is the pipe's first command's: the jobs of the rest go on.
Plan(r) ==
    /\ run[r].at = "waiting"
    /\ LET wanted == {u \in Units : Classify(u, tree[u]) = "publish"}
       IN  run' = [run EXCEPT ![r] = [at |-> "planned", commit |-> tree,
                                      step |-> [u \in Units |-> IF u \in wanted THEN "publish" ELSE "none"]]]
    /\ UNCHANGED <<tree, hub, uploads, used>>

\* The list of releases cannot be fetched: nothing is planned.
PlanFails(r) ==
    /\ run[r].at = "waiting" /\ Fault
    /\ run' = [run EXCEPT ![r].at = "planned"]
    /\ UNCHANGED <<tree, hub, uploads>>

At(r, u, step) == run[r].at = "planned" /\ run[r].step[u] = step

\* Every job checks out the commit that was planned from.
CheckoutTip(r, u) == tree[u]
Checkout(r, u) == run[r].commit[u]

\* gh release create: the digest the plan expected, with what was built; refused
\* for a tag that exists by now.

Publish(r, u) ==
    /\ At(r, u, "publish")
    /\ LET declared == run[r].commit[u]
           tag == Tag(u, declared)
       IN  IF hub[tag] = NoRelease
           THEN /\ hub' = [hub EXCEPT ![tag] = [is |-> "release", digest |-> ContentDigest(declared),
                              archive |-> BuildOf(Checkout(r, u), "gcc"), parts |-> Compiled,
                              doc |-> NoDocument, sig |-> NoDocument]]
                /\ run' = [run EXCEPT ![r].step[u] = "sign"]
           ELSE /\ run' = [run EXCEPT ![r].step[u] = "failed"]
                /\ UNCHANGED hub
    /\ UNCHANGED <<tree, uploads, used>>

JobFails(r, u) ==
    /\ run[r].at = "planned" /\ run[r].step[u] \in {"publish", "sign"} /\ Fault
    /\ run' = [run EXCEPT ![r].step[u] = "failed"]
    /\ UNCHANGED <<tree, hub, uploads>>

---------------------------------------------------------------------------
(* sign-release *)

\* resolve: a platform tag must name the version release.toml declares, an app's
\* one that some paper.toml declares.
Resolve(tag, checkout) == checkout[tag[1]].version = tag[2]

\* rebuild_and_compare: the archive being signed is what this source and linker give.
RebuildAndCompare(archive, source, linker) == BuildOf(source, linker) = archive

\* describe and PlatformManifest::check: every required component is there.
Describe(parts) == REQUIRED_COMPONENTS \subseteq parts

\* What signing an app's archive needs, and what signing a platform's parts needs.
SignApp(tag, checkout, linker, vouch) ==
    vouch = "rebuild" => RebuildAndCompare(hub[tag].archive, checkout[tag[1]], linker)
SignPlatform(tag) == Describe(hub[tag].parts)

MaySign(tag, checkout, linker, vouch) ==
    /\ hub[tag] # NoRelease
    /\ Resolve(tag, checkout)
    /\ IF tag[1] = "platform" THEN SignPlatform(tag) ELSE SignApp(tag, checkout, linker, vouch)

\* What is signed: the archive as it is published (source: the signer's own).  A
\* platform is never rebuilt: its parts are taken on trust whatever was asked for.
Document(tag, checkout, vouch) ==
    [is |-> "document", archive |-> hub[tag].archive, source |-> checkout[tag[1]],
     vouch |-> IF tag[1] = "platform" THEN "trust" ELSE vouch]

\* An app's document and its signature are two files, a platform's bundle is one.
BeginUpload(tag, checkout, vouch) ==
    uploads' = uploads \cup
        {[tag |-> tag, doc |-> Document(tag, checkout, vouch),
          left |-> IF tag[1] = "platform" THEN {"doc"} ELSE {"doc", "sig"}]}

\* The workflow's last step, in the same job and from the same checkout.
SignInWorkflow(r, u) ==
    /\ At(r, u, "sign")
    /\ LET tag == Tag(u, run[r].commit[u])
       IN  IF MaySign(tag, run[r].commit, "gcc", "rebuild")
           THEN BeginUpload(tag, run[r].commit, "rebuild")
           ELSE UNCHANGED uploads
    /\ run' = [run EXCEPT ![r].step[u] =
                  IF MaySign(Tag(u, run[r].commit[u]), run[r].commit, "gcc", "rebuild") THEN "done" ELSE "failed"]
    /\ UNCHANGED <<tree, hub, used>>

\* By hand, from the tip, with whichever linker the machine has, or trusting the
\* workflow's build.
SignByHand(tag, linker, vouch) ==
    /\ used.commands < MaxCommands
    /\ MaySign(tag, tree, linker, vouch)
    /\ BeginUpload(tag, tree, vouch)
    /\ Spend("commands")
    /\ UNCHANGED <<tree, hub, run>>

\* gh release upload --clobber: the document, then its signature.
Upload(job) ==
    /\ uploads' = (uploads \ {job}) \cup
                      (IF job.left = {"doc", "sig"} THEN {[job EXCEPT !.left = {"sig"}]} ELSE {})
    /\ hub' = [hub EXCEPT ![job.tag] = IF "doc" \in job.left THEN [@ EXCEPT !.doc = job.doc]
                                                             ELSE [@ EXCEPT !.sig = job.doc]]
    /\ UNCHANGED <<tree, run, used>>

UploadFails(job) ==
    /\ Fault
    /\ uploads' = uploads \ {job}
    /\ UNCHANGED <<tree, hub, run>>

RelNext ==
    \/ \E u \in Units : Bump(u) \/ EditManifest(u) \/ EditCode(u)
    \/ \E r \in Runs : Plan(r) \/ PlanFails(r)
    \/ \E r \in Runs, u \in Units : Publish(r, u) \/ JobFails(r, u) \/ SignInWorkflow(r, u)
    \/ \E tag \in Tags, linker \in {"gcc", "zig"}, vouch \in {"rebuild", "trust"} : SignByHand(tag, linker, vouch)
    \/ \E job \in uploads : Upload(job) \/ UploadFails(job)

RelSpec == RelInit /\ [][RelNext]_relvars

---------------------------------------------------------------------------
(* Properties *)

\* The digest a release records is of the manifest its archive was built from: two
\* workflow runs and commits between them never pair one's plan with another's build.
DigestNamesTheArchive ==
    \A t \in Tags : hub[t] # NoRelease => hub[t].archive.text = hub[t].digest.text

\* A signature is over the archive its tag holds, and one not given on trust is
\* by somebody whose own source and linker give exactly that archive: no commit,
\* second run or second signer in between leaves a document about other bytes.
SignedIsWhatWasBuilt ==
    \A t \in Tags : hub[t] # NoRelease /\ hub[t].doc # NoDocument =>
        /\ hub[t].doc.archive = hub[t].archive
        /\ hub[t].doc.vouch = "rebuild" => hub[t].doc.source.code = hub[t].archive.code

=============================================================================
