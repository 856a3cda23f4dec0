----------------------------- MODULE PlatformRoot -----------------------------
(***************************************************************************)
(* The directory Paperclip lives in (updater layout.rs) and the commands    *)
(* that make it, replace paperctl in it and take it away: ensure, upgrade  *)
(* bootstrap and remove (remove.rs, paperctl upgrade.rs), one durable write *)
(* at a time.  A command may be killed, or fail, between any two writes.   *)
(* A platform upgrade is module Upgrade; here it is the part that depends  *)
(* on what an earlier removal left.                                        *)
(***************************************************************************)
EXTENDS Integers, Sequences, FiniteSets

CONSTANTS
    Versions,     \* platform versions
    MaxCommands,  \* commands started
    MaxFaults     \* commands killed or failing part way

VARIABLES
    root,   \* the platform root: marker, contents of its directories, the two links
    apps,   \* the app store's root: packages, app data, and whether it overlaps the platform's
    cmd,    \* the command running: its name and the steps left
    spent   \* budgets, and whether a removal has completed since the last install

rvars == <<root, apps, cmd, spent>>

Directories == {"releases", "staging", "state", "keys", "bin"}
NoLink == 0
Absent == [is |-> "absent", runs |-> FALSE]
Binary(which) == [is |-> which, runs |-> FALSE]
NoCommand == [name |-> "none", steps |-> <<>>, version |-> 0]

RootInit ==
    /\ root = [marker |-> FALSE, made |-> {}, releases |-> {}, current |-> NoLink, previous |-> NoLink,
               live |-> Absent, kept |-> Absent]
    /\ apps \in [packages : BOOLEAN, data : {TRUE}, inside : BOOLEAN]
    /\ cmd = NoCommand
    /\ spent = [commands |-> 0, faults |-> 0, removed |-> FALSE, asked |-> FALSE]

---------------------------------------------------------------------------
(* Starting a command: its durable writes, in order *)

Run(name, steps, version) ==
    /\ cmd = NoCommand /\ spent.commands < MaxCommands
    /\ cmd' = [name |-> name, steps |-> steps, version |-> version]
    /\ spent' = [spent EXCEPT !.commands = @ + 1, !.removed = FALSE]
    /\ UNCHANGED <<root, apps>>

\* PlatformLayout::ensure: every directory, then the marker.
Ensure == <<"make", "mark">>

\* The outgoing paperctl is copied aside, the new one renamed over it.
Bootstrap == Ensure \o <<"copy", "write", "chmod">>

\* PlatformLayout::separate_from: neither root may lie inside the other.
SeparateFrom == ~apps.inside

\* plan: the directories of the platform, its links and the app store's, with
\* the marker last; app data only when it was asked for.
Plan(data) ==
    <<"releases", "current", "previous", "staging", "state", "keys", "bin", "packages">>
        \o (IF data THEN <<"data">> ELSE <<>>) \o <<"unmark">>

StartEnsure == Run("setup", Ensure, 0)
StartBootstrap == Run("bootstrap", Bootstrap, 0)
StartUpgrade(v) == Run("upgrade", Ensure \o <<"stage", "fallback", "activate">>, v)

\* remove --yes: refused for overlapping roots and for a root without its marker.
StartRemove(data) ==
    /\ SeparateFrom /\ root.marker
    /\ Run("remove", Plan(data), IF data THEN 1 ELSE 0)

---------------------------------------------------------------------------
(* The writes *)

Doing(step) == cmd.steps # <<>> /\ Head(cmd.steps) = step
Onward == cmd' = IF Len(cmd.steps) = 1 THEN NoCommand ELSE [cmd EXCEPT !.steps = Tail(@)]
GivesUp == cmd' = NoCommand
Write(next) == root' = next /\ Onward /\ UNCHANGED <<apps, spent>>

MakeDirectories == Doing("make") /\ Write([root EXCEPT !.made = Directories])
Mark == Doing("mark") /\ Write([root EXCEPT !.marker = TRUE])

AsideByRename == [root EXCEPT !.kept = root.live, !.live = Absent]

Aside == [root EXCEPT !.kept = root.live]

CopyAside ==
    /\ Doing("copy")
    /\ Write(IF root.live = Absent THEN root ELSE Aside)

\* atomic_write: the whole new file under the live name, or the old one still.
WriteLive ==
    /\ Doing("write")
    /\ Write([root EXCEPT !.live = Binary("new")])
MakeExecutable == Doing("chmod") /\ Write([root EXCEPT !.live.runs = TRUE])

StageRelease == Doing("stage") /\ Write([root EXCEPT !.releases = @ \cup {cmd.version}])

\* PlatformLayout::select refuses a version that is not on disk.
SelectFallback ==
    /\ Doing("fallback")
    /\ IF root.current = NoLink THEN Write([root EXCEPT !.previous = NoLink])
       ELSE IF root.current \in root.releases THEN Write([root EXCEPT !.previous = root.current])
       ELSE GivesUp /\ UNCHANGED <<root, apps, spent>>

SelectCurrent == Doing("activate") /\ Write([root EXCEPT !.current = cmd.version])

\* Removal::execute: a path that does not exist is passed over, and a link to a
\* release that is gone does not exist.
Exists(link) == link # NoLink /\ link \in root.releases

RemoveReleases == Doing("releases") /\ Write([root EXCEPT !.releases = {}, !.made = @ \ {"releases"}])
RemoveCurrent == Doing("current") /\ Write([root EXCEPT !.current = IF Exists(@) THEN NoLink ELSE @])
RemovePrevious == Doing("previous") /\ Write([root EXCEPT !.previous = IF Exists(@) THEN NoLink ELSE @])

RemoveDirectory(dir) ==
    /\ dir \in {"staging", "state", "keys"} /\ Doing(dir)
    /\ root' = [root EXCEPT !.made = @ \ {dir}]
    /\ apps' = IF apps.inside /\ dir = "state" THEN [apps EXCEPT !.data = FALSE] ELSE apps
    /\ Onward
    /\ UNCHANGED spent

RemoveBin ==
    Doing("bin") /\ Write([root EXCEPT !.made = @ \ {"bin"}, !.live = Absent, !.kept = Absent])

RemoveFromStore ==
    /\ \/ Doing("packages") /\ apps' = [apps EXCEPT !.packages = FALSE]
       \/ Doing("data") /\ apps' = [apps EXCEPT !.data = FALSE]
    /\ spent' = [spent EXCEPT !.asked = @ \/ Doing("data")]
    /\ Onward
    /\ UNCHANGED root

Unmark ==
    /\ Doing("unmark")
    /\ root' = [root EXCEPT !.marker = FALSE]
    /\ spent' = [spent EXCEPT !.removed = Len(cmd.steps) = 1]
    /\ Onward
    /\ UNCHANGED apps

\* A write fails, or the process is killed: what was written stays.
Stopped ==
    /\ cmd # NoCommand /\ spent.faults < MaxFaults
    /\ spent' = [spent EXCEPT !.faults = @ + 1]
    /\ GivesUp
    /\ UNCHANGED <<root, apps>>

RootNext ==
    \/ StartEnsure \/ StartBootstrap
    \/ \E v \in Versions : StartUpgrade(v)
    \/ \E data \in BOOLEAN : StartRemove(data)
    \/ MakeDirectories \/ Mark \/ CopyAside \/ WriteLive \/ MakeExecutable
    \/ StageRelease \/ SelectFallback \/ SelectCurrent
    \/ RemoveReleases \/ RemoveCurrent \/ RemovePrevious \/ RemoveBin \/ RemoveFromStore \/ Unmark
    \/ \E dir \in Directories : RemoveDirectory(dir)
    \/ Stopped

RootSpec == RootInit /\ [][RootNext]_rvars

---------------------------------------------------------------------------
(* Properties *)

\* App data goes only when the removal was told to take it, wherever the two
\* roots lie: "without unintentionally deleting notebooks or app data"
\* (remove.rs 3-18, separate_from in layout.rs 348-370).
DataIsKept == ~apps.data => spent.asked

\* While releases or programs are in the root its marker is there too, so a
\* removal stopped half way can be asked for again (execute refuses a root
\* without its marker, remove.rs 75-80, and plan names the marker last).
RemovalCanBeFinished ==
    root.releases # {} \/ root.live # Absent \/ root.kept # Absent => root.marker

\* Once there is a paperctl, some paperctl is there at every instant of every
\* bootstrap and after every interrupted one: "live is either the old binary or
\* the new one at every instant and is never briefly absent" (paperctl
\* upgrade.rs 426-441).
PaperctlNeverAbsent == [][cmd.name # "remove" /\ root.live # Absent => root'.live # Absent]_rvars

===============================================================================
