------------------------------ MODULE DevLoop ------------------------------
(***************************************************************************)
(* `paperctl dev` (tools/paperctl/src/dev.rs) in its desktop window         *)
(* (platform/sdk/src/desktop.rs).  The loop runs one session after another *)
(* and rebuilds when the watcher thread saw a source change; the watcher   *)
(* sets a flag and then asks the window it knows of to close.  A fresh     *)
(* build replaces the process, and starts with a watcher of its own.  The  *)
(* compiler reads the sources over time, so a build is of some version     *)
(* between the one it began with and the one it ended with.                *)
(***************************************************************************)
EXTENDS Naturals

CONSTANTS
    Apps,           \* the apps the loop can run
    MaxEdits,       \* edits of the sources
    MaxTaps         \* taps the user makes

VARIABLES
    source,         \* the version of the watched sources
    notice,         \* the watcher's callback: "idle", "flag", "handle"
    changed,        \* the flag it sets
    loop,           \* the main thread: where it is, its build and its app
    window,         \* the event loop it runs
    asked,          \* the newest version a registered window was asked to close for,
                    \* and the newest whose flag was cleared before the window was asked
    taps

devvars == <<source, notice, changed, loop, window, asked, taps>>

\* exit: what ended the event loop, first of all.
NoWindow == [handle |-> FALSE, up |-> FALSE, ask |-> FALSE, exit |-> "none",
             redraw |-> FALSE, frame |-> 0, shown |-> 0]

DevInit ==
    /\ source = 1
    /\ notice = "idle"
    /\ changed = FALSE
    /\ \E a \in Apps : loop = [at |-> "start", build |-> 1, app |-> a, relaunch |-> "none",
                               reading |-> 1, failed |-> 0, by |-> "none"]
    /\ window = NoWindow
    /\ asked = [owed |-> 0, crossed |-> 0]
    /\ taps = 0

(* The user saves a watched file; the build may be broken by it or mended.  It *)
(* is noticed once the process watches.                                        *)
Edit ==
    /\ source < MaxEdits + 1
    /\ source' = source + 1
    /\ notice' = IF notice = "idle" /\ loop.at # "start" THEN "flag" ELSE notice
    /\ UNCHANGED <<changed, loop, window, asked, taps>>

(* The watcher's callback: the flag first, *)
SetChanged ==
    /\ notice = "flag"
    /\ changed' = TRUE
    /\ notice' = "handle"
    /\ UNCHANGED <<source, loop, window, asked, taps>>

(* A flag that is no longer set was cleared by a session that began meanwhile. *)
Asks ==
    asked' = IF ~window.handle THEN asked
             ELSE [owed |-> source, crossed |-> IF changed THEN asked.crossed ELSE source]

(* A plausible bug: the window is told only if it has a frame on the glass. *)
RequestExitOnceShown ==
    /\ notice = "handle"
    /\ notice' = "idle"
    /\ window' = [window EXCEPT !.ask = @ \/ (window.handle /\ window.shown > 0)]
    /\ Asks
    /\ UNCHANGED <<source, changed, loop, taps>>

(* then request_exit, if a window registered itself. *)
RequestExit ==
    /\ notice = "handle"
    /\ notice' = "idle"
    /\ window' = [window EXCEPT !.ask = @ \/ window.handle]
    /\ Asks
    /\ UNCHANGED <<source, changed, loop, taps>>

-----------------------------------------------------------------------------
Goes(at) == loop' = [loop EXCEPT !.at = at]

(* watch_sources, once a process. *)
Watch ==
    /\ loop.at = "start"
    /\ Goes("begin")
    /\ UNCHANGED <<source, notice, changed, window, asked, taps>>

(* The flag is cleared and the next session is opened. *)
BeginSession ==
    /\ loop.at = "begin"
    /\ changed' = FALSE
    /\ loop' = [loop EXCEPT !.at = "open", !.relaunch = "none"]
    /\ UNCHANGED <<source, notice, window, asked, taps>>

(* run_with_handle: the handle is given out before the window exists. *)
RegisterHandle ==
    /\ loop.at = "open"
    /\ window' = [NoWindow EXCEPT !.handle = TRUE]
    /\ Goes("window")
    /\ UNCHANGED <<source, notice, changed, asked, taps>>

(* open_session or the event loop cannot be had: the command ends with the error. *)
OpenFails ==
    /\ loop.at = "open"
    /\ loop' = [loop EXCEPT !.at = "exited", !.by = "error"]
    /\ UNCHANGED <<source, notice, changed, window, asked, taps>>

InWindow == loop.at = "window" /\ window.exit = "none"

(* resumed: the window is created and a redraw asked for, or the loop stops. *)
Resumed ==
    /\ InWindow /\ ~window.up
    /\ \E ok \in BOOLEAN :
          window' = [window EXCEPT !.up = ok, !.redraw = ok, !.frame = 1,
                                   !.exit = IF ok THEN "none" ELSE "error"]
    /\ UNCHANGED <<source, notice, changed, loop, asked, taps>>

(* draw: the handler renders what the app last drew, and it is presented. *)
Draw ==
    /\ InWindow /\ window.up /\ window.redraw
    /\ window' = [window EXCEPT !.redraw = FALSE, !.shown = window.frame]
    /\ UNCHANGED <<source, notice, changed, loop, asked, taps>>

(* pointer: the app answers the tap with a frame, and a redraw is asked for; *)
Tap ==
    /\ InWindow /\ window.up /\ taps < MaxTaps
    /\ taps' = taps + 1
    /\ window' = [window EXCEPT !.frame = @ + 1, !.redraw = TRUE]
    /\ UNCHANGED <<source, notice, changed, loop, asked>>

(* or with a request: Home or Launch names what runs next; ReturnToStock, an app *)
(* the loop cannot run and an error of the session name nothing.                 *)
TapLeaves ==
    /\ InWindow /\ window.up /\ taps < MaxTaps
    /\ taps' = taps + 1
    /\ \E next \in Apps \cup {"none"} : loop' = [loop EXCEPT !.relaunch = next]
    /\ window' = [window EXCEPT !.redraw = TRUE, !.exit = "user"]
    /\ UNCHANGED <<source, notice, changed, asked>>

(* CloseRequested, Escape, or a surface that cannot be presented. *)
Close ==
    /\ InWindow /\ window.up
    /\ \E by \in {"user", "error"} : window' = [window EXCEPT !.exit = by]
    /\ UNCHANGED <<source, notice, changed, loop, asked, taps>>

(* user_event: the watcher's request reaches the event loop. *)
UserEvent ==
    /\ InWindow /\ window.ask
    /\ window' = [window EXCEPT !.exit = "watcher"]
    /\ UNCHANGED <<source, notice, changed, loop, asked, taps>>

(* run_app returns; the handle is taken back. *)
WindowEnds ==
    /\ loop.at = "window" /\ window.exit # "none"
    /\ window' = NoWindow
    /\ loop' = [loop EXCEPT !.at = "ended", !.by = window.exit]
    /\ UNCHANGED <<source, notice, changed, asked, taps>>

(* A closed window nobody asked for, and a set flag: the watcher did it. *)
SameAppAgain ==
    /\ loop.at = "ended"
    /\ loop' = [loop EXCEPT !.at = "shutdown",
                            !.relaunch = IF @ = "none" /\ changed THEN loop.app ELSE @]
    /\ UNCHANGED <<source, notice, changed, window, asked, taps>>

(* shutdown: the app saves and the session ends, well or not. *)
Shutdown ==
    /\ loop.at = "shutdown"
    /\ Goes("decide")
    /\ UNCHANGED <<source, notice, changed, window, asked, taps>>

(* run: the flag is read once more and the outcome acted on. *)
Decide ==
    /\ loop.at = "decide"
    /\ loop' = [loop EXCEPT !.at = IF loop.relaunch = "none" THEN "exited"
                                     ELSE IF changed THEN "build" ELSE "begin",
                            !.app = IF loop.relaunch = "none" THEN @ ELSE loop.relaunch,
                            !.reading = source]
    /\ UNCHANGED <<source, notice, changed, window, asked, taps>>

(* cargo_build succeeded: relaunch_fresh_binary.  What this process was told  *)
(* of while it built is forgotten with it.                                    *)
BuildSucceeds ==
    /\ loop.at = "build"
    /\ \E version \in loop.reading..source :
          loop' = [loop EXCEPT !.at = "start", !.build = version]
    /\ changed' = FALSE
    /\ notice' = "idle"
    /\ UNCHANGED <<source, window, asked, taps>>

(* The fresh binary cannot be started: the command ends with the error. *)
RelaunchFails ==
    /\ loop.at = "build"
    /\ loop' = [loop EXCEPT !.at = "exited", !.by = "error"]
    /\ UNCHANGED <<source, notice, changed, window, asked, taps>>

(* It failed: the previous build is kept and runs again. *)
BuildFails ==
    /\ loop.at = "build"
    /\ \E version \in loop.reading..source :
          loop' = [loop EXCEPT !.at = "begin", !.failed = version]
    /\ UNCHANGED <<source, notice, changed, window, asked, taps>>

Main == Watch \/ BeginSession \/ RegisterHandle \/ Resumed \/ Draw \/ UserEvent \/ WindowEnds
        \/ SameAppAgain \/ Shutdown \/ Decide \/ BuildSucceeds

DevNext == Edit \/ SetChanged \/ RequestExit \/ OpenFails \/ Tap \/ TapLeaves \/ Close
           \/ BuildFails \/ RelaunchFails \/ Main

(* The main thread keeps running and winit delivers the events it is sent; a  *)
(* build ends.  Nothing is assumed of the user.                               *)
DevFairness == WF_devvars(Main) /\ WF_devvars(UserEvent) /\ WF_devvars(WindowEnds)

DevSpec == DevInit /\ [][DevNext]_devvars /\ DevFairness

-----------------------------------------------------------------------------
(* desktop.rs: what the app drew last is on the window or a redraw is pending. *)
WindowIsCurrent ==
    (InWindow /\ window.up /\ window.shown < window.frame) => window.redraw

(* dev.rs: "edit, save, look - nothing left to close by hand": once a window   *)
(* was asked to close for a version of the sources, the loop comes to run a    *)
(* build at least as new, unless that build fails or cannot be started, or the *)
(* request crossed the start of the window's session, which cleared its flag.  *)
EditReachesTheWindow ==
    \A v \in 1..(MaxEdits + 1) :
        (asked.owed = v) ~> \/ loop.build >= v \/ loop.failed >= v
                            \/ loop.at = "exited" /\ loop.by = "error"
                            \/ asked.crossed = v

(* dev.rs:12-21: a window the watcher closed is a reload and never the end of *)
(* the tool.  The code does not keep it: see crossed.                         *)
ReloadIsNotAnExit == loop.at = "exited" => loop.by # "watcher"
=============================================================================
