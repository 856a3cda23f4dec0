------------------------------- MODULE MCPanel -------------------------------
(***************************************************************************)
(* What stands between an app and the glass, one program per behaviour:    *)
(* `which` names the component that runs, the others rest in their initial *)
(* state.                                                                  *)
(***************************************************************************)
EXTENDS Integers, Sequences, FiniteSets

CONSTANTS
    Procs, Honest, Homes, MaxFrames, MaxPanelFaults, MaxSleeps, Capacity, ClientSends,
    Reasons, Nil, MaxDraws, MaxInputs, MaxRests, MaxEffects, MaxQueries, MaxTasks, MaxSends,
    Width, MaxPointers, MaxSystem, MaxFaults, MaxSwitches,
    TouchSlots, MaxIds, MaxDrops,
    Contacts, Points, Side, EDGE_ZONE_DEPTH, EDGE_SWIPE_MIN_TRAVEL, PINCH_MIN_CLOSING,
    MIN_PINCH_FINGERS,
    W, H, Strokes, Sysfs, MaxStrokes,
    h, r           \* the two client processes

\* Option::None is none of the values an option holds.
Violations ==
    {"AfterClose", "DiagnosticTooLong", "BeforeReady", "UnsupportedProtocol", "AfterExit",
     "SavedWrongReason", "AlreadyReady", "NoFrameOutstanding", "UnknownFrame", "TooMuchDamage",
     "SavedWithoutExit"}
ASSUME NilAssumption == Nil \notin Nat \union BOOLEAN \union Violations \union Reasons
ASSUME ContactsAssumption == IsFiniteSet(Contacts) /\ MIN_PINCH_FINGERS \in Nat
ASSUME WidthAssumption == Width \in Nat
\* Nor is it a client, and a socket buffer holds a number of notices.
ASSUME ClientsAssumption == "none" \notin Procs /\ Capacity \in Nat
\* Touch slots are numbered from 0, and there is an id to hand out.
ASSUME InputAssumption == IsFiniteSet(TouchSlots) /\ 0 \in TouchSlots /\ MaxIds \in Nat \ {0}
\* A panel has pixels; a stroke is anywhere, in half pixels.
ASSUME PanelAssumption ==
    W \in Nat \ {0} /\ H \in Nat \ {0} /\ Strokes \subseteq [x : Int, y : Int, w : Int, h : Int]

VARIABLES
    which,
    srv, up, down, proc, next, inFlight, mem, sent,
    host, toApp, toHost, app, disk, used,
    events, drv, wire, thread, bridge, glass, count,
    kernel, touch, pen, nextId, mouse, stream,
    tracks, ruled,
    canvas, claims, engine, ram, epBridge, epGlass, hold, file, parent, spent

C == INSTANCE Compositor WITH MaxSends <- ClientSends
S == INSTANCE AppSession WITH None <- Nil
L == INSTANCE PanelLoop
I == INSTANCE Input WITH Slots <- TouchSlots
G == INSTANCE Gesture
E == INSTANCE PanelEngine WITH bridge <- epBridge, glass <- epGlass, MaxDraws <- MaxStrokes

compositor == <<srv, up, down, proc, next, inFlight, mem, sent>>
session    == <<host, toApp, toHost, app, disk, used>>
loop       == <<events, drv, wire, thread, bridge, glass, count>>
input      == <<kernel, touch, pen, nextId, mouse, stream>>
gesture    == <<tracks, ruled>>
panel      == <<canvas, claims, engine, ram, epBridge, epGlass, hold, file, parent, spent>>

vars == <<which, compositor, session, loop, input, gesture, panel>>

-----------------------------------------------------------------------------
\* Three places along one line: an edge, the middle and the opposite edge.
Line == {<<0, 3>>, <<3, 3>>, <<6, 3>>}

\* Strokes inside, across and outside the panel, and one of no height.
Marks == {[x |-> 0, y |-> 0, w |-> 1, h |-> 2], [x |-> 1, y |-> -1, w |-> 2, h |-> 4],
          [x |-> 3, y |-> 2, w |-> 4, h |-> 2], [x |-> 0, y |-> 1, w |-> 4, h |-> 0]}

\* A sysfs tree with the panel's connector, rail and sensor among others.
Trees == {[connectors |-> <<[lvds |-> FALSE, connected |-> TRUE], [lvds |-> TRUE, connected |-> FALSE]>>,
           rails |-> {[name |-> "VCOM", consumers |-> {"panel"}], [name |-> "usb", consumers |-> {"usb"}]},
           hwmon |-> <<"battery", "epd">>]}

-----------------------------------------------------------------------------
\* A component that does not run starts in one chosen initial state.
Init ==
    /\ which \in {"compositor", "session", "loop", "input", "gesture", "engine"}
    /\ C!Init
    /\ S!Init /\ (which = "session" \/ (app.sdk /\ app.granted /\ disk.save = Nil))
    /\ L!PInit
    /\ I!InputInit /\ (which = "input" \/ ~mouse.on)
    /\ G!GestureInit
    /\ E!EngineInit
    /\ (which = "engine" \/ (engine.stride = W /\ engine.stock /\ engine.table /\ engine.surface /\ hold.real))

Next ==
    /\ UNCHANGED which
    /\ \/ /\ which = "compositor" /\ C!Next
          /\ UNCHANGED <<session, loop, input, gesture, panel>>
       \/ /\ which = "session" /\ S!Next
          /\ UNCHANGED <<compositor, loop, input, gesture, panel>>
       \/ /\ which = "loop" /\ L!PNext
          /\ UNCHANGED <<compositor, session, input, gesture, panel>>
       \/ /\ which = "input" /\ I!InputNext
          /\ UNCHANGED <<compositor, session, loop, gesture, panel>>
       \/ /\ which = "gesture" /\ G!GestureNext
          /\ UNCHANGED <<compositor, session, loop, input, panel>>
       \/ /\ which = "engine" /\ E!EngineNext
          /\ UNCHANGED <<compositor, session, loop, input, gesture>>

Spec == Init /\ [][Next]_vars

-----------------------------------------------------------------------------
\* The compositor (server.rs): while the lock screen is up nothing else is on
\* the glass; home and the foreground name connected clients; the status file
\* tells what the panel shows; a client that follows CompositorSurface is dropped
\* only after it was notified of a slot it did not hold; and a slot the server
\* shows is never one its client is writing, unless it was given back and shown
\* again.
CompositorIsSound ==
    which = "compositor" =>
        C!TypeOK /\ C!LockCovers /\ C!PointersLive /\ C!StatusTruth /\ C!HonestNeverRefused /\ C!ExclusiveRead

\* An app session (session.rs, runtime.rs, storage.rs): an app built with the
\* SDK is refused only for a message that crossed a notice, a frame is accepted
\* only after it was published and never after it was given up, the save file is
\* never torn, and a save that was reported is on disk.
SessionIsSound ==
    which = "session" =>
        S!TypeOK /\ S!HonestOnlyCrossed /\ S!FrameIsPublished /\ S!AbandonedStaysAbandoned /\ S!SaveIsWhole /\ S!SavedIsTrue

\* Whatever an app says, the session with it is a run of SessionContract: one
\* frame at a time, no draw while suspended, one exit, nothing after it.
SessionImplementsContract == S!ImplementsContract

\* `paperctl run` (run.rs, session.rs): waiting for input, the glass shows the
\* app's last frame however frames were coalesced; a frame answers the request
\* it was asked by; and a run that reports nothing about saving did save.
PanelLoopIsSound == which = "loop" => L!GlassFresh /\ L!FrameMatches /\ L!QuietMeansSaved

\* Decoding (evdev.rs, mouse in desktop.rs): until a resync guesses the kernel's
\* slot wrong or a frame swaps the finger in a slot, contacts come down before
\* they move and end once, what is held is on the glass, also after a SYN_DROPPED,
\* and while nothing was dropped every finger is held; a mouse contact always ends.
InputIsSound == which = "input" => I!StreamWellFormed /\ I!NoContactLeftHeld /\ I!MouseContactEnds

\* Gestures (gesture.rs): a contact claimed by the host stays claimed until it
\* lifts, and the pinch that leaves an app takes MIN_PINCH_FINGERS contacts.
GesturesAreFinal == G!ClaimIsFinal /\ G!EscapeIsAHandful

\* The panel bridge (panel.rs, paperclip_ep.cpp, hold.rs): what was claimed is
\* on the glass once a swap succeeds, and the hold report says so only if the
\* engine drew into the buffer that is scanned out.
PanelTellsTheTruth == which = "engine" => E!PanelTellsTheTruth
=============================================================================
