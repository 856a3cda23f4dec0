------------------------------ MODULE PanelLoop ------------------------------
(***************************************************************************)
(* `paperctl run` (tools/paperctl run.rs and session.rs): a loop that      *)
(* takes pointers from the input readers' channel, hands each to the app's *)
(* thread over a socket pair, waits for the frame it asks for, and         *)
(* presents on the panel what the app's surface published since.  The      *)
(* picture is a value per region of the screen.                            *)
(***************************************************************************)
EXTENDS Naturals, Sequences

CONSTANTS
    Width,       \* regions 1..Width, side by side across the screen
    MaxPointers, \* pointers the readers produce
    MaxSystem,   \* system events and the app's queries, together
    MaxFaults,   \* read timeouts and panel errors
    MaxSwitches  \* app sessions after the first

VARIABLES
    events, \* the input channel: pointers queued, and whether a reader lives
    drv,    \* the loop: where it is, its batch and what it has reported
    wire,   \* the two directions of the socket pair
    thread, \* the app's thread: its picture and what changed since it drew
    bridge, \* the shared canvas and the damage slot beside it
    glass,  \* what the panel shows
    count   \* what the bounds count

pvars == <<events, drv, wire, thread, bridge, glass, count>>

Regions == 1..Width
NoDamage == {0}       \* the damage slot is None
NoRequest == "none"
Requests == {"redraw", "home", "stock", "unknown"}

\* PixelRect::covering: one rectangle around everything claimed.
Covering(claim) == {r \in Regions : \E lo, hi \in claim : lo <= r /\ r <= hi}

NewThread == [alive |-> TRUE, picture |-> [r \in Regions |-> 0], changed |-> Regions, saved |-> "no"]
NewWire == [toApp |-> <<[is |-> "hello", id |-> 0]>>, toHost |-> <<>>]

\* The app's thread, an SDK loop (module AppSession) reduced to what the
\* driver sees.  An event may repaint regions, ask for a fact, want something.
ThreadHandles ==
    /\ thread.alive /\ wire.toApp # <<>> /\ Head(wire.toApp).is \in {"pointer", "system", "answer"}
    /\ \E repaint \in SUBSET Regions, asks \in BOOLEAN, wants \in Requests \union {NoRequest} :
          /\ asks => count.system + count.queries < MaxSystem
          /\ thread' = [thread EXCEPT !.picture = [r \in Regions |-> IF r \in repaint THEN 1 - @[r] ELSE @[r]],
                                      !.changed = @ \union repaint]
          /\ wire' = [toApp |-> Tail(wire.toApp),
                      toHost |-> wire.toHost
                        \o (IF asks THEN <<[is |-> "query", id |-> 0]>> ELSE <<>>)
                        \o (IF wants = NoRequest THEN <<>> ELSE <<[is |-> wants, id |-> 0]>>)]
          /\ count' = [count EXCEPT !.queries = IF asks THEN @ + 1 ELSE @]
    /\ UNCHANGED <<events, drv, bridge, glass>>

ThreadGreets ==
    /\ thread.alive /\ wire.toApp # <<>> /\ Head(wire.toApp).is = "hello"
    /\ wire' = [toApp |-> Tail(wire.toApp), toHost |-> Append(wire.toHost, [is |-> "ready", id |-> 0])]
    /\ UNCHANGED <<events, drv, thread, bridge, glass, count>>

\* BridgeSurface::publish: the frame replaces the last one, the damage adds up.
MergeDamageKeepsLast(slot, claim) == claim
MergeDamage(slot, claim) == IF slot = NoDamage THEN claim ELSE slot \union claim

ThreadDraws ==
    /\ thread.alive /\ wire.toApp # <<>> /\ Head(wire.toApp).is = "draw"
    /\ \E claim \in {thread.changed, Regions} :
          bridge' = [frame |-> thread.picture, damage |-> MergeDamage(bridge.damage, claim)]
    /\ thread' = [thread EXCEPT !.changed = {}]
    /\ wire' = [toApp |-> Tail(wire.toApp),
                toHost |-> Append(wire.toHost, [is |-> "frame", id |-> Head(wire.toApp).id])]
    /\ UNCHANGED <<events, drv, glass, count>>

ThreadSaves ==
    /\ thread.alive /\ wire.toApp # <<>> /\ Head(wire.toApp).is = "exit"
    /\ \E ok \in {"yes", "failed"} :
          /\ thread' = [thread EXCEPT !.alive = FALSE, !.saved = ok]
          /\ wire' = [toApp |-> Tail(wire.toApp),
                      toHost |-> Append(wire.toHost, [is |-> "saved", id |-> IF ok = "yes" THEN 1 ELSE 0])]
    /\ UNCHANGED <<events, drv, bridge, glass, count>>

\* The driver's end of the socket is gone: HostClosed, and nothing is saved.
ThreadSeesEof ==
    /\ thread.alive /\ drv.pc = "ended" /\ wire.toApp = <<>>
    /\ thread' = [thread EXCEPT !.alive = FALSE]
    /\ UNCHANGED <<events, drv, wire, bridge, glass, count>>

-----------------------------------------------------------------------------
\* Session: request_frame writes what changed in the system and the draw
\* request, then reads until a frame comes.

Asking(w, pointers) ==
    \E system \in 0..1 :
        /\ count.system + count.queries + system <= MaxSystem
        /\ count' = [count EXCEPT !.system = @ + system]
        /\ wire' = [w EXCEPT !.toApp = @ \o [i \in 1..pointers |-> [is |-> "pointer", id |-> 0]]
                                        \o [i \in 1..system |-> [is |-> "system", id |-> 0]]
                                        \o <<[is |-> "draw", id |-> drv.next]>>]

\* open_session_common: the first message read, whatever it is, is "ready".
OpenSession ==
    /\ drv.pc = "opening" /\ wire.toHost # <<>>
    /\ Asking([wire EXCEPT !.toHost = Tail(@)], 0)
    /\ drv' = [drv EXCEPT !.pc = "first", !.next = @ + 1]
    /\ UNCHANGED <<events, thread, bridge, glass>>

Awaiting == drv.pc \in {"first", "await", "more"}

\* One message read while a frame is awaited; the frame itself ends the wait.
ReadMessage ==
    /\ Awaiting /\ wire.toHost # <<>> /\ Head(wire.toHost).is # "frame"
    /\ LET m == Head(wire.toHost)
       IN  /\ wire' = [toHost |-> Tail(wire.toHost),
                       toApp |-> IF m.is = "query" THEN Append(wire.toApp, [is |-> "answer", id |-> 0])
                                 ELSE wire.toApp]
           /\ drv' = [drv EXCEPT !.seen = IF m.is \in Requests THEN m.is ELSE @]
    /\ UNCHANGED <<events, thread, bridge, glass, count>>

\* pointer returns: a later pointer's request replaces an earlier one's.
ReadFrame ==
    /\ Awaiting /\ wire.toHost # <<>> /\ Head(wire.toHost).is = "frame"
    /\ wire' = [wire EXCEPT !.toHost = Tail(@)]
    /\ drv' = [drv EXCEPT !.pc = IF drv.pc = "first" THEN "introduce" ELSE "batch",
                          !.matched = Head(wire.toHost).id = drv.next - 1,
                          !.request = IF drv.seen = NoRequest THEN @ ELSE drv.seen,
                          !.seen = NoRequest]
    /\ UNCHANGED <<events, thread, bridge, glass, count>>

\* READ_TIMEOUT passes: the error leaves run_on_panel at once.
ReadTimeout ==
    /\ Awaiting /\ wire.toHost = <<>> /\ count.faults < MaxFaults
    /\ drv' = [drv EXCEPT !.pc = "ended", !.result = "error"]
    /\ count' = [count EXCEPT !.faults = @ + 1]
    /\ UNCHANGED <<events, wire, thread, bridge, glass>>

Paint(rect) == glass' = [r \in Regions |-> IF r \in rect THEN bridge.frame[r] ELSE glass[r]]

PresentFails ==
    /\ count.faults < MaxFaults
    /\ count' = [count EXCEPT !.faults = @ + 1]
    /\ drv' = [drv EXCEPT !.pc = "ended", !.result = "error"]
    /\ UNCHANGED glass

\* The first frame of a session covers the whole panel.
Introduce ==
    /\ drv.pc = "introduce"
    /\ \/ Paint(Regions) /\ drv' = [drv EXCEPT !.pc = "idle"] /\ UNCHANGED count
       \/ PresentFails
    /\ UNCHANGED <<events, wire, thread, bridge>>

TakePointer ==
    /\ drv.pc = "idle" /\ events.queued > 0
    /\ events' = [events EXCEPT !.queued = @ - 1]
    /\ drv' = [drv EXCEPT !.pc = "await", !.next = @ + 1, !.request = NoRequest, !.batch = 0]
    /\ Asking(wire, 1)
    /\ UNCHANGED <<thread, bridge, glass>>

\* Coalescing: up to MAX_COALESCED_POINTERS more before anything is presented.
MaxCoalesced == 1
TakeMore ==
    /\ drv.pc = "batch" /\ events.queued > 0 /\ drv.batch < MaxCoalesced
    /\ events' = [events EXCEPT !.queued = @ - 1]
    /\ drv' = [drv EXCEPT !.pc = "more", !.next = @ + 1, !.batch = @ + 1]
    /\ Asking(wire, 1)
    /\ UNCHANGED <<thread, bridge, glass>>

Decide(d) ==
    [d EXCEPT !.pc = IF d.request \in {"home", "stock"} THEN "leaving" ELSE "idle",
              !.lines = IF d.request = "unknown" THEN @ \union {"ignored"} ELSE @]

PresentDamage ==
    /\ drv.pc = "batch" /\ (events.queued = 0 \/ drv.batch = MaxCoalesced)
    /\ bridge' = [bridge EXCEPT !.damage = NoDamage]
    /\ IF bridge.damage = NoDamage \/ Covering(bridge.damage) = {}
       THEN drv' = Decide(drv) /\ UNCHANGED <<glass, count>>
       ELSE \/ Paint(Covering(bridge.damage)) /\ drv' = Decide(drv) /\ UNCHANGED count
            \/ PresentFails
    /\ UNCHANGED <<events, wire, thread>>

\* Every reader is gone: the channel is disconnected.
ReadersGone ==
    /\ drv.pc = "idle" /\ events.queued = 0 /\ ~events.readers
    /\ drv' = [drv EXCEPT !.pc = "leaving", !.request = "stock"]
    /\ UNCHANGED <<events, wire, thread, bridge, glass, count>>

\* shutdown: the exit is written, then everything is read up to `saved`.
BeginShutdown ==
    /\ drv.pc = "leaving"
    /\ wire' = [wire EXCEPT !.toApp = Append(@, [is |-> "exit", id |-> 0])]
    /\ drv' = [drv EXCEPT !.pc = "shutdown"]
    /\ UNCHANGED <<events, thread, bridge, glass, count>>

Leave(d, unclean) ==
    IF d.request = "home" /\ count.switches < MaxSwitches
    THEN [d EXCEPT !.pc = "switch", !.lines = @ \union unclean]
    ELSE [d EXCEPT !.pc = "clear", !.lines = @ \union unclean]

ReadUntilSaved ==
    /\ drv.pc = "shutdown" /\ wire.toHost # <<>>
    /\ wire' = [wire EXCEPT !.toHost = Tail(@)]
    /\ drv' = IF Head(wire.toHost).is # "saved" THEN drv
              ELSE Leave(drv, IF Head(wire.toHost).id = 1 THEN {} ELSE {"save failed"})
    /\ UNCHANGED <<events, thread, bridge, glass, count>>

ShutdownTimeout ==
    /\ drv.pc = "shutdown" /\ wire.toHost = <<>> /\ count.faults < MaxFaults
    /\ drv' = Leave(drv, {"unclean"})
    /\ count' = [count EXCEPT !.faults = @ + 1]
    /\ UNCHANGED <<events, wire, thread, bridge, glass>>

SwitchApp ==
    /\ drv.pc = "switch"
    /\ drv' = [drv EXCEPT !.pc = "opening", !.next = 0, !.request = NoRequest, !.seen = NoRequest]
    /\ wire' = NewWire /\ thread' = NewThread
    /\ bridge' = [frame |-> [r \in Regions |-> 0], damage |-> NoDamage]
    /\ count' = [count EXCEPT !.switches = @ + 1]
    /\ UNCHANGED <<events, glass>>

ClearPanel ==
    /\ drv.pc = "clear"
    /\ drv' = [drv EXCEPT !.pc = "ended", !.result = "ok"]
    /\ glass' = [r \in Regions |-> 2]
    /\ UNCHANGED <<events, wire, thread, bridge, count>>

\* The readers: each forwards what its device reports, until it fails.
ReaderForwards ==
    /\ events.readers /\ count.pointers < MaxPointers
    /\ events' = [events EXCEPT !.queued = @ + 1]
    /\ count' = [count EXCEPT !.pointers = @ + 1]
    /\ UNCHANGED <<drv, wire, thread, bridge, glass>>

ReaderFails ==
    /\ events.readers
    /\ events' = [events EXCEPT !.readers = FALSE]
    /\ UNCHANGED <<drv, wire, thread, bridge, glass, count>>

PInit ==
    /\ events = [queued |-> 0, readers |-> TRUE]
    /\ drv = [pc |-> "opening", next |-> 0, request |-> NoRequest, seen |-> NoRequest,
              batch |-> 0, matched |-> TRUE, lines |-> {}, result |-> "none"]
    /\ wire = NewWire /\ thread = NewThread
    /\ bridge = [frame |-> [r \in Regions |-> 0], damage |-> NoDamage]
    /\ glass = [r \in Regions |-> 2]
    /\ count = [pointers |-> 0, system |-> 0, queries |-> 0, faults |-> 0, switches |-> 0]

PNext ==
    \/ ThreadHandles \/ ThreadGreets \/ ThreadDraws \/ ThreadSaves \/ ThreadSeesEof
    \/ OpenSession \/ ReadMessage \/ ReadFrame \/ ReadTimeout \/ Introduce \/ TakePointer
    \/ TakeMore \/ PresentDamage \/ ReadersGone \/ BeginShutdown \/ ReadUntilSaved
    \/ ShutdownTimeout \/ SwitchApp \/ ClearPanel \/ ReaderForwards \/ ReaderFails

PSpec == PInit /\ [][PNext]_pvars

-----------------------------------------------------------------------------
\* Whenever the loop waits for input the panel shows the last frame the app
\* published, whatever was coalesced and however little each frame claimed.
GlassFresh == drv.pc = "idle" => glass = bridge.frame

\* request_frame takes any frame for its own: it is, because frames are never
\* pipelined and a timeout ends the loop.
FrameMatches == drv.matched

\* A run that ends well and reports nothing about saving did save every app.
QuietMeansSaved ==
    drv.pc \in {"switch", "clear"} /\ drv.lines \intersect {"save failed", "unclean"} = {}
        => thread.saved = "yes"
=============================================================================
