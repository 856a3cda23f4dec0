-------------------------------- MODULE Input --------------------------------
(***************************************************************************)
(* Pointer input: the touch and pen decoders of platform/device input/     *)
(* (evdev.rs, reader.rs, nodes.rs), which share one allocator of contact   *)
(* ids, and the mouse contact of the desktop preview (sdk desktop.rs).     *)
(* The kernel describes what changed, slot by slot, and ends a frame with  *)
(* SYN_REPORT; an app sees one stream of phases per contact id.            *)
(***************************************************************************)
EXTENDS Naturals, FiniteSets

CONSTANTS
    Slots,     \* touch slots 0..n, the code has ten
    MaxIds,    \* contact ids handed out
    MaxDrops   \* SYN_DROPPED reports

VARIABLES
    kernel,  \* what is really on the glass, what this frame has said of it, and
             \* history: whether the decoder was led astray about a slot
    touch,   \* TouchDecoder
    pen,     \* PenDecoder
    nextId,  \* ContactIds, shared by both
    mouse,   \* the preview's MouseContact
    stream   \* per contact id, what an app has been told of it

ivars == <<kernel, touch, pen, nextId, mouse, stream>>

Ids == 1..MaxIds
NoContact == 0

EmptySlot == [tracking |-> FALSE, contact |-> NoContact, down |-> FALSE, dirty |-> FALSE, lifted |-> FALSE]

\* What an app knows of a contact after one more phase of it.
Told(state, phase) ==
    CASE phase = "hover" /\ state \in {"none", "hover"} -> "hover"
      [] phase = "down" /\ state \in {"none", "hover"} -> "down"
      [] phase = "moved" /\ state = "down" -> "down"
      [] phase \in {"up", "cancelled"} /\ state = "down" -> "ended"
      [] OTHER -> "broken"

\* Events: a set of contact and phase.
Tell(events) ==
    stream' = [i \in Ids |->
        LET mine == {e \in events : e.contact = i}
        IN  IF mine = {} THEN stream[i]
            ELSE IF Cardinality(mine) > 1 THEN "broken"
            ELSE Told(stream[i], (CHOOSE e \in mine : TRUE).phase)]

InputInit ==
    /\ kernel = [finger |-> [s \in Slots |-> FALSE], slot |-> 0, said |-> {}, pen |-> "away", drops |-> 0, astray |-> FALSE]
    /\ touch = [slot |-> [s \in Slots |-> EmptySlot], current |-> 0]
    /\ pen = [inRange |-> FALSE, touching |-> FALSE, down |-> FALSE, dirty |-> FALSE, contact |-> NoContact]
    /\ nextId = 1
    /\ \E desktop \in BOOLEAN :
          mouse = [on |-> desktop, held |-> FALSE, pressed |-> FALSE, seen |-> FALSE, id |-> NoContact, next |-> 1,
                   live |-> {}, over |-> {}, stale |-> FALSE]
    /\ stream = [i \in Ids |-> "none"]

-----------------------------------------------------------------------------
\* TouchDecoder

\* ABS_MT_SLOT is sent only when it changes; a number past the array is its last.
Named(s) == IF s = kernel.slot THEN touch.current ELSE s
AtSlot(s, rec) == touch' = [slot |-> [touch.slot EXCEPT ![Named(s)] = rec], current |-> Named(s)]
Says(s, swap) == kernel' = [kernel EXCEPT !.slot = s, !.said = @ \union {s}, !.finger[s] = ~@,
                                         !.astray = @ \/ swap]

\* ABS_MT_TRACKING_ID with an id.  In the frame that lifted the slot's contact,
\* the new finger's id takes that contact's place: flush ends the new id, and
\* nothing ends the old one (evdev.rs 185-200).
FingerLandsInSlot(slot) ==
    [slot EXCEPT !.tracking = TRUE, !.dirty = TRUE,
                 !.contact = IF slot.tracking THEN @ ELSE nextId]
FingerLands ==
    \E s \in Slots :
        /\ ~kernel.finger[s] /\ nextId < MaxIds
        /\ Says(s, touch.slot[Named(s)].lifted)
        /\ AtSlot(s, FingerLandsInSlot(touch.slot[Named(s)]))
        /\ nextId' = IF touch.slot[Named(s)].tracking THEN nextId ELSE nextId + 1
        /\ UNCHANGED <<pen, mouse, stream>>

\* ABS_MT_TRACKING_ID -1.
LiftedSlotUnmarked(slot) == [slot EXCEPT !.tracking = FALSE, !.lifted = @ \/ slot.down]
LiftedSlot(slot) ==
    [slot EXCEPT !.tracking = FALSE, !.lifted = @ \/ slot.down, !.dirty = @ \/ slot.down]
FingerLifts ==
    \E s \in Slots :
        /\ kernel.finger[s]
        /\ Says(s, FALSE)
        /\ AtSlot(s, LiftedSlot(touch.slot[Named(s)]))
        /\ UNCHANGED <<pen, nextId, mouse, stream>>

\* ABS_MT_POSITION_X or _Y.
FingerMoves ==
    \E s \in Slots :
        /\ kernel.finger[s]
        /\ kernel' = [kernel EXCEPT !.slot = s, !.said = @ \union {s}]
        /\ AtSlot(s, [touch.slot[Named(s)] EXCEPT !.dirty = TRUE])
        /\ UNCHANGED <<pen, nextId, mouse, stream>>

\* flush: one event per slot the frame touched.
PhaseOf(slot) ==
    IF slot.lifted THEN "up" ELSE IF slot.down THEN "moved" ELSE IF slot.tracking THEN "down" ELSE "none"
Reporting == {s \in Slots : touch.slot[s].dirty /\ PhaseOf(touch.slot[s]) # "none"}
Unnumbered == {s \in Reporting : touch.slot[s].contact = NoContact}
ContactOf(s) ==
    IF s \in Unnumbered THEN nextId + Cardinality({t \in Unnumbered : t < s}) ELSE touch.slot[s].contact

Flushed(s) ==
    LET slot == touch.slot[s]
    IN  IF ~slot.dirty THEN slot
        ELSE IF s \notin Reporting \/ slot.lifted THEN EmptySlot
        ELSE [slot EXCEPT !.contact = ContactOf(s), !.dirty = FALSE, !.down = TRUE]

TouchReport ==
    /\ kernel.said # {}
    /\ Tell({[contact |-> ContactOf(s), phase |-> PhaseOf(touch.slot[s])] : s \in Reporting})
    /\ touch' = [touch EXCEPT !.slot = [s \in Slots |-> Flushed(s)]]
    /\ nextId' = nextId + Cardinality(Unnumbered)
    /\ kernel' = [kernel EXCEPT !.said = {}]
    /\ UNCHANGED <<pen, mouse>>

\* SYN_DROPPED: the kernel's buffer overflowed and some of what happened is
\* never told; resync cancels what was down and forgets every slot.
ResyncForgets == [s \in Slots |-> EmptySlot]
TouchDropped ==
    /\ kernel.drops < MaxDrops
    /\ \E finger \in [Slots -> BOOLEAN], slot \in Slots :
          kernel' = [kernel EXCEPT !.finger = finger, !.slot = slot, !.said = {}, !.drops = @ + 1,
                                     !.astray = @ \/ slot # 0]
    /\ Tell({[contact |-> touch.slot[s].contact, phase |-> "cancelled"] : s \in {t \in Slots : touch.slot[t].down}})
    /\ touch' = [slot |-> ResyncForgets, current |-> 0]
    /\ UNCHANGED <<pen, nextId, mouse>>

-----------------------------------------------------------------------------
\* PenDecoder

\* BTN_TOOL_PEN, BTN_TOOL_RUBBER, BTN_TOUCH and the axes.  The glass may be
\* touched without a tool event having been seen.
PenMoves ==
    /\ \E where \in {"away", "near", "touching"} :
          /\ kernel' = [kernel EXCEPT !.pen = where]
          /\ pen' = [pen EXCEPT !.inRange = (where # "away"), !.touching = (where = "touching"), !.dirty = TRUE]
    /\ UNCHANGED <<touch, nextId, mouse, stream>>

PenPhase ==
    IF ~pen.down /\ pen.touching THEN "down"
    ELSE IF pen.down /\ pen.touching THEN "moved"
    ELSE IF pen.down THEN "up"
    ELSE IF pen.inRange THEN "hover" ELSE "none"

PenContact == IF pen.contact = NoContact THEN nextId ELSE pen.contact

PenReport ==
    /\ pen.dirty /\ nextId < MaxIds
    /\ IF PenPhase = "none"
       THEN /\ pen' = [pen EXCEPT !.dirty = FALSE, !.contact = NoContact]
            /\ UNCHANGED <<nextId, stream>>
       ELSE /\ Tell({[contact |-> PenContact, phase |-> PenPhase]})
            /\ nextId' = IF pen.contact = NoContact THEN nextId + 1 ELSE nextId
            /\ pen' = [pen EXCEPT !.dirty = FALSE, !.down = pen.touching,
                                  !.contact = IF PenPhase = "up" THEN NoContact ELSE PenContact]
    /\ UNCHANGED <<kernel, touch, mouse>>

PenDropped ==
    /\ kernel.drops < MaxDrops
    /\ \E where \in {"away", "near", "touching"} : kernel' = [kernel EXCEPT !.pen = where, !.drops = @ + 1]
    /\ IF pen.down THEN Tell({[contact |-> pen.contact, phase |-> "cancelled"]}) ELSE UNCHANGED stream
    /\ pen' = [pen EXCEPT !.dirty = FALSE, !.touching = FALSE, !.down = FALSE, !.contact = NoContact]
    /\ UNCHANGED <<touch, nextId, mouse>>

-----------------------------------------------------------------------------
\* The preview's mouse: a position on the canvas or in the letterbox beside it.

MouseTell(m, id, phase) ==
    [m EXCEPT !.stale = @ \/ id \in m.over,
              !.live = IF phase \in {"down", "moved"} THEN @ \union {id} ELSE @ \ {id},
              !.over = IF phase \in {"down", "moved"} THEN @ ELSE @ \union {id}]
Begin(m) == [m EXCEPT !.id = m.next, !.next = @ + 1]
Current(m) == IF m.id = NoContact THEN Begin(m) ELSE m

\* resolve_pointer
Resolve(m, onCanvas, phase) ==
    IF onCanvas
    THEN LET n == IF phase = "down" THEN Begin(m) ELSE Current(m)
             t == MouseTell(n, n.id, phase)
         IN  IF phase \in {"down", "moved"} THEN [t EXCEPT !.seen = TRUE]
             ELSE [t EXCEPT !.seen = FALSE, !.id = NoContact]
    ELSE IF phase = "down" \/ ~m.seen THEN m
    ELSE LET n == Current(m)
         IN  [MouseTell(n, n.id, "cancelled") EXCEPT !.seen = FALSE, !.id = NoContact]

\* window_event: the button goes down and up whether or not the window saw it leave.
MouseEvent ==
    /\ mouse.next < MaxIds
    /\ \E onCanvas \in BOOLEAN :
          \/ /\ ~mouse.held
             /\ mouse' = Resolve([mouse EXCEPT !.held = TRUE, !.pressed = TRUE], onCanvas, "down")
          \/ /\ mouse.held
             /\ mouse' = Resolve([mouse EXCEPT !.held = FALSE, !.pressed = FALSE], onCanvas, "up")
          \/ mouse.pressed /\ mouse' = Resolve(mouse, onCanvas, "moved")
          \/ /\ mouse.pressed
             /\ mouse' = Resolve([mouse EXCEPT !.pressed = FALSE], onCanvas, "cancelled")
    /\ UNCHANGED <<kernel, touch, pen, nextId, stream>>

\* A session's pointers are the tablet's or the preview's.
InputNext ==
    \/ /\ ~mouse.on
       /\ \/ FingerLands \/ FingerLifts \/ FingerMoves \/ TouchReport \/ TouchDropped
          \/ PenMoves \/ PenReport \/ PenDropped
    \/ mouse.on /\ MouseEvent

InputSpec == InputInit /\ [][InputNext]_ivars

-----------------------------------------------------------------------------
\* An app may use a contact id as a key and drop it at Up or Cancelled: a touch
\* or pen contact is told as hover*, down, moved*, then up or cancelled, once,
\* and no two contacts share an id, whatever the kernel drops (input.rs), until
\* a resync guesses the kernel's slot wrong or a frame puts another finger in
\* the slot of a contact it lifts.
StreamWellFormed == ~kernel.astray => \A i \in Ids : stream[i] # "broken"

\* What the app is told is down, once a frame is complete.
Held == {i \in Ids : stream[i] = "down"}
Complete == kernel.said = {} /\ ~pen.dirty

\* While nothing was dropped, every finger on the glass, and the pen, is a
\* contact that is down, and nothing else is: no finger is lost and none stays
\* when the glass is clear ("that one is reused the moment a finger lifts, so
\* two fingers swapping within a frame would look like one", evdev.rs 143).  A
\* swap within a frame breaks it.
FingersAreContacts ==
    kernel.drops = 0 /\ Complete
        => Cardinality(Held) = Cardinality({s \in Slots : kernel.finger[s]})
                                 + (IF kernel.pen = "touching" THEN 1 ELSE 0)

\* Until the decoder is led astray that is so; and whatever was dropped, what is
\* held is held by a decoder for a finger or a pen that is on the glass, so that
\* lifting it will end it ("let a stuck finger drag something", evdev.rs 174).
NoContactLeftHeld ==
    ~kernel.astray =>
        /\ FingersAreContacts
        /\ Complete => \A i \in Held :
              \/ pen.down /\ pen.contact = i /\ kernel.pen = "touching"
              \/ \E s \in Slots : /\ touch.slot[s].down /\ touch.slot[s].contact = i
                                   /\ kernel.finger[s]

\* The preview never leaves an app holding a contact once the button is up, and
\* never reuses an id (desktop.rs, resolve_pointer).
MouseContactEnds == ~mouse.stale /\ (~mouse.pressed => mouse.live = {})
=============================================================================
