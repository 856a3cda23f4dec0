---------------------------- MODULE PanelEngine ----------------------------
(***************************************************************************)
(* Getting a canvas onto the glass (platform/device/src/{panel,waveform,   *)
(* vendor,hold}.rs, platform/device/native/paperclip_ep.cpp and the        *)
(* drawing and copying half of platform/sdk/src/canvas.rs).  A presenting  *)
(* process opens the vendor's waveform engine through the C bridge, copies *)
(* rectangles of its canvas into the engine's own image and swaps them;    *)
(* `paperctl open` then reads the buffers back, holds, clears and leaves a *)
(* record for the process that started it.  Nothing here sees the glass:   *)
(* what the record claims must be true of the engine's memory.             *)
(*                                                                         *)
(* Lengths are in half pixels where the code has f32 (a drawing rectangle  *)
(* may cut a pixel in two) and in pixels where it has u32.                 *)
(***************************************************************************)
EXTENDS Integers, FiniteSets, FiniteSetsExt, Sequences

CONSTANTS
    W, H,               \* SCREEN
    Strokes,            \* rectangles an app draws: [x, y, w, h] in half pixels
    Sysfs,              \* what /sys may look like: [connectors, rails, hwmon]
    MaxDraws,           \* bound: drawing operations
    MaxFaults           \* bound: failures of the engine and kills

VARIABLES
    canvas,             \* Pixel -> colour
    claims,             \* what the app has claimed since its last frame
    engine,             \* the vendor's singleton: [stride, at, ours, stock]
    ram,                \* address -> the pixels stored there
    bridge,             \* paperclip_ep: the cached `pixels` address, 0 when closed
    glass,              \* what the panel shows
    hold,               \* the presenting process
    file,               \* the panel record on disk
    parent,             \* what the starting process made of it
    spent               \* bounds: [draws, faults]

evars == <<canvas, claims, engine, ram, bridge, glass, hold, file, parent, spent>>

Pixel == (0 .. W - 1) \X (0 .. H - 1)
Cell == (0 .. W) \X (0 .. H - 1)        \* a row may be padded by one pixel
White == [c \in Cell |-> "paper"]
Picture(image) == [p \in Pixel |-> image[p]]
Full == [full |-> TRUE, regions |-> {}]
Nothing == [full |-> FALSE, regions |-> {}]

Blank == [p \in Pixel |-> "none"]   \* nothing presented yet
Presenter == [pc |-> "start", real |-> FALSE, shown |-> FALSE, sent |-> Blank, match |-> {},
              truth |-> FALSE, sample |-> {}, sys |-> {}]
NoFile == [whole |-> FALSE, real |-> FALSE, digest |-> {}, holds |-> "unknown"]

EngineInit ==
    /\ canvas = [p \in Pixel |-> "paper"]
    /\ claims = Full
    /\ \E stride \in {W, W + 1}, stock \in BOOLEAN, table \in BOOLEAN, surface \in BOOLEAN :
         engine = [stride |-> stride, at |-> 1, ours |-> FALSE, stock |-> stock,
                   table |-> table, surface |-> surface]
    /\ ram = [a \in 1 .. 2 |-> White]
    /\ bridge = 0
    /\ glass = [p \in Pixel |-> "stock"]
    /\ \E real \in BOOLEAN, sys \in Sysfs :
         hold = [Presenter EXCEPT !.real = real, !.sys = sys]
    /\ file = NoFile
    /\ parent = "waiting"
    /\ spent = [draws |-> 0, faults |-> 0]

-----------------------------------------------------------------------------
(* PixelRect: arithmetic on swap rectangles *)

Floor(v) == v \div 2
Ceil(v) == -((-v) \div 2)
Clamp(v, most) == IF v < 0 THEN 0 ELSE IF v > most THEN most ELSE v

Empty == [x |-> 0, y |-> 0, w |-> 0, h |-> 0]
IsEmpty(r) == r.w = 0 \/ r.h = 0
Whole == [x |-> 0, y |-> 0, w |-> W, h |-> H]
FitsIn(r) == r.x + r.w <= W /\ r.y + r.h <= H
Span(left, top, right, bottom) ==
    [x |-> left, y |-> top,
     w |-> IF right > left THEN right - left ELSE 0,
     h |-> IF bottom > top THEN bottom - top ELSE 0]

(* PixelRect::enclosing: outward on every edge, then clamped to the panel. *)
Enclosing(r) ==
    IF r.w <= 0 \/ r.h <= 0 THEN Empty
    ELSE Span(Clamp(Floor(r.x), W), Clamp(Floor(r.y), H),
              Clamp(Ceil(r.x + r.w), W), Clamp(Ceil(r.y + r.h), H))

Union(a, b) ==
    IF IsEmpty(a) THEN b ELSE IF IsEmpty(b) THEN a
    ELSE Span(Min({a.x, b.x}), Min({a.y, b.y}),
              Max({a.x + a.w, b.x + b.w}), Max({a.y + a.h, b.y + b.h}))

(* PixelRect::covering: one rectangle for everything a frame claims. *)
Covering(damage) ==
    IF damage.full THEN Whole
    ELSE FoldSet(LAMBDA r, swept : Union(swept, Enclosing(r)), Empty, damage.regions)

Within(r) == {p \in Pixel : /\ r.x <= p[1] /\ p[1] < r.x + r.w
                            /\ r.y <= p[2] /\ p[2] < r.y + r.h}

-----------------------------------------------------------------------------
(* Canvas *)

(* An edge through a pixel leaves a blend of the two colours (anti_alias). *)
Overlaps(p, r) == /\ r.w > 0 /\ r.h > 0
                  /\ r.x < 2 * p[1] + 2 /\ r.x + r.w > 2 * p[1]
                  /\ r.y < 2 * p[2] + 2 /\ r.y + r.h > 2 * p[2]
Covers(r, p) == /\ r.x <= 2 * p[1] /\ r.x + r.w >= 2 * p[1] + 2
                /\ r.y <= 2 * p[2] /\ r.y + r.h >= 2 * p[2] + 2

(* Every fill and stroke, r being the extent its outline reaches: those pixels *)
(* and no others, and nothing for a degenerate one.                            *)
Fill(image, r, colour) ==
    [p \in Pixel |-> IF Covers(r, p) THEN colour
                     ELSE IF Overlaps(p, r) /\ image[p] /= colour THEN "grey"
                     ELSE image[p]]

InkCoverage(image) == Cardinality({p \in Pixel : image[p] /= "paper"})

(* blit_argb8888: canvas pixel (x, y) lands at (x, y) of a padded row, or the *)
(* call refuses and copies nothing.                                           *)
Fits(r, stride) == FitsIn(r) /\ stride >= r.x + r.w
Blit(image, r, target) ==
    [c \in Cell |-> IF c \in Within(r) THEN image[c] ELSE target[c]]

(* Drawing, with the claim an app makes for what it drew *)
Draw(r, colour) ==
    /\ hold.pc = "ready"
    /\ spent.draws < MaxDraws
    /\ canvas' = Fill(canvas, r, colour)
    /\ claims' = IF claims.full THEN claims ELSE [claims EXCEPT !.regions = @ \cup {r}]
    /\ hold' = [hold EXCEPT !.shown = FALSE]
    /\ spent' = [spent EXCEPT !.draws = @ + 1]
    /\ UNCHANGED <<engine, ram, bridge, glass, file, parent>>

-----------------------------------------------------------------------------
(* The C bridge *)

(* preflight: a waveform table must be there, for the engine aborts without. *)
Preflight == engine.table

(* checkLockFile does not ask for the vendor's lock, it takes it. *)
CheckLockFile == ~engine.stock

(* find_draw_surface: the engine's own panel-sized 32-bit image. *)
FindDrawSurface == engine.surface

(* A plausible bug: the check compares the cached address with itself. *)
AttachedToItself == bridge = bridge

(* attached: the cached address is still where the engine's image lives. *)
Attached == bridge = engine.at

Opens == Preflight /\ CheckLockFile /\ FindDrawSurface

(* VendorPanel::open and paperclip_ep_open.  A failure after checkLockFile *)
(* leaves the vendor's lock held until this process exits.                  *)
Open ==
    /\ hold.pc = "start"
    /\ IF ~hold.real THEN hold' = [hold EXCEPT !.pc = "ready"] /\ UNCHANGED <<engine, bridge>>
       ELSE /\ engine' = [engine EXCEPT !.ours = Preflight /\ CheckLockFile]
            /\ bridge' = IF Opens THEN engine.at ELSE 0
            /\ hold' = [hold EXCEPT !.pc = IF Opens THEN "ready" ELSE "failed"]
    /\ UNCHANGED <<canvas, claims, ram, glass, file, parent, spent>>

(* Something makes Qt copy the engine's image: it moves to fresh memory. *)
Detach ==
    /\ bridge /= 0 /\ engine.at = 1
    /\ spent.faults < MaxFaults
    /\ spent' = [spent EXCEPT !.faults = @ + 1]
    /\ engine' = [engine EXCEPT !.at = 2]
    /\ ram' = [ram EXCEPT ![2] = ram[1]]
    /\ UNCHANGED <<canvas, claims, bridge, glass, hold, file, parent>>

(* EPScreenMode: a number the engine does not know is refused without an    *)
(* error; the named waveforms are all numbers it knows.                     *)
Waveform == [INK |-> 0, ANIMATION |-> 2, UI |-> 3, CONTENT |-> 4]
Known(mode) == mode \in 0 .. 5

(* swapBuffers: the image's rectangle reaches the glass; all of it when the *)
(* update is full.                                                          *)
Driven(r, mode, full, image) ==
    [p \in Pixel |-> IF Known(mode) /\ (full \/ p \in Within(r)) THEN image[p] ELSE glass[p]]

(* Panel::buffer: the pixels are drawn straight into the cached address. *)
Copied(r) == [ram EXCEPT ![bridge] = Blit(canvas, r, @)]

(* VendorPanel::swap: refused off the panel, and by the bridge when the image *)
(* it drew into is no longer the engine's.                                    *)
Swapped(r, mode, full, after) ==
    IF ~(FitsIn(r) /\ Attached) THEN [ok |-> FALSE, drove |-> FALSE, ram |-> after, glass |-> glass]
    ELSE [ok |-> TRUE, drove |-> Known(mode), ram |-> after,
          glass |-> Driven(r, mode, full, after[engine.at])]

(* present and present_inner: nothing for an empty rectangle, an error for one *)
(* off the panel, otherwise the copy and then the swap.                        *)
Presented(r, mode, full) ==
    IF IsEmpty(r) /\ FitsIn(r) THEN [ok |-> TRUE, drove |-> FALSE, ram |-> ram, glass |-> glass]
    ELSE IF ~Fits(r, engine.stride)
         THEN [ok |-> FALSE, drove |-> FALSE, ram |-> ram, glass |-> glass]
    ELSE Swapped(r, mode, full, Copied(r))

(* MemoryPanel: the same checks and copy, and no glass behind it. *)
PresentedInMemory(r) ==
    [ok |-> FitsIn(r), drove |-> FALSE, glass |-> glass,
     ram |-> IF FitsIn(r) THEN [ram EXCEPT ![1] = Blit(canvas, r, @)] ELSE ram]

Outcome(r, mode, full) ==
    IF hold.real THEN Presented(r, mode, full) ELSE PresentedInMemory(r)

(* A frame of a session: the damage the app claimed, and nothing more. *)
PresentFrame(name, full) ==
    LET out == Outcome(Covering(claims), Waveform[name], full) IN
    /\ hold.pc = "ready"
    /\ claims' = Nothing
    /\ ram' = out.ram
    /\ glass' = out.glass
    /\ hold' = [hold EXCEPT !.pc = IF out.ok THEN "ready" ELSE "failed",
                            !.shown = out.drove \/ (@ /\ out.ok)]
    /\ UNCHANGED <<canvas, engine, bridge, file, parent, spent>>

(* A C++ exception caught at the boundary: the swap did nothing. *)
SwapThrows ==
    /\ hold.pc = "ready" /\ hold.real
    /\ spent.faults < MaxFaults
    /\ spent' = [spent EXCEPT !.faults = @ + 1]
    /\ ram' = Copied(Covering(claims))
    /\ claims' = Nothing
    /\ hold' = [hold EXCEPT !.pc = "failed"]
    /\ UNCHANGED <<canvas, engine, bridge, glass, file, parent>>

-----------------------------------------------------------------------------
(* present_and_hold *)

(* FrameDigest::looks_drawn: at least one pixel in a hundred is not paper. *)
LooksDrawn(image) == InkCoverage(image) * 1000 >= 10 * W * H

(* One full present over whatever stock left, refused for an empty frame. *)
HoldPresent ==
    LET out == Outcome(Whole, Waveform.UI, TRUE) IN
    /\ hold.pc = "ready"
    /\ IF ~LooksDrawn(canvas)
       THEN hold' = [hold EXCEPT !.pc = "failed"] /\ UNCHANGED <<claims, ram, glass>>
       ELSE /\ claims' = Nothing
            /\ ram' = out.ram
            /\ glass' = out.glass
            /\ hold' = [hold EXCEPT !.pc = IF out.ok THEN "readback" ELSE "failed",
                                    !.sent = canvas, !.shown = out.drove]
    /\ UNCHANGED <<canvas, engine, bridge, file, parent, spent>>

(* paperclip_ep_readback: the front plane is the engine's image and is only  *)
(* read while attached; back and aux are the bridge's own white scratch, too *)
(* short for a padded read.  A memory panel answers every plane alike.       *)
Readback(plane) ==
    IF ~hold.real THEN {Picture(ram[1])}
    ELSE IF plane = "front" THEN IF Attached THEN {Picture(ram[bridge])} ELSE {}
    ELSE IF engine.stride > W THEN {} ELSE {Picture(White)}

ReadPlanes ==
    /\ hold.pc = "readback"
    /\ hold' = [hold EXCEPT !.pc = "holding",
                  !.match = {plane \in {"front", "back", "aux"} : hold.sent \in Readback(plane)},
                  !.truth = hold.real /\ Picture(ram[engine.at]) = hold.sent]
    /\ UNCHANGED <<canvas, claims, engine, ram, bridge, glass, file, parent, spent>>

(* find_connector: LVDS first, then whatever is connected, then any. *)
FindConnector(connectors) ==
    LET lvds == {i \in DOMAIN connectors : connectors[i].lvds}
        on == {i \in DOMAIN connectors : connectors[i].connected}
    IN  IF lvds /= {} THEN {Min(lvds)} ELSE IF on /= {} THEN {Min(on)}
        ELSE IF connectors /= <<>> THEN {1} ELSE {}

(* The kernel's own answer to whose rail it is: its consumer links. *)
FeedsThePanel(regulator) == "panel" \in regulator.consumers

Rails(regulators) == {r \in regulators : FeedsThePanel(r)}

(* temperature: the panel's own hwmon, or the first one there is. *)
Temperature(hwmon) ==
    LET own == {i \in DOMAIN hwmon : hwmon[i] \in {"epd", "eink", "panel"}}
    IN  IF own /= {} THEN {hwmon[Min(own)]} ELSE IF hwmon /= <<>> THEN {hwmon[1]} ELSE {}

(* One sysfs sample of the hold; every later one reads the same files. *)
Sample ==
    /\ hold.pc = "holding"
    /\ hold' = [hold EXCEPT !.pc = "held",
                  !.sample = {[connector |-> FindConnector(hold.sys.connectors),
                               rails |-> Rails(hold.sys.rails),
                               temperature |-> Temperature(hold.sys.hwmon)]}]
    /\ UNCHANGED <<canvas, claims, engine, ram, bridge, glass, file, parent, spent>>

(* paperclip_ep_clear: white through the cached pointer, one full update. A *)
(* failed clear loses the report of a frame that was shown.                 *)
Cleared ==
    IF ~hold.real THEN [ok |-> TRUE, ram |-> [ram EXCEPT ![1] = White], glass |-> glass]
    ELSE IF ~Attached THEN [ok |-> FALSE, ram |-> ram, glass |-> glass]
    ELSE [ok |-> TRUE, ram |-> [ram EXCEPT ![bridge] = White],
          glass |-> [p \in Pixel |-> "paper"]]

Clear ==
    /\ hold.pc \in {"held", "ready"}
    /\ ram' = Cleared.ram
    /\ glass' = Cleared.glass
    /\ hold' = [hold EXCEPT !.shown = FALSE,
                  !.pc = IF ~Cleared.ok THEN "failed" ELSE IF @ = "held" THEN "report" ELSE "ran"]
    /\ UNCHANGED <<canvas, claims, engine, bridge, file, parent, spent>>

-----------------------------------------------------------------------------
(* The record, and the process that reads it *)

Holding == IF hold.match /= {} THEN "true" ELSE "false"

(* PanelRecord::of and write.  A session reads nothing back and says so.  The *)
(* file is written in place: a kill leaves any prefix of it.                  *)
WriteRecord ==
    /\ hold.pc \in {"report", "ran"}
    /\ file' = [whole |-> TRUE, real |-> hold.real, digest |-> {hold.sent},
                holds |-> IF hold.pc = "report" THEN Holding ELSE "unknown"]
    /\ hold' = [hold EXCEPT !.pc = "done"]
    /\ UNCHANGED <<canvas, claims, engine, ram, bridge, glass, parent, spent>>

(* Drop for VendorPanel, then the end of the process: only that frees the lock. *)
Gone ==
    /\ bridge' = 0
    /\ engine' = [engine EXCEPT !.ours = FALSE]
    /\ hold' = [hold EXCEPT !.pc = "exited", !.shown = FALSE]

Exit ==
    /\ hold.pc \in {"done", "failed"}
    /\ Gone
    /\ UNCHANGED <<canvas, claims, ram, glass, file, parent, spent>>

Killed ==
    /\ hold.pc \notin {"start", "exited"}
    /\ spent.faults < MaxFaults
    /\ spent' = [spent EXCEPT !.faults = @ + 1]
    /\ \/ UNCHANGED file
       \/ /\ hold.pc \in {"report", "ran"}
          /\ \E cut \in {"real", "digest", "holds"} :
               file' = [whole |-> FALSE, real |-> IF cut = "real" THEN FALSE ELSE hold.real,
                        digest |-> IF cut = "holds" THEN {hold.sent} ELSE {}, holds |-> "unknown"]
    /\ Gone
    /\ UNCHANGED <<canvas, claims, ram, glass, parent>>

(* PanelRecord::read: a record without a digest is an error, one without a  *)
(* verdict is unknown, never the green answer.                               *)
Read(f) ==
    IF f.digest = {} THEN "error"
    ELSE CASE f.holds = "true" -> "holds" [] f.holds = "false" -> "lost"
           [] OTHER -> "unknown"

(* PanelWork::claim: a memory panel never claims the glass. *)
Claim(f) == IF ~f.real /\ Read(f) = "holds" THEN "memory" ELSE Read(f)

ParentReads ==
    /\ parent = "waiting" /\ hold.pc = "exited"
    /\ parent' = Claim(file)
    /\ UNCHANGED <<canvas, claims, engine, ram, bridge, glass, hold, file, spent>>

EngineNext ==
    \/ Open \/ Detach \/ SwapThrows \/ HoldPresent \/ ReadPlanes \/ Sample \/ Clear
    \/ WriteRecord \/ Exit \/ Killed \/ ParentReads
    \/ \E r \in Strokes, colour \in {"ink", "paper"} : Draw(r, colour)
    \/ \E name \in DOMAIN Waveform, full \in BOOLEAN : PresentFrame(name, full)

EngineSpec == EngineInit /\ [][EngineNext]_evars

-----------------------------------------------------------------------------
(* Properties *)

(* What the record lets its reader claim ("engine holds the frame that was    *)
(* sent", hold.rs) was true of the engine's own memory when it was read back: *)
(* never a private copy, the bridge's scratch or a record cut short.          *)
ClaimIsHonest == parent = "holds" => hold.truth

(* After a frame is presented the glass shows the whole canvas: the rectangles *)
(* an app claims, cut through pixels, reaching off the panel or merged, cover  *)
(* every pixel it changed, and land in their own rows of a padded buffer.      *)
GlassFollowsClaims == hold.shown => glass = canvas

(* Both, for the one process that drives the panel. *)
PanelTellsTheTruth == ClaimIsHonest /\ GlassFollowsClaims
=============================================================================
