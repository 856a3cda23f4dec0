------------------------------- MODULE ChessApp -------------------------------
(***************************************************************************)
(* Chess (apps/chess, apps/chess-rules): the game with its draw rules, the *)
(* saved game that is replayed at the next launch, the screen a tap is     *)
(* resolved against and the frame the player last saw.  The `chess` crate  *)
(* (move generation, make_move, status) is external: Engine gives, for     *)
(* every position of the instance, what the code asks of it.               *)
(***************************************************************************)
EXTENDS Integers, Sequences, FiniteSets

CONSTANTS
    Engine,      \* position -> [side, piece, moves, status, heavy, minors]
    Start,       \* Board::default()
    N,           \* squares on a side of the board
    THREEFOLD_CLAIM, FIVEFOLD_AUTOMATIC,
    FIFTY_MOVE_CLAIM, SEVENTY_FIVE_MOVE_AUTOMATIC,
    MaxChessFaults,  \* failed saves, damaged files
    MaxStarts        \* launches of the app

VARIABLES
    game,    \* Game
    screen,  \* ChessScreen and ChessApp::loaded
    saved,   \* game.toml: absent, unreadable, or its events
    frame,   \* what the glass shows, or None while a redraw asked for is due
    chist    \* unsaved: a load or save failed since the last good save; faults, starts

cvars == <<game, screen, saved, frame, chist>>

None == <<>>
Absent == [kind |-> "absent", events |-> <<>>]
Garbage == [kind |-> "garbage", events |-> <<>>]
Holds(events) == [kind |-> "events", events |-> events]

Squares == (0..(N - 1)) \X (0..(N - 1))
Pieces == {"Queen", "Rook", "Bishop", "Knight"}

---------------------------------------------------------------------------
(* The rules: chess-rules/src/game.rs *)

NewGame == [board |-> Start, outcome |-> "none", clock |-> 0,
            counts |-> [p \in {Start} |-> 1],
            events |-> <<>>]

Side(g) == Engine[g.board].side
PieceAt(g, sq) == Engine[g.board].piece[sq]
Ply(g) == Len(g.events)

ClaimableDraw(g) ==
    CASE g.outcome # "none" -> "none"
      [] g.outcome = "none" /\ g.counts[g.board] >= THREEFOLD_CLAIM -> "threefold"
      [] OTHER -> IF g.clock >= FIFTY_MOVE_CLAIM THEN "fifty" ELSE "none"

LegalDestinations(g, from) ==
    IF g.outcome # "none" THEN {} ELSE {m.to : m \in {k \in Engine[g.board].moves : k.from = from}}

InsufficientMaterial(p) == ~Engine[p].heavy /\ Engine[p].minors <= 1

DeriveAutomaticOutcome(p, clock, occurrences) ==
    CASE Engine[p].status = "checkmate" -> "checkmate"
      [] Engine[p].status = "stalemate" -> "stalemate"
      [] OTHER -> IF InsufficientMaterial(p) THEN "insufficient"
                  ELSE IF occurrences >= FIVEFOLD_AUTOMATIC THEN "fivefold"
                  ELSE IF clock >= SEVENTY_FIVE_MOVE_AUTOMATIC THEN "seventyfive"
                  ELSE "none"

\* The error `apply` answers, or "ok", in the order it looks.
Verdict(g, mv) ==
    LET found == {m \in Engine[g.board].moves : m.from = mv.from /\ m.to = mv.to}
        promotes == \E m \in found : m.promotion # "none"
    IN CASE g.outcome # "none" -> "GameOver"
         [] g.outcome = "none" /\ PieceAt(g, mv.from) = None -> "EmptySquare"
         [] g.outcome = "none" /\ PieceAt(g, mv.from) # None
              -> IF PieceAt(g, mv.from)[1] # Side(g) THEN "WrongColor"
                 ELSE IF found = {} THEN "Illegal"
                 ELSE IF promotes /\ mv.promotion = "none" THEN "PromotionRequired"
                 ELSE IF ~promotes /\ mv.promotion # "none" THEN "PromotionNotAllowed"
                 ELSE IF ~\E m \in found : m.promotion = mv.promotion THEN "Illegal"
                 ELSE "ok"

\* GameEvent::from(mv): what the event log keeps of a move.
MoveEvent(mv) == [kind |-> "move", move |-> mv, reason |-> "none"]
ClaimEvent(reason) == [kind |-> "claim", move |-> None, reason |-> reason]

Apply(g, mv) ==
    LET chosen == CHOOSE m \in Engine[g.board].moves :
                     m.from = mv.from /\ m.to = mv.to /\ m.promotion = mv.promotion
        resets == \/ PieceAt(g, mv.from)[2] = "Pawn"
                  \/ PieceAt(g, mv.to) # None
                  \/ chosen.enPassant
        clock == IF resets THEN 0 ELSE g.clock + 1
        known == DOMAIN g.counts
        times == IF chosen.next \in known THEN g.counts[chosen.next] + 1 ELSE 1
    IN [board |-> chosen.next, clock |-> clock,
        counts |-> [p \in known \cup {chosen.next} |-> IF p = chosen.next THEN times ELSE g.counts[p]],
        outcome |-> DeriveAutomaticOutcome(chosen.next, clock, times),
        events |-> Append(g.events, MoveEvent(mv))]

ClaimDraw(g) ==
    [g EXCEPT !.outcome = "claimed " \o ClaimableDraw(g),
              !.events = Append(@, ClaimEvent(ClaimableDraw(g)))]

\* Game::from_events: replay from the start; None when an event is refused.
FromEvents(events) ==
    LET Played[i \in 0..Len(events)] ==
            IF i = 0 THEN <<NewGame>>
            ELSE LET so == Played[i - 1]
                     e == events[i]
                 IN IF so = None THEN None
                    ELSE IF e.kind = "move"
                         THEN IF Verdict(so[1], e.move) = "ok" THEN <<Apply(so[1], e.move)>> ELSE None
                         ELSE IF ClaimableDraw(so[1]) = e.reason /\ e.reason # "none"
                              THEN <<ClaimDraw(so[1])>> ELSE None
    IN Played[Len(events)]

---------------------------------------------------------------------------
(* The board on the glass: chess/src/board.rs *)

GridPosition(flipped, sq) ==
    IF flipped THEN <<N - 1 - sq[1], sq[2]>> ELSE <<sq[1], N - 1 - sq[2]>>

SquareAt(flipped, cell) ==
    IF flipped THEN <<N - 1 - cell[1], cell[2]>> ELSE <<cell[1], N - 1 - cell[2]>>

---------------------------------------------------------------------------
(* The app: chess/src/app.rs, chess/src/screen.rs *)

NewScreen == [flipped |-> FALSE, selected |-> None, pending |-> None,
              armed |-> FALSE, loaded |-> FALSE]

\* Which of the footer's actions are there, and where everything else is.
Layout(g, s) == [claim |-> ClaimableDraw(g) # "none", flipped |-> s.flipped,
                 picker |-> s.pending # None]

\* What a frame shows: the status line, the pieces with the selection, the
\* layout and the NEW GAME label.
StatusText(g) == g.outcome
Position(g, s) == [board |-> g.board, selected |-> s.selected]
Rendered(g, s) == [layout |-> Layout(g, s), position |-> Position(g, s), status |-> StatusText(g),
                   confirm |-> s.armed]

ChessInit ==
    /\ game = NewGame
    /\ screen = NewScreen
    /\ saved = Absent
    /\ frame = None
    /\ chist = [unsaved |-> FALSE, faults |-> 0, starts |-> 1]

\* ChessApp::load, once, from whichever callback runs first.
Load ==
    /\ ~screen.loaded
    /\ screen' = [screen EXCEPT !.loaded = TRUE]
    /\ LET read == IF saved.kind = "events" THEN FromEvents(saved.events) ELSE None
       IN /\ game' = IF read = None THEN game ELSE read[1]
          /\ chist' = [chist EXCEPT !.unsaved = saved.kind # "absent" /\ read = None]
    /\ UNCHANGED <<saved, frame>>

\* Persist g: a temporary file renamed over the old one, or a failure that
\* leaves the old one and is only warned about.
Persist(g) ==
    \/ /\ saved' = Holds(g.events)
       /\ chist' = [chist EXCEPT !.unsaved = FALSE]
    \/ /\ chist.faults < MaxChessFaults
       /\ saved' = saved
       /\ chist' = [chist EXCEPT !.unsaved = TRUE, !.faults = @ + 1]

SaveIfPlayedOn(g) ==
    IF Ply(g) > Ply(game) THEN Persist(g) ELSE UNCHANGED <<saved, chist>>

\* The end of ChessApp::event: save when the press changed the ply.
SaveIfPlayed(g) ==
    IF Ply(g) # Ply(game) THEN Persist(g) ELSE UNCHANGED <<saved, chist>>

Handled(g, s, action) ==
    /\ game' = g
    /\ screen' = s
    /\ SaveIfPlayed(g)
    /\ frame' = IF action = "Redraw" THEN None ELSE frame

\* The picker takes every tap while it is up.
PickerModal == screen.pending # None

PickPromotion(piece) ==
    /\ screen.loaded /\ screen.pending # None
    /\ LET mv == [from |-> screen.pending[1], to |-> screen.pending[2], promotion |-> piece]
           g == IF Verdict(game, mv) = "ok" THEN Apply(game, mv) ELSE game
       IN Handled(g, [screen EXCEPT !.pending = None, !.selected = None], "Redraw")

MissPicker ==
    /\ screen.loaded /\ screen.pending # None
    /\ Handled(game, screen, "Redraw")

PressClaim ==
    /\ screen.loaded /\ ~PickerModal /\ Layout(game, screen).claim
    /\ Handled(ClaimDraw(game), screen, "Redraw")

PressHome ==
    /\ screen.loaded /\ ~PickerModal
    /\ Handled(game, screen, "Home")

PressFlip ==
    /\ screen.loaded /\ ~PickerModal
    /\ Handled(game, [screen EXCEPT !.flipped = ~@, !.armed = FALSE], "Redraw")

StartOver == Handled(NewGame, [screen EXCEPT !.armed = FALSE, !.selected = None], "Redraw")

Arm == Handled(game, [screen EXCEPT !.armed = TRUE], "Redraw")

\* NEW GAME: the first press arms it, the second starts over.
PressNewGame ==
    /\ screen.loaded /\ ~PickerModal
    /\ \/ screen.armed /\ StartOver
       \/ ~screen.armed /\ Arm

OwnsPieceAt(sq) == PieceAt(game, sq) # None /\ PieceAt(game, sq)[1] = Side(game)

PickUp(sq) == IF OwnsPieceAt(sq) THEN sq ELSE None

\* A tap on a square, or outside everything when cell = None.
PressBoard(cell) ==
    /\ screen.loaded /\ ~PickerModal
    /\ LET calm == [screen EXCEPT !.armed = FALSE]
           sq == SquareAt(screen.flipped, cell)
           from == screen.selected
           mv == [from |-> from, to |-> sq, promotion |-> "none"]
       IN IF game.outcome # "none" \/ cell = None THEN Handled(game, calm, "None")
          ELSE IF from = sq THEN Handled(game, [calm EXCEPT !.selected = None], "Redraw")
          ELSE IF from = None \/ sq \notin LegalDestinations(game, from)
               THEN Handled(game, [calm EXCEPT !.selected = PickUp(sq)], "Redraw")
          ELSE CASE Verdict(game, mv) = "ok"
                      -> Handled(Apply(game, mv), [calm EXCEPT !.selected = None], "Redraw")
                 [] Verdict(game, mv) = "PromotionRequired"
                      -> Handled(game, [calm EXCEPT !.pending = <<from, sq>>], "Redraw")
                 [] OTHER -> Handled(game, calm, "Redraw")

\* App::draw, some time after the redraw was asked for.
Draw ==
    /\ screen.loaded /\ frame = None
    /\ frame' = <<Rendered(game, screen)>>
    /\ UNCHANGED <<game, screen, saved, chist>>

\* App::save, when the platform suspends or stops the app.
AskedToSave ==
    /\ screen.loaded
    /\ Persist(game)
    /\ UNCHANGED <<game, screen, frame>>

\* The process ends, saved or killed, and is launched again.
Relaunch ==
    /\ chist.starts < MaxStarts
    /\ game' = NewGame
    /\ screen' = NewScreen
    /\ frame' = None
    /\ chist' = [chist EXCEPT !.unsaved = FALSE, !.starts = @ + 1]
    /\ UNCHANGED saved

\* The file is damaged while the app is not running.
Damage ==
    /\ ~screen.loaded /\ saved.kind = "events" /\ chist.faults < MaxChessFaults
    /\ \/ saved' = Garbage
       \/ /\ Len(saved.events) > 1
          /\ saved' = Holds(Tail(saved.events))
    /\ chist' = [chist EXCEPT !.faults = @ + 1]
    /\ UNCHANGED <<game, screen, frame>>

ChessNext ==
    \/ Load
    \/ \E piece \in Pieces : PickPromotion(piece)
    \/ MissPicker
    \/ PressClaim
    \/ PressHome
    \/ PressFlip
    \/ PressNewGame
    \/ \E cell \in Squares \cup {None} : PressBoard(cell)
    \/ Draw
    \/ AskedToSave
    \/ Relaunch
    \/ Damage

ChessSpec == ChessInit /\ [][ChessNext]_cvars

---------------------------------------------------------------------------
(* Properties *)

\* What is on disk is the game being played, to the last rule: the file holds
\* its events, and replaying them (Game::from_events) gives the same board,
\* clock, repetition counts and outcome back.
SavedIsTheGame ==
    (screen.loaded /\ ~chist.unsaved) =>
        /\ saved.events = game.events
        /\ FromEvents(game.events) = <<game>>

\* A promotion waiting for its piece is a legal promotion of the game on the
\* board: choosing any piece completes it (screen.rs discards apply's error).
PendingStaysLegal ==
    screen.pending # None =>
        \A piece \in Pieces :
            Verdict(game, [from |-> screen.pending[1], to |-> screen.pending[2],
                           promotion |-> piece]) = "ok"

\* The picked-up piece belongs to the side to move.
SelectionIsOwn == screen.selected # None => OwnsPieceAt(screen.selected)

\* Once the frame asked for is drawn, every tap is resolved against the layout
\* on the glass, a square is hit where it is drawn whichever way round the
\* board is, and a NEW GAME press that would throw the game away is
\* labelled as such.
GlassIsCurrent ==
    (screen.loaded /\ frame # None) =>
        /\ frame[1].layout = Layout(game, screen)
        /\ frame[1].position.board = game.board
        /\ frame[1].position.selected = screen.selected
        /\ \A sq \in Squares :
              SquareAt(screen.flipped, GridPosition(frame[1].layout.flipped, sq)) = sq
        /\ screen.armed => frame[1].confirm
===============================================================================
