------------------------------- MODULE MCApps -------------------------------
(***************************************************************************)
(* The apps that ship: two games that keep a file, and the three system    *)
(* screens that show what they last heard.  `which` names the app that     *)
(* runs; the others rest.                                                  *)
(***************************************************************************)
EXTENDS SudokuApp

CONSTANTS
    Engine, StartPosition, N, THREEFOLD_CLAIM, FIVEFOLD_AUTOMATIC, FIFTY_MOVE_CLAIM,
    SEVENTY_FIVE_MOVE_AUTOMATIC, MaxChessFaults, MaxStarts,
    READS, QueriesPerSecond, MaxConfirms, MaxSuspends,
    Apps, Held, Newest, MAX_ATTEMPTS, MaxRequests, MaxOutside,
    Tiles, Fingers, Budget, MaxReadings, MaxTouches

\* The list of apps is among what Settings reads, and the apps a store can list
\* are finitely many, in some order.
ASSUME ReadsAssumption == READS \in Seq(STRING) /\ \E i \in 1..Len(READS) : READS[i] = "InstalledApps"
ASSUME ScreensAssumption == IsFiniteSet(Apps) /\ Apps \in SUBSET Int /\ Newest \in Int

VARIABLES
    which,
    game, screen, saved, frame, chist,
    panel, wire, service, lit, behind,
    store, jobs, queue, shelf, shown, used,
    home, down, line, power, host, tally

C == INSTANCE ChessApp WITH Start <- StartPosition
E == INSTANCE SettingsApp WITH Budget <- QueriesPerSecond, host <- service
T == INSTANCE StoreApp WITH lit <- shown
H == INSTANCE HomeApp

\* What the chess crate promises: a move leads to a position it knows, and a
\* pawn that promotes may become any of the pieces offered.
ASSUME EngineAssumption ==
    /\ StartPosition \in DOMAIN Engine /\ N \in Nat
    /\ \A p \in DOMAIN Engine : \A m \in Engine[p].moves :
          /\ m.next \in DOMAIN Engine
          /\ m.promotion # "none" =>
                \A piece \in C!Pieces : \E k \in Engine[p].moves :
                    k.from = m.from /\ k.to = m.to /\ k.promotion = piece

\* What the stream gives: a finished grid that breaks no constraint, with an
\* order of its cells; and the levels the screen goes round.
ASSUME DrawsAssumption ==
    /\ B \in Nat \ {0}
    /\ Stream \in Seq([solution : {g \in [Cells -> Digits] : IsValid(g)}, order : Seq(Cells)])
    /\ Stream # <<>>
    /\ Touched \subseteq Cells
    /\ FIRST_PUZZLE \in Difficulties /\ NextDifficulty \in [Difficulties -> Difficulties]

chess    == <<game, screen, saved, frame, chist>>
settings == <<panel, wire, service, lit, behind>>
appstore == <<store, jobs, queue, shelf, shown, used>>
shelfapp == <<home, down, line, power, host, tally>>
vars == <<which, chess, suvars, settings, appstore, shelfapp>>

-----------------------------------------------------------------------------
\* An endgame on three ranks by three files: the white king has three squares,
\* the black king two, and a white pawn, one step from promotion, that the black
\* king can take.
WhiteKing == {<<0, 0>>, <<1, 0>>, <<0, 1>>}
BlackKing == {<<0, 2>>, <<1, 2>>}
PawnFrom == <<2, 1>>
PawnTo == <<2, 2>>
Promotions == {"Queen", "Rook", "Bishop", "Knight"}
Positions ==
    {p \in [side : {"White", "Black"}, w : WhiteKing, b : BlackKing \cup {PawnFrom},
            x : Promotions \cup {"Pawn", "taken"}] : p.b = PawnFrom <=> p.x = "taken"}
PieceAt(p, square) ==
    CASE square = p.w -> <<"White", "King">>
      [] square = p.b -> <<"Black", "King">>
      [] p.x = "Pawn" /\ square = PawnFrom -> <<"White", "Pawn">>
      [] p.x \in Promotions /\ square = PawnTo -> <<"White", p.x>>
      [] OTHER -> <<>>
Move(from, to, promotion, next) ==
    [from |-> from, to |-> to, promotion |-> promotion, enPassant |-> FALSE, next |-> next]
WhiteMoves(p) ==
    {Move(p.w, to, "none", [p EXCEPT !.side = "Black", !.w = to]) : to \in WhiteKing \ {p.w}}
    \cup {Move(PawnFrom, PawnTo, k, [p EXCEPT !.side = "Black", !.x = k]) : k \in Promotions}
BlackMoves(p) ==
    {Move(p.b, to, "none", [p EXCEPT !.side = "White", !.b = to]) : to \in BlackKing \ {p.b}}
    \cup {Move(p.b, PawnFrom, "none", [p EXCEPT !.side = "White", !.b = PawnFrom, !.x = "taken"]) :
            at \in {p.b} \cap {<<1, 2>>}}
ChessEngine ==
    [p \in Positions |->
        [side |-> p.side, piece |-> [square \in (0..2) \X (0..2) |-> PieceAt(p, square)],
         moves |-> IF p.x # "Pawn" THEN {} ELSE IF p.side = "White" THEN WhiteMoves(p) ELSE BlackMoves(p),
         status |-> CASE p.x = "Queen" -> "checkmate" [] p.x = "Rook" -> "stalemate" [] OTHER -> "ongoing",
         heavy |-> p.x \in {"Pawn", "Queen", "Rook"},
         minors |-> IF p.x \in {"Bishop", "Knight"} THEN 1 ELSE 0]]
ChessStart == [side |-> "White", w |-> <<0, 0>>, b |-> <<0, 2>>, x |-> "Pawn"]

\* Two grids of four by four.  In the first, cells 0, 1, 8 and 9 hold 1 2 / 2 1:
\* a puzzle without all four of them has two solutions.
GridA == [c \in 0..15 |-> <<1,2,3,4, 3,4,1,2, 2,1,4,3, 4,3,2,1>>[c + 1]]
GridB == [c \in 0..15 |-> <<2,1,3,4, 3,4,2,1, 1,2,4,3, 4,3,1,2>>[c + 1]]
TwoDraws == <<[solution |-> GridA, order |-> <<0, 9, 8, 1>>], [solution |-> GridB, order |-> <<5>>]>>
Targets == [easy |-> 15, hard |-> 12]
Levels == [easy |-> "hard", hard |-> "easy"]

TwoReads == <<"InstalledApps", "Facts">>

-----------------------------------------------------------------------------
Init ==
    /\ which \in {"chess", "sudoku", "settings", "store", "home"}
    /\ C!ChessInit
    /\ SudokuInit
    /\ E!SettingsInit
    /\ T!StoreInit
    /\ H!HomeInit /\ (which = "home" \/ power = 1)

Next ==
    /\ UNCHANGED which
    /\ \/ which = "chess" /\ C!ChessNext /\ UNCHANGED <<suvars, settings, appstore, shelfapp>>
       \/ which = "sudoku" /\ SudokuNext /\ UNCHANGED <<chess, settings, appstore, shelfapp>>
       \/ which = "settings" /\ E!SettingsNext /\ UNCHANGED <<chess, suvars, appstore, shelfapp>>
       \/ which = "store" /\ T!StoreNext /\ UNCHANGED <<chess, suvars, settings, shelfapp>>
       \/ which = "home" /\ H!HomeNext /\ UNCHANGED <<chess, suvars, settings, appstore>>

Spec == Init /\ [][Next]_vars

-----------------------------------------------------------------------------
\* Chess and Sudoku, killed, suspended and failing to save: the file is the game
\* unless a save failed; a promotion, claim or selection that is open is one the
\* position allows; a puzzle has one solution and the player's board keeps its
\* givens; and the glass, or the damage claimed for it, covers what changed.
GamesAreSound ==
    /\ which = "chess" =>
           C!SavedIsTheGame /\ C!PendingStaysLegal /\ C!SelectionIsOwn /\ C!GlassIsCurrent
    /\ which = "sudoku" =>
           PuzzleIsUnique /\ BoardStaysLegal /\ FileIsTheGame /\ ClaimsCoverTheBoard

\* Settings, the App Store and Home, their answers late or denied: the cached list
\* is the store's unless a read of it was refused or another program changed the
\* store under Settings; the glass shows the page and the dialog that take taps,
\* and the rows unless an answer was filed since (app.rs:118 claims nothing for
\* it); "working" means a worker is; a detail page shows an app that is listed;
\* damage covers the change; and a lit tile has a finger on it.
ScreensAreSound ==
    /\ which = "settings" => E!CacheFollowsStore /\ E!DialogOnGlass
    /\ which = "store" => T!WorkingIsReal /\ T!DetailIsListed /\ T!ClaimCoversTheChange
    /\ which = "home" => H!LitMeansTouched /\ H!BatteryIsCurrent

\* Settings' frames after its answers reach the glass (app.rs:103).  The code does
\* not keep it: such a frame claims no region.
SettingsShowsWhatItDrew == which = "settings" => E!GlassShowsWhatWasDrawn
=============================================================================
