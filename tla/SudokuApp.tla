------------------------------- MODULE SudokuApp -------------------------------
(***************************************************************************)
(* Sudoku (apps/sudoku, apps/sudoku-rules): the solver and the generator   *)
(* that digs a puzzle with one solution, the game being played, its save   *)
(* file, and the screen that claims, press by press, which rectangles of   *)
(* the glass changed.  The grid is B*B wide.  The random stream is a       *)
(* sequence of draws, each a finished grid and an order to dig in.         *)
(***************************************************************************)
EXTENDS Integers, Sequences, FiniteSets, FiniteSetsExt

CONSTANTS
    B,                 \* side of a block
    Stream,            \* what Rng gives solve::complete and the shuffle, draw by draw
    TargetGivens,      \* Difficulty::target_givens: difficulty -> Nat
    NextDifficulty,    \* Difficulty::next
    FIRST_PUZZLE,
    MAX_DAMAGE_RECTS,
    Touched,           \* the cells that are pressed
    MaxTaps,           \* presses handled between two frames
    MaxSudokuFaults,   \* failed saves, damaged files
    MaxLaunches

VARIABLES
    play,     \* Game
    view,     \* SudokuScreen, SudokuApp::loaded, and whether the app is in front
    puzzleFile, \* puzzle.toml
    claims,   \* DamageAccumulator
    glass,    \* stale: regions whose pixels are out of date; due: a redraw is owed; taps since
    shist     \* unsaved: the file is not the game; faults, launches

suvars == <<play, view, puzzleFile, claims, glass, shist>>

W == B * B
Cells == 0..(W * W - 1)
Digits == 1..W
Blank == 0
None == -1
Row(c) == c \div W
Column(c) == c % W
Block(c) == (Row(c) \div B) * B + Column(c) \div B
Difficulties == DOMAIN TargetGivens

---------------------------------------------------------------------------
(* Grids and the solver: types.rs, solve.rs *)

Grids == [Cells -> Digits \cup {Blank}]

Peers == [c \in Cells |->
            {o \in Cells \ {c} : Row(o) = Row(c) \/ Column(o) = Column(c) \/ Block(o) = Block(c)}]

\* The first peer that already holds the digit.
Conflict(g, c, d) ==
    LET with == {o \in Peers[c] : g[o] = d} IN IF with = {} THEN None ELSE Min(with)

IsValid(g) == \A c \in Cells : g[c] # Blank => Conflict(g, c, g[c]) = None
Filled(g) == Cardinality({c \in Cells : g[c] # Blank})
IsSolved(g) == (\A c \in Cells : g[c] # Blank) /\ IsValid(g)

Candidates(g, c) == {d \in Digits : Conflict(g, c, d) = None}

\* Search::most_constrained: the first empty cell with the fewest candidates.
MostConstrained(g) ==
    LET empty == {c \in Cells : g[c] = Blank}
        fewest == Min({Cardinality(Candidates(g, c)) : c \in empty})
    IN IF empty = {} THEN None
       ELSE Min({c \in empty : Cardinality(Candidates(g, c)) = fewest})

\* Search::count: completions of a legal grid, at most limit of them; digit is
\* the one the loop over the first open cell has come to.
Searches == [grid : Grids, digit : 1..(W + 1), limit : Nat]
Search(g, d, limit) == [grid |-> g, digit |-> d, limit |-> limit]
Count[s \in Searches] ==
    LET c == MostConstrained(s.grid)
    IN IF s.limit = 0 THEN 0
       ELSE IF c = None THEN 1
       ELSE IF s.digit > W THEN 0
       ELSE LET found == IF s.digit \in Candidates(s.grid, c)
                         THEN Count[Search([s.grid EXCEPT ![c] = s.digit], 1, s.limit)] ELSE 0
            IN found + Count[Search(s.grid, s.digit + 1, s.limit - found)]

Solutions(g, limit) == IF IsValid(g) THEN Count[Search(g, 1, limit)] ELSE 0

---------------------------------------------------------------------------
(* Puzzles: generate.rs *)

\* The digger's question: does the puzzle still have exactly one solution?
StillUnique(g) == Solutions(g, 2) = 1

\* Puzzle::generate_with: dig in the shuffled order until the target is met.
GenerateWith(level, draw) ==
    LET Dig[i \in 0..Len(draw.order)] ==
            IF i = 0 THEN draw.solution
            ELSE LET g == Dig[i - 1]
                     without == [g EXCEPT ![draw.order[i]] = Blank]
                 IN IF Filled(g) > TargetGivens[level] /\ StillUnique(without) THEN without ELSE g
    IN [givens |-> Dig[Len(draw.order)], solution |-> draw.solution, level |-> level]

Generated == [at \in Difficulties \X DOMAIN Stream |-> GenerateWith(at[1], Stream[at[2]])]

\* Every legal filling of a generated puzzle's blanks.
Completions ==
    [p \in {Generated[i] : i \in DOMAIN Generated} |->
        LET blanks == {c \in Cells : p.givens[c] = Blank}
            fill(f) == [c \in Cells |-> IF c \in blanks THEN f[c] ELSE p.givens[c]]
        IN {g \in {fill(f) : f \in [blanks -> Digits]} : IsValid(g)}]

IsGiven(p, c) == p.givens[c] # Blank

\* Puzzle::from_parts
FitsSolution(p) ==
    /\ IsSolved(p.solution)
    /\ \A c \in Cells : IsGiven(p, c) => p.solution[c] = p.givens[c]

---------------------------------------------------------------------------
(* The game and its file: game.rs, save.rs *)

Begin(level, k) ==
    LET drawn == Generated[<<level, k>>]
    IN [puzzle |-> drawn, board |-> drawn.givens, rng |-> k + 1]

\* Game::set and Game::clear: the verdict, and the board that follows.
SetVerdict(g, c, d) ==
    IF IsSolved(g.board) THEN "Solved"
    ELSE IF IsGiven(g.puzzle, c) THEN "Given"
    ELSE IF d # Blank /\ g.board[c] # d /\ Conflict(g.board, c, d) # None THEN "Conflict"
    ELSE "ok"

SetDigit(g, c, d) == [g EXCEPT !.board[c] = d]

NoFile == [kind |-> "absent"]
Unreadable == [kind |-> "unreadable"]
Saved(g) == [kind |-> "saved", puzzle |-> g.puzzle, board |-> g.board, stream |-> g.rng]

\* save.rs rebuild: what a stored puzzle must satisfy to be played.
Rebuilds(f) ==
    /\ FitsSolution(f.puzzle)
    /\ \A c \in Cells : IsGiven(f.puzzle, c) => f.board[c] = f.puzzle.givens[c]
    /\ IsValid(f.board)

Restored(f) == [puzzle |-> f.puzzle, board |-> f.board, rng |-> f.stream]

---------------------------------------------------------------------------
(* The glass: what render draws where, and the damage claimed for it *)

\* Rectangles are numbers: a cell is itself, the bands are below zero.
Bar == -2
Status == -3
NewButton == -4
NextButton == -5
Regions == Cells \cup {Bar, Status, NewButton, NextButton}

StatusText(g, v) ==
    CASE IsSolved(g.board) -> "solved"
      [] ~IsSolved(g.board) /\ v.notice # "none" -> v.notice
      [] OTHER -> IF v.selected # None THEN "tap a digit" ELSE "tap a cell"

Shown(g, v, r) ==
    CASE r = Bar -> <<g.puzzle.level, Filled(g.puzzle.givens)>>
      [] r = Status -> <<StatusText(g, v)>>
      [] r = NewButton -> <<v.armed>>
      [] r = NextButton -> <<v.next>>
      [] OTHER -> <<g.board[r], IsGiven(g.puzzle, r), v.selected = r>>

Changed(g, v, g2, v2) == {r \in Regions : Shown(g, v, r) # Shown(g2, v2, r)}

\* A claim: everything, or so many rectangles and which they are.
Full == [full |-> TRUE, count |-> 0, rects |-> {}]
Only(list) == [full |-> FALSE, count |-> Len(list), rects |-> {list[i] : i \in DOMAIN list}]

\* DamageAccumulator::claim: Full absorbs, and so does one rectangle too many.
Claim(pending, d) ==
    IF pending.full \/ d.full \/ pending.count + d.count > MAX_DAMAGE_RECTS
    THEN Full
    ELSE [full |-> FALSE, count |-> pending.count + d.count, rects |-> pending.rects \cup d.rects]

Covered(d) == IF d.full THEN Regions ELSE d.rects

---------------------------------------------------------------------------
(* The app *)

NewView(level) == [selected |-> None, notice |-> "none", armed |-> FALSE, next |-> level,
                   loaded |-> FALSE, front |-> TRUE]

SudokuInit ==
    /\ play = Begin(FIRST_PUZZLE, 1)
    /\ view = NewView(FIRST_PUZZLE)
    /\ puzzleFile = NoFile
    /\ claims = Full
    /\ glass = [stale |-> Regions, due |-> TRUE, taps |-> 0]
    /\ shist = [unsaved |-> TRUE, faults |-> 0, launches |-> 1]

\* SudokuApp::load, once, from the first callback that runs.
Load ==
    /\ ~view.loaded
    /\ IF puzzleFile.kind = "saved" /\ Rebuilds(puzzleFile)
       THEN /\ play' = Restored(puzzleFile)
            /\ view' = [NewView(puzzleFile.puzzle.level) EXCEPT !.loaded = TRUE]
            /\ shist' = [shist EXCEPT !.unsaved = FALSE]
       ELSE /\ view' = [view EXCEPT !.loaded = TRUE]
            /\ UNCHANGED <<play, shist>>
    /\ UNCHANGED <<puzzleFile, claims, glass>>

Persist(g) ==
    \/ /\ puzzleFile' = Saved(g)
       /\ shist' = [shist EXCEPT !.unsaved = FALSE]
    \/ /\ shist.faults < MaxSudokuFaults
       /\ puzzleFile' = puzzleFile
       /\ shist' = [shist EXCEPT !.unsaved = TRUE, !.faults = @ + 1]

\* Game::revision moves when a digit is set or cleared and with a new puzzle.
Revised(g) == g # play

\* The end of SudokuApp::event: claim what the press says changed, and save
\* when the revision moved.
Handled(g, v, damage) ==
    /\ play' = g
    /\ view' = v
    /\ claims' = Claim(claims, damage)
    /\ glass' = [stale |-> glass.stale \cup Changed(play, view, g, v),
                 due |-> glass.due \/ damage.full \/ damage.count > 0,
                 taps |-> glass.taps + 1]
    /\ IF Revised(g) THEN Persist(g) ELSE UNCHANGED <<puzzleFile, shist>>

Ready == view.loaded /\ view.front
Open == Ready /\ glass.taps < MaxTaps

PressHome == Open /\ Handled(play, view, Only(<<>>))

\* NEW PUZZLE asks once, then draws the next puzzle from the stream.
PressNew ==
    /\ Open
    /\ \/ /\ ~view.armed
          /\ Handled(play, [view EXCEPT !.armed = TRUE], Only(<<NewButton>>))
       \/ /\ view.armed /\ play.rng \in DOMAIN Stream
          /\ Handled(Begin(view.next, play.rng),
                     [view EXCEPT !.armed = FALSE, !.selected = None, !.notice = "none"],
                     Full)

\* Every other press disarms, and says so.
Calm == [view EXCEPT !.armed = FALSE]
Disarmed == IF view.armed THEN <<NewButton>> ELSE <<>>

PressNext ==
    /\ Open
    /\ Handled(play, [Calm EXCEPT !.next = NextDifficulty[@]], Only(Append(Disarmed, NextButton)))

PressNothing ==
    /\ Open
    /\ Handled(play, Calm, Only(Disarmed))

\* SudokuScreen::note: the status band is claimed when the notice changes.
Noted(notice) == IF view.notice = notice THEN <<>> ELSE <<Status>>

\* The cell the selection leaves, when it leaves one.
Released(c) == IF view.selected \in {None, c} THEN <<>> ELSE <<view.selected>>

SelectCell(c) ==
    /\ Open /\ ~IsSolved(play.board)
    /\ IF IsGiven(play.puzzle, c)
       THEN Handled(play, [Calm EXCEPT !.notice = "given"], Only(Disarmed \o Noted("given")))
       ELSE Handled(play, [Calm EXCEPT !.notice = "none",
                                       !.selected = IF view.selected = c THEN None ELSE c],
                    Only(Disarmed \o Noted("none") \o Released(c) \o <<c>>))

\* What a refused or missing digit leaves on the screen.
Refused(notice) ==
    Handled(play, [Calm EXCEPT !.notice = notice], Only(Disarmed \o Noted(notice)))

\* A digit, or CLR when d is Blank, into the selected cell.
Enter(d) ==
    /\ Open /\ ~IsSolved(play.board)
    /\ LET c == view.selected
           g == SetDigit(play, c, d)
           calm == [Calm EXCEPT !.notice = "none"]
       IN IF c = None THEN Refused("no selection")
          ELSE CASE SetVerdict(play, c, d) = "Conflict" -> Refused("conflict")
                 [] SetVerdict(play, c, d) = "Given" -> Refused("given")
                 [] OTHER ->
                    IF IsSolved(g.board)
                    THEN Handled(g, [calm EXCEPT !.selected = None], Full)
                    ELSE Handled(g, calm, Only(Disarmed \o Noted("none") \o <<c>>))

\* A frame: everything is drawn, and the panel is given the claimed part of it.
TakeFrame == IF claims = Only(<<>>) THEN Full ELSE claims

Draw ==
    /\ Ready /\ (glass.due \/ glass.taps > 0)
    /\ glass' = [stale |-> glass.stale \ Covered(TakeFrame), due |-> FALSE, taps |-> 0]
    /\ claims' = Only(<<>>)
    /\ UNCHANGED <<play, view, puzzleFile, shist>>

\* Suspended and Resumed: something else has been on the glass meanwhile.
LifecycleClaim == Full

Suspend ==
    /\ Ready
    /\ Persist(play)
    /\ view' = [view EXCEPT !.front = FALSE]
    /\ claims' = Claim(claims, LifecycleClaim)
    /\ glass' = [stale |-> Regions, due |-> FALSE, taps |-> 0]
    /\ UNCHANGED play

Resume ==
    /\ view.loaded /\ ~view.front
    /\ view' = [view EXCEPT !.front = TRUE]
    /\ claims' = Claim(claims, LifecycleClaim)
    /\ glass' = [glass EXCEPT !.due = TRUE]
    /\ UNCHANGED <<play, puzzleFile, shist>>

\* The process ends and is launched again, on a new draw of the OS seed.
Relaunch ==
    /\ shist.launches < MaxLaunches
    /\ play' = Begin(FIRST_PUZZLE, Len(Stream))
    /\ view' = NewView(FIRST_PUZZLE)
    /\ claims' = Full
    /\ glass' = [stale |-> Regions, due |-> TRUE, taps |-> 0]
    /\ shist' = [shist EXCEPT !.unsaved = TRUE, !.launches = @ + 1]
    /\ UNCHANGED puzzleFile

\* The file is damaged while the app is not running.
Damage ==
    /\ ~view.loaded /\ puzzleFile.kind = "saved" /\ shist.faults < MaxSudokuFaults
    /\ \/ puzzleFile' = Unreadable
       \/ \E c \in {0, W + 1} : \E d \in {Blank, 1} :
             puzzleFile' = [puzzleFile EXCEPT !.board[c] = d]
    /\ shist' = [shist EXCEPT !.faults = @ + 1]
    /\ UNCHANGED <<play, view, claims, glass>>

SudokuNext ==
    \/ Load
    \/ PressHome
    \/ PressNew
    \/ PressNext
    \/ PressNothing
    \/ \E c \in Touched : SelectCell(c)
    \/ \E d \in Digits \cup {Blank} : Enter(d)
    \/ Draw
    \/ Suspend
    \/ Resume
    \/ Relaunch
    \/ Damage

SudokuSpec == SudokuInit /\ [][SudokuNext]_suvars

---------------------------------------------------------------------------
(* Properties *)

\* The puzzle in play has one solution, the one stored with it, counted by
\* trying every filling of its blanks instead of by the solver the generator
\* digs with.
PuzzleIsUnique == Completions[play.puzzle] = {play.puzzle.solution}

\* Whatever was typed and whatever was on disk, the board in play holds its
\* givens and breaks no constraint.
BoardStaysLegal ==
    /\ \A c \in Cells : IsGiven(play.puzzle, c) => play.board[c] = play.puzzle.givens[c]
    /\ IsValid(play.board)

\* The file is the game, stream included, from the moment it was last saved or
\* loaded: stopping now loses nothing.
FileIsTheGame == (view.loaded /\ ~shist.unsaved) => puzzleFile = Saved(play)

\* Outside the status band, a region whose content changed is repainted by the
\* frame that follows: the claims a press makes cover what it changed.
ClaimsCoverTheBoard ==
    /\ view.loaded => glass.stale \ {Status} \subseteq Covered(claims)
    /\ (Ready /\ ~glass.due) => glass.stale \subseteq {Status}

===============================================================================
