------------------------------- MODULE HomeApp -------------------------------
(***************************************************************************)
(* Home (apps/home) and the session's SystemResponder (paperctl system.rs): *)
(* tiles that light up under a contact and launch when it lifts, and a     *)
(* battery fact asked for once and announced again whenever it changes.    *)
(* Contacts arrive as module Input sends them: a contact is put down,      *)
(* moved, and lifted or cancelled.                                         *)
(***************************************************************************)
EXTENDS Integers, Sequences, FiniteSets

CONSTANTS
    Tiles,       \* entries of the shelf; 0 is a place with no tile
    Fingers,     \* contacts on the panel
    Budget,      \* MAX_SYSTEM_QUERIES_PER_SECOND
    MaxReadings, \* changes of the battery
    MaxTouches   \* contacts put down

VARIABLES
    home,    \* HomeApp: pressed tile, battery fact, whether it asked, what it asked the host for
    down,    \* the contacts on the panel
    line,    \* queries to the responder and what it sends back, in order
    power,   \* the battery, 0 when it cannot be read
    host,    \* the SystemResponder: last_battery, and queries answered this second
    tally    \* the budgets spent

hovars == <<home, down, line, power, host, tally>>

Places == Tiles \cup {0}

HomeInit ==
    /\ home = [pressed |-> 0, battery |-> 0, asked |-> FALSE, drawn |-> [pressed |-> 0, battery |-> 0], due |-> TRUE]
    /\ down = {}
    /\ line = [queries |-> 0, back |-> <<>>]
    /\ power \in 0..1
    /\ host = [last |-> 0, sent |-> 0]
    /\ tally = [readings |-> 0, touches |-> 0]

\* A tile is drawn lit while it is pressed; the battery is a fact of the bar.
TileDrawn == home.pressed
Drawn == [pressed |-> TileDrawn, battery |-> home.battery]

\* Home::draw asks for the battery with its first frame.
Draw ==
    /\ home.due
    /\ home' = [home EXCEPT !.asked = TRUE, !.due = FALSE, !.drawn = Drawn]
    /\ line' = IF home.asked THEN line ELSE [line EXCEPT !.queries = @ + 1]
    /\ UNCHANGED <<down, power, host, tally>>

---------------------------------------------------------------------------
(* HomeScreen::press: one action per pointer phase *)

Light(place) ==
    /\ home' = [home EXCEPT !.pressed = place, !.due = home.due \/ home.pressed # place]
    /\ UNCHANGED <<line, power, host>>

PointerDown(finger, place) ==
    /\ finger \notin down /\ tally.touches < MaxTouches
    /\ down' = down \cup {finger}
    /\ tally' = [tally EXCEPT !.touches = @ + 1]
    /\ Light(place)

PointerMoved(finger, place) ==
    /\ finger \in down
    /\ Light(place)
    /\ UNCHANGED <<down, tally>>

Cancel(finger) == home' = [home EXCEPT !.pressed = 0, !.due = TRUE]

PointerCancelled(finger) ==
    /\ finger \in down
    /\ down' = down \ {finger}
    /\ Cancel(finger)
    /\ UNCHANGED <<line, power, host, tally>>

\* A lift over a tile launches it, or returns to stock; anywhere else it redraws.
PointerUp(finger, place) ==
    /\ finger \in down
    /\ down' = down \ {finger}
    /\ home' = [home EXCEPT !.pressed = 0, !.due = home.due \/ place = 0]
    /\ UNCHANGED <<line, power, host, tally>>

---------------------------------------------------------------------------
(* SystemResponder *)

Allow == host.sent < Budget
SecondPasses == host.sent # 0 /\ host' = [host EXCEPT !.sent = 0] /\ UNCHANGED <<home, down, line, power, tally>>

\* A query over the budget, or a battery that cannot be read, is denied.
Answer ==
    /\ line.queries > 0
    /\ LET told == Allow /\ power # 0
       IN /\ line' = [queries |-> line.queries - 1,
                      back |-> Append(line.back, IF told THEN power ELSE 0)]
          /\ host' = [last |-> IF told THEN power ELSE host.last,
                      sent |-> IF Allow THEN host.sent + 1 ELSE host.sent]
    /\ UNCHANGED <<home, down, power, tally>>

Changes == power # 0 /\ power # host.last

\* Session::pump: between batches the responder announces what changed.
Announce ==
    /\ Changes
    /\ line' = [line EXCEPT !.back = Append(@, power)]
    /\ host' = [host EXCEPT !.last = power]
    /\ UNCHANGED <<home, down, power, tally>>

BatteryReads(value) ==
    /\ tally.readings < MaxReadings /\ value # power
    /\ power' = value
    /\ tally' = [tally EXCEPT !.readings = @ + 1]
    /\ UNCHANGED <<home, down, line, host>>

\* HomeApp::event: a fact, answered or announced, is shown; a denial is not.
ReceiveFact ==
    /\ line.back # <<>>
    /\ LET fact == Head(line.back)
       IN home' = IF fact = 0 THEN home ELSE [home EXCEPT !.battery = fact, !.due = TRUE]
    /\ line' = [line EXCEPT !.back = Tail(@)]
    /\ UNCHANGED <<down, power, host, tally>>

HomeNext ==
    \/ Draw \/ SecondPasses \/ Answer \/ Announce \/ ReceiveFact
    \/ \E value \in 0..2 : BatteryReads(value)
    \/ \E finger \in Fingers :
        \/ PointerCancelled(finger)
        \/ \E place \in Places : \/ PointerDown(finger, place) \/ PointerMoved(finger, place)
                                 \/ PointerUp(finger, place)

HomeSpec == HomeInit /\ [][HomeNext]_hovars

---------------------------------------------------------------------------
(* Properties *)

\* No tile stays lit once the last contact is gone, whichever of several
\* contacts lifted or was cancelled last (screen.rs 69-100).
LitMeansTouched == down = {} => home.pressed = 0

\* When nothing is on its way and no frame is owed, the panel shows the battery
\* as it last could be read, although the fact is asked for only once, the
\* query may be denied, and readings change while an answer is in flight
\* (app.rs 79-100, system.rs 123-170).
BatteryIsCurrent ==
    line = [queries |-> 0, back |-> <<>>] /\ ~Changes /\ ~home.due /\ power # 0
        => home.drawn.battery = power
===============================================================================
