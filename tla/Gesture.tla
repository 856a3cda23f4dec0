------------------------------- MODULE Gesture -------------------------------
(***************************************************************************)
(* GestureDetector::arbitrate (platform/compositor gesture.rs): one        *)
(* verdict per pointer event, the app's or the system's.  A contact that   *)
(* ended is forgotten, so a member of Contacts that comes down again       *)
(* stands for a new id.                                                    *)
(***************************************************************************)
EXTENDS Integers, FiniteSets

CONSTANTS
    Contacts,
    Points,                \* points <<x, y>> of a Side by Side screen
    Side,
    EDGE_ZONE_DEPTH, EDGE_SWIPE_MIN_TRAVEL, PINCH_MIN_CLOSING, MIN_PINCH_FINGERS

VARIABLES
    tracks, \* per contact: Track, or NoTrack
    ruled   \* per contact: the last verdict given for it
gvars == <<tracks, ruled>>

NoTrack == [on |-> FALSE]
App == "app"

GestureInit ==
    /\ tracks = [c \in Contacts |-> NoTrack]
    /\ ruled = [c \in Contacts |-> App]

Live(t) == {c \in Contacts : t[c].on}

\* A corner is in two zones and belongs to neither.
EdgeOf(p) ==
    LET zones == {e \in {"top", "bottom", "left", "right"} :
                    \/ e = "top" /\ p[2] <= EDGE_ZONE_DEPTH
                    \/ e = "bottom" /\ p[2] >= Side - EDGE_ZONE_DEPTH
                    \/ e = "left" /\ p[1] <= EDGE_ZONE_DEPTH
                    \/ e = "right" /\ p[1] >= Side - EDGE_ZONE_DEPTH}
    IN  IF Cardinality(zones) = 1 THEN CHOOSE e \in zones : TRUE ELSE "none"

InwardTravel(from, to, edge) ==
    CASE edge = "top" -> to[2] - from[2]
      [] edge = "bottom" -> from[2] - to[2]
      [] edge = "left" -> to[1] - from[1]
      [] edge = "right" -> from[1] - to[1]

\* Whole-pixel distance.
Distance(a, b) ==
    LET square == (a[1] - b[1]) * (a[1] - b[1]) + (a[2] - b[2]) * (a[2] - b[2])
    IN  CHOOSE d \in 0..(2 * Side) : d * d <= square /\ square < (d + 1) * (d + 1)
Spread(points) == CHOOSE d \in 0..(2 * Side) :
    /\ \E a, b \in points : Distance(a, b) = d
    /\ \A a, b \in points : Distance(a, b) <= d

Claim(t, claimed, gesture) ==
    [c \in Contacts |-> IF c \in claimed THEN [t[c] EXCEPT !.claimed = gesture] ELSE t[c]]

\* confirm_pinch
UnclaimedContacts(t) == {c \in Live(t) : t[c].claimed = App}
UnclaimedTouches(t) == {c \in Live(t) : t[c].pointer = "touch" /\ t[c].claimed = App}
ConfirmPinch(t) ==
    LET hand == UnclaimedTouches(t)
    IN  IF /\ Cardinality(hand) >= MIN_PINCH_FINGERS
           /\ Spread({t[c].origin : c \in hand}) - Spread({t[c].last : c \in hand}) >= PINCH_MIN_CLOSING
        THEN Claim(t, hand, "escape")
        ELSE t

Verdict(track) ==
    IF track.claimed # App THEN track.claimed
    ELSE IF track.edge # "none" /\ InwardTravel(track.origin, track.last, track.edge) >= EDGE_SWIPE_MIN_TRAVEL
         THEN track.edge
         ELSE App

\* The rest of arbitrate, for a contact with a track.  Hovers, and contacts
\* whose Down was never seen, are the app's and change nothing.
Rule(t, c, ends) ==
    LET verdict == Verdict(t[c])
        claimed == IF verdict = App THEN t ELSE Claim(t, {c}, verdict)
    IN  /\ tracks' = IF ends THEN [claimed EXCEPT ![c] = NoTrack] ELSE claimed
        /\ ruled' = [ruled EXCEPT ![c] = IF ends THEN App ELSE verdict]

Down ==
    \E c \in Contacts, p \in Points, pointer \in {"touch", "pen"} :
        /\ ~tracks[c].on
        /\ Rule(ConfirmPinch([tracks EXCEPT ![c] =
                    [on |-> TRUE, pointer |-> pointer, origin |-> p, last |-> p, edge |-> EdgeOf(p), claimed |-> App]]),
                c, FALSE)

\* A claimed track is never measured again, so only unclaimed ones need to move.
MovedOrEnded ==
    \E c \in Live(tracks), p \in Points, ends \in BOOLEAN :
        Rule(ConfirmPinch([tracks EXCEPT ![c].last = p]), c, ends)

GestureNext == Down \/ MovedOrEnded

GestureSpec == GestureInit /\ [][GestureNext]_gvars

-----------------------------------------------------------------------------
\* "Irrevocably": once an event of a contact went to the system, every later
\* one does, to the same gesture, until the contact ends; an app that was told
\* to cancel it never hears of it again (gesture.rs, WWW-80).
ClaimIsFinal ==
    [][\A c \in Contacts : ruled[c] # App /\ tracks'[c].on => ruled'[c] = ruled[c]]_gvars

\* The escape pinch takes a handful of fingers at once and never the pen: a
\* resting hand beside a stroke does not end it (gesture.rs, ADR-0034).
EscapeIsAHandful ==
    [][LET taken == {c \in Live(tracks') : tracks'[c].claimed = "escape" /\ ~(tracks[c].on /\ tracks[c].claimed = "escape")}
       IN  /\ \A c \in taken : tracks'[c].pointer = "touch"
           /\ taken # {} => Cardinality(taken) >= MIN_PINCH_FINGERS - 1]_gvars

=============================================================================
