--------------------------- MODULE SessionContract ---------------------------
(***************************************************************************)
(* What a session promises the rest of the host, without sockets, queues   *)
(* or processes: where the conversation may go next, one frame at a time,  *)
(* a frame number is never asked for twice, an exit reason never changes,  *)
(* and Closed is the end (the documentation of State, Session::draw and    *)
(* Session::prepare_to_exit in platform/protocol/src/session.rs).          *)
(***************************************************************************)
EXTENDS Naturals

VARIABLES
    phase,  \* State
    asked,  \* the frame outstanding, or None
    issued, \* how many frames have been asked for
    reason  \* the exit reason, or None

CONSTANTS Reasons, None

svars == <<phase, asked, issued, reason>>

Greeted == phase = "Greeting" /\ asked = None /\ issued = 0 /\ reason = None

Accept == phase = "Greeting" /\ phase' = "Running" /\ UNCHANGED <<asked, issued, reason>>

Ask ==
    /\ phase = "Running" /\ asked = None
    /\ asked' = issued /\ issued' = issued + 1
    /\ UNCHANGED <<phase, reason>>

Answer == phase = "Running" /\ asked # None /\ asked' = None /\ UNCHANGED <<phase, issued, reason>>

Rest ==
    \/ phase = "Running" /\ phase' = "Suspended" /\ asked' = None /\ UNCHANGED <<issued, reason>>
    \/ phase = "Suspended" /\ phase' = "Running" /\ UNCHANGED <<asked, issued, reason>>

Leave ==
    /\ phase \in {"Running", "Suspended"} /\ phase' = "Exiting"
    /\ asked' = None /\ reason' \in Reasons /\ UNCHANGED issued

End == phase # "Closed" /\ phase' = "Closed" /\ UNCHANGED <<asked, issued, reason>>

Contract == Greeted /\ [][Accept \/ Ask \/ Answer \/ Rest \/ Leave \/ End]_svars
=============================================================================
