---------------------------- MODULE MCSupervisor ----------------------------
EXTENDS Supervisor

CONSTANTS home, app

MCApps == {home, app}

\* What is on the panel when a session is up is one of the apps.
ASSUME HomeAssumption == home \in Apps

\* What a supervisor that started at stock comes to: home holds the panel.
SessionUp ==
    /\ state = "foreground" /\ foreground = home
    /\ pending = None /\ recovery = None
    /\ failures = 0 /\ spent = FALSE
    /\ host = "running" /\ phase = "collect"
    /\ queued = <<>> /\ events = <<>> /\ todo = <<>>
    /\ unit = home /\ incoming = home
    /\ stock = "down" /\ target = TRUE /\ comp = TRUE /\ shown = TRUE
    /\ apps = [a \in Apps |-> IF a = home THEN "on" ELSE "off"]
    /\ command = None /\ stop = FALSE
    /\ rescue = "idle" /\ onfail = FALSE /\ rescues = 0 /\ recent = 0
    /\ commands = 0 /\ faults = 0

\* A supervisor that starts, or one whose session is up.
AnySpec == (Init \/ SessionUp) /\ [][Next]_vars
EitherSpec == AnySpec /\ Fairness

\* A session that is up, and an app it may be switched to.
SessionSpec == SessionUp /\ [][Next]_vars
=============================================================================
