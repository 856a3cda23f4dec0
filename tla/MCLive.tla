------------------------------- MODULE MCLive -------------------------------
(***************************************************************************)
(* What must eventually happen: an app's exit, stock's return, the boot    *)
(* counter's end and an edit's arrival.  `which` names the program that    *)
(* runs; the others rest.                                                  *)
(***************************************************************************)
EXTENDS Integers, Sequences

CONSTANTS
    Reasons, None, MaxDraws, MaxInputs, MaxRests, MaxEffects, MaxQueries, MaxTasks, MaxSends,
    MaxSessions, MaxFaults, MaxKills,
    MAX_BOOT_ATTEMPTS, StartLimitBurst, Releases,
    Apps, MaxEdits, MaxTaps

VARIABLES
    which,
    host, toApp, toHost, app, disk, used,
    unit, registry, awake, ledger, cmd, child, dog, taken,
    durable, rootRw, launcher, sess, oper, record,
    source, notice, changed, loop, window, asked, taps

S == INSTANCE AppSession
T == INSTANCE Takeover
B == INSTANCE Boot
D == INSTANCE DevLoop

session  == <<host, toApp, toHost, app, disk, used>>
takeover == <<unit, registry, awake, ledger, cmd, child, dog, taken>>
boot     == <<durable, rootRw, launcher, sess, oper, record>>
dev      == <<source, notice, changed, loop, window, asked, taps>>
vars == <<which, session, takeover, boot, dev>>

-----------------------------------------------------------------------------
\* A component that does not run starts in one chosen initial state.
Init ==
    /\ which \in {"session", "takeover", "boot", "dev"}
    /\ S!Init /\ (which = "session" \/ (app.sdk /\ app.granted /\ disk.save = None))
    /\ T!TakeoverInit /\ (which = "takeover" \/ unit.restarts = 0)
    /\ B!BootInit
    /\ D!DevInit /\ (which = "dev" \/ loop.app = CHOOSE a \in Apps : TRUE)

SessionStep(A) == which = "session" /\ A /\ UNCHANGED <<which, takeover, boot, dev>>
TakeoverStep(A) == which = "takeover" /\ A /\ UNCHANGED <<which, session, boot, dev>>
BootStep(A) == which = "boot" /\ A /\ UNCHANGED <<which, session, takeover, dev>>
DevStep(A) == which = "dev" /\ A /\ UNCHANGED <<which, session, takeover, boot>>

Next ==
    \/ SessionStep(S!Next) \/ TakeoverStep(T!TakeoverNext)
    \/ BootStep(B!BootNext) \/ DevStep(D!DevNext)

\* A process that can run does, a timer that is armed fires, a socket that has
\* bytes is read.  Boot needs none: its property bounds what is started.
Fairness ==
    /\ WF_vars(SessionStep(S!Loop))
    /\ WF_vars(SessionStep(S!HostReads)) /\ WF_vars(SessionStep(S!HostSeesEof))
    /\ WF_vars(TakeoverStep(T!CommandStep)) /\ WF_vars(TakeoverStep(T!ChildStep))
    /\ WF_vars(TakeoverStep(T!StockClaims))
    /\ WF_vars(TakeoverStep(T!WatchdogFires)) /\ WF_vars(TakeoverStep(T!StrayFires))
    /\ WF_vars(DevStep(D!Main)) /\ WF_vars(DevStep(D!UserEvent)) /\ WF_vars(DevStep(D!WindowEnds))

Spec == Init /\ [][Next]_vars /\ Fairness

-----------------------------------------------------------------------------
\* An SDK app that is told to exit ends its session without the supervisor's
\* deadline: it saves and says so, fails and says so, or dies (runtime.rs).
ExitEnds == S!ExitEnds

\* Wherever the command that took the display is killed, stock comes back, by
\* its release or by the watchdog it left (takeover.rs, hold.rs), unless a
\* restore gave up, the guardian's one start failed or stock was stopped
\* beneath the command.
StockReturns == T!StockReturns

\* A device that is started over and over reaches Home or is reset over and
\* over: no release is launched for ever (counter.rs).
LaunchesEndOrArrive == B!LaunchesEndOrArrive

\* A saved edit reaches the open window without anything closed by hand, and
\* what the app drew last is on that window or about to be (dev.rs, desktop.rs).
EditReachesTheWindow == D!EditReachesTheWindow /\ []D!WindowIsCurrent
=============================================================================
