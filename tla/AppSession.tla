----------------------------- MODULE AppSession -----------------------------
(***************************************************************************)
(* One app connection: the host's Session (platform/protocol), the frame   *)
(* loop of an app built with the SDK (platform/sdk runtime, tasks,         *)
(* storage), the two sockets between them and the save file that outlives  *)
(* the process.  An app that does not link the SDK may say anything.  A    *)
(* message to the host carries, for the properties only, how many suspend, *)
(* exit and goodbye notices its sender had read.                           *)
(***************************************************************************)
EXTENDS Naturals, Sequences, FiniteSets

CONSTANTS
    Reasons,     \* ExitReason
    None,        \* Option::None
    MaxDraws,    \* frames the host asks for at most
    MaxInputs,   \* pointers and system events the host forwards at most
    MaxRests,    \* suspensions at most
    MaxEffects,  \* things one event handler does at most
    MaxQueries,  \* system queries a process sends at most
    MaxTasks,    \* worker threads the app starts at most
    MaxSends     \* messages an app without the SDK sends

VARIABLES
    host,    \* the Session, what it was told, and the notices it has sent
    toApp,   \* the socket to the app (with the queue its pump thread fills)
    toHost,  \* the socket to the host
    app,     \* the app's process
    disk,    \* private storage: the save and its ".partial"
    used     \* what the bounds count

vars == <<host, toApp, toHost, app, disk, used>>

State == {"Greeting", "Running", "Suspended", "Exiting", "Closed"}

\* AppMessage and HostMessage.  A frame claims its damage, a diagnostic its
\* length, against MAX_DAMAGE_RECTS and MAX_DIAGNOSTIC_BYTES.
Ready(v) == [is |-> "ready", protocol |-> v]
Frame(f, many) == [is |-> "frame", frame |-> f, many |-> many]
Request == [is |-> "request"]
SystemQuery(i) == [is |-> "query", id |-> i]
Saved(r, ok) == [is |-> "saved", reason |-> r, ok |-> ok]
Diagnostic(long) == [is |-> "diagnostic", long |-> long]
AppMessage(frames) ==
    {Ready(v) : v \in {"same", "newer"}} \union {Frame(f, many) : f \in frames, many \in BOOLEAN}
      \union {Request, SystemQuery(0)} \union {Saved(r, TRUE) : r \in Reasons}
      \union {Diagnostic(long) : long \in BOOLEAN}

Greeting == [is |-> "hello"]
Draw(f) == [is |-> "draw", frame |-> f]
Suspended == [is |-> "suspended"]
Resumed == [is |-> "resumed"]
PrepareToExit(r) == [is |-> "exit", reason |-> r]
Input == [is |-> "input"]
Answer(i) == [is |-> "answer", id |-> i]
Goodbye == [is |-> "goodbye"]

\* can_run: the same major, and a minor no newer than the host's.
CanRun(v) == v = "same"

-----------------------------------------------------------------------------
\* Session, the host's side.

NewSession == [state |-> "Greeting", next |-> 0, outstanding |-> None, exiting |-> None,
               violation |-> None, crossing |-> FALSE, notices |-> 0, accepted |-> {},
               abandoned |-> {}, saved |-> None]

FrameViolation(s, m) ==
    IF s.outstanding = None THEN "NoFrameOutstanding"
    ELSE IF s.outstanding # m.frame THEN "UnknownFrame"
    ELSE IF m.many THEN "TooMuchDamage" ELSE None

\* check_app_message, in its order: what is wrong with m, or None.
Violation(s, m) ==
    IF s.state = "Closed" THEN "AfterClose"
    ELSE IF m.is = "diagnostic" THEN (IF m.long THEN "DiagnosticTooLong" ELSE None)
    ELSE IF s.state = "Greeting"
         THEN IF m.is # "ready" THEN "BeforeReady"
              ELSE IF CanRun(m.protocol) THEN None ELSE "UnsupportedProtocol"
    ELSE IF s.state = "Exiting"
         THEN IF m.is # "saved" THEN "AfterExit"
              ELSE IF m.reason = s.exiting THEN None ELSE "SavedWrongReason"
    ELSE CASE m.is = "ready" -> "AlreadyReady"
           [] m.is = "frame" -> FrameViolation(s, m)
           [] m.is = "saved" -> "SavedWithoutExit"
           [] OTHER -> None

\* What a legal message changes.
Fold(s, m) ==
    CASE m.is = "ready" -> [s EXCEPT !.state = "Running"]
      [] m.is = "frame" -> [s EXCEPT !.outstanding = None, !.accepted = @ \union {m.frame}]
      [] m.is = "saved" -> [s EXCEPT !.state = "Closed", !.saved = m.ok]
      [] OTHER -> s

OnAppMessage(s, m, seen) ==
    IF Violation(s, m) = None THEN Fold(s, m)
    ELSE [s EXCEPT !.state = "Closed", !.violation = IF @ = None THEN Violation(s, m) ELSE @,
                   !.crossing = IF s.violation = None THEN seen < s.notices ELSE @]

HostReads ==
    /\ toHost # <<>>
    /\ LET m == Head(toHost)
       IN  /\ host' = OnAppMessage(host, m.msg, m.seen)
           /\ toApp' = IF m.msg.is = "query" /\ host'.state # "Closed"
                       THEN Append(toApp, Answer(m.msg.id)) ELSE toApp
    /\ toHost' = Tail(toHost)
    /\ UNCHANGED <<app, disk, used>>

\* The socket ends when the process does.
HostSeesEof ==
    /\ toHost = <<>> /\ app.pc \in {"ended", "dead"} /\ host.state # "Closed"
    /\ host' = [host EXCEPT !.state = "Closed"]
    /\ UNCHANGED <<toApp, toHost, app, disk, used>>

HostDrawsTwice ==
    /\ host.state = "Running" /\ used.draws < MaxDraws
    /\ host' = [host EXCEPT !.next = @ + 1, !.outstanding = host.next]
    /\ toApp' = Append(toApp, Draw(host.next))
    /\ used' = [used EXCEPT !.draws = @ + 1]
    /\ UNCHANGED <<toHost, app, disk>>
HostDraws ==
    /\ host.state = "Running" /\ host.outstanding = None /\ used.draws < MaxDraws
    /\ host' = [host EXCEPT !.next = @ + 1, !.outstanding = host.next]
    /\ toApp' = Append(toApp, Draw(host.next))
    /\ used' = [used EXCEPT !.draws = @ + 1]
    /\ UNCHANGED <<toHost, app, disk>>

Forget(s) == [s EXCEPT !.abandoned = @ \union ({s.outstanding} \ {None}), !.outstanding = None]

HostSuspendsKeepingFrame ==
    /\ host.state = "Running" /\ used.rests < MaxRests
    /\ host' = [Forget(host) EXCEPT !.state = "Suspended", !.notices = @ + 1,
                                    !.outstanding = host.outstanding]
    /\ toApp' = Append(toApp, Suspended)
    /\ used' = [used EXCEPT !.rests = @ + 1]
    /\ UNCHANGED <<toHost, app, disk>>
HostSuspends ==
    /\ host.state = "Running" /\ used.rests < MaxRests
    /\ host' = [Forget(host) EXCEPT !.state = "Suspended", !.notices = @ + 1]
    /\ toApp' = Append(toApp, Suspended)
    /\ used' = [used EXCEPT !.rests = @ + 1]
    /\ UNCHANGED <<toHost, app, disk>>

HostResumes ==
    /\ host.state = "Suspended"
    /\ host' = [host EXCEPT !.state = "Running"]
    /\ toApp' = Append(toApp, Resumed)
    /\ UNCHANGED <<toHost, app, disk, used>>

HostPreparesToExit(r) ==
    /\ host.state \in {"Running", "Suspended"}
    /\ host' = [Forget(host) EXCEPT !.state = "Exiting", !.exiting = r, !.notices = @ + 1]
    /\ toApp' = Append(toApp, PrepareToExit(r))
    /\ UNCHANGED <<toHost, app, disk, used>>

HostCloses ==
    /\ host.state # "Closed"
    /\ host' = [host EXCEPT !.state = "Closed", !.notices = @ + 1]
    /\ toApp' = Append(toApp, Goodbye)
    /\ UNCHANGED <<toHost, app, disk, used>>

\* A pointer or a system event; a second hello is one the app must ignore.
HostForwards ==
    /\ host.state \in {"Running", "Suspended"} /\ used.inputs < MaxInputs
    /\ \E m \in {Input, Greeting} : toApp' = Append(toApp, m)
    /\ used' = [used EXCEPT !.inputs = @ + 1]
    /\ UNCHANGED <<host, toHost, app, disk>>

-----------------------------------------------------------------------------
\* The app's process.  memory is what the app would save, loaded what it found.

NewProcess(sdk, granted) ==
    [pc |-> "boot", sdk |-> sdk, granted |-> granted, memory |-> 0, loaded |-> None,
     drawing |-> None, published |-> {}, exit |-> None, query |-> 0, tasks |-> 0, seen |-> 0]

Torn == 2           \* a file some of whose bytes are missing

Stamp(m) == [msg |-> m, seen |-> app'.seen]
Say(ms) == toHost' = toHost \o [i \in 1..Len(ms) |-> Stamp(ms[i])]
Silent == toHost' = toHost

\* read_private: what an earlier process saved, if storage was granted.
ReadPrivate == IF app.granted THEN disk.save ELSE None

\* run: the hello must come first; the surface opens before Ready is sent.
Start(p) ==
    /\ app.pc = "boot" /\ app.sdk /\ toApp # <<>> /\ p \in {"same", "newer"}
    /\ toApp' = Tail(toApp)
    /\ IF Head(toApp) = Greeting /\ CanRun(p)
       THEN /\ app' = [app EXCEPT !.pc = "loop", !.loaded = ReadPrivate]
            /\ Say(<<Ready("same")>>)
       ELSE app' = [app EXCEPT !.pc = "ended"] /\ Silent
    /\ UNCHANGED <<host, disk, used>>

\* What a Context lets a handler do: change what it would save, ask the system,
\* and start a worker; what it wants is the Action it returns.
Effects(a) ==
    {e \in SUBSET {"change", "ask", "want", "spawn"} :
        /\ Cardinality(e) <= MaxEffects
        /\ "spawn" \in e => used.tasks < MaxTasks
        /\ "ask" \in e => a.query < MaxQueries}

\* Action::request: Action::None sends nothing.
ActionRequest(e) == IF "want" \in e THEN <<Request>> ELSE <<>>

\* A callback of the app, and flush: it may change what it would save, ask, and
\* start a worker; an event handler's Action is a request too.  What it logs is
\* legal in every state and only reported here when a save fails.
Calls(a, callback) ==
    \E does \in {e \in Effects(a) : callback = "draw" => "want" \notin e} :
        /\ app' = [a EXCEPT !.memory = IF "change" \in does THEN 1 - @ ELSE @,
                            !.query = IF "ask" \in does THEN @ + 1 ELSE @,
                            !.tasks = IF "spawn" \in does THEN @ + 1 ELSE @]
        /\ used' = [used EXCEPT !.tasks = IF "spawn" \in does THEN @ + 1 ELSE @]
        /\ Say((IF "ask" \in does THEN <<SystemQuery(a.query)>> ELSE <<>>)
                 \o ActionRequest(does))

LoopReads(m) == app.pc = "loop" /\ app.sdk /\ toApp # <<>> /\ Head(toApp) = m /\ toApp' = Tail(toApp)

\* Event: what the app's handler is given; the exit has its own action.
Event == {Input, Resumed, Suspended} \union {Answer(i) : i \in 0..app.query}

HandleEvent ==
    /\ \E m \in Event : LoopReads(m)
    /\ Calls(IF Head(toApp) = Suspended THEN [app EXCEPT !.seen = @ + 1] ELSE app, "event")
    /\ UNCHANGED <<host, disk>>

IgnoreHello ==
    /\ LoopReads(Greeting)
    /\ UNCHANGED <<host, toHost, app, disk, used>>

\* A worker's completion joins the same queue, at any point of it.
HandleCompleted ==
    /\ app.pc = "loop" /\ app.sdk /\ app.tasks > 0
    /\ Calls([app EXCEPT !.tasks = @ - 1], "event")
    /\ UNCHANGED <<host, toApp, disk>>

\* draw: the surface is published and what the callback asked is sent; then the
\* frame is reported.
HandleDraw ==
    /\ \E f \in 0..MaxDraws : LoopReads(Draw(f))
    /\ Calls([app EXCEPT !.pc = "drawing", !.drawing = Head(toApp).frame,
                         !.published = @ \union {Head(toApp).frame}], "draw")
    /\ UNCHANGED <<host, disk>>

ReportFrame ==
    /\ app.pc = "drawing"
    /\ app' = [app EXCEPT !.pc = "loop", !.drawing = None]
    /\ Say(<<Frame(app.drawing, FALSE)>>)
    /\ UNCHANGED <<host, toApp, disk, used>>

\* exit: the event, then save, then Saved; the process ends there.  Without
\* the storage capability every save is refused.
HandleExit ==
    /\ \E r \in Reasons : LoopReads(PrepareToExit(r))
    /\ app' = [app EXCEPT !.pc = IF app.granted THEN "writing" ELSE "unsaved",
                          !.exit = Head(toApp).reason, !.seen = @ + 1]
    /\ disk' = IF app.granted THEN [disk EXCEPT !.partial = Torn] ELSE disk
    /\ Silent
    /\ UNCHANGED <<host, used>>

\* write_private: the temporary file in full, then the rename, or an error.
WritePartial ==
    /\ app.pc = "writing"
    /\ \/ disk' = [disk EXCEPT !.partial = app.memory] /\ app' = [app EXCEPT !.pc = "renaming"]
       \/ disk' = disk /\ app' = [app EXCEPT !.pc = "unsaved"]
    /\ UNCHANGED <<host, toApp, toHost, used>>

RenamePartial ==
    /\ app.pc = "renaming"
    /\ \/ disk' = [save |-> app.memory, partial |-> None] /\ app' = [app EXCEPT !.pc = "saved"]
       \/ disk' = disk /\ app' = [app EXCEPT !.pc = "unsaved"]
    /\ UNCHANGED <<host, toApp, toHost, used>>

ReportOnlySuccess ==
    /\ app.pc \in {"saved", "unsaved"}
    /\ app' = [app EXCEPT !.pc = IF app.pc = "saved" THEN "ended" ELSE "stuck"]
    /\ IF app.pc = "saved" THEN Say(<<Saved(app.exit, TRUE)>>) ELSE Silent
    /\ UNCHANGED <<host, toApp, disk, used>>
ReportSaved ==
    /\ app.pc \in {"saved", "unsaved"}
    /\ app' = [app EXCEPT !.pc = "ended"]
    /\ Say((IF app.pc = "saved" THEN <<>> ELSE <<Diagnostic(FALSE)>>)
             \o <<Saved(app.exit, app.pc = "saved")>>)
    /\ UNCHANGED <<host, toApp, disk, used>>

HandleGoodbye ==
    /\ LoopReads(Goodbye)
    /\ app' = [app EXCEPT !.pc = "ended"]
    /\ UNCHANGED <<host, toHost, disk, used>>

SendAnything ==
    /\ ~app.sdk /\ app.pc = "boot" /\ toHost = <<>> /\ used.sends < MaxSends
    /\ app' = app
    /\ \E m \in AppMessage(0..MaxDraws - 1) : Say(<<m>>)
    /\ used' = [used EXCEPT !.sends = @ + 1]
    /\ UNCHANGED <<host, toApp, disk>>

\* The process dies: its own fault, or the supervisor's deadline.
Die ==
    /\ app.pc \notin {"ended", "dead"}
    /\ app' = [app EXCEPT !.pc = "dead"]
    /\ UNCHANGED <<host, toApp, toHost, disk, used>>

-----------------------------------------------------------------------------
\* The first process of an app, or one after an earlier process died saving.
Init ==
    /\ host = NewSession
    /\ toApp = <<Greeting>> /\ toHost = <<>>
    /\ \/ app = NewProcess(TRUE, TRUE)
          /\ disk \in {[save |-> None, partial |-> None], [save |-> 0, partial |-> Torn]}
       \/ app \in {NewProcess(TRUE, FALSE), NewProcess(FALSE, FALSE)}
          /\ disk = [save |-> None, partial |-> None]
    /\ used = [draws |-> 0, inputs |-> 0, rests |-> 0, tasks |-> 0, sends |-> 0]

Host ==
    \/ HostReads \/ HostSeesEof \/ HostDraws \/ HostSuspends \/ HostResumes
    \/ (\E r \in Reasons : HostPreparesToExit(r)) \/ HostCloses \/ HostForwards

Loop ==
    \/ (\E p \in {"same", "newer"} : Start(p)) \/ HandleEvent \/ IgnoreHello \/ HandleCompleted
    \/ HandleDraw \/ ReportFrame \/ HandleExit \/ WritePartial \/ RenamePartial \/ ReportSaved
    \/ HandleGoodbye

Next == Host \/ Loop \/ SendAnything \/ Die

Spec == Init /\ [][Next]_vars

\* The app's loop runs and the host reads its socket.
FairSpec == Spec /\ WF_vars(Loop) /\ WF_vars(HostReads) /\ WF_vars(HostSeesEof)

-----------------------------------------------------------------------------
\* Every piece of state has its type.
TypeOK ==
    /\ host.state \in State /\ host.outstanding \in Nat \union {None}
    /\ host.exiting \in Reasons \union {None}
    /\ (host.state = "Exiting") => host.exiting # None
    /\ app.pc \in {"boot", "loop", "drawing", "writing", "renaming", "saved", "unsaved", "ended", "dead"}

\* An app built with the SDK is refused only for a message that crossed a
\* suspend, exit or goodbye notice on the wire, never for what it did knowing of it.
HonestOnlyCrossed == app.sdk /\ host.violation # None => host.crossing

\* The host takes a frame as drawn only after the app published it.
FrameIsPublished == app.sdk => host.accepted \subseteq app.published

\* A frame given up at a suspend or an exit is never accepted afterwards, and
\* only frames that were asked for are, whatever the app says.
AbandonedStaysAbandoned ==
    host.accepted \intersect host.abandoned = {} /\ \A f \in host.accepted : f < host.next

\* What the next launch can load is a whole save, wherever the process died
\* (Storage::write_private).
SaveIsWhole == disk.save # Torn

\* "Saved ok" means that the save on disk is what the app had.
SavedIsTrue == app.sdk /\ host.saved = TRUE => disk.save = app.memory

\* An app built with the SDK answers its exit: the session ends without the
\* supervisor's deadline.
ExitEnds == (app.sdk /\ host.state = "Exiting") ~> (host.state = "Closed")

\* The connection implements the contract of a session.
Abstract == INSTANCE SessionContract WITH
    phase <- host.state, asked <- host.outstanding, issued <- host.next, reason <- host.exiting
ImplementsContract == Abstract!Contract
=============================================================================
