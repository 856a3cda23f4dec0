----------------------------- MODULE Compositor -----------------------------
(***************************************************************************)
(* The compositor (platform/compositor): one process owns the panel,       *)
(* clients connect over a socket, share a pool of two buffers and speak    *)
(* attach, commit and release.  The server's state is the record srv; each *)
(* client process has its own view of its two slots.  Sockets are queues   *)
(* up (client to server) and down (release notices).  A client process is  *)
(* its own client id: a restarted app is another process.                  *)
(***************************************************************************)
EXTENDS Naturals, Sequences, FiniteSets

CONSTANTS
    Procs,          \* client processes
    Honest,         \* those linked against CompositorSurface
    Homes,          \* those that register as ClientRole::Home
    MaxFrames,      \* frames an honest client publishes at most
    MaxSends,       \* requests any other client sends at most
    MaxPanelFaults, \* presentations that fail at most
    MaxSleeps,      \* times the panel is locked at most
    Capacity        \* release notices a socket buffer holds

VARIABLES
    srv,      \* the Compositor struct, its panel and its status file
    up,       \* frames sent and not yet read by the server
    down,     \* release notices not yet read by the client
    proc,     \* the client process: what it is doing
    next,     \* the slot it publishes next
    inFlight, \* the slots it believes are with the compositor
    mem,      \* the shared pool: which frame each slot holds
    sent      \* frames or requests sent so far

vars == <<srv, up, down, proc, next, inFlight, mem, sent>>
clientVars == <<proc, next, inFlight, mem, sent>>

Slots == {"A", "B"}
Other(s) == IF s = "A" THEN "B" ELSE "A"
SlotState == {"free", "attached", "presenting"}
None == "none"
Torn == 0            \* a slot some of whose pixels are of the next frame

\* What the panel is showing: a surface, a synthesised frame, or nothing.
ClientFg(p) == [is |-> "client", of |-> p]
StoppedFg(p) == [is |-> "stopped", of |-> p]
NoFg == [is |-> "none", of |-> None]
Blank == [is |-> "blank", of |-> None, frame |-> None]
LockFrame == [is |-> "locked", of |-> None, frame |-> None]
StoppedFrame(p) == [is |-> "stopped", of |-> p, frame |-> None]
ClientFrame(p, n) == [is |-> "frame", of |-> p, frame |-> n]

\* What a client may say: its hello, then requests.  A frame that does not
\* decode, or is over MAX_MESSAGE_BYTES, is "garbage".
Hello(pool) == [is |-> "hello", pool |-> pool]
ClientRequest == {[is |-> "attach", slot |-> s] : s \in Slots}
                   \union {[is |-> "commit", damage |-> d] : d \in {"ok", "outside"}}
                   \union {[is |-> "garbage"]}
Eof == [is |-> "eof"]

\* A hello's pool: the size it claims, the size of its file and whether its
\* extent is the panel's.  MaxPool stands for MAX_POOL_BYTES.
MaxPool == 2
GoodPool == [claim |-> 2, file |-> 2, fits |-> TRUE]
OddPool == [claim |-> 1, file |-> 1, fits |-> FALSE]
Pools == {GoodPool, OddPool,
          [claim |-> 2, file |-> 1, fits |-> TRUE],
          [claim |-> 3, file |-> 3, fits |-> TRUE],
          [claim |-> 0, file |-> 0, fits |-> FALSE]}

\* Pool::from_file: not empty, within the limit, and the file really that long.
PoolMaps(pool) == pool.claim # 0 /\ pool.claim <= MaxPool /\ pool.file = pool.claim

-----------------------------------------------------------------------------
\* Surface: the attach, commit, release cycle of one client's two slots.

NewSurface == [slots |-> [s \in Slots |-> "free"], pending |-> None, current |-> None]

CanAttach(surface, s) == surface.slots[s] = "free"

Attach(surface, s) ==
    [surface EXCEPT !.slots = [t \in Slots |->
                                 CASE t = s -> "attached"
                                   [] t # s /\ t = surface.pending -> "free"
                                   [] OTHER -> @[t]],
                    !.pending = s]

\* commit: something attached, and every damage rectangle inside the extent.
CanCommit(surface, damage) == surface.pending # None /\ damage = "ok"

Commit(surface) ==
    [surface EXCEPT !.slots[surface.pending] = "presenting",
                    !.current = surface.pending, !.pending = None]

Release(surface, s) ==
    IF surface.slots[s] = "presenting" THEN [surface EXCEPT !.slots[s] = "free"] ELSE surface

-----------------------------------------------------------------------------
\* The server.  An operator on a record [srv, down] gives the records it may
\* leave behind; more than one only because the panel may refuse a frame.

ForegroundClient(v) == IF v.foreground.is = "client" THEN v.foreground.of ELSE None

\* notify_release: best effort, a full socket buffer loses the notice.
NotifyRelease(st, p, s) ==
    IF Len(st.down[p]) < Capacity THEN [st EXCEPT !.down[p] = Append(@, s)] ELSE st

GiveBack(st, p, s) ==
    NotifyRelease([st EXCEPT !.srv.repeated =
                        IF st.srv.surface[p].slots[s] = "presenting" THEN @ ELSE @ \union {p},
                             !.srv.surface[p] = Release(@, s)], p, s)

PanelFails(st) ==
    IF st.srv.faults < MaxPanelFaults THEN {[st EXCEPT !.srv.faults = @ + 1]} ELSE {}

Show(st, glass) == {[st EXCEPT !.srv.glass = glass]} \union PanelFails(st)

\* present_foreground: the foreground client's current slot, whatever its state.
PresentUnlocked(st) ==
    LET p == ForegroundClient(st.srv)
        s == st.srv.surface[p].current
    IN  IF p = None THEN {st}
        ELSE IF s = None THEN {st}
        ELSE IF ~st.srv.fits[p] THEN {st}
        ELSE {GiveBack([st EXCEPT !.srv.glass = ClientFrame(p, mem[p][s])], p, s)}
               \union PanelFails(st)

PresentForeground(st) ==
    LET p == ForegroundClient(st.srv)
    IN  IF p = None THEN {st}
        ELSE IF st.srv.locked
             THEN {IF st.srv.surface[p].current = None THEN st
                   ELSE GiveBack(st, p, st.srv.surface[p].current)}
             ELSE PresentUnlocked(st)

\* The stopped frame replaces a dead foreground client, and Home replaces it.
FallBack(st) ==
    IF st.srv.home = None THEN {st}
    ELSE PresentForeground([st EXCEPT !.srv.foreground = ClientFg(st.srv.home)])

StopForeground(st, p) ==
    UNION {FallBack([t EXCEPT !.srv.foreground = StoppedFg(p)]) :
             t \in IF st.srv.locked THEN {st} ELSE Show(st, StoppedFrame(p))}

Disconnect(st, p) ==
    LET gone == [st EXCEPT !.srv = [st.srv EXCEPT !.clients = @ \ {p},
                                                  !.surface[p] = NewSurface,
                                                  !.home = IF @ = p THEN None ELSE @]]
    IN  IF st.srv.foreground = ClientFg(p) THEN StopForeground(gone, p) ELSE {gone}

HandleRequest(st, p, m) ==
    LET surface == st.srv.surface[p]
        Serve(new) == [st EXCEPT !.srv.surface[p] = new]
    IN  CASE m.is = "attach" /\ CanAttach(surface, m.slot) -> {Serve(Attach(surface, m.slot))}
          [] m.is = "commit" /\ CanCommit(surface, m.damage) ->
                IF ForegroundClient(st.srv) = p THEN PresentForeground(Serve(Commit(surface)))
                ELSE {Serve(Commit(surface))}
          [] OTHER -> Disconnect([st EXCEPT !.srv.refused = @ \union {p}], p)

FinishHandshake(st, p, pool) ==
    [st EXCEPT !.srv = [st.srv EXCEPT !.clients = @ \union {p},
                                      !.surface[p] = NewSurface,
                                      !.fits[p] = pool.fits,
                                      !.home = IF p \in Homes THEN p ELSE @,
                                      !.foreground = IF @ = NoFg \/ p \notin Homes THEN ClientFg(p) ELSE @]]

-----------------------------------------------------------------------------
\* Steps of the server: one turn of run_once serves one ready descriptor, and
\* the binary's loop writes the status file after every turn with events.

WriteStatus(v) == [v EXCEPT !.status = v.foreground]

Turn(outcomes) ==
    \E st \in outcomes : srv' = WriteStatus(st.srv) /\ down' = st.down

Now == [srv |-> srv, down |-> down]

\* What a closed connection still held unread is gone with it.
Consume(p) == up' = [up EXCEPT ![p] = IF p \in srv'.clients THEN Tail(@) ELSE <<>>]

AcceptAll ==
    /\ srv.running /\ srv.backlog # {}
    /\ srv' = [srv EXCEPT !.pending = @ \union srv.backlog, !.backlog = {}]
    /\ UNCHANGED <<up, down, clientVars>>

\* service_pending and finish_handshake: a hello with a usable pool registers,
\* anything else closes the connection.
ServicePending(p) ==
    /\ srv.running /\ p \in srv.pending /\ up[p] # <<>>
    /\ LET m == Head(up[p])
           st == [Now EXCEPT !.srv.pending = @ \ {p}]
       IN  Turn({IF m.is = "hello" /\ PoolMaps(m.pool) THEN FinishHandshake(st, p, m.pool) ELSE st})
    /\ Consume(p)
    /\ UNCHANGED clientVars

\* service_client reads what has arrived, any number of frames; they are
\* drained one by one here.
ServiceClient(p) ==
    /\ srv.running /\ p \in srv.clients /\ up[p] # <<>>
    /\ Turn(IF Head(up[p]) = Eof THEN Disconnect(Now, p) ELSE HandleRequest(Now, p, Head(up[p])))
    /\ Consume(p)
    /\ UNCHANGED clientVars

\* reap_expired_pending: HELLO_DEADLINE has passed for a silent connection.
ReapExpiredPending ==
    /\ srv.running /\ srv.expired \intersect srv.pending # {}
    /\ srv' = WriteStatus([srv EXCEPT !.pending = @ \ srv.expired, !.expired = {}])
    /\ UNCHANGED <<up, down, clientVars>>

HelloDeadline(p) ==
    /\ srv.running /\ p \in srv.pending \ srv.expired
    /\ srv' = [srv EXCEPT !.expired = @ \union {p}]
    /\ UNCHANGED <<up, down, clientVars>>

Sleep ==
    /\ srv.running /\ ~srv.locked /\ srv.sleeps < MaxSleeps
    /\ \E st \in Show([Now EXCEPT !.srv.sleeps = @ + 1], LockFrame) :
          srv' = [st.srv EXCEPT !.locked = st.srv.glass = LockFrame]
    /\ UNCHANGED <<up, down, clientVars>>

Wake ==
    /\ srv.running /\ srv.locked
    /\ LET st == [Now EXCEPT !.srv.locked = FALSE]
       IN  \E t \in CASE srv.foreground.is = "client" -> PresentForeground(st)
                      [] srv.foreground.is = "stopped" -> Show(st, StoppedFrame(srv.foreground.of))
                      [] OTHER -> {st} :
              srv' = t.srv /\ down' = t.down
    /\ UNCHANGED <<up, clientVars>>

\* SIGTERM: clear the panel, drop the compositor and every connection.
Stop ==
    /\ srv.running
    /\ srv' = [srv EXCEPT !.running = FALSE, !.glass = Blank, !.clients = {}, !.pending = {},
                          !.backlog = {}, !.expired = {},
                          !.surface = [p \in Procs |-> NewSurface]]
    /\ up' = [p \in Procs |-> <<>>]
    /\ UNCHANGED <<down, clientVars>>

-----------------------------------------------------------------------------
\* The client processes.

Connected(p) == p \in srv.backlog \union srv.pending \union srv.clients

\* connect: the hello travels with the pool's descriptor.
Connect(p) ==
    /\ srv.running /\ proc[p] = "new"
    /\ \E pool \in IF p \in Honest THEN {GoodPool} ELSE Pools :
          up' = [up EXCEPT ![p] = <<Hello(pool)>>]
    /\ srv' = [srv EXCEPT !.backlog = @ \union {p}]
    /\ proc' = [proc EXCEPT ![p] = "idle"]
    /\ UNCHANGED <<down, next, inFlight, mem, sent>>

\* A connection that says nothing, or does not say hello first.
ConnectSilently(p) ==
    /\ srv.running /\ proc[p] = "new" /\ p \notin Honest
    /\ srv' = [srv EXCEPT !.backlog = @ \union {p}]
    /\ proc' = [proc EXCEPT ![p] = "idle"]
    /\ UNCHANGED <<up, down, next, inFlight, mem, sent>>

StartWriting(p) ==
    /\ proc' = [proc EXCEPT ![p] = "writing"]
    /\ mem' = [mem EXCEPT ![p][next[p]] = Torn]

\* publish: wait until the slot is believed free, then draw into it.
BeginPublish(p) ==
    /\ p \in Honest /\ proc[p] = "idle" /\ sent[p] < MaxFrames
    /\ IF next[p] \in inFlight[p]
       THEN proc' = [proc EXCEPT ![p] = "waiting"] /\ mem' = mem
       ELSE StartWriting(p)
    /\ UNCHANGED <<srv, up, down, next, inFlight, sent>>

WaitForRelease(p) ==
    /\ proc[p] = "waiting" /\ down[p] # <<>>
    /\ down' = [down EXCEPT ![p] = Tail(@)]
    /\ inFlight' = [inFlight EXCEPT ![p] = @ \ {Head(down[p])}]
    /\ IF Head(down[p]) = next[p] THEN StartWriting(p) ELSE UNCHANGED <<proc, mem>>
    /\ UNCHANGED <<srv, up, next, sent>>

FinishPublishSameSlot(p) ==
    /\ proc[p] = "writing"
    /\ mem' = [mem EXCEPT ![p][next[p]] = sent[p] + 1]
    /\ up' = [up EXCEPT ![p] = @ \o <<[is |-> "attach", slot |-> next[p]],
                                     [is |-> "commit", damage |-> "ok"]>>]
    /\ next' = [next EXCEPT ![p] = Other(@)]
    /\ sent' = [sent EXCEPT ![p] = @ + 1]
    /\ proc' = [proc EXCEPT ![p] = "idle"]
    /\ UNCHANGED <<srv, down, inFlight>>
FinishPublish(p) ==
    /\ proc[p] = "writing"
    /\ mem' = [mem EXCEPT ![p][next[p]] = sent[p] + 1]
    /\ IF Connected(p)
       THEN /\ up' = [up EXCEPT ![p] = @ \o <<[is |-> "attach", slot |-> next[p]],
                                             [is |-> "commit", damage |-> "ok"]>>]
            /\ inFlight' = [inFlight EXCEPT ![p] = @ \union {next[p]}]
            /\ next' = [next EXCEPT ![p] = Other(@)]
            /\ sent' = [sent EXCEPT ![p] = @ + 1]
            /\ proc' = [proc EXCEPT ![p] = "idle"]
       ELSE /\ proc' = [proc EXCEPT ![p] = "failed"]
            /\ UNCHANGED <<up, inFlight, next, sent>>
    /\ UNCHANGED <<srv, down>>

LoseConnection(p) ==
    /\ proc[p] = "waiting" /\ down[p] = <<>> /\ ~Connected(p)
    /\ proc' = [proc EXCEPT ![p] = "failed"]
    /\ UNCHANGED <<srv, up, down, next, inFlight, mem, sent>>

\* A client not linked against CompositorSurface may send anything.
SendAnything(p) ==
    /\ p \in Procs \ Honest /\ proc[p] = "idle" /\ Connected(p) /\ sent[p] < MaxSends
    /\ \E m \in ClientRequest : up' = [up EXCEPT ![p] = Append(@, m)]
    /\ sent' = [sent EXCEPT ![p] = @ + 1]
    /\ UNCHANGED <<srv, down, proc, next, inFlight, mem>>

Exit(p) ==
    /\ proc[p] \in {"idle", "waiting", "writing"}
    /\ proc' = [proc EXCEPT ![p] = "gone"]
    /\ up' = [up EXCEPT ![p] = IF Connected(p) THEN Append(@, Eof) ELSE @]
    /\ UNCHANGED <<srv, down, next, inFlight, mem, sent>>

-----------------------------------------------------------------------------
Init ==
    /\ srv = [running |-> TRUE, backlog |-> {}, pending |-> {}, expired |-> {}, clients |-> {},
              home |-> None, foreground |-> NoFg, locked |-> FALSE, glass |-> Blank,
              status |-> NoFg, surface |-> [p \in Procs |-> NewSurface],
              fits |-> [p \in Procs |-> FALSE], repeated |-> {}, refused |-> {},
              faults |-> 0, sleeps |-> 0]
    /\ up = [p \in Procs |-> <<>>]
    /\ down = [p \in Procs |-> <<>>]
    /\ proc = [p \in Procs |-> "new"]
    /\ next = [p \in Procs |-> "A"]
    /\ inFlight = [p \in Procs |-> {}]
    /\ mem = [p \in Procs |-> [s \in Slots |-> Torn]]
    /\ sent = [p \in Procs |-> 0]

Server == AcceptAll \/ ReapExpiredPending \/ \E p \in Procs : ServicePending(p) \/ ServiceClient(p)

Client(p) ==
    \/ Connect(p) \/ ConnectSilently(p) \/ BeginPublish(p) \/ WaitForRelease(p)
    \/ FinishPublish(p) \/ LoseConnection(p) \/ SendAnything(p) \/ Exit(p)

Next ==
    \/ Server \/ Sleep \/ Wake \/ Stop
    \/ \E p \in Procs : HelloDeadline(p) \/ Client(p)

Spec == Init /\ [][Next]_vars

-----------------------------------------------------------------------------
\* Every piece of state has its type.
TypeOK ==
    /\ srv.backlog \union srv.pending \union srv.clients \union srv.expired \subseteq Procs
    /\ srv.home \in Procs \union {None}
    /\ srv.foreground \in {NoFg} \union {ClientFg(p) : p \in Procs} \union {StoppedFg(p) : p \in Procs}
    /\ srv.surface \in [Procs -> [slots : [Slots -> SlotState], pending : Slots \union {None},
                                  current : Slots \union {None}]]
    /\ \A p \in Procs : Len(down[p]) <= Capacity
    /\ proc \in [Procs -> {"new", "idle", "waiting", "writing", "failed", "gone"}]
    /\ next \in [Procs -> Slots] /\ inFlight \in [Procs -> SUBSET Slots]

\* While the lock screen is up nothing paints over it: not a commit, not a
\* client that dies, not Home taking over, not a handshake (server.rs, sleep).
LockCovers == srv.running /\ srv.locked => srv.glass = LockFrame

\* disconnect leaves no pointer to a dead client behind: what is foreground and
\* what is Home are connected, and Home is a client that registered as Home.
PointersLive ==
    srv.running =>
        /\ srv.foreground.is = "client" => srv.foreground.of \in srv.clients
        /\ srv.home # None => srv.home \in srv.clients \intersect Homes

\* The status file the supervisor polls names the foreground the compositor has.
StatusTruth == srv.running => srv.status = srv.foreground

\* A client that follows the protocol is refused only after the compositor
\* itself notified it of a slot it was not holding.
HonestNeverRefused == srv.refused \intersect Honest \subseteq srv.repeated

\* The panel never shows a slot its client is drawing into, unless the
\* compositor presented again a slot it had already given back.
ExclusiveRead ==
    srv.glass.is = "frame" /\ srv.glass.of \in Honest /\ srv.glass.frame = Torn
        => srv.glass.of \in srv.repeated

=============================================================================
