---------------------------- MODULE SessionProofs ----------------------------
(***************************************************************************)
(* A session with an app is sound for every value of the constants: the    *)
(* host's Session (platform/protocol/src/session.rs) and the frame loop of *)
(* an app built with the SDK (platform/sdk/src/runtime.rs) over two        *)
(* sockets of any length.                                                  *)
(*                                                                         *)
(* The invariant is SessionInv.  Its heart is TalkInv: what an app may     *)
(* still say is legal unless a suspend, exit or goodbye notice is on its   *)
(* way to the app.  So TalkInv counts the notices on the socket (Counted), *)
(* follows the one frame that is asked for from the socket to the drawing  *)
(* and back (FrameInv), and keeps the place of both sides in the           *)
(* conversation (TurnInv, SaidInv).  It holds until something is refused;  *)
(* what is refused first was said in ignorance of a notice.                *)
(*                                                                         *)
(* Then, that the host's side alone keeps SessionContract whatever an app  *)
(* says, and that the loop of `paperctl run` shows the app's last frame.   *)
(***************************************************************************)
EXTENDS MCPanel, TLAPS

ToHostMessages ==
    {S!Ready(v) : v \in {"same", "newer"}} \union {S!Frame(f, many) : f \in Nat, many \in BOOLEAN}
      \union {S!Request} \union {S!SystemQuery(i) : i \in Nat}
      \union {S!Saved(x, ok) : x \in Reasons, ok \in BOOLEAN} \union {S!Diagnostic(long) : long \in BOOLEAN}
ToAppMessages ==
    {S!Greeting, S!Suspended, S!Resumed, S!Input, S!Goodbye} \union {S!Draw(f) : f \in Nat}
      \union {S!PrepareToExit(x) : x \in Reasons} \union {S!Answer(i) : i \in Nat}
Stamped == [msg : ToHostMessages, seen : Nat]

Sessions ==
    [state : S!State, next : Nat, outstanding : Nat \union {Nil}, exiting : Reasons \union {Nil},
     violation : Violations \union {Nil}, crossing : BOOLEAN, notices : Nat, accepted : SUBSET Nat,
     abandoned : SUBSET Nat, saved : BOOLEAN \union {Nil}]
AppPcs == {"boot", "loop", "drawing", "writing", "renaming", "saved", "unsaved", "ended", "dead"}
Processes ==
    [pc : AppPcs, sdk : BOOLEAN, granted : BOOLEAN, memory : 0..1, loaded : {0, 1, Nil},
     drawing : Nat \union {Nil}, published : SUBSET Nat, exit : Reasons \union {Nil}, query : Nat,
     tasks : Nat, seen : Nat]
Disks == [save : {0, 1, Nil}, partial : {0, 1, 2, Nil}]

SessionTypes ==
    /\ host \in Sessions /\ app \in Processes /\ disk \in Disks
    /\ toHost \in Seq(Stamped) /\ toApp \in Seq(ToAppMessages)
    /\ app.pc = "drawing" => app.drawing \in Nat
    /\ app.pc \in {"writing", "renaming", "saved", "unsaved"} => app.exit \in Reasons

LEMMA ToHostKinds ==
    ASSUME NEW m \in ToHostMessages
    PROVE  /\ m.is \in {"ready", "frame", "request", "query", "saved", "diagnostic"}
           /\ m.is = "ready" => m.protocol \in {"same", "newer"}
           /\ m.is = "frame" => m.frame \in Nat /\ m.many \in BOOLEAN
           /\ m.is = "query" => m.id \in Nat
           /\ m.is = "saved" => m.reason \in Reasons /\ m.ok \in BOOLEAN
           /\ m.is = "diagnostic" => m.long \in BOOLEAN
BY DEF ToHostMessages, S!Ready, S!Frame, S!Request, S!SystemQuery, S!Saved, S!Diagnostic

LEMMA ToAppKinds ==
    /\ \A m \in ToAppMessages :
          /\ m.is = "draw" => m.frame \in Nat
          /\ m.is = "exit" => m.reason \in Reasons
    /\ \A f \in Nat : S!Draw(f) \in ToAppMessages
    /\ \A x \in Reasons : S!PrepareToExit(x) \in ToAppMessages
    /\ \A i \in Nat : S!Answer(i) \in ToAppMessages
    /\ {S!Greeting, S!Suspended, S!Resumed, S!Input, S!Goodbye} \subseteq ToAppMessages
<1>1. ASSUME NEW m \in ToAppMessages
      PROVE  /\ m.is = "draw" => m.frame \in Nat
             /\ m.is = "exit" => m.reason \in Reasons
  BY DEF ToAppMessages, S!Greeting, S!Suspended, S!Resumed, S!Input, S!Goodbye, S!Draw, S!PrepareToExit, S!Answer
<1>2. /\ \A f \in Nat : S!Draw(f) \in ToAppMessages
      /\ \A x \in Reasons : S!PrepareToExit(x) \in ToAppMessages
      /\ \A i \in Nat : S!Answer(i) \in ToAppMessages
      /\ {S!Greeting, S!Suspended, S!Resumed, S!Input, S!Goodbye} \subseteq ToAppMessages
  BY DEF ToAppMessages
<1> QED
  BY <1>1, <1>2

LEMMA JoinAt ==
    ASSUME NEW M, NEW q \in Seq(M), NEW e \in Seq(M)
    PROVE  /\ q \o e \in Seq(M) /\ Len(q \o e) = Len(q) + Len(e) /\ Len(q) \in Nat
           /\ \A i \in 1..Len(q) : (q \o e)[i] = q[i]
           /\ \A i \in 1..Len(q \o e) :
                 \/ i \in 1..Len(q) /\ (q \o e)[i] = q[i]
                 \/ i > Len(q) /\ i - Len(q) \in 1..Len(e) /\ (q \o e)[i] = e[i - Len(q)]
<1>1. /\ q \o e \in Seq(M) /\ Len(q) \in Nat /\ Len(e) \in Nat /\ Len(q \o e) = Len(q) + Len(e)
  OBVIOUS
<1>2. \A i \in 1..Len(q \o e) : i \notin 1..Len(q) => i > Len(q) /\ i - Len(q) \in 1..Len(e)
  BY <1>1
<1>3. \A i \in 1..Len(q) : (q \o e)[i] = q[i]
  OBVIOUS
<1>4. \A i \in 1..Len(q \o e) : i \notin 1..Len(q) => (q \o e)[i] = e[i - Len(q)]
  OBVIOUS
<1> QED
  BY <1>1, <1>2, <1>3, <1>4

(* What is said is stamped with what its sender had read.                     *)
LEMMA SayAdds ==
    ASSUME toHost \in Seq(Stamped), NEW ms \in Seq(ToHostMessages), app'.seen \in Nat, S!Say(ms)
    PROVE  /\ toHost' \in Seq(Stamped) /\ Len(toHost') = Len(toHost) + Len(ms)
           /\ \A i \in 1..Len(toHost) : toHost'[i] = toHost[i]
           /\ \A i \in 1..Len(toHost') :
                \/ i \in 1..Len(toHost) /\ toHost'[i] = toHost[i]
                \/ /\ i > Len(toHost) /\ i - Len(toHost) \in 1..Len(ms)
                   /\ toHost'[i].msg = ms[i - Len(toHost)] /\ toHost'[i].seen = app'.seen
<1> DEFINE new == [i \in 1..Len(ms) |-> S!Stamp(ms[i])]
<1>1. \A i \in 1..Len(ms) : /\ S!Stamp(ms[i]) \in Stamped
                            /\ S!Stamp(ms[i]).msg = ms[i] /\ S!Stamp(ms[i]).seen = app'.seen
  BY DEF S!Stamp, Stamped
<1>2. Len(ms) \in Nat /\ new \in Seq(Stamped) /\ Len(new) = Len(ms)
  <2>1. \A i \in 1..Len(ms) : S!Stamp(ms[i]) \in Stamped
    BY <1>1
  <2> QED
    BY <2>1
<1>3. \A i \in 1..Len(ms) : new[i].msg = ms[i] /\ new[i].seen = app'.seen
  BY <1>1
<1>4. toHost' = toHost \o new
  BY DEF S!Say
<1> HIDE DEF new
<1> DEFINE j == toHost \o new
<1>5. /\ j \in Seq(Stamped) /\ Len(j) = Len(toHost) + Len(new)
      /\ \A i \in 1..Len(toHost) : j[i] = toHost[i]
      /\ \A i \in 1..Len(j) :
            \/ i \in 1..Len(toHost) /\ j[i] = toHost[i]
            \/ i > Len(toHost) /\ i - Len(toHost) \in 1..Len(new) /\ j[i] = new[i - Len(toHost)]
  <2>1. toHost \in Seq(Stamped) /\ new \in Seq(Stamped)
    BY <1>2
  <2> HIDE DEF j
  <2> QED
    BY <2>1, JoinAt, Zenon DEF j
<1>6. toHost' = j
  BY <1>4
<1> HIDE DEF j
<1> QED
  BY <1>2, <1>3, <1>5, <1>6

LEMMA Told ==
    /\ \A v \in {"same", "newer"} : S!Ready(v) \in ToHostMessages
    /\ \A f \in Nat, many \in BOOLEAN : S!Frame(f, many) \in ToHostMessages
    /\ S!Request \in ToHostMessages
    /\ \A i \in Nat : S!SystemQuery(i) \in ToHostMessages
    /\ \A x \in Reasons, ok \in BOOLEAN : S!Saved(x, ok) \in ToHostMessages
    /\ \A long \in BOOLEAN : S!Diagnostic(long) \in ToHostMessages
BY DEF ToHostMessages

LEMMA ReadTypes ==
    ASSUME SessionTypes, NEW m \in ToHostMessages, NEW seen \in Nat
    PROVE  S!OnAppMessage(host, m, seen) \in Sessions
<1>1. S!Violation(host, m) \in Violations \union {Nil}
  BY DEF S!Violation, S!FrameViolation, Violations
<1>2. host \in Sessions
  BY DEF SessionTypes
<1>3. CASE S!Violation(host, m) = Nil
  <2>1. S!OnAppMessage(host, m, seen) = S!Fold(host, m)
    BY <1>3 DEF S!OnAppMessage
  <2>2. m.is = "ready" => [host EXCEPT !.state = "Running"] \in Sessions
    BY <1>2 DEF Sessions, S!State
  <2>3. m.is = "frame" => [host EXCEPT !.outstanding = Nil, !.accepted = @ \union {m.frame}] \in Sessions
    BY <1>2, ToHostKinds DEF Sessions
  <2>4. m.is = "saved" => [host EXCEPT !.state = "Closed", !.saved = m.ok] \in Sessions
    BY <1>2, ToHostKinds DEF Sessions, S!State
  <2> QED
    BY <1>2, <2>1, <2>2, <2>3, <2>4 DEF S!Fold
<1>4. CASE S!Violation(host, m) # Nil
  <2> DEFINE v == IF host.violation = Nil THEN S!Violation(host, m) ELSE host.violation
             c == IF host.violation = Nil THEN seen < host.notices ELSE host.crossing
  <2>1. v \in Violations \union {Nil} /\ c \in BOOLEAN
    <3>1. host.violation \in Violations \union {Nil} /\ host.crossing \in BOOLEAN
      BY <1>2 DEF Sessions
    <3>2. (seen < host.notices) \in BOOLEAN
      OBVIOUS
    <3> QED
      BY <1>1, <3>1, <3>2
  <2>2. S!OnAppMessage(host, m, seen) = [host EXCEPT !.state = "Closed", !.violation = v, !.crossing = c]
    BY <1>4 DEF S!OnAppMessage
  <2> HIDE DEF v, c
  <2>3. [host EXCEPT !.state = "Closed", !.violation = v, !.crossing = c] \in Sessions
    BY <1>2, <2>1 DEF Sessions, S!State
  <2> QED
    BY <2>2, <2>3
<1> QED
  BY <1>3, <1>4

LEMMA ForgetTypes ==
    ASSUME NEW s \in Sessions
    PROVE  /\ S!Forget(s) \in Sessions
           /\ S!Forget(s).outstanding = Nil
           /\ S!Forget(s).abandoned = s.abandoned \union ({s.outstanding} \ {Nil})
           /\ S!Forget(s).next = s.next /\ S!Forget(s).accepted = s.accepted
           /\ S!Forget(s).violation = s.violation /\ S!Forget(s).notices = s.notices
           /\ S!Forget(s).crossing = s.crossing /\ S!Forget(s).saved = s.saved
           /\ S!Forget(s).exiting = s.exiting /\ S!Forget(s).state = s.state
<1>1. {s.outstanding} \ {Nil} \subseteq Nat
  BY DEF Sessions
<1> DEFINE gone == {s.outstanding} \ {Nil}
<1> HIDE DEF gone
<1>2. S!Forget(s) = [s EXCEPT !.abandoned = s.abandoned \union gone, !.outstanding = Nil]
  BY DEF S!Forget, gone
<1> QED
  BY <1>1, <1>2 DEF Sessions, gone

(* What the host does of its own accord.                                      *)
LEMMA HostTypes ==
    ASSUME SessionTypes, S!Host, ~S!HostReads
    PROVE  SessionTypes' /\ UNCHANGED <<toHost, app, disk>>
<1>1. host \in Sessions /\ toApp \in Seq(ToAppMessages) /\ host.next \in Nat /\ host.next + 1 \in Nat
      /\ host.notices + 1 \in Nat
  BY DEF SessionTypes, Sessions
<1>2. \A m \in ToAppMessages : Append(toApp, m) \in Seq(ToAppMessages)
  BY <1>1
<1>3. UNCHANGED <<toHost, app, disk>>
  BY DEF S!Host, S!HostSeesEof, S!HostDraws, S!HostSuspends, S!HostResumes, S!HostPreparesToExit, S!HostCloses,
         S!HostForwards
<1>4. CASE S!HostSeesEof
  <2>1. host' = [host EXCEPT !.state = "Closed"] /\ UNCHANGED toApp
    BY <1>4 DEF S!HostSeesEof
  <2>2. host' \in Sessions
    BY <1>1, <2>1 DEF Sessions, S!State
  <2> QED
    BY <1>1, <1>3, <2>1, <2>2 DEF SessionTypes
<1>5. CASE S!HostDraws
  <2>1. host' = [host EXCEPT !.next = host.next + 1, !.outstanding = host.next]
        /\ toApp' = Append(toApp, S!Draw(host.next))
    BY <1>5 DEF S!HostDraws
  <2>2. host' \in Sessions
    BY <1>1, <2>1 DEF Sessions
  <2> QED
    BY <1>1, <1>2, <1>3, <2>1, <2>2, ToAppKinds DEF SessionTypes
<1>6. CASE S!HostSuspends
  <2>1. host' = [S!Forget(host) EXCEPT !.state = "Suspended", !.notices = host.notices + 1]
        /\ toApp' = Append(toApp, S!Suspended)
    BY <1>1, <1>6, ForgetTypes DEF S!HostSuspends
  <2>2. host' \in Sessions
    <3>1. ASSUME NEW s \in Sessions
          PROVE  [s EXCEPT !.state = "Suspended", !.notices = host.notices + 1] \in Sessions
      BY <1>1 DEF Sessions, S!State
    <3> QED
      BY <1>1, <2>1, <3>1, ForgetTypes
  <2> QED
    BY <1>2, <1>3, <2>1, <2>2, ToAppKinds DEF SessionTypes
<1>7. CASE S!HostResumes
  <2>1. host' = [host EXCEPT !.state = "Running"] /\ toApp' = Append(toApp, S!Resumed)
    BY <1>7 DEF S!HostResumes
  <2>2. host' \in Sessions
    BY <1>1, <2>1 DEF Sessions, S!State
  <2> QED
    BY <1>2, <1>3, <2>1, <2>2, ToAppKinds DEF SessionTypes
<1>8. CASE \E x \in Reasons : S!HostPreparesToExit(x)
  <2>1. PICK x \in Reasons : S!HostPreparesToExit(x)
    BY <1>8
  <2>2. host' = [S!Forget(host) EXCEPT !.state = "Exiting", !.exiting = x, !.notices = host.notices + 1]
        /\ toApp' = Append(toApp, S!PrepareToExit(x))
    BY <1>1, <2>1, ForgetTypes DEF S!HostPreparesToExit
  <2>3. host' \in Sessions
    <3>1. ASSUME NEW s \in Sessions
          PROVE  [s EXCEPT !.state = "Exiting", !.exiting = x, !.notices = host.notices + 1] \in Sessions
      BY <1>1 DEF Sessions, S!State
    <3> QED
      BY <1>1, <2>2, <3>1, ForgetTypes
  <2> QED
    BY <1>2, <1>3, <2>2, <2>3, ToAppKinds DEF SessionTypes
<1>9. CASE S!HostCloses
  <2>1. host' = [host EXCEPT !.state = "Closed", !.notices = host.notices + 1] /\ toApp' = Append(toApp, S!Goodbye)
    BY <1>9 DEF S!HostCloses
  <2>2. host' \in Sessions
    BY <1>1, <2>1 DEF Sessions, S!State
  <2> QED
    BY <1>2, <1>3, <2>1, <2>2, ToAppKinds DEF SessionTypes
<1>10. CASE S!HostForwards
  BY <1>1, <1>2, <1>3, <1>10, ToAppKinds DEF SessionTypes, S!HostForwards
<1> QED
  BY <1>4, <1>5, <1>6, <1>7, <1>8, <1>9, <1>10 DEF S!Host

(* What the host reads, and the answer to a query.                            *)
LEMMA HostReadsOne ==
    ASSUME SessionTypes, S!HostReads
    PROVE  /\ SessionTypes' /\ UNCHANGED <<app, disk>>
           /\ toHost # <<>> /\ Head(toHost) = toHost[1] /\ toHost[1] \in Stamped
           /\ toHost[1].msg \in ToHostMessages /\ toHost[1].seen \in Nat
           /\ toHost' = Tail(toHost)
           /\ host' = S!OnAppMessage(host, toHost[1].msg, toHost[1].seen)
           /\ \/ toApp' = toApp
              \/ \E i \in Nat : toApp' = Append(toApp, S!Answer(i))
<1>1. toHost # <<>> /\ toHost \in Seq(Stamped) /\ toApp \in Seq(ToAppMessages)
  BY DEF SessionTypes, S!HostReads
<1>2. Head(toHost) = toHost[1] /\ toHost[1] \in Stamped
  BY <1>1
<1>3. toHost[1].msg \in ToHostMessages /\ toHost[1].seen \in Nat
  BY <1>2 DEF Stamped
<1>4. /\ toHost' = Tail(toHost) /\ UNCHANGED <<app, disk>>
      /\ host' = S!OnAppMessage(host, toHost[1].msg, toHost[1].seen)
      /\ \/ toApp' = toApp
         \/ toHost[1].msg.is = "query" /\ toApp' = Append(toApp, S!Answer(toHost[1].msg.id))
  BY <1>2 DEF S!HostReads
<1>5. toApp' = toApp \/ \E i \in Nat : toApp' = Append(toApp, S!Answer(i))
  BY <1>3, <1>4, ToHostKinds
<1>6. Tail(toHost) \in Seq(Stamped)
  BY <1>1
<1>7. \A i \in Nat : Append(toApp, S!Answer(i)) \in Seq(ToAppMessages)
  BY <1>1, ToAppKinds
<1>8. host' \in Sessions
  BY <1>3, <1>4, ReadTypes
<1> QED
  BY <1>1, <1>2, <1>3, <1>4, <1>5, <1>6, <1>7, <1>8 DEF SessionTypes

LEMMA CallsSay ==
    ASSUME SessionTypes, NEW a \in Processes, NEW callback, S!Calls(a, callback)
    PROVE  /\ app' \in Processes /\ app'.pc = a.pc /\ app'.sdk = a.sdk /\ app'.published = a.published
           /\ app'.drawing = a.drawing /\ app'.exit = a.exit /\ app'.seen = a.seen
           /\ \E ms \in Seq(ToHostMessages) :
                 S!Say(ms) /\ \A k \in 1..Len(ms) : ms[k].is \in {"query", "request"}
<1>1. PICK does \in S!Effects(a) :
        /\ app' = [a EXCEPT !.memory = IF "change" \in does THEN 1 - @ ELSE @,
                            !.query = IF "ask" \in does THEN @ + 1 ELSE @,
                            !.tasks = IF "spawn" \in does THEN @ + 1 ELSE @]
        /\ S!Say((IF "ask" \in does THEN <<S!SystemQuery(a.query)>> ELSE <<>>) \o S!ActionRequest(does))
  BY DEF S!Calls
<1>2. a.memory \in 0..1 /\ a.query \in Nat /\ a.tasks \in Nat
  BY DEF Processes
<1> DEFINE memory == IF "change" \in does THEN 1 - a.memory ELSE a.memory
           query == IF "ask" \in does THEN a.query + 1 ELSE a.query
           tasks == IF "spawn" \in does THEN a.tasks + 1 ELSE a.tasks
           x == IF "ask" \in does THEN <<S!SystemQuery(a.query)>> ELSE <<>>
           y == S!ActionRequest(does)
<1>3. memory \in 0..1 /\ query \in Nat /\ tasks \in Nat
  BY <1>2
<1>4. app' = [a EXCEPT !.memory = memory, !.query = query, !.tasks = tasks] /\ S!Say(x \o y)
  BY <1>1
<1>5. /\ x \in Seq(ToHostMessages) /\ \A k \in 1..Len(x) : x[k].is \in {"query", "request"}
      /\ y \in Seq(ToHostMessages) /\ \A k \in 1..Len(y) : y[k].is \in {"query", "request"}
  <2>1. ASSUME NEW m \in ToHostMessages, m.is \in {"query", "request"}
        PROVE  <<m>> \in Seq(ToHostMessages) /\ \A k \in 1..Len(<<m>>) : <<m>>[k].is \in {"query", "request"}
    BY <2>1
  <2>2. <<>> \in Seq(ToHostMessages) /\ \A k \in 1..Len(<<>>) : <<>>[k].is \in {"query", "request"}
    OBVIOUS
  <2>3. S!SystemQuery(a.query) \in ToHostMessages /\ S!SystemQuery(a.query).is = "query"
    BY <1>2, Told DEF S!SystemQuery
  <2>4. S!Request \in ToHostMessages /\ S!Request.is = "request"
    BY Told DEF S!Request
  <2>5. x = <<S!SystemQuery(a.query)>> \/ x = <<>>
    OBVIOUS
  <2>6. y = <<S!Request>> \/ y = <<>>
    BY DEF S!ActionRequest
  <2> HIDE DEF x, y
  <2>7. x \in Seq(ToHostMessages) /\ \A k \in 1..Len(x) : x[k].is \in {"query", "request"}
    BY <2>1, <2>2, <2>3, <2>5
  <2>8. y \in Seq(ToHostMessages) /\ \A k \in 1..Len(y) : y[k].is \in {"query", "request"}
    BY <2>1, <2>2, <2>4, <2>6
  <2> QED
    BY <2>7, <2>8
<1> HIDE DEF memory, query, tasks, x, y
<1>6. /\ app' \in Processes /\ app'.pc = a.pc /\ app'.sdk = a.sdk /\ app'.published = a.published
      /\ app'.drawing = a.drawing /\ app'.exit = a.exit /\ app'.seen = a.seen
  BY <1>3, <1>4 DEF Processes
<1> DEFINE ms == x \o y
<1>7. ms \in Seq(ToHostMessages) /\ \A k \in 1..Len(ms) : ms[k].is \in {"query", "request"}
  <2>1. /\ ms \in Seq(ToHostMessages)
        /\ \A i \in 1..Len(ms) : \/ i \in 1..Len(x) /\ ms[i] = x[i]
                                 \/ i - Len(x) \in 1..Len(y) /\ ms[i] = y[i - Len(x)]
    <3> HIDE DEF ms
    <3> QED
      BY <1>5, JoinAt, Zenon DEF ms
  <2> HIDE DEF ms
  <2> QED
    BY <1>5, <2>1
<1> QED
  BY <1>4, <1>6, <1>7

(* What the app's process may say in one step, and when: only is whether it   *)
(* is all it says, last whether it says nothing after it.                     *)
Word(m, only, last) ==
    \/ m.is \in {"query", "request"} /\ app.pc = "loop" /\ app'.pc \in {"loop", "drawing"}
    \/ /\ m.is = "diagnostic" /\ ~m.long
       /\ app.pc \in {"saved", "unsaved"} /\ app'.pc = "ended" /\ app'.seen = app.seen
    \/ m.is = "ready" /\ m.protocol = "same" /\ only /\ app.pc = "boot" /\ app'.pc = "loop"
    \/ /\ m.is = "frame" /\ ~m.many /\ only /\ m.frame = app.drawing
       /\ app.pc = "drawing" /\ app'.pc = "loop"
    \/ /\ m.is = "saved" /\ last /\ m.reason = app.exit /\ m.ok = (app.pc = "saved")
       /\ app.pc \in {"saved", "unsaved"} /\ app'.pc = "ended" /\ app'.seen = app.seen

Speaks ==
    \/ UNCHANGED toHost
    \/ \E ms \in Seq(ToHostMessages) :
          S!Say(ms) /\ \A k \in 1..Len(ms) : Word(ms[k], Len(ms) = 1, k = Len(ms))

(* How the app's process moves on: it ends, works on without reading, or      *)
(* reads the message at the head of its socket.                               *)
Notice(m) == m.is \in {"suspended", "exit", "goodbye"}

Works ==
    /\ toApp' = toApp /\ app'.seen = app.seen /\ app'.pc \in {"loop", "renaming", "saved", "unsaved"}
    /\ app'.pc = "loop" => app.pc \in {"loop", "drawing"}
    /\ app'.pc # "loop" => app.pc \in {"writing", "renaming"} /\ app'.exit = app.exit

Reads(m) ==
    /\ toApp # <<>> /\ Head(toApp) = m /\ toApp' = Tail(toApp)
    /\ app'.seen = IF Notice(m) THEN app.seen + 1 ELSE app.seen
    /\ \/ app.pc \in {"boot", "loop"} /\ app'.pc = "loop" /\ m.is \notin {"exit", "goodbye"}
       \/ app.pc = "loop" /\ app'.pc = "drawing" /\ m.is = "draw" /\ app'.drawing = m.frame
       \/ app.pc = "loop" /\ app'.pc \in {"writing", "unsaved"} /\ m.is = "exit" /\ app'.exit = m.reason

Walks ==
    /\ app.pc \notin {"ended", "dead"} /\ app'.pc # "boot"
    /\ app'.sdk = app.sdk
    /\ app.published \subseteq app'.published
    /\ app'.pc = "drawing" => app'.drawing \in app'.published
    /\ app'.pc = "saved" => disk'.save = app'.memory
    /\ app.pc = "saved" => disk'.save = disk.save /\ app'.memory = app.memory
    /\ app.pc = "boot" /\ app'.pc = "loop" => toHost' # <<>>
    /\ \/ app'.pc \in {"ended", "dead"} /\ (toApp' = toApp \/ (toApp # <<>> /\ toApp' = Tail(toApp)))
       \/ Works
       \/ \E m \in ToAppMessages : Reads(m)

LEMMA ReadingTypes ==
    ASSUME SessionTypes, NEW m, toApp # <<>>, Head(toApp) = m, toApp' = Tail(toApp)
    PROVE  toApp' \in Seq(ToAppMessages) /\ m \in ToAppMessages
BY DEF SessionTypes

LEMMA StartSteps ==
    ASSUME SessionTypes, NEW p \in {"same", "newer"}, S!Start(p)
    PROVE  SessionTypes' /\ UNCHANGED <<host, disk>> /\ Speaks /\ Walks
<1> USE DEF SessionTypes
<1>1. app \in Processes /\ app.seen \in Nat /\ app.pc = "boot" /\ toApp # <<>> /\ toApp' = Tail(toApp)
      /\ UNCHANGED <<host, disk>>
  BY DEF S!Start, Processes
<1>2. toApp' \in Seq(ToAppMessages) /\ Head(toApp) \in ToAppMessages
  BY <1>1, ReadingTypes
<1>3. CASE Head(toApp) = S!Greeting /\ app' = [app EXCEPT !.pc = "loop", !.loaded = S!ReadPrivate]
           /\ S!Say(<<S!Ready("same")>>)
  <2>1. S!ReadPrivate \in {0, 1, Nil}
    BY DEF S!ReadPrivate, Disks
  <2>2. app' \in Processes /\ app'.pc = "loop" /\ app'.seen = app.seen /\ app'.sdk = app.sdk
        /\ app'.published = app.published
    BY <1>1, <1>3, <2>1 DEF Processes, AppPcs
  <2> DEFINE m == S!Ready("same")
  <2>3. m \in ToHostMessages /\ m.is = "ready" /\ m.protocol = "same"
    BY Told DEF S!Ready
  <2>4. S!Say(<<m>>)
    BY <1>3
  <2> HIDE DEF m
  <2>5. <<m>> \in Seq(ToHostMessages) /\ Len(<<m>>) = 1 /\ \A k \in 1..Len(<<m>>) : <<m>>[k] = m
    BY <2>3
  <2>6. Speaks
    <3> DEFINE ms == <<m>>
    <3> HIDE DEF ms
    <3> QED
      BY <1>1, <2>2, <2>3, <2>4, <2>5 DEF Speaks, Word, ms
  <2>7. toHost' \in Seq(Stamped) /\ toHost' # <<>>
    <3>1. toHost' \in Seq(Stamped) /\ Len(toHost') = Len(toHost) + Len(<<m>>)
      BY <1>1, <2>2, <2>4, <2>5, SayAdds
    <3>2. toHost \in Seq(Stamped) /\ Len(toHost) \in Nat /\ Len(toHost') = Len(toHost) + 1
      BY <2>5, <3>1
    <3>3. Len(toHost') # 0
      BY <3>2
    <3> QED
      BY <3>1, <3>3
  <2>8. Reads(S!Greeting)
    BY <1>1, <1>3, <2>2 DEF Reads, S!Greeting, Notice
  <2>9. Walks
    BY <1>1, <1>2, <1>3, <2>2, <2>7, <2>8 DEF Walks
  <2> QED
    BY <1>1, <1>2, <2>2, <2>6, <2>7, <2>9
<1>4. CASE app' = [app EXCEPT !.pc = "ended"] /\ S!Silent
  <2>1. app' \in Processes /\ app'.pc = "ended" /\ app'.sdk = app.sdk /\ app'.published = app.published
    BY <1>1, <1>4 DEF Processes, AppPcs
  <2> QED
    BY <1>1, <1>2, <1>4, <2>1 DEF S!Silent, Speaks, Walks
<1> QED
  BY <1>3, <1>4 DEF S!Start

LEMMA EventSteps ==
    ASSUME SessionTypes, S!HandleEvent \/ S!HandleCompleted \/ S!IgnoreHello
    PROVE  SessionTypes' /\ UNCHANGED <<host, disk>> /\ Speaks /\ Walks
<1> USE DEF SessionTypes
<1>1. app \in Processes /\ app.seen \in Nat /\ app.seen + 1 \in Nat /\ app.tasks \in Nat
      /\ toHost \in Seq(Stamped) /\ app.pc = "loop" /\ UNCHANGED <<host, disk>>
  BY DEF S!HandleEvent, S!HandleCompleted, S!IgnoreHello, S!LoopReads, Processes
<1>2. ASSUME NEW a \in Processes, S!Calls(a, "event"), a.pc = "loop", a.sdk = app.sdk, a.published = app.published
      PROVE  /\ app' \in Processes /\ app'.pc = "loop" /\ app'.sdk = app.sdk
             /\ app'.published = app.published /\ app'.seen = a.seen
             /\ toHost' \in Seq(Stamped) /\ Speaks
  <2>1. /\ app' \in Processes /\ app'.pc = a.pc /\ app'.sdk = a.sdk /\ app'.published = a.published
        /\ app'.seen = a.seen /\ a.seen \in Nat
    BY <1>2, CallsSay DEF Processes
  <2>2. PICK ms \in Seq(ToHostMessages) : S!Say(ms) /\ \A k \in 1..Len(ms) : ms[k].is \in {"query", "request"}
    BY <1>2, CallsSay
  <2>3. toHost' \in Seq(Stamped)
    BY <1>1, <2>1, <2>2, SayAdds
  <2>4. Speaks
    BY <1>1, <1>2, <2>1, <2>2 DEF Speaks, Word
  <2> QED
    BY <1>2, <2>1, <2>3, <2>4
<1>3. CASE S!HandleEvent
  <2> DEFINE m == Head(toApp)
             a == IF m = S!Suspended THEN [app EXCEPT !.seen = @ + 1] ELSE app
  <2>1. m \in S!Event /\ toApp # <<>> /\ toApp' = Tail(toApp) /\ S!Calls(a, "event")
    BY <1>3 DEF S!HandleEvent, S!LoopReads
  <2>2. toApp' \in Seq(ToAppMessages) /\ m \in ToAppMessages
    BY <2>1, ReadingTypes
  <2>3. m.is \notin {"exit", "goodbye"} /\ (m.is = "suspended" <=> m = S!Suspended)
    BY <2>1 DEF S!Event, S!Input, S!Resumed, S!Suspended, S!Answer
  <2>4. /\ a \in Processes /\ a.pc = "loop" /\ a.sdk = app.sdk /\ a.published = app.published
        /\ a.seen = IF Notice(m) THEN app.seen + 1 ELSE app.seen
    BY <1>1, <2>3 DEF Processes, Notice
  <2> HIDE DEF a
  <2>5. /\ app' \in Processes /\ app'.pc = "loop" /\ app'.sdk = app.sdk
        /\ app'.published = app.published /\ app'.seen = a.seen
        /\ toHost' \in Seq(Stamped) /\ Speaks
    BY <1>2, <2>1, <2>4
  <2>6. Reads(m)
    BY <1>1, <2>1, <2>3, <2>4, <2>5 DEF Reads
  <2>7. Walks
    BY <1>1, <2>2, <2>5, <2>6 DEF Walks
  <2> QED
    BY <1>1, <2>2, <2>5, <2>7
<1>4. CASE S!HandleCompleted
  <2> DEFINE a == [app EXCEPT !.tasks = app.tasks - 1]
  <2>1. app.tasks > 0 /\ S!Calls(a, "event") /\ UNCHANGED toApp
    BY <1>4 DEF S!HandleCompleted
  <2>2. a \in Processes /\ a.pc = "loop" /\ a.sdk = app.sdk /\ a.published = app.published /\ a.seen = app.seen
    <3>1. app.tasks - 1 \in Nat
      BY <1>1, <2>1
    <3> QED
      BY <1>1, <3>1 DEF Processes
  <2> HIDE DEF a
  <2>3. /\ app' \in Processes /\ app'.pc = "loop" /\ app'.sdk = app.sdk
        /\ app'.published = app.published /\ app'.seen = a.seen
        /\ toHost' \in Seq(Stamped) /\ Speaks
    BY <1>2, <2>1, <2>2
  <2>4. Walks
    BY <1>1, <2>1, <2>2, <2>3 DEF Walks, Works
  <2> QED
    BY <1>1, <2>1, <2>3, <2>4
<1>5. CASE S!IgnoreHello
  <2>1. Head(toApp) = S!Greeting /\ toApp # <<>> /\ toApp' = Tail(toApp) /\ UNCHANGED <<toHost, app>>
    BY <1>5 DEF S!IgnoreHello, S!LoopReads
  <2>2. toApp' \in Seq(ToAppMessages) /\ S!Greeting \in ToAppMessages
    BY <2>1, ReadingTypes
  <2>3. Reads(S!Greeting)
    BY <1>1, <2>1 DEF Reads, Notice, S!Greeting
  <2> QED
    BY <1>1, <2>1, <2>2, <2>3 DEF Walks, Speaks
<1> QED
  BY <1>3, <1>4, <1>5

LEMMA FrameSteps ==
    ASSUME SessionTypes, S!HandleDraw \/ S!ReportFrame
    PROVE  SessionTypes' /\ UNCHANGED <<host, disk>> /\ Speaks /\ Walks
<1> USE DEF SessionTypes
<1>1. app \in Processes /\ app.seen \in Nat /\ toHost \in Seq(Stamped) /\ UNCHANGED <<host, disk>>
  BY DEF S!HandleDraw, S!ReportFrame, Processes
<1>2. CASE S!HandleDraw
  <2>1. PICK f \in 0..MaxDraws : S!LoopReads(S!Draw(f))
    BY <1>2 DEF S!HandleDraw
  <2>2. /\ app.pc = "loop" /\ toApp # <<>> /\ Head(toApp) = S!Draw(f) /\ toApp' = Tail(toApp)
        /\ S!Draw(f).is = "draw" /\ S!Draw(f).frame = f
    BY <1>2, <2>1 DEF S!LoopReads, S!Draw, S!HandleDraw
  <2> DEFINE a == [app EXCEPT !.pc = "drawing", !.drawing = f, !.published = app.published \union {f}]
  <2>3. S!Calls(a, "draw")
    BY <1>2, <2>2 DEF S!HandleDraw
  <2>4. toApp' \in Seq(ToAppMessages) /\ S!Draw(f) \in ToAppMessages
    BY <2>2, ReadingTypes
  <2>5. f \in Nat
    BY <2>2, <2>4, ToAppKinds
  <2>6. /\ a \in Processes /\ a.pc = "drawing" /\ a.drawing = f /\ a.sdk = app.sdk
        /\ a.published = app.published \union {f} /\ a.seen = app.seen
    BY <1>1, <2>5 DEF Processes, AppPcs
  <2> HIDE DEF a
  <2>7. /\ app' \in Processes /\ app'.pc = "drawing" /\ app'.drawing = f /\ app'.sdk = app.sdk
        /\ app'.published = app.published \union {f} /\ app'.seen = app.seen
    BY <2>3, <2>6, CallsSay
  <2>8. PICK ms \in Seq(ToHostMessages) : S!Say(ms) /\ \A k \in 1..Len(ms) : ms[k].is \in {"query", "request"}
    BY <2>3, <2>6, CallsSay
  <2>9. toHost' \in Seq(Stamped)
    BY <1>1, <2>7, <2>8, SayAdds
  <2>10. Speaks
    BY <1>1, <2>2, <2>7, <2>8 DEF Speaks, Word
  <2>11. Reads(S!Draw(f))
    BY <2>2, <2>7 DEF Reads, Notice
  <2>12. Walks
    BY <2>2, <2>4, <2>7, <2>9, <2>11 DEF Walks
  <2> QED
    BY <1>1, <2>4, <2>7, <2>9, <2>10, <2>12
<1>3. CASE S!ReportFrame
  <2> DEFINE m == S!Frame(app.drawing, FALSE)
  <2>1. /\ app.pc = "drawing" /\ app' = [app EXCEPT !.pc = "loop", !.drawing = Nil]
        /\ S!Say(<<m>>) /\ UNCHANGED toApp
    BY <1>3 DEF S!ReportFrame
  <2>2. /\ app' \in Processes /\ app'.pc = "loop" /\ app'.sdk = app.sdk /\ app'.seen = app.seen
        /\ app'.published = app.published
    BY <1>1, <2>1 DEF Processes, AppPcs
  <2>3. m.is = "frame" /\ m.many = FALSE /\ m.frame = app.drawing
    BY DEF S!Frame
  <2>4. m \in ToHostMessages
    BY <2>1, Told
  <2> HIDE DEF m
  <2>5. Speaks /\ toHost' \in Seq(Stamped)
    <3>2. <<m>> \in Seq(ToHostMessages) /\ Len(<<m>>) = 1 /\ \A k \in 1..Len(<<m>>) : <<m>>[k] = m
      BY <2>4
    <3>3. toHost' \in Seq(Stamped)
      BY <1>1, <2>1, <2>2, <3>2, SayAdds
    <3>4. Speaks
      <4> DEFINE ms == <<m>>
      <4> HIDE DEF ms
      <4> QED
        BY <1>1, <2>1, <2>2, <2>3, <3>2 DEF Speaks, Word, ms
    <3> QED
      BY <3>3, <3>4
  <2> QED
    BY <1>1, <2>1, <2>2, <2>5 DEF Walks, Works
<1> QED
  BY <1>2, <1>3

LEMMA LastWord ==
    ASSUME NEW M, NEW x \in Seq(M), NEW m \in M
    PROVE  /\ x \o <<m>> \in Seq(M) /\ Len(x \o <<m>>) = Len(x) + 1
           /\ \A i \in 1..Len(x \o <<m>>) :
                 \/ i \in 1..Len(x) /\ (x \o <<m>>)[i] = x[i]
                 \/ i = Len(x \o <<m>>) /\ (x \o <<m>>)[i] = m
<1> DEFINE y == <<m>>
           w == x \o y
<1>3. y \in Seq(M) /\ Len(y) = 1 /\ y[1] = m
  OBVIOUS
<1> HIDE DEF y
<1>4. /\ w \in Seq(M) /\ Len(w) = Len(x) + Len(y)
      /\ \A i \in 1..Len(x) : w[i] = x[i]
      /\ \A i \in 1..Len(w) : \/ i \in 1..Len(x) /\ w[i] = x[i]
                              \/ i > Len(x) /\ i - Len(x) \in 1..Len(y) /\ w[i] = y[i - Len(x)]
  <2>1. x \in Seq(M) /\ y \in Seq(M)
    BY <1>3
  <2> HIDE DEF w
  <2> QED
    BY <2>1, JoinAt, Zenon DEF w
<1>6. Len(x) \in Nat
  OBVIOUS
<1> HIDE DEF w
<1>5. ASSUME NEW i \in 1..Len(w)
      PROVE  (i \in 1..Len(x) /\ w[i] = x[i]) \/ (i = Len(w) /\ w[i] = m)
  <2>1. CASE i \in 1..Len(x) /\ w[i] = x[i]
    BY <2>1
  <2>2. CASE i > Len(x) /\ i - Len(x) \in 1..Len(y) /\ w[i] = y[i - Len(x)]
    <3>1. i - Len(x) = 1 /\ i = Len(w)
      BY <1>3, <1>4, <1>6, <2>2
    <3> QED
      BY <1>3, <2>2, <3>1
  <2> QED
    BY <1>4, <2>1, <2>2
<1> QED
  BY <1>3, <1>4, <1>5 DEF w, y

LEMMA SavingSteps ==
    ASSUME NilAssumption, SessionTypes, S!HandleExit \/ S!WritePartial \/ S!RenamePartial \/ S!ReportSaved
    PROVE  SessionTypes' /\ UNCHANGED host /\ Speaks /\ Walks
<1> USE DEF SessionTypes
<1>1. app \in Processes /\ app.seen \in Nat /\ app.seen + 1 \in Nat /\ app.memory \in {0, 1}
      /\ toHost \in Seq(Stamped) /\ disk \in Disks /\ UNCHANGED host
  BY DEF S!HandleExit, S!WritePartial, S!RenamePartial, S!ReportSaved, Processes
<1>2. CASE S!HandleExit
  <2>1. PICK x \in Reasons : S!LoopReads(S!PrepareToExit(x))
    BY <1>2 DEF S!HandleExit
  <2> DEFINE m == S!PrepareToExit(x)
             at == IF app.granted THEN "writing" ELSE "unsaved"
  <2>2. /\ app.pc = "loop" /\ toApp # <<>> /\ Head(toApp) = m /\ toApp' = Tail(toApp)
        /\ m.is = "exit" /\ m.reason = x /\ UNCHANGED toHost
    BY <1>2, <2>1 DEF S!LoopReads, S!PrepareToExit, S!HandleExit, S!Silent
  <2>3. app' = [app EXCEPT !.pc = at, !.exit = x, !.seen = app.seen + 1]
    BY <1>2, <2>2 DEF S!HandleExit
  <2>4. toApp' \in Seq(ToAppMessages) /\ m \in ToAppMessages
    BY <2>2, ReadingTypes
  <2>5. at \in {"writing", "unsaved"} /\ at \in AppPcs
    BY DEF AppPcs
  <2> HIDE DEF m, at
  <2>6. /\ app' \in Processes /\ app'.pc = at /\ app'.exit = x /\ app'.sdk = app.sdk
        /\ app'.published = app.published /\ app'.seen = app.seen + 1
    BY <1>1, <2>3, <2>5 DEF Processes
  <2>7. disk' \in Disks
    <3>1. disk' = disk \/ disk' = [disk EXCEPT !.partial = 2]
      BY <1>2 DEF S!HandleExit, S!Torn
    <3>2. [disk EXCEPT !.partial = 2] \in Disks
      BY <1>1 DEF Disks
    <3> QED
      BY <1>1, <3>1, <3>2
  <2>8. Reads(m)
    BY <2>2, <2>5, <2>6 DEF Reads, Notice
  <2>9. Walks
    BY <2>2, <2>4, <2>5, <2>6, <2>8 DEF Walks
  <2> QED
    BY <1>1, <2>2, <2>4, <2>5, <2>6, <2>7, <2>9 DEF Speaks
<1>3. CASE S!WritePartial
  <2>1. app.pc = "writing" /\ UNCHANGED <<toApp, toHost>>
    BY <1>3 DEF S!WritePartial
  <2>2. \/ disk' = [disk EXCEPT !.partial = app.memory] /\ app' = [app EXCEPT !.pc = "renaming"]
        \/ disk' = disk /\ app' = [app EXCEPT !.pc = "unsaved"]
    BY <1>3 DEF S!WritePartial
  <2>3. /\ app' \in Processes /\ app'.pc \in {"renaming", "unsaved"} /\ app'.exit = app.exit /\ app'.sdk = app.sdk
        /\ app'.published = app.published /\ app'.seen = app.seen
    BY <1>1, <2>2 DEF Processes, AppPcs
  <2>4. disk' \in Disks
    <3>1. [disk EXCEPT !.partial = app.memory] \in Disks
      BY <1>1 DEF Disks
    <3> QED
      BY <1>1, <2>2, <3>1
  <2>5. Walks
    BY <2>1, <2>3 DEF Walks, Works
  <2> QED
    BY <1>1, <2>1, <2>3, <2>4, <2>5 DEF Speaks
<1>4. CASE S!RenamePartial
  <2>1. app.pc = "renaming" /\ UNCHANGED <<toApp, toHost>>
    BY <1>4 DEF S!RenamePartial
  <2>2. \/ disk' = [save |-> app.memory, partial |-> Nil] /\ app' = [app EXCEPT !.pc = "saved"]
        \/ disk' = disk /\ app' = [app EXCEPT !.pc = "unsaved"]
    BY <1>4 DEF S!RenamePartial
  <2>3. /\ app' \in Processes /\ app'.pc \in {"saved", "unsaved"} /\ app'.exit = app.exit /\ app'.sdk = app.sdk
        /\ app'.published = app.published /\ app'.seen = app.seen
        /\ app'.pc = "saved" => disk'.save = app'.memory
    <3>1. /\ [app EXCEPT !.pc = "saved"] \in Processes /\ [app EXCEPT !.pc = "unsaved"] \in Processes
          /\ [app EXCEPT !.pc = "saved"].memory = app.memory
      BY <1>1 DEF Processes, AppPcs
    <3>2. CASE app' = [app EXCEPT !.pc = "saved"] /\ disk' = [save |-> app.memory, partial |-> Nil]
      BY <1>1, <3>1, <3>2 DEF Processes
    <3>3. CASE app' = [app EXCEPT !.pc = "unsaved"]
      BY <1>1, <3>1, <3>3 DEF Processes
    <3> QED
      BY <2>2, <3>2, <3>3
  <2>4. disk' \in Disks
    <3>1. [save |-> app.memory, partial |-> Nil] \in Disks
      BY <1>1 DEF Disks
    <3> QED
      BY <1>1, <2>2, <3>1
  <2>5. Walks
    BY <2>1, <2>3 DEF Walks, Works
  <2> QED
    BY <1>1, <2>1, <2>3, <2>4, <2>5 DEF Speaks
<1>5. CASE S!ReportSaved
  <2> DEFINE x == IF app.pc = "saved" THEN <<>> ELSE <<S!Diagnostic(FALSE)>>
             ok == app.pc = "saved"
             m == S!Saved(app.exit, ok)
             ms == x \o <<m>>
  <2>1. /\ app.pc \in {"saved", "unsaved"} /\ app' = [app EXCEPT !.pc = "ended"]
        /\ S!Say(ms) /\ UNCHANGED <<toApp, disk>>
    BY <1>5 DEF S!ReportSaved
  <2>2. /\ app' \in Processes /\ app'.pc = "ended" /\ app'.sdk = app.sdk /\ app'.seen = app.seen
        /\ app'.published = app.published /\ app'.memory = app.memory
    BY <1>1, <2>1 DEF Processes, AppPcs
  <2>3. m \in ToHostMessages /\ m.is = "saved" /\ m.reason = app.exit /\ m.ok = ok
    <3>1. ok \in BOOLEAN /\ app.exit \in Reasons
      BY <2>1
    <3> QED
      BY <3>1, Told DEF S!Saved
  <2>4. S!Diagnostic(FALSE) \in ToHostMessages /\ S!Diagnostic(FALSE).is = "diagnostic"
        /\ S!Diagnostic(FALSE).long = FALSE
    BY Told DEF S!Diagnostic
  <2> DEFINE d == S!Diagnostic(FALSE)
  <2>5. d \in ToHostMessages /\ (x = <<>> \/ x = <<d>>)
    BY <2>4
  <2> HIDE DEF x, m, d
  <2>6. x \in Seq(ToHostMessages) /\ \A k \in 1..Len(x) : x[k] = d
    <3>1. CASE x = <<>>
      BY <3>1
    <3>2. CASE x = <<d>>
      BY <2>5, <3>2
    <3> QED
      BY <2>5, <3>1, <3>2
  <2>7. ms \in Seq(ToHostMessages) /\ \A i \in 1..Len(ms) : ms[i] = d \/ (i = Len(ms) /\ ms[i] = m)
    <3>1. /\ x \o <<m>> \in Seq(ToHostMessages) /\ Len(x \o <<m>>) = Len(x) + 1
          /\ \A i \in 1..Len(x \o <<m>>) :
                \/ i \in 1..Len(x) /\ (x \o <<m>>)[i] = x[i]
                \/ i = Len(x \o <<m>>) /\ (x \o <<m>>)[i] = m
      BY <2>3, <2>6, LastWord
    <3> QED
      BY <2>6, <3>1
  <2> HIDE DEF ms
  <2>9. Speaks
    <3>1. \A k \in 1..Len(ms) : Word(ms[k], Len(ms) = 1, k = Len(ms))
      BY <2>1, <2>2, <2>3, <2>4, <2>7 DEF d, Word
    <3> QED
      BY <2>1, <2>7, <3>1 DEF Speaks
  <2>10. toHost' \in Seq(Stamped)
    BY <1>1, <2>1, <2>2, <2>7, SayAdds
  <2>11. Walks
    BY <2>1, <2>2 DEF Walks
  <2> QED
    BY <1>1, <2>1, <2>2, <2>9, <2>10, <2>11
<1> QED
  BY <1>2, <1>3, <1>4, <1>5

LEMMA EndingSteps ==
    ASSUME SessionTypes, S!HandleGoodbye \/ S!Die
    PROVE  SessionTypes' /\ UNCHANGED host /\ Speaks /\ Walks
<1> USE DEF SessionTypes
<1>1. /\ app \in Processes /\ UNCHANGED <<host, toHost, disk>> /\ app.pc \notin {"ended", "dead"}
      /\ app' = [app EXCEPT !.pc = "ended"] \/ app' = [app EXCEPT !.pc = "dead"]
      /\ toApp' = toApp \/ (toApp # <<>> /\ toApp' = Tail(toApp))
  BY DEF S!HandleGoodbye, S!Die, S!LoopReads
<1>2. /\ app' \in Processes /\ app'.pc \in {"ended", "dead"} /\ app'.sdk = app.sdk
      /\ app'.published = app.published /\ app'.memory = app.memory
  BY <1>1 DEF Processes, AppPcs
<1>3. toApp' \in Seq(ToAppMessages)
  BY <1>1, ReadingTypes
<1>4. Walks
  BY <1>1, <1>2 DEF Walks
<1>5. Speaks
  BY <1>1 DEF Speaks
<1> QED
  BY <1>1, <1>2, <1>3, <1>4, <1>5

LEMMA AppSteps ==
    ASSUME NilAssumption, SessionTypes, S!Loop \/ S!Die
    PROVE  SessionTypes' /\ UNCHANGED host /\ Speaks /\ Walks
BY StartSteps, EventSteps, FrameSteps, SavingSteps, EndingSteps DEF S!Loop

LEMMA Heard ==
    ASSUME SessionTypes, app'.seen \in Nat, Speaks
    PROVE  /\ Len(toHost) \in Nat /\ Len(toHost') \in Nat /\ Len(toHost') >= Len(toHost)
           /\ \A i \in 1..Len(toHost) : i \in 1..Len(toHost') /\ toHost'[i] = toHost[i]
           /\ \A i \in 1..Len(toHost') : i \notin 1..Len(toHost) =>
                 /\ i > Len(toHost) /\ toHost'[i].seen = app'.seen /\ toHost'[i].msg \in ToHostMessages
                 /\ Word(toHost'[i].msg, i = Len(toHost) + 1 /\ i = Len(toHost'), i = Len(toHost'))
<1>1. toHost \in Seq(Stamped) /\ Len(toHost) \in Nat
  BY DEF SessionTypes
<1>2. CASE UNCHANGED toHost
  BY <1>1, <1>2
<1>3. CASE ~UNCHANGED toHost
  <2>1. PICK ms \in Seq(ToHostMessages) : S!Say(ms) /\ \A k \in 1..Len(ms) : Word(ms[k], Len(ms) = 1, k = Len(ms))
    BY <1>3 DEF Speaks
  <2>2. Len(ms) \in Nat /\ \A k \in 1..Len(ms) : ms[k] \in ToHostMessages
    OBVIOUS
  <2>3. /\ toHost' \in Seq(Stamped) /\ Len(toHost') = Len(toHost) + Len(ms)
        /\ \A i \in 1..Len(toHost) : toHost'[i] = toHost[i]
        /\ \A i \in 1..Len(toHost') :
             \/ i \in 1..Len(toHost) /\ toHost'[i] = toHost[i]
             \/ /\ i > Len(toHost) /\ i - Len(toHost) \in 1..Len(ms)
                /\ toHost'[i].msg = ms[i - Len(toHost)] /\ toHost'[i].seen = app'.seen
    BY <1>1, <2>1, SayAdds
  <2>4. ASSUME NEW i \in 1..Len(toHost'), i \notin 1..Len(toHost)
        PROVE  /\ i > Len(toHost) /\ toHost'[i].seen = app'.seen /\ toHost'[i].msg \in ToHostMessages
               /\ Word(toHost'[i].msg, i = Len(toHost) + 1 /\ i = Len(toHost'), i = Len(toHost'))
    <3> DEFINE k == i - Len(toHost)
    <3>1. /\ i > Len(toHost) /\ k \in 1..Len(ms) /\ toHost'[i].msg = ms[k] /\ toHost'[i].seen = app'.seen
      BY <2>3, <2>4
    <3>2. /\ Len(ms) = 1 => i = Len(toHost) + 1 /\ i = Len(toHost')
          /\ k = Len(ms) => i = Len(toHost')
      BY <1>1, <2>2, <2>3, <3>1
    <3> HIDE DEF k
    <3>3. Word(ms[k], Len(ms) = 1, k = Len(ms))
      BY <2>1, <3>1
    <3> QED
      BY <2>2, <3>1, <3>2, <3>3 DEF Word
  <2> QED
    BY <1>1, <2>2, <2>3, <2>4
<1> QED
  BY <1>2, <1>3

(* An app that does not link the SDK.                                         *)
LEMMA AnythingSteps ==
    ASSUME SessionTypes, S!SendAnything
    PROVE  SessionTypes' /\ UNCHANGED <<host, app, disk>> /\ ~app.sdk
<1> USE DEF SessionTypes
<1>1. PICK m \in S!AppMessage(0..MaxDraws - 1) : S!Say(<<m>>)
  BY DEF S!SendAnything
<1>2. UNCHANGED <<host, toApp, app, disk>> /\ ~app.sdk
  BY DEF S!SendAnything
<1>3. m \in ToHostMessages
  <2>1. 0..MaxDraws - 1 \subseteq Nat /\ 0 \in Nat
    OBVIOUS
  <2>2. S!SystemQuery(0) \in ToHostMessages
    BY <2>1, Told
  <2> DEFINE frames == {S!Frame(f, many) : f \in 0..MaxDraws - 1, many \in BOOLEAN}
             saves == {S!Saved(x, TRUE) : x \in Reasons}
             readies == {S!Ready(v) : v \in {"same", "newer"}}
             lines == {S!Diagnostic(long) : long \in BOOLEAN}
  <2>3. S!AppMessage(0..MaxDraws - 1) =
          readies \union frames \union {S!Request, S!SystemQuery(0)} \union saves \union lines
    BY DEF S!AppMessage
  <2>4. frames \subseteq ToHostMessages
    BY <2>1, Told DEF S!Frame
  <2>5. saves \subseteq ToHostMessages
    BY Told DEF S!Saved
  <2>6. readies \subseteq ToHostMessages
    BY Told DEF S!Ready
  <2>7. lines \subseteq ToHostMessages
    BY Told DEF S!Diagnostic
  <2>8. S!Request \in ToHostMessages
    BY Told
  <2> HIDE DEF frames, saves, readies, lines
  <2> QED
    BY <1>1, <2>2, <2>3, <2>4, <2>5, <2>6, <2>7, <2>8
<1>4. <<m>> \in Seq(ToHostMessages) /\ toHost \in Seq(Stamped) /\ app'.seen \in Nat
  BY <1>2, <1>3 DEF Processes
<1>5. toHost' \in Seq(Stamped)
  BY <1>1, <1>4, SayAdds
<1> QED
  BY <1>2, <1>5

(* ------------------------------------------------------------------------- *)
(* What is true between the host and the app's process.                      *)
Alive == app.pc \notin {"ended", "dead"}
Asks(m) == m.is \in {"request", "query"}

(* The host's frames: what it asked for is new, was accepted or was given up. *)
HostInv ==
    /\ host.violation # Nil => host.state = "Closed"
    /\ host.state = "Exiting" => host.exiting \in Reasons
    /\ \A f \in host.accepted \union host.abandoned : f < host.next
    /\ host.outstanding # Nil => /\ host.outstanding < host.next
                                 /\ host.outstanding \notin host.accepted \union host.abandoned
    /\ host.accepted \intersect host.abandoned = {}

(* A frame is reported when it is published.                                  *)
PublishedInv ==
    /\ host.accepted \subseteq app.published
    /\ app.pc = "drawing" => app.drawing \in app.published
    /\ \A i \in 1..Len(toHost) : toHost[i].msg.is = "frame" => toHost[i].msg.frame \in app.published

(* A save is reported when it is on disk, and the process does nothing after. *)
SavedInv ==
    /\ app.pc = "saved" => disk.save = app.memory
    /\ \A i \in 1..Len(toHost) :
          toHost[i].msg.is = "saved" => ~Alive /\ (toHost[i].msg.ok = TRUE => disk.save = app.memory)
    /\ host.saved = TRUE => ~Alive /\ disk.save = app.memory

(* What was said knowing of every notice can still be heard.                  *)
SaidInv ==
    \A i \in 1..Len(toHost) :
        LET m == toHost[i].msg
        IN  /\ toHost[i].seen <= host.notices
            /\ host.state = "Closed" => toHost[i].seen < host.notices
            /\ m.is = "ready" => i = 1 /\ m.protocol = "same" /\ host.state \in {"Greeting", "Closed"}
            /\ m.is = "diagnostic" => ~m.long
            /\ m.is = "frame" => ~m.many
            /\ m.is = "saved" => /\ i = Len(toHost) /\ ~Alive
                                 /\ host.state # "Closed" => host.state = "Exiting" /\ m.reason = host.exiting
            /\ Asks(m) /\ toHost[i].seen = host.notices => host.state # "Exiting"

(* Where the app is in the conversation.                                      *)
TurnInv ==
    /\ app.pc = "boot" => toHost = <<>> /\ host.state \in {"Greeting", "Closed"}
    /\ host.state = "Greeting" => /\ toHost # <<>> => toHost[1].msg.is = "ready"
                                  /\ app.pc \notin {"boot", "ended", "dead"} => toHost # <<>>
    /\ host.state = "Exiting" /\ app.pc \in {"boot", "loop", "drawing"} =>
           \E i \in 1..Len(toApp) : toApp[i].is = "exit"
    /\ \A i \in 1..Len(toApp) : toApp[i].is = "exit" =>
           host.state \in {"Exiting", "Closed"} /\ (host.state = "Exiting" => toApp[i].reason = host.exiting)
    /\ app.pc \in {"writing", "renaming", "saved", "unsaved"} =>
           host.state \in {"Exiting", "Closed"} /\ (host.state = "Exiting" => app.exit = host.exiting)
    /\ host.state = "Closed" /\ Alive => \E i \in 1..Len(toApp) : toApp[i].is = "goodbye"

(* The one frame that is asked for: the draw has not crossed a notice, or it  *)
(* is being drawn, or it is reported.                                         *)
LiveDraw(i) == toApp[i].is = "draw" /\ \A j \in 1..Len(toApp) : j > i => ~Notice(toApp[j])
LiveDrawing == app.pc = "drawing" /\ \A j \in 1..Len(toApp) : ~Notice(toApp[j])
LiveFrame(i) == toHost[i].msg.is = "frame" /\ toHost[i].seen = host.notices
Asked(f) == host.state = "Running" /\ host.outstanding = f
FrameInv ==
    host.state # "Closed" =>
        /\ \A i \in 1..Len(toApp) : toApp[i].is = "draw" =>
              /\ toApp[i].frame < host.next
              /\ host.outstanding = toApp[i].frame => LiveDraw(i)
              /\ LiveDraw(i) => Asked(toApp[i].frame) /\ \A j \in 1..Len(toApp) : LiveDraw(j) => i = j
        /\ app.pc = "drawing" =>
              /\ app.drawing < host.next
              /\ host.outstanding = app.drawing => LiveDrawing
              /\ LiveDrawing => Asked(app.drawing) /\ \A i \in 1..Len(toApp) : ~LiveDraw(i)
        /\ \A i \in 1..Len(toHost) : toHost[i].msg.is = "frame" =>
              /\ toHost[i].msg.frame < host.next
              /\ host.outstanding = toHost[i].msg.frame => LiveFrame(i)
              /\ LiveFrame(i) => /\ Asked(toHost[i].msg.frame) /\ ~LiveDrawing
                                 /\ \A j \in 1..Len(toHost) : LiveFrame(j) => i = j
                                 /\ \A j \in 1..Len(toApp) : ~LiveDraw(j)

(* The notices on their way are those the app has not seen: g[i] is how many  *)
(* it will have seen once it has read i messages.                             *)
Counts(g, q, seen, told) ==
    /\ g[0] = seen /\ g[Len(q)] = told
    /\ \A i \in 1..Len(q) : g[i] = g[i - 1] + (IF Notice(q[i]) THEN 1 ELSE 0)
    /\ \A i, j \in 0..Len(q) : i <= j =>
          g[i] <= g[j] /\ ((\A k \in i + 1..j : ~Notice(q[k])) => g[i] = g[j])

Counted == Alive => \E g \in [0..Len(toApp) -> Nat] : Counts(g, toApp, app.seen, host.notices)

TalkInv == SaidInv /\ TurnInv /\ FrameInv /\ Counted

SessionInv ==
    /\ SessionTypes
    /\ HostInv
    /\ app.sdk => PublishedInv /\ SavedInv
    /\ app.sdk /\ host.violation = Nil => TalkInv
    /\ app.sdk /\ host.violation # Nil => host.crossing

(* Sequences that lose their head or gain a last element.                     *)
LEMMA HeadGoes ==
    ASSUME NEW M, NEW q \in Seq(M), q # <<>>
    PROVE  /\ Len(q) \in Nat /\ Len(q) >= 1 /\ Tail(q) \in Seq(M) /\ Len(Tail(q)) = Len(q) - 1
           /\ Head(q) = q[1]
           /\ \A i \in 1..Len(Tail(q)) : i + 1 \in 1..Len(q) /\ i + 1 > 1 /\ Tail(q)[i] = q[i + 1]
           /\ \A i \in 1..Len(q) : i # 1 => i - 1 \in 1..Len(Tail(q)) /\ Tail(q)[i - 1] = q[i]
<1>1. /\ Len(q) \in Nat /\ Len(q) >= 1 /\ Tail(q) \in Seq(M) /\ Len(Tail(q)) = Len(q) - 1 /\ Head(q) = q[1]
  OBVIOUS
<1>2. \A i \in 1..Len(Tail(q)) : i + 1 \in 1..Len(q) /\ i + 1 > 1 /\ Tail(q)[i] = q[i + 1]
  BY <1>1
<1>3. ASSUME NEW i \in 1..Len(q), i # 1
      PROVE  i - 1 \in 1..Len(Tail(q)) /\ Tail(q)[i - 1] = q[i]
  <2>1. i - 1 \in 1..Len(Tail(q)) /\ (i - 1) + 1 = i
    BY <1>1, <1>3
  <2>2. Tail(q)[i - 1] = q[(i - 1) + 1]
    BY <1>2, <2>1
  <2> QED
    BY <2>1, <2>2
<1> QED
  BY <1>1, <1>2, <1>3

LEMMA LastComes ==
    ASSUME NEW M, NEW q \in Seq(M), NEW m \in M
    PROVE  /\ Len(q) \in Nat /\ Append(q, m) \in Seq(M) /\ Len(Append(q, m)) = Len(q) + 1
           /\ Append(q, m)[Len(q) + 1] = m
           /\ \A i \in 1..Len(q) : i \in 1..Len(Append(q, m)) /\ Append(q, m)[i] = q[i]
           /\ \A i \in 1..Len(Append(q, m)) : i \in 1..Len(q) \/ i = Len(q) + 1
<1>1. /\ Len(q) \in Nat /\ Append(q, m) \in Seq(M) /\ Len(Append(q, m)) = Len(q) + 1
      /\ Append(q, m)[Len(q) + 1] = m
      /\ \A i \in 1..Len(q) : Append(q, m)[i] = q[i]
  OBVIOUS
<1> DEFINE w == Append(q, m)
<1> HIDE DEF w
<1>2. \A i \in 1..Len(w) : i \in 1..Len(q) \/ i = Len(q) + 1
  BY <1>1 DEF w
<1>3. \A i \in 1..Len(q) : i \in 1..Len(w)
  BY <1>1 DEF w
<1> QED
  BY <1>1, <1>2, <1>3 DEF w

(* Notices are read in the order they were sent.                              *)
LEMMA SeenBefore ==
    ASSUME SessionTypes, Counted, Alive
    PROVE  /\ app.seen <= host.notices
           /\ (\E i \in 1..Len(toApp) : Notice(toApp[i])) => app.seen < host.notices
           /\ (\A i \in 1..Len(toApp) : ~Notice(toApp[i])) => app.seen = host.notices
<1>1. PICK g \in [0..Len(toApp) -> Nat] : Counts(g, toApp, app.seen, host.notices)
  BY DEF Counted
<1>2. Len(toApp) \in Nat /\ 0 \in 0..Len(toApp) /\ Len(toApp) \in 0..Len(toApp)
      /\ g[0] \in Nat /\ g[Len(toApp)] \in Nat
  BY DEF SessionTypes
<1>3. g[0] <= g[Len(toApp)]
  BY <1>1, <1>2 DEF Counts
<1>4. ASSUME NEW i \in 1..Len(toApp), Notice(toApp[i])
      PROVE  app.seen < host.notices
  <2>1. i \in 0..Len(toApp) /\ i - 1 \in 0..Len(toApp) /\ 0 <= i - 1 /\ i <= Len(toApp)
        /\ g[i] \in Nat /\ g[i - 1] \in Nat
    BY <1>2
  <2>2. g[i] = g[i - 1] + 1
    BY <1>1, <1>4 DEF Counts
  <2>3. g[0] <= g[i - 1] /\ g[i] <= g[Len(toApp)]
    BY <1>1, <1>2, <2>1 DEF Counts
  <2> QED
    BY <1>1, <1>2, <2>1, <2>2, <2>3 DEF Counts
<1>5. ASSUME \A i \in 1..Len(toApp) : ~Notice(toApp[i])
      PROVE  app.seen = host.notices
  <2>1. \A k \in 0 + 1..Len(toApp) : ~Notice(toApp[k])
    BY <1>5
  <2>2. g[0] = g[Len(toApp)]
    BY <1>1, <1>2, <2>1 DEF Counts
  <2> QED
    BY <1>1, <2>2 DEF Counts
<1> QED
  BY <1>1, <1>3, <1>4, <1>5 DEF Counts

LEMMA NoticeComes ==
    ASSUME SessionTypes, Counted, NEW m \in ToAppMessages, toApp' = Append(toApp, m), app' = app,
           host'.notices = host.notices + (IF Notice(m) THEN 1 ELSE 0)
    PROVE  Counted'
<1> SUFFICES ASSUME Alive
             PROVE  \E f \in [0..Len(toApp') -> Nat] : Counts(f, toApp', app'.seen, host'.notices)
  BY DEF Counted, Alive
<1>1. PICK g \in [0..Len(toApp) -> Nat] : Counts(g, toApp, app.seen, host.notices)
  BY DEF Counted
<1>0. /\ Len(toApp) \in Nat /\ Len(toApp') = Len(toApp) + 1 /\ toApp'[Len(toApp) + 1] = m
      /\ \A i \in 1..Len(toApp) : toApp'[i] = toApp[i]
  <2>1. toApp \in Seq(ToAppMessages)
    BY DEF SessionTypes
  <2> QED
    BY <2>1
<1> DEFINE n == Len(toApp)
           q == toApp'
           f == [i \in 0..Len(q) |-> IF i <= n THEN g[i] ELSE host'.notices]
<1>2. /\ n \in Nat /\ Len(q) = n + 1 /\ q[n + 1] = m /\ host.notices \in Nat /\ host'.notices \in Nat
      /\ \A i \in 1..n : q[i] = toApp[i]
  <2>1. host.notices \in Nat
    BY DEF SessionTypes, Sessions
  <2> QED
    BY <1>0, <2>1
<1>3. /\ g[0] = app.seen /\ g[n] = host.notices
      /\ \A i \in 1..n : g[i] = g[i - 1] + (IF Notice(toApp[i]) THEN 1 ELSE 0)
      /\ \A i, j \in 0..n : i <= j =>
            g[i] <= g[j] /\ ((\A k \in i + 1..j : ~Notice(toApp[k])) => g[i] = g[j])
      /\ \A i \in 0..n : g[i] \in Nat
  BY <1>1 DEF Counts
<1> HIDE DEF n, q
<1>4. f \in [0..Len(q) -> Nat]
  BY <1>2, <1>3
<1>5. /\ \A i \in 0..n : i \in 0..Len(q) /\ f[i] = g[i]
      /\ f[n + 1] = host'.notices /\ n + 1 \in 0..Len(q)
  BY <1>2
<1> HIDE DEF f
<1>6. f[0] = app'.seen /\ f[Len(q)] = host'.notices
  BY <1>2, <1>3, <1>5
<1>7. ASSUME NEW i \in 1..Len(q)
      PROVE  f[i] = f[i - 1] + (IF Notice(q[i]) THEN 1 ELSE 0)
  <2>1. CASE i \in 1..n
    <3>1. i \in 0..n /\ i - 1 \in 0..n
      BY <1>2, <2>1
    <3> QED
      BY <1>2, <1>3, <1>5, <2>1, <3>1
  <2>2. CASE i = n + 1
    <3>1. i - 1 = n /\ n \in 0..n
      <4>1. n \in Nat
        BY <1>2
      <4> QED
        BY <2>2, <4>1
    <3> QED
      BY <1>2, <1>3, <1>5, <2>2, <3>1
  <2> QED
    BY <1>2, <2>1, <2>2
<1>8. ASSUME NEW i \in 0..Len(q), NEW j \in 0..Len(q), i <= j
      PROVE  f[i] <= f[j] /\ ((\A k \in i + 1..j : ~Notice(q[k])) => f[i] = f[j])
  <2>1. CASE j \in 0..n
    <3>1. i \in 0..n /\ \A k \in i + 1..j : k \in 1..n
      BY <1>2, <1>8, <2>1
    <3> QED
      BY <1>2, <1>3, <1>5, <1>8, <2>1, <3>1
  <2>2. CASE i \in 0..n /\ j = n + 1
    <3>1. n \in 0..n /\ i <= n
      BY <1>2, <2>2
    <3>2. g[i] <= g[n] /\ ((\A k \in i + 1..n : ~Notice(toApp[k])) => g[i] = g[n])
      BY <1>3, <2>2, <3>1
    <3>3. f[i] = g[i] /\ f[j] = host'.notices /\ g[i] \in Nat
      BY <1>3, <1>5, <2>2
    <3>4. ASSUME \A k \in i + 1..j : ~Notice(q[k])
          PROVE  f[i] = f[j]
      <4>1. ~Notice(m)
        BY <1>2, <2>2, <3>4
      <4>2. \A k \in i + 1..n : k \in i + 1..j /\ k \in 1..n
        BY <1>2, <2>2
      <4>3. \A k \in i + 1..n : ~Notice(toApp[k])
        BY <1>2, <3>4, <4>2
      <4> QED
        BY <1>2, <1>3, <3>2, <3>3, <4>1, <4>3
    <3>5. f[i] <= f[j]
      BY <1>2, <1>3, <3>2, <3>3
    <3> QED
      BY <3>4, <3>5
  <2>3. CASE i = n + 1 /\ j = n + 1
    BY <1>2, <1>5, <2>3
  <2> QED
    BY <1>2, <1>8, <2>1, <2>2, <2>3
<1>9. Counts(f, q, app'.seen, host'.notices)
  BY <1>6, <1>7, <1>8 DEF Counts
<1> QED
  BY <1>4, <1>9 DEF q

LEMMA NoticeGoes ==
    ASSUME SessionTypes, Counted, Alive, toApp # <<>>, toApp' = Tail(toApp), host'.notices = host.notices,
           app'.seen = app.seen + (IF Notice(Head(toApp)) THEN 1 ELSE 0)
    PROVE  Counted'
<1> SUFFICES \E f \in [0..Len(toApp') -> Nat] : Counts(f, toApp', app'.seen, host'.notices)
  BY DEF Counted
<1>1. PICK g \in [0..Len(toApp) -> Nat] : Counts(g, toApp, app.seen, host.notices)
  BY DEF Counted
<1> DEFINE n == Len(toApp)
           q == toApp'
           f == [i \in 0..Len(q) |-> g[i + 1]]
<1>2. /\ n \in Nat /\ n >= 1 /\ Len(q) = n - 1 /\ Head(toApp) = toApp[1]
      /\ \A i \in 1..Len(q) : i + 1 \in 1..n /\ q[i] = toApp[i + 1]
  <2>1. toApp \in Seq(ToAppMessages)
    BY DEF SessionTypes
  <2> QED
    BY <2>1, HeadGoes
<1>3. /\ g[0] = app.seen /\ g[n] = host.notices
      /\ \A i \in 1..n : g[i] = g[i - 1] + (IF Notice(toApp[i]) THEN 1 ELSE 0)
      /\ \A i, j \in 0..n : i <= j =>
            g[i] <= g[j] /\ ((\A k \in i + 1..j : ~Notice(toApp[k])) => g[i] = g[j])
      /\ \A i \in 0..n : g[i] \in Nat
  BY <1>1 DEF Counts
<1> HIDE DEF n, q
<1>4. \A i \in 0..Len(q) : i + 1 \in 0..n /\ i + 1 \in 1..n /\ i \in 0..n
  BY <1>2
<1>5. f \in [0..Len(q) -> Nat] /\ \A i \in 0..Len(q) : f[i] = g[i + 1]
  BY <1>3, <1>4
<1> HIDE DEF f
<1>6. f[0] = app'.seen /\ f[Len(q)] = host'.notices
  <2>1. 0 \in 0..Len(q) /\ Len(q) \in 0..Len(q) /\ Len(q) + 1 = n /\ 0 + 1 = 1 /\ 1 \in 1..n /\ 1 - 1 = 0
    BY <1>2
  <2>2. g[1] = g[0] + (IF Notice(toApp[1]) THEN 1 ELSE 0)
    BY <1>3, <2>1
  <2> QED
    BY <1>2, <1>3, <1>5, <2>1, <2>2
<1>7. ASSUME NEW i \in 1..Len(q)
      PROVE  f[i] = f[i - 1] + (IF Notice(q[i]) THEN 1 ELSE 0)
  <2>1. i \in 0..Len(q) /\ i - 1 \in 0..Len(q) /\ (i + 1) - 1 = (i - 1) + 1 /\ i + 1 \in 1..n
    BY <1>2
  <2>2. g[i + 1] = g[(i + 1) - 1] + (IF Notice(toApp[i + 1]) THEN 1 ELSE 0)
    BY <1>3, <2>1
  <2>3. f[i] = g[i + 1] /\ f[i - 1] = g[(i + 1) - 1] /\ q[i] = toApp[i + 1]
    BY <1>2, <1>5, <2>1
  <2> QED
    BY <2>2, <2>3
<1>8. ASSUME NEW i \in 0..Len(q), NEW j \in 0..Len(q), i <= j
      PROVE  f[i] <= f[j] /\ ((\A k \in i + 1..j : ~Notice(q[k])) => f[i] = f[j])
  <2>1. i + 1 \in 0..n /\ j + 1 \in 0..n /\ i + 1 <= j + 1
    BY <1>2, <1>8
  <2>2. /\ g[i + 1] <= g[j + 1]
        /\ (\A k \in (i + 1) + 1..j + 1 : ~Notice(toApp[k])) => g[i + 1] = g[j + 1]
    BY <1>3, <2>1
  <2>3. ASSUME \A k \in i + 1..j : ~Notice(q[k]), NEW k \in (i + 1) + 1..j + 1
        PROVE  ~Notice(toApp[k])
    <3>1. k - 1 \in i + 1..j /\ k - 1 \in 1..Len(q) /\ (k - 1) + 1 = k
      BY <1>2
    <3>2. q[k - 1] = toApp[(k - 1) + 1]
      BY <1>2, <3>1
    <3> QED
      BY <2>3, <3>1, <3>2
  <2> QED
    BY <1>5, <2>2, <2>3
<1>9. Counts(f, q, app'.seen, host'.notices)
  BY <1>6, <1>7, <1>8 DEF Counts
<1> QED
  BY <1>5, <1>9 DEF q

LEMMA NoticesStay ==
    ASSUME Counted, Alive, toApp' = toApp, host'.notices = host.notices, app'.seen = app.seen
    PROVE  Counted'
<1>1. PICK g \in [0..Len(toApp) -> Nat] : Counts(g, toApp, app.seen, host.notices)
  BY DEF Counted
<1>2. Counts(g, toApp', app'.seen, host'.notices)
  BY <1>1 DEF Counts
<1> QED
  BY <1>2 DEF Counted

(* ------------------------------------------------------------------------- *)
(* What the host does of its own accord, as far as the conversation goes.    *)
Ends == toHost = <<>> /\ ~Alive /\ toApp' = toApp /\ host'.state = "Closed"
Draws ==
    /\ host.state = "Running" /\ host'.state = "Running" /\ host.outstanding = Nil
    /\ host'.outstanding = host.next /\ toApp' = Append(toApp, S!Draw(host.next))
Warns(m) ==
    /\ host.state \in {"Running", "Suspended"} /\ host'.outstanding = Nil /\ toApp' = Append(toApp, m)
    /\ \/ m.is = "suspended" /\ host'.state = "Suspended"
       \/ m.is = "exit" /\ host'.state = "Exiting" /\ host'.exiting = m.reason
Leaves == host.state # "Closed" /\ host'.state = "Closed" /\ toApp' = Append(toApp, S!Goodbye)
Talks(m) ==
    /\ m.is \notin {"draw", "exit", "suspended", "goodbye"} /\ toApp' = Append(toApp, m)
    /\ host.state \in {"Running", "Suspended"} /\ host'.state \in {"Running", "Suspended"}
    /\ host.state = "Running" => host'.state = "Running"
    /\ host'.outstanding = host.outstanding

Moves ==
    /\ UNCHANGED <<toHost, app, disk>>
    /\ host'.violation = host.violation /\ host'.crossing = host.crossing
    /\ host'.saved = host.saved /\ host'.accepted = host.accepted
    /\ host'.exiting = host.exiting \/ host'.state = "Exiting"
    /\ \/ Ends /\ host'.notices = host.notices
       \/ Draws /\ host'.next = host.next + 1 /\ host'.notices = host.notices
       \/ \E m \in ToAppMessages : Warns(m) /\ host'.next = host.next /\ host'.notices = host.notices + 1
       \/ Leaves /\ host'.notices = host.notices + 1
       \/ \E m \in ToAppMessages : Talks(m) /\ host'.next = host.next /\ host'.notices = host.notices

LEMMA HostMoves ==
    ASSUME SessionTypes, HostInv, S!Host, ~S!HostReads
    PROVE  Moves /\ HostInv'
<1>1. host \in Sessions /\ host.next \in Nat /\ host.notices \in Nat /\ UNCHANGED <<toHost, app, disk>>
  BY HostTypes DEF SessionTypes, Sessions
<1>2. CASE S!HostSeesEof
  <2>1. host' = [host EXCEPT !.state = "Closed"] /\ UNCHANGED toApp /\ toHost = <<>> /\ ~Alive
    BY <1>2 DEF S!HostSeesEof, Alive
  <2> QED
    BY <1>1, <2>1 DEF Moves, Ends, HostInv, Sessions
<1>3. CASE S!HostDraws
  <2>1. /\ host' = [host EXCEPT !.next = host.next + 1, !.outstanding = host.next]
        /\ host.state = "Running" /\ host.outstanding = Nil
        /\ toApp' = Append(toApp, S!Draw(host.next))
    BY <1>3 DEF S!HostDraws
  <2>2. /\ host'.state = host.state /\ host'.next = host.next + 1 /\ host'.outstanding = host.next
        /\ host'.violation = host.violation /\ host'.crossing = host.crossing /\ host'.saved = host.saved
        /\ host'.accepted = host.accepted /\ host'.abandoned = host.abandoned
        /\ host'.exiting = host.exiting /\ host'.notices = host.notices
    BY <1>1, <2>1 DEF Sessions
  <2>3. Moves
    BY <1>1, <2>1, <2>2 DEF Moves, Draws
  <2>4. host.accepted \subseteq Nat /\ host.abandoned \subseteq Nat
    BY <1>1 DEF Sessions
  <2>5. \A f \in host.accepted \union host.abandoned : f < host.next + 1 /\ f # host.next
    BY <1>1, <2>4 DEF HostInv
  <2>6. host.next < host.next + 1
    BY <1>1
  <2>7. HostInv'
    BY <2>1, <2>2, <2>5, <2>6 DEF HostInv
  <2> QED
    BY <2>3, <2>7
<1>4. ASSUME NEW st \in {"Suspended", "Exiting"}, NEW x, NEW m \in ToAppMessages, NEW s \in Sessions,
             host.state \in {"Running", "Suspended"}, toApp' = Append(toApp, m),
             host' = [s EXCEPT !.state = st, !.exiting = x, !.notices = host.notices + 1],
             s.outstanding = Nil, s.abandoned = host.abandoned \union ({host.outstanding} \ {Nil}),
             s.next = host.next, s.accepted = host.accepted, s.violation = host.violation,
             s.crossing = host.crossing, s.saved = host.saved,
             \/ st = "Exiting" /\ x \in Reasons /\ m.is = "exit" /\ m.reason = x
             \/ st = "Suspended" /\ x = host.exiting /\ m.is = "suspended"
      PROVE  Moves /\ HostInv'
  <2>1. host.outstanding # Nil => host.outstanding \in Nat
    BY <1>1 DEF Sessions
  <2>3. /\ host'.state = st /\ host'.exiting = x /\ host'.notices = host.notices + 1
        /\ host'.outstanding = s.outstanding /\ host'.abandoned = s.abandoned /\ host'.next = s.next
        /\ host'.accepted = s.accepted /\ host'.violation = s.violation /\ host'.crossing = s.crossing
        /\ host'.saved = s.saved
    BY <1>4 DEF Sessions
  <2>4. /\ host'.outstanding = Nil /\ host'.abandoned = host.abandoned \union ({host.outstanding} \ {Nil})
        /\ host'.next = host.next /\ host'.accepted = host.accepted /\ host'.violation = host.violation
        /\ host'.crossing = host.crossing /\ host'.saved = host.saved
    BY <1>4, <2>3
  <2>5. Moves
    BY <1>1, <1>4, <2>3, <2>4 DEF Moves, Warns
  <2>6. HostInv'
    BY <1>4, <2>1, <2>3, <2>4 DEF HostInv
  <2> QED
    BY <2>5, <2>6
<1>5. CASE S!HostSuspends
  <2>1. /\ host' = [S!Forget(host) EXCEPT !.state = "Suspended", !.notices = host.notices + 1]
        /\ host.state = "Running" /\ toApp' = Append(toApp, S!Suspended)
    BY <1>1, <1>5, ForgetTypes DEF S!HostSuspends
  <2>2. S!Forget(host) \in Sessions /\ S!Forget(host).exiting = host.exiting
    BY <1>1, ForgetTypes
  <2>3. ASSUME NEW s \in Sessions, s.exiting = host.exiting
        PROVE  [s EXCEPT !.state = "Suspended", !.notices = host.notices + 1]
                 = [s EXCEPT !.state = "Suspended", !.exiting = host.exiting, !.notices = host.notices + 1]
    BY <2>3 DEF Sessions
  <2>4. S!Suspended \in ToAppMessages /\ S!Suspended.is = "suspended"
    BY ToAppKinds DEF S!Suspended
  <2> DEFINE s == S!Forget(host)
  <2>5. /\ s \in Sessions /\ s.outstanding = Nil /\ s.exiting = host.exiting
        /\ s.abandoned = host.abandoned \union ({host.outstanding} \ {Nil})
        /\ s.next = host.next /\ s.accepted = host.accepted /\ s.violation = host.violation
        /\ s.crossing = host.crossing /\ s.saved = host.saved
    BY <1>1, ForgetTypes
  <2>6. host' = [s EXCEPT !.state = "Suspended", !.notices = host.notices + 1]
    BY <2>1
  <2> HIDE DEF s
  <2>7. host' = [s EXCEPT !.state = "Suspended", !.exiting = host.exiting, !.notices = host.notices + 1]
    BY <2>3, <2>5, <2>6
  <2> QED
    BY <1>4, <2>1, <2>4, <2>5, <2>7
<1>6. CASE \E x \in Reasons : S!HostPreparesToExit(x)
  <2>1. PICK x \in Reasons : S!HostPreparesToExit(x)
    BY <1>6
  <2>2. /\ host' = [S!Forget(host) EXCEPT !.state = "Exiting", !.exiting = x, !.notices = host.notices + 1]
        /\ host.state \in {"Running", "Suspended"} /\ toApp' = Append(toApp, S!PrepareToExit(x))
    BY <1>1, <2>1, ForgetTypes DEF S!HostPreparesToExit
  <2> DEFINE m == S!PrepareToExit(x)
             s == S!Forget(host)
  <2>3. m \in ToAppMessages /\ m.is = "exit" /\ m.reason = x
    BY ToAppKinds DEF S!PrepareToExit
  <2>4. /\ s \in Sessions /\ s.outstanding = Nil
        /\ s.abandoned = host.abandoned \union ({host.outstanding} \ {Nil})
        /\ s.next = host.next /\ s.accepted = host.accepted /\ s.violation = host.violation
        /\ s.crossing = host.crossing /\ s.saved = host.saved
    BY <1>1, ForgetTypes
  <2>5. host' = [s EXCEPT !.state = "Exiting", !.exiting = x, !.notices = host.notices + 1]
        /\ toApp' = Append(toApp, m)
    BY <2>2
  <2> HIDE DEF m, s
  <2> QED
    BY <1>4, <2>2, <2>3, <2>4, <2>5
<1>7. CASE S!HostResumes
  <2>1. host' = [host EXCEPT !.state = "Running"] /\ host.state = "Suspended" /\ toApp' = Append(toApp, S!Resumed)
    BY <1>7 DEF S!HostResumes
  <2>2. S!Resumed \in ToAppMessages /\ S!Resumed.is = "resumed"
    BY ToAppKinds DEF S!Resumed
  <2>3. /\ host'.state = "Running" /\ host'.exiting = host.exiting /\ host'.notices = host.notices
        /\ host'.outstanding = host.outstanding /\ host'.abandoned = host.abandoned /\ host'.next = host.next
        /\ host'.accepted = host.accepted /\ host'.violation = host.violation /\ host'.crossing = host.crossing
        /\ host'.saved = host.saved
    BY <1>1, <2>1 DEF Sessions
  <2>4. HostInv'
    BY <2>1, <2>3 DEF HostInv
  <2>5. Talks(S!Resumed)
    BY <2>1, <2>2, <2>3 DEF Talks
  <2>6. Moves
    BY <1>1, <2>2, <2>3, <2>5 DEF Moves
  <2> QED
    BY <2>4, <2>6
<1>8. CASE S!HostCloses
  <2>1. /\ host' = [host EXCEPT !.state = "Closed", !.notices = host.notices + 1]
        /\ host.state # "Closed" /\ toApp' = Append(toApp, S!Goodbye)
    BY <1>8 DEF S!HostCloses
  <2> QED
    BY <1>1, <2>1 DEF Moves, Leaves, HostInv, Sessions
<1>9. CASE S!HostForwards
  <2>1. PICK m \in {S!Input, S!Greeting} : toApp' = Append(toApp, m)
    BY <1>9 DEF S!HostForwards
  <2>2. host' = host /\ host.state \in {"Running", "Suspended"}
    BY <1>9 DEF S!HostForwards
  <2>3. m \in ToAppMessages /\ m.is \in {"input", "hello"}
    BY <2>1, ToAppKinds DEF S!Input, S!Greeting
  <2>4. Talks(m)
    BY <2>1, <2>2, <2>3 DEF Talks
  <2>5. Moves
    BY <1>1, <2>2, <2>3, <2>4 DEF Moves
  <2>6. HostInv'
    BY <2>2 DEF HostInv
  <2> QED
    BY <2>5, <2>6
<1> QED
  BY <1>2, <1>3, <1>5, <1>6, <1>7, <1>8, <1>9 DEF S!Host

(* What the two sockets hold.                                                 *)
LEMMA Queued ==
    ASSUME SessionTypes
    PROVE  /\ Len(toHost) \in Nat /\ Len(toApp) \in Nat
           /\ \A i \in 1..Len(toHost) :
                 /\ toHost[i].seen \in Nat /\ toHost[i].msg \in ToHostMessages
                 /\ toHost[i].msg.is = "frame" => toHost[i].msg.frame \in Nat
           /\ \A i \in 1..Len(toApp) :
                 /\ toApp[i] \in ToAppMessages
                 /\ toApp[i].is = "draw" => toApp[i].frame \in Nat
<1>1. toHost \in Seq(Stamped) /\ toApp \in Seq(ToAppMessages)
  BY DEF SessionTypes
<1>2. ASSUME NEW i \in 1..Len(toHost)
      PROVE  /\ toHost[i].seen \in Nat /\ toHost[i].msg \in ToHostMessages
             /\ toHost[i].msg.is = "frame" => toHost[i].msg.frame \in Nat
  <2>1. toHost[i] \in Stamped
    BY <1>1
  <2>2. toHost[i].seen \in Nat /\ toHost[i].msg \in ToHostMessages
    BY <2>1 DEF Stamped
  <2> QED
    BY <2>2, ToHostKinds
<1>3. ASSUME NEW i \in 1..Len(toApp)
      PROVE  /\ toApp[i] \in ToAppMessages
             /\ toApp[i].is = "draw" => toApp[i].frame \in Nat
  <2>1. toApp[i] \in ToAppMessages
    BY <1>1
  <2> QED
    BY <2>1, ToAppKinds
<1> QED
  BY <1>1, <1>2, <1>3

(* A message goes to the end of the socket.                                   *)
LEMMA Sent ==
    ASSUME SessionTypes, NEW m \in ToAppMessages, toApp' = Append(toApp, m)
    PROVE  /\ Len(toApp) \in Nat /\ Len(toApp') = Len(toApp) + 1 /\ Len(toApp) + 1 \in 1..Len(toApp')
           /\ toApp'[Len(toApp) + 1] = m
           /\ \A i \in 1..Len(toApp) : i \in 1..Len(toApp') /\ toApp'[i] = toApp[i] /\ i < Len(toApp) + 1
           /\ \A i \in 1..Len(toApp') : i \in 1..Len(toApp) \/ i = Len(toApp) + 1
<1>1. toApp \in Seq(ToAppMessages)
  BY DEF SessionTypes
<1>2. /\ Len(toApp) \in Nat /\ Len(Append(toApp, m)) = Len(toApp) + 1
      /\ Append(toApp, m)[Len(toApp) + 1] = m
      /\ \A i \in 1..Len(toApp) : Append(toApp, m)[i] = toApp[i]
  BY <1>1
<1>3. /\ Len(toApp) \in Nat /\ Len(toApp') = Len(toApp) + 1
      /\ toApp'[Len(toApp) + 1] = m
      /\ \A i \in 1..Len(toApp) : toApp'[i] = toApp[i]
  BY <1>2
<1>4. Len(toApp) + 1 \in 1..Len(toApp')
  BY <1>3
<1>5. \A i \in 1..Len(toApp) : i \in 1..Len(toApp') /\ i < Len(toApp) + 1
  BY <1>3
<1>6. \A i \in 1..Len(toApp') : i \in 1..Len(toApp) \/ i = Len(toApp) + 1
  BY <1>3
<1> QED
  BY <1>3, <1>4, <1>5, <1>6

(* What was asked for stays asked for while the app is told nothing about it. *)
LEMMA LiveStays ==
    ASSUME SessionTypes, NEW m \in ToAppMessages, toApp' = Append(toApp, m), ~Notice(m)
    PROVE  /\ \A i \in 1..Len(toApp) : LiveDraw(i)' <=> LiveDraw(i)
           /\ m.is # "draw" => \A i \in 1..Len(toApp') : LiveDraw(i)' => i \in 1..Len(toApp)
           /\ app' = app => (LiveDrawing' <=> LiveDrawing)
<1>1. /\ Len(toApp) \in Nat /\ Len(toApp') = Len(toApp) + 1 /\ Len(toApp) + 1 \in 1..Len(toApp')
      /\ toApp'[Len(toApp) + 1] = m
      /\ \A i \in 1..Len(toApp) : i \in 1..Len(toApp') /\ toApp'[i] = toApp[i] /\ i < Len(toApp) + 1
      /\ \A i \in 1..Len(toApp') : i \in 1..Len(toApp) \/ i = Len(toApp) + 1
  BY Sent
<1>2. ASSUME NEW i \in 1..Len(toApp)
      PROVE  LiveDraw(i)' <=> LiveDraw(i)
  <2>1. i \in 1..Len(toApp') /\ toApp'[i] = toApp[i]
    BY <1>1
  <2>2. (\A j \in 1..Len(toApp') : j > i => ~Notice(toApp'[j]))
          <=> (\A j \in 1..Len(toApp) : j > i => ~Notice(toApp[j]))
    BY <1>1
  <2> QED
    BY <2>1, <2>2 DEF LiveDraw
<1>3. ASSUME m.is # "draw", NEW i \in 1..Len(toApp'), LiveDraw(i)'
      PROVE  i \in 1..Len(toApp)
  BY <1>1, <1>3 DEF LiveDraw
<1>4. ASSUME app' = app
      PROVE  LiveDrawing' <=> LiveDrawing
  <2>1. (\A j \in 1..Len(toApp') : ~Notice(toApp'[j])) <=> (\A j \in 1..Len(toApp) : ~Notice(toApp[j]))
    BY <1>1
  <2> QED
    BY <1>4, <2>1 DEF LiveDrawing
<1> QED
  BY <1>2, <1>3, <1>4

(* The app's messages before anything was refused.                            *)
LEMMA DrawTalks ==
    ASSUME NilAssumption, SessionTypes, TalkInv, Draws, UNCHANGED <<toHost, app, disk>>,
           host'.next = host.next + 1, host'.notices = host.notices
    PROVE  TalkInv'
<1> DEFINE m == S!Draw(host.next)
           n == Len(toApp)
<1>1. host.next \in Nat /\ host.notices \in Nat /\ Nil \notin Nat
  BY DEF SessionTypes, Sessions, NilAssumption
<1>2. m \in ToAppMessages /\ m.is = "draw" /\ m.frame = host.next /\ ~Notice(m)
  BY <1>1, ToAppKinds DEF S!Draw, Notice
<1>3. toApp' = Append(toApp, m)
  BY DEF Draws
<1> HIDE DEF m
<1>4. /\ n \in Nat /\ Len(toApp') = n + 1 /\ n + 1 \in 1..Len(toApp') /\ toApp'[n + 1] = m
      /\ \A i \in 1..n : i \in 1..Len(toApp') /\ toApp'[i] = toApp[i] /\ i < n + 1
      /\ \A i \in 1..Len(toApp') : i \in 1..n \/ i = n + 1
  BY <1>2, <1>3, Sent
<1>5. \A i \in 1..n : toApp[i].is = "draw" => toApp[i].frame \in Nat
  BY Queued
<1>6. app.pc = "drawing" => app.drawing \in Nat
  BY DEF SessionTypes
<1>7. /\ \A i \in 1..n : LiveDraw(i)' <=> LiveDraw(i)
      /\ LiveDrawing' <=> LiveDrawing
  BY <1>2, <1>3, LiveStays
<1>8. /\ host.state = "Running" /\ host'.state = "Running" /\ host.outstanding = Nil
      /\ host'.outstanding = host.next /\ host'.next = host.next + 1 /\ host'.notices = host.notices
  BY DEF Draws
<1>9. /\ toHost' = toHost /\ app' = app
      /\ \A i \in 1..Len(toHost) : toHost[i].msg.is = "frame" => toHost[i].msg.frame \in Nat
  BY Queued
<1>10. SaidInv'
  BY <1>8, <1>9 DEF TalkInv, SaidInv, Alive, Asks
<1>11. TurnInv'
  BY <1>2, <1>4, <1>8, <1>9 DEF TalkInv, TurnInv, Alive
<1>12. FrameInv'
  <2> HIDE DEF n
  <2>1. FrameInv
    BY DEF TalkInv
  <2>2. /\ \A i \in 1..n : toApp[i].is = "draw" => toApp[i].frame < host.next /\ ~LiveDraw(i)
        /\ app.pc = "drawing" => app.drawing < host.next /\ ~LiveDrawing
        /\ \A i \in 1..Len(toHost) : toHost[i].msg.is = "frame" => toHost[i].msg.frame < host.next /\ ~LiveFrame(i)
    BY <1>1, <1>5, <1>6, <1>8, <1>9, <2>1 DEF FrameInv, Asked, n
  <2>3. \A i \in 1..n : ~LiveDraw(i)
    BY <2>2 DEF LiveDraw, n
  <2>4. ASSUME NEW i \in 1..Len(toApp'), toApp'[i].is = "draw"
        PROVE  /\ toApp'[i].frame < host'.next
               /\ host'.outstanding = toApp'[i].frame => LiveDraw(i)'
               /\ LiveDraw(i)' => Asked(toApp[i].frame)' /\ \A j \in 1..Len(toApp') : LiveDraw(j)' => i = j
    <3>1. CASE i \in 1..n
      BY <1>1, <1>4, <1>5, <1>7, <1>8, <2>2, <2>4, <3>1
    <3>2. CASE i = n + 1
      <4>1. toApp'[i].frame = host.next /\ host.next < host.next + 1
        BY <1>1, <1>2, <1>4, <3>2
      <4>2. LiveDraw(i)'
        BY <1>4, <2>4, <3>2 DEF LiveDraw
      <4>3. \A j \in 1..Len(toApp') : LiveDraw(j)' => i = j
        BY <1>4, <1>7, <2>3, <3>2
      <4> QED
        BY <1>8, <4>1, <4>2, <4>3 DEF Asked
    <3> QED
      BY <1>4, <3>1, <3>2
  <2>5. app'.pc = "drawing" => app'.drawing < host'.next /\ host'.outstanding # app'.drawing /\ ~LiveDrawing'
    BY <1>1, <1>6, <1>7, <1>8, <1>9, <2>2
  <2>6. ASSUME NEW i \in 1..Len(toHost'), toHost'[i].msg.is = "frame"
        PROVE  toHost'[i].msg.frame < host'.next /\ host'.outstanding # toHost'[i].msg.frame /\ ~LiveFrame(i)'
    BY <1>1, <1>8, <1>9, <2>2, <2>6 DEF LiveFrame
  <2> QED
    BY <2>4, <2>5, <2>6 DEF FrameInv
<1>13. Counted'
  BY <1>1, <1>2, <1>3, <1>8, <1>9, NoticeComes DEF TalkInv
<1> QED
  BY <1>10, <1>11, <1>12, <1>13 DEF TalkInv

(* A notice gives up what was asked for.                                      *)
LEMMA WarnTalks ==
    ASSUME NilAssumption, SessionTypes, TalkInv, UNCHANGED <<toHost, app, disk>>,
           NEW m \in ToAppMessages, Warns(m), host'.exiting = host.exiting \/ host'.state = "Exiting",
           host'.next = host.next, host'.notices = host.notices + 1
    PROVE  TalkInv'
<1> DEFINE n == Len(toApp)
<1>1. host.next \in Nat /\ host.notices \in Nat /\ Nil \notin Nat
  BY DEF SessionTypes, Sessions, NilAssumption
<1>2. /\ host.state \in {"Running", "Suspended"} /\ host'.outstanding = Nil /\ toApp' = Append(toApp, m)
      /\ m.is \in {"suspended", "exit"} /\ Notice(m)
      /\ m.is = "suspended" => host'.state = "Suspended"
      /\ m.is = "exit" => host'.state = "Exiting" /\ host'.exiting = m.reason
  BY DEF Warns, Notice
<1>3. /\ n \in Nat /\ Len(toApp') = n + 1 /\ n + 1 \in 1..Len(toApp') /\ toApp'[n + 1] = m
      /\ \A i \in 1..n : i \in 1..Len(toApp') /\ toApp'[i] = toApp[i] /\ i < n + 1
      /\ \A i \in 1..Len(toApp') : i \in 1..n \/ i = n + 1
  BY <1>2, Sent
<1>4. toHost' = toHost /\ app' = app
  OBVIOUS
<1>5. \A i \in 1..Len(toHost) : /\ toHost[i].seen \in Nat
                                /\ toHost[i].msg.is = "frame" => toHost[i].msg.frame \in Nat
  BY Queued
<1>6. \A i \in 1..n : toApp[i].is = "draw" => toApp[i].frame \in Nat
  BY Queued
<1>7. SaidInv'
  <2>1. SaidInv
    BY DEF TalkInv
  <2>2. ASSUME NEW i \in 1..Len(toHost)
        PROVE  /\ toHost[i].seen <= host.notices + 1 /\ toHost[i].seen # host.notices + 1
               /\ toHost[i].msg.is \notin {"ready", "saved"}
               /\ toHost[i].msg.is = "diagnostic" => ~toHost[i].msg.long
               /\ toHost[i].msg.is = "frame" => ~toHost[i].msg.many
    <3>1. toHost[i].seen \in Nat /\ toHost[i].seen <= host.notices
      BY <1>5, <2>1 DEF SaidInv
    <3> QED
      BY <1>1, <1>2, <2>1, <3>1 DEF SaidInv
  <2> QED
    BY <1>2, <1>4, <2>2 DEF SaidInv
<1>8. TurnInv'
  <2>1. TurnInv
    BY DEF TalkInv
  <2>2. /\ host'.state \in {"Suspended", "Exiting"}
        /\ app.pc \notin {"boot", "writing", "renaming", "saved", "unsaved"}
        /\ \A i \in 1..n : toApp[i].is # "exit"
    BY <1>2, <2>1 DEF TurnInv
  <2>3. host'.state = "Exiting" => m.is = "exit" /\ host'.exiting = m.reason
    BY <1>2
  <2> HIDE DEF n
  <2> QED
    BY <1>2, <1>3, <1>4, <2>2, <2>3 DEF TurnInv
<1>9. FrameInv'
  <2>1. FrameInv /\ SaidInv
    BY DEF TalkInv
  <2>2. /\ \A i \in 1..n : toApp[i].is = "draw" => toApp[i].frame < host.next
        /\ app.pc = "drawing" => app.drawing < host.next
        /\ \A i \in 1..Len(toHost) : toHost[i].msg.is = "frame" => toHost[i].msg.frame < host.next
    BY <1>2, <2>1 DEF FrameInv
  <2>3. app.pc = "drawing" => app.drawing \in Nat
    BY DEF SessionTypes
  <2>4. ASSUME NEW i \in 1..Len(toApp'), toApp'[i].is = "draw"
        PROVE  toApp'[i].frame < host'.next /\ host'.outstanding # toApp'[i].frame /\ ~LiveDraw(i)'
    <3> HIDE DEF n
    <3>1. i \in 1..n /\ toApp'[i] = toApp[i] /\ i < n + 1
      BY <1>2, <1>3, <2>4
    <3>2. ~LiveDraw(i)'
      BY <1>2, <1>3, <3>1 DEF LiveDraw
    <3> QED
      BY <1>1, <1>2, <1>6, <2>2, <2>4, <3>1, <3>2
  <2>5. app'.pc = "drawing" => app'.drawing < host'.next /\ host'.outstanding # app'.drawing /\ ~LiveDrawing'
    <3> HIDE DEF n
    <3>1. ~LiveDrawing'
      BY <1>2, <1>3 DEF LiveDrawing
    <3> QED
      BY <1>1, <1>2, <1>4, <2>2, <2>3, <3>1
  <2>6. ASSUME NEW i \in 1..Len(toHost'), toHost'[i].msg.is = "frame"
        PROVE  toHost'[i].msg.frame < host'.next /\ host'.outstanding # toHost'[i].msg.frame /\ ~LiveFrame(i)'
    <3>1. i \in 1..Len(toHost) /\ toHost[i].seen <= host.notices /\ toHost[i].seen \in Nat
      BY <1>4, <1>5, <2>1, <2>6 DEF SaidInv
    <3>2. ~LiveFrame(i)'
      BY <1>1, <1>4, <3>1 DEF LiveFrame
    <3> QED
      BY <1>1, <1>2, <1>4, <1>5, <2>2, <2>6, <3>1, <3>2
  <2> QED
    BY <2>4, <2>5, <2>6 DEF FrameInv
<1>10. Counted'
  BY <1>1, <1>2, <1>4, NoticeComes DEF TalkInv
<1> QED
  BY <1>7, <1>8, <1>9, <1>10 DEF TalkInv

LEMMA LeaveTalks ==
    ASSUME SessionTypes, TalkInv, UNCHANGED <<toHost, app, disk>>, Leaves, host'.notices = host.notices + 1
    PROVE  TalkInv'
<1> DEFINE m == S!Goodbye
           n == Len(toApp)
<1>1. host.notices \in Nat
  BY DEF SessionTypes, Sessions
<1>2. m \in ToAppMessages /\ m.is = "goodbye" /\ Notice(m)
  BY ToAppKinds DEF S!Goodbye, Notice
<1>3. toApp' = Append(toApp, m) /\ host.state # "Closed" /\ host'.state = "Closed"
  BY DEF Leaves
<1> HIDE DEF m
<1>4. /\ n \in Nat /\ Len(toApp') = n + 1 /\ n + 1 \in 1..Len(toApp') /\ toApp'[n + 1] = m
      /\ \A i \in 1..n : i \in 1..Len(toApp') /\ toApp'[i] = toApp[i] /\ i < n + 1
      /\ \A i \in 1..Len(toApp') : i \in 1..n \/ i = n + 1
  BY <1>2, <1>3, Sent
<1>5. toHost' = toHost /\ app' = app
  OBVIOUS
<1>6. \A i \in 1..Len(toHost) : toHost[i].seen \in Nat
  BY Queued
<1>7. SaidInv'
  <2>1. SaidInv /\ (Alive' <=> Alive)
    BY <1>5 DEF TalkInv, Alive
  <2>2. ASSUME NEW i \in 1..Len(toHost)
        PROVE  /\ toHost[i].seen <= host.notices + 1 /\ toHost[i].seen < host.notices + 1
               /\ toHost[i].msg.is = "ready" => i = 1 /\ toHost[i].msg.protocol = "same"
               /\ toHost[i].msg.is = "saved" => i = Len(toHost) /\ ~Alive
               /\ toHost[i].msg.is = "diagnostic" => ~toHost[i].msg.long
               /\ toHost[i].msg.is = "frame" => ~toHost[i].msg.many
    <3>1. toHost[i].seen \in Nat /\ toHost[i].seen <= host.notices
      BY <1>6, <2>1 DEF SaidInv
    <3>2. toHost[i].seen <= host.notices + 1 /\ toHost[i].seen < host.notices + 1
      BY <1>1, <3>1
    <3> QED
      BY <2>1, <3>2 DEF SaidInv
  <2> QED
    BY <1>3, <1>5, <2>1, <2>2 DEF SaidInv
<1>8. TurnInv'
  <2>1. app.pc = "boot" => toHost = <<>>
    BY DEF TalkInv, TurnInv
  <2>2. \E i \in 1..Len(toApp') : toApp'[i].is = "goodbye"
    BY <1>2, <1>4
  <2> HIDE DEF n
  <2> QED
    BY <1>3, <1>5, <2>1, <2>2 DEF TurnInv
<1>9. FrameInv'
  BY <1>3 DEF FrameInv
<1>10. Counted'
  BY <1>1, <1>2, <1>3, <1>5, NoticeComes DEF TalkInv
<1> QED
  BY <1>7, <1>8, <1>9, <1>10 DEF TalkInv

LEMMA TalkTalks ==
    ASSUME NilAssumption, SessionTypes, TalkInv, UNCHANGED <<toHost, app, disk>>,
           NEW m \in ToAppMessages, Talks(m), host'.exiting = host.exiting \/ host'.state = "Exiting",
           host'.next = host.next, host'.notices = host.notices
    PROVE  TalkInv'
<1> DEFINE n == Len(toApp)
<1>1. host.next \in Nat /\ host.notices \in Nat /\ Nil \notin Nat
  BY DEF SessionTypes, Sessions, NilAssumption
<1>2. /\ host.state \in {"Running", "Suspended"} /\ host'.state \in {"Running", "Suspended"}
      /\ host.state = "Running" => host'.state = "Running"
      /\ host'.outstanding = host.outstanding /\ toApp' = Append(toApp, m)
      /\ m.is \notin {"draw", "exit", "suspended", "goodbye"} /\ ~Notice(m)
      /\ host'.next = host.next /\ host'.notices = host.notices
  BY DEF Talks, Notice
<1>3. /\ n \in Nat /\ Len(toApp') = n + 1 /\ n + 1 \in 1..Len(toApp') /\ toApp'[n + 1] = m
      /\ \A i \in 1..n : i \in 1..Len(toApp') /\ toApp'[i] = toApp[i] /\ i < n + 1
      /\ \A i \in 1..Len(toApp') : i \in 1..n \/ i = n + 1
  BY <1>2, Sent
<1>4. toHost' = toHost /\ app' = app
  OBVIOUS
<1>5. SaidInv'
  BY <1>2, <1>4 DEF TalkInv, SaidInv, Alive, Asks
<1>6. TurnInv'
  <2>1. TurnInv
    BY DEF TalkInv
  <2>2. /\ app.pc \notin {"boot", "writing", "renaming", "saved", "unsaved"}
        /\ \A i \in 1..n : toApp[i].is # "exit"
    BY <1>2, <2>1 DEF TurnInv
  <2> HIDE DEF n
  <2> QED
    BY <1>2, <1>3, <1>4, <2>2 DEF TurnInv
<1>7. FrameInv'
  <2>1. /\ \A i \in 1..n : LiveDraw(i)' <=> LiveDraw(i)
        /\ \A i \in 1..Len(toApp') : LiveDraw(i)' => i \in 1..n
        /\ LiveDrawing' <=> LiveDrawing
    BY <1>2, <1>4, LiveStays
  <2>2. FrameInv /\ host.state # "Closed"
    BY <1>2 DEF TalkInv
  <2>3. \A f : Asked(f) => Asked(f)'
    BY <1>2 DEF Asked
  <2>4. ASSUME NEW i \in 1..Len(toApp'), toApp'[i].is = "draw"
        PROVE  /\ toApp'[i].frame < host'.next
               /\ host'.outstanding = toApp'[i].frame => LiveDraw(i)'
               /\ LiveDraw(i)' => Asked(toApp[i].frame)' /\ \A j \in 1..Len(toApp') : LiveDraw(j)' => i = j
    <3>1. i \in 1..n /\ toApp'[i] = toApp[i] /\ toApp[i].is = "draw"
      BY <1>2, <1>3, <2>4
    <3>2. /\ toApp[i].frame < host.next
          /\ host.outstanding = toApp[i].frame => LiveDraw(i)
          /\ LiveDraw(i) => Asked(toApp[i].frame) /\ \A j \in 1..n : LiveDraw(j) => i = j
      BY <2>2, <3>1 DEF FrameInv
    <3>3. LiveDraw(i)' => Asked(toApp[i].frame)'
      BY <1>2, <2>1, <3>1, <3>2 DEF Asked
    <3> QED
      BY <1>2, <2>1, <3>1, <3>2, <3>3
  <2>5. app'.pc = "drawing" =>
              /\ app'.drawing < host'.next
              /\ host'.outstanding = app'.drawing => LiveDrawing'
              /\ LiveDrawing' => Asked(app.drawing)' /\ \A i \in 1..Len(toApp') : ~LiveDraw(i)'
    <3>1. app.pc = "drawing" =>
              /\ app.drawing < host.next
              /\ host.outstanding = app.drawing => LiveDrawing
              /\ LiveDrawing => Asked(app.drawing) /\ \A i \in 1..n : ~LiveDraw(i)
      BY <2>2 DEF FrameInv
    <3> QED
      BY <1>2, <1>4, <2>1, <3>1 DEF Asked
  <2>6. ASSUME NEW i \in 1..Len(toHost'), toHost'[i].msg.is = "frame"
        PROVE  /\ toHost'[i].msg.frame < host'.next
               /\ host'.outstanding = toHost'[i].msg.frame => LiveFrame(i)'
               /\ LiveFrame(i)' => /\ Asked(toHost[i].msg.frame)' /\ ~LiveDrawing'
                                   /\ \A j \in 1..Len(toHost') : LiveFrame(j)' => i = j
                                   /\ \A j \in 1..Len(toApp') : ~LiveDraw(j)'
    <3>1. \A j \in 1..Len(toHost) : LiveFrame(j)' <=> LiveFrame(j)
      BY <1>2, <1>4 DEF LiveFrame
    <3>2. /\ toHost[i].msg.frame < host.next
          /\ host.outstanding = toHost[i].msg.frame => LiveFrame(i)
          /\ LiveFrame(i) => /\ Asked(toHost[i].msg.frame) /\ ~LiveDrawing
                             /\ \A j \in 1..Len(toHost) : LiveFrame(j) => i = j
                             /\ \A j \in 1..n : ~LiveDraw(j)
      BY <1>4, <2>2, <2>6 DEF FrameInv
    <3>3. Asked(toHost[i].msg.frame) => Asked(toHost[i].msg.frame)'
      BY <1>2, <1>4 DEF Asked
    <3> QED
      BY <1>2, <1>4, <2>1, <3>1, <3>2, <3>3
  <2> QED
    BY <1>4, <2>4, <2>5, <2>6 DEF FrameInv
<1>8. Counted'
  BY <1>1, <1>2, <1>4, NoticeComes DEF TalkInv
<1> QED
  BY <1>5, <1>6, <1>7, <1>8 DEF TalkInv

LEMMA EndTalks ==
    ASSUME SessionTypes, TalkInv, UNCHANGED <<toHost, app, disk>>, Ends, host'.notices = host.notices
    PROVE  TalkInv'
<1>1. toHost' = <<>> /\ app' = app /\ ~Alive /\ ~Alive' /\ toApp' = toApp /\ host'.state = "Closed"
  BY DEF Ends, Alive
<1>2. Len(toHost') = 0
  BY <1>1
<1>3. SaidInv'
  BY <1>2 DEF SaidInv
<1>4. TurnInv'
  BY <1>1 DEF TalkInv, TurnInv, Alive
<1> QED
  BY <1>1, <1>3, <1>4 DEF TalkInv, FrameInv, Counted

LEMMA MovesTalk ==
    ASSUME NilAssumption, SessionTypes, TalkInv, Moves
    PROVE  TalkInv'
BY DrawTalks, WarnTalks, LeaveTalks, TalkTalks, EndTalks DEF Moves

(* ------------------------------------------------------------------------- *)
(* What the host reads: it is refused only if its sender had a notice to read. *)
LEMMA HeardKnowing ==
    ASSUME NilAssumption, SessionTypes, TalkInv, toHost # <<>>, toHost[1].seen = host.notices
    PROVE  S!Violation(host, toHost[1].msg) = Nil
<1> DEFINE m == toHost[1].msg
<1>1. Len(toHost) \in Nat /\ 1 \in 1..Len(toHost) /\ m \in ToHostMessages /\ host.notices \in Nat
  <2>1. toHost \in Seq(Stamped) /\ host.notices \in Nat
    BY DEF SessionTypes, Sessions
  <2>2. Len(toHost) \in Nat /\ 1 \in 1..Len(toHost)
    BY <2>1
  <2> QED
    BY <2>1, <2>2, Queued
<1>2. /\ m.is \in {"ready", "frame", "request", "query", "saved", "diagnostic"}
      /\ m.is = "frame" => m.frame \in Nat
  BY <1>1, ToHostKinds
<1>3. /\ host.state # "Closed"
      /\ m.is = "ready" => m.protocol = "same" /\ host.state \in {"Greeting", "Closed"}
      /\ m.is = "diagnostic" => ~m.long
      /\ m.is = "frame" => ~m.many
      /\ m.is = "saved" => host.state = "Exiting" /\ m.reason = host.exiting
      /\ Asks(m) => host.state # "Exiting"
  <2>1. SaidInv
    BY DEF TalkInv
  <2>2. host.state # "Closed"
    BY <1>1, <2>1 DEF SaidInv
  <2> QED
    BY <1>1, <2>1, <2>2 DEF SaidInv
<1>4. host.state = "Greeting" => m.is = "ready"
  BY DEF TalkInv, TurnInv
<1>5. m.is = "frame" => host.state = "Running" /\ host.outstanding = m.frame
  BY <1>1, <1>3 DEF TalkInv, FrameInv, LiveFrame, Asked
<1>6. host.state \in {"Greeting", "Running", "Suspended", "Exiting", "Closed"} /\ Nil \notin Nat
  BY DEF SessionTypes, Sessions, S!State, NilAssumption
<1> HIDE DEF m
<1>7. m.is = "ready" => S!Violation(host, m) = Nil
  BY <1>3, <1>6 DEF S!Violation, S!CanRun
<1>8. m.is = "frame" => S!Violation(host, m) = Nil
  BY <1>2, <1>3, <1>5, <1>6 DEF S!Violation, S!FrameViolation
<1>9. Asks(m) => S!Violation(host, m) = Nil
  BY <1>3, <1>4 DEF S!Violation, Asks
<1>10. m.is = "saved" => S!Violation(host, m) = Nil
  BY <1>3 DEF S!Violation
<1>11. m.is = "diagnostic" => S!Violation(host, m) = Nil
  BY <1>3 DEF S!Violation
<1>12. S!Violation(host, m) = Nil
  BY <1>2, <1>7, <1>8, <1>9, <1>10, <1>11 DEF Asks
<1> QED
  BY <1>12 DEF m

(* What is accepted is what the state allows.                                 *)
LEMMA Legal ==
    ASSUME NilAssumption, SessionTypes, HostInv, NEW m \in ToHostMessages, S!Violation(host, m) = Nil
    PROVE  /\ host.state # "Closed" /\ host.violation = Nil
           /\ m.is = "ready" => host.state = "Greeting"
           /\ m.is = "frame" => host.outstanding = m.frame /\ m.frame \in Nat
           /\ m.is = "saved" => host.state = "Exiting" /\ m.reason = host.exiting
<1>1. Nil \notin Violations /\ Nil \notin Nat
  BY DEF NilAssumption
<1>2. host.state # "Closed"
  BY <1>1 DEF S!Violation, Violations
<1>3. host.violation = Nil
  BY <1>2 DEF HostInv
<1>4. /\ m.is = "ready" => host.state = "Greeting"
      /\ m.is = "frame" => host.outstanding = m.frame
      /\ m.is = "saved" => host.state = "Exiting" /\ m.reason = host.exiting
  BY <1>1 DEF S!Violation, S!FrameViolation, Violations
<1>5. m.is = "frame" => m.frame \in Nat
  BY ToHostKinds
<1> QED
  BY <1>2, <1>3, <1>4, <1>5

Folds(m) ==
    /\ host'.violation = host.violation /\ host'.crossing = host.crossing
    /\ host'.next = host.next /\ host'.notices = host.notices
    /\ host'.exiting = host.exiting /\ host'.abandoned = host.abandoned
    /\ IF m.is = "frame" THEN host'.outstanding = Nil /\ host'.accepted = host.accepted \union {m.frame}
                         ELSE host'.outstanding = host.outstanding /\ host'.accepted = host.accepted
    /\ host'.state = IF m.is = "ready" THEN "Running" ELSE IF m.is = "saved" THEN "Closed" ELSE host.state
    /\ host'.saved = IF m.is = "saved" THEN m.ok ELSE host.saved

Refuses(seen) ==
    /\ host'.state = "Closed" /\ host'.violation # Nil
    /\ host'.crossing = IF host.violation = Nil THEN seen < host.notices ELSE host.crossing
    /\ host'.next = host.next /\ host'.notices = host.notices /\ host'.exiting = host.exiting
    /\ host'.accepted = host.accepted /\ host'.abandoned = host.abandoned
    /\ host'.outstanding = host.outstanding /\ host'.saved = host.saved

LEMMA Hears ==
    ASSUME SessionTypes, NEW m \in ToHostMessages, NEW seen \in Nat, host' = S!OnAppMessage(host, m, seen)
    PROVE  IF S!Violation(host, m) = Nil THEN Folds(m) ELSE Refuses(seen)
<1>1. host \in Sessions
  BY DEF SessionTypes
<1>2. CASE S!Violation(host, m) = Nil
  <2>1. host' = S!Fold(host, m)
    BY <1>2 DEF S!OnAppMessage
  <2>2. CASE m.is = "ready"
    <3>1. host' = [host EXCEPT !.state = "Running"]
      BY <2>1, <2>2 DEF S!Fold
    <3> QED
      BY <1>1, <1>2, <2>2, <3>1 DEF Folds, Sessions
  <2>3. CASE m.is = "frame"
    <3>1. host' = [host EXCEPT !.outstanding = Nil, !.accepted = @ \union {m.frame}]
      BY <2>1, <2>3 DEF S!Fold
    <3> QED
      BY <1>1, <1>2, <2>3, <3>1 DEF Folds, Sessions
  <2>4. CASE m.is = "saved"
    <3>1. host' = [host EXCEPT !.state = "Closed", !.saved = m.ok]
      BY <2>1, <2>4 DEF S!Fold
    <3> QED
      BY <1>1, <1>2, <2>4, <3>1 DEF Folds, Sessions
  <2>5. CASE m.is \notin {"ready", "frame", "saved"}
    <3>1. host' = host
      BY <2>1, <2>5 DEF S!Fold
    <3> QED
      BY <1>2, <2>5, <3>1 DEF Folds
  <2> QED
    BY <2>2, <2>3, <2>4, <2>5
<1>3. CASE S!Violation(host, m) # Nil
  <2> DEFINE v == IF host.violation = Nil THEN S!Violation(host, m) ELSE host.violation
             c == IF host.violation = Nil THEN seen < host.notices ELSE host.crossing
  <2>1. host' = [host EXCEPT !.state = "Closed", !.violation = v, !.crossing = c]
    BY <1>3 DEF S!OnAppMessage
  <2>2. v # Nil
    BY <1>3
  <2>3. c = IF host.violation = Nil THEN seen < host.notices ELSE host.crossing
    OBVIOUS
  <2> HIDE DEF v, c
  <2>4. /\ host'.state = "Closed" /\ host'.violation = v /\ host'.crossing = c
        /\ host'.next = host.next /\ host'.notices = host.notices /\ host'.exiting = host.exiting
        /\ host'.accepted = host.accepted /\ host'.abandoned = host.abandoned
        /\ host'.outstanding = host.outstanding /\ host'.saved = host.saved
    BY <1>1, <2>1 DEF Sessions
  <2> QED
    BY <1>3, <2>2, <2>3, <2>4 DEF Refuses
<1> QED
  BY <1>2, <1>3

LEMMA HearsFrames ==
    ASSUME NilAssumption, SessionTypes, HostInv, NEW m \in ToHostMessages, NEW seen \in Nat,
           host' = S!OnAppMessage(host, m, seen)
    PROVE  HostInv'
<1>1. CASE S!Violation(host, m) = Nil
  <2>1. Folds(m)
    BY <1>1, Hears
  <2>2. /\ host.state # "Closed" /\ host.violation = Nil
        /\ m.is = "frame" => host.outstanding = m.frame /\ m.frame \in Nat
    BY <1>1, Legal
  <2>3. Nil \notin Nat
    BY DEF NilAssumption
  <2>4. CASE m.is = "frame"
    <3>1. m.frame < host.next /\ m.frame \notin host.accepted \union host.abandoned
      BY <2>2, <2>3, <2>4 DEF HostInv
    <3> QED
      BY <2>1, <2>2, <2>4, <3>1 DEF Folds, HostInv
  <2>5. CASE m.is # "frame"
    BY <2>1, <2>2, <2>5 DEF Folds, HostInv
  <2> QED
    BY <2>4, <2>5
<1>2. CASE S!Violation(host, m) # Nil
  <2>1. Refuses(seen)
    BY <1>2, Hears
  <2> QED
    BY <2>1 DEF Refuses, HostInv
<1> QED
  BY <1>1, <1>2

(* A message leaves the head of the socket.                                   *)
LEMMA Dropped ==
    ASSUME SessionTypes, toHost # <<>>, toHost' = Tail(toHost)
    PROVE  /\ Len(toHost) \in Nat /\ Len(toHost') = Len(toHost) - 1 /\ 1 \in 1..Len(toHost)
           /\ \A i \in 1..Len(toHost') :
                 /\ i + 1 \in 1..Len(toHost) /\ i + 1 # 1 /\ toHost'[i] = toHost[i + 1]
                 /\ i + 1 = Len(toHost) => i = Len(toHost')
           /\ \A i, j \in 1..Len(toHost') : i + 1 = j + 1 => i = j
           /\ 1 = Len(toHost) => 1..Len(toHost') = {}
<1> DEFINE q == toHost
           w == Tail(q)
<1>1. q \in Seq(Stamped) /\ q # <<>>
  BY DEF SessionTypes
<1>2. toHost' = w
  OBVIOUS
<1>3. Len(q) \in Nat /\ Len(q) >= 1 /\ Len(w) = Len(q) - 1
      /\ \A i \in 1..Len(w) : i + 1 \in 1..Len(q) /\ i + 1 > 1 /\ w[i] = q[i + 1]
  BY <1>1, HeadGoes
<1> HIDE DEF w
<1>4. \A i \in 1..Len(w) : i + 1 # 1 /\ (i + 1 = Len(q) => i = Len(w))
  BY <1>3
<1>5. \A i, j \in 1..Len(w) : i + 1 = j + 1 => i = j
  BY <1>3
<1>6. 1 \in 1..Len(q) /\ (1 = Len(q) => 1..Len(w) = {})
  BY <1>3
<1> QED
  BY <1>2, <1>3, <1>4, <1>5, <1>6

LEMMA FoldsSaid ==
    ASSUME SessionTypes, SaidInv, toHost # <<>>, toHost' = Tail(toHost), Folds(toHost[1].msg), UNCHANGED app,
           host.state # "Closed", toHost[1].msg.is = "ready" => host.state = "Greeting"
    PROVE  SaidInv'
<1> DEFINE m == toHost[1].msg
<1>1. /\ Len(toHost) \in Nat /\ Len(toHost') = Len(toHost) - 1 /\ 1 \in 1..Len(toHost)
      /\ \A i \in 1..Len(toHost') :
            /\ i + 1 \in 1..Len(toHost) /\ i + 1 # 1 /\ toHost'[i] = toHost[i + 1]
            /\ i + 1 = Len(toHost) => i = Len(toHost')
      /\ 1 = Len(toHost) => 1..Len(toHost') = {}
  BY Dropped
<1>2. Alive' <=> Alive
  BY DEF Alive
<1>3. CASE m.is = "saved"
  <2>1. \A i \in 1..Len(toHost) : toHost[i].msg.is = "saved" => i = Len(toHost)
    BY DEF SaidInv
  <2>2. 1..Len(toHost') = {}
    BY <1>1, <1>3, <2>1
  <2> QED
    BY <2>2 DEF SaidInv
<1>4. CASE m.is # "saved"
  <2>1. /\ host'.notices = host.notices /\ host'.exiting = host.exiting
        /\ host'.state = host.state \/ (host.state = "Greeting" /\ host'.state = "Running")
    BY <1>4 DEF Folds
  <2> HIDE DEF m
  <2>2. ASSUME NEW i \in 1..Len(toHost')
        PROVE  LET e == toHost[i + 1]
               IN  /\ e.seen <= host.notices
                   /\ e.msg.is # "ready"
                   /\ e.msg.is = "diagnostic" => ~e.msg.long
                   /\ e.msg.is = "frame" => ~e.msg.many
                   /\ e.msg.is = "saved" => /\ i + 1 = Len(toHost) /\ ~Alive
                                            /\ host.state = "Exiting" /\ e.msg.reason = host.exiting
                   /\ Asks(e.msg) /\ e.seen = host.notices => host.state # "Exiting"
    <3>1. i + 1 \in 1..Len(toHost) /\ i + 1 # 1
      BY <1>1
    <3> QED
      BY <3>1 DEF SaidInv
  <2>3. host'.state # "Closed"
    BY <2>1
  <2>4. ASSUME NEW i \in 1..Len(toHost')
        PROVE  LET e == toHost'[i]
               IN  /\ e.seen <= host'.notices
                   /\ e.msg.is # "ready"
                   /\ e.msg.is = "diagnostic" => ~e.msg.long
                   /\ e.msg.is = "frame" => ~e.msg.many
                   /\ e.msg.is = "saved" => /\ i = Len(toHost') /\ ~Alive'
                                            /\ host'.state = "Exiting" /\ e.msg.reason = host'.exiting
                   /\ Asks(e.msg) /\ e.seen = host'.notices => host'.state # "Exiting"
    <3>1. toHost'[i] = toHost[i + 1] /\ (i + 1 = Len(toHost) => i = Len(toHost'))
      BY <1>1
    <3>2. host'.state = "Exiting" <=> host.state = "Exiting"
      BY <2>1
    <3> DEFINE e == toHost[i + 1]
    <3>3. /\ e.seen <= host.notices
          /\ e.msg.is # "ready"
          /\ e.msg.is = "diagnostic" => ~e.msg.long
          /\ e.msg.is = "frame" => ~e.msg.many
          /\ e.msg.is = "saved" => /\ i + 1 = Len(toHost) /\ ~Alive
                                   /\ host.state = "Exiting" /\ e.msg.reason = host.exiting
          /\ Asks(e.msg) /\ e.seen = host.notices => host.state # "Exiting"
      BY <2>2
    <3>4. toHost'[i] = e
      BY <3>1
    <3> HIDE DEF e
    <3> QED
      BY <1>2, <2>1, <3>1, <3>2, <3>3, <3>4
  <2> QED
    BY <2>3, <2>4 DEF SaidInv, Asks
<1> QED
  BY <1>3, <1>4

LEMMA FoldsTurn ==
    ASSUME SessionTypes, SaidInv, TurnInv, toHost # <<>>, Folds(toHost[1].msg), UNCHANGED app,
           host.state # "Closed", toHost[1].msg.is = "saved" => host.state = "Exiting",
           toApp' = toApp \/ \E i \in Nat : toApp' = Append(toApp, S!Answer(i))
    PROVE  TurnInv'
<1> DEFINE m == toHost[1].msg
<1>1. 1 \in 1..Len(toHost)
  <2>1. toHost \in Seq(Stamped)
    BY DEF SessionTypes
  <2> QED
    BY <2>1
<1>2. /\ \A i \in 1..Len(toApp) : i \in 1..Len(toApp') /\ toApp'[i] = toApp[i]
      /\ \A i \in 1..Len(toApp') : toApp'[i].is = "exit" => i \in 1..Len(toApp)
  <2>1. CASE toApp' = toApp
    BY <2>1
  <2>2. CASE \E i \in Nat : toApp' = Append(toApp, S!Answer(i))
    <3>1. PICK a \in Nat : toApp' = Append(toApp, S!Answer(a))
      BY <2>2
    <3>2. S!Answer(a) \in ToAppMessages /\ S!Answer(a).is = "answer"
      BY ToAppKinds DEF S!Answer
    <3>3. /\ toApp'[Len(toApp) + 1] = S!Answer(a)
          /\ \A i \in 1..Len(toApp) : i \in 1..Len(toApp') /\ toApp'[i] = toApp[i]
          /\ \A i \in 1..Len(toApp') : i \in 1..Len(toApp) \/ i = Len(toApp) + 1
      BY <3>1, <3>2, Sent
    <3> QED
      BY <3>2, <3>3
  <2> QED
    BY <2>1, <2>2
<1>3. host.state = "Greeting" => m.is = "ready"
  BY DEF TurnInv
<1>4. m.is = "saved" => ~Alive
  BY <1>1 DEF SaidInv
<1>5. /\ host'.exiting = host.exiting /\ host'.state # "Greeting"
      /\ host'.state = "Exiting" => host.state = "Exiting"
      /\ host'.state = "Closed" => ~Alive /\ host.state = "Exiting"
      /\ host.state = "Exiting" => host'.state \in {"Exiting", "Closed"} \/ m.is = "ready"
  BY <1>3, <1>4 DEF Folds
<1>6. m.is = "ready" => host.state = "Greeting"
  BY <1>1 DEF SaidInv
<1>7. app.pc # "boot" /\ (Alive' <=> Alive)
  BY DEF TurnInv, Alive
<1> HIDE DEF m
<1>8. host.state = "Exiting" => host'.state \in {"Exiting", "Closed"}
  BY <1>5, <1>6
<1>9. host'.state = "Exiting" /\ app.pc \in {"boot", "loop", "drawing"} => \E i \in 1..Len(toApp') : toApp'[i].is = "exit"
  BY <1>2, <1>5 DEF TurnInv
<1>10. \A i \in 1..Len(toApp') : toApp'[i].is = "exit" =>
           host'.state \in {"Exiting", "Closed"} /\ (host'.state = "Exiting" => toApp'[i].reason = host'.exiting)
  BY <1>2, <1>5, <1>8 DEF TurnInv
<1>11. app.pc \in {"writing", "renaming", "saved", "unsaved"} =>
           host'.state \in {"Exiting", "Closed"} /\ (host'.state = "Exiting" => app.exit = host'.exiting)
  BY <1>5, <1>8 DEF TurnInv
<1> QED
  BY <1>5, <1>7, <1>9, <1>10, <1>11 DEF TurnInv

LEMMA FoldsFrames ==
    ASSUME NilAssumption, SessionTypes, FrameInv, toHost # <<>>, toHost' = Tail(toHost), Folds(toHost[1].msg), UNCHANGED app,
           host.state # "Closed", toHost[1].msg.is = "ready" => host.state = "Greeting",
           toHost[1].msg.is = "frame" => host.outstanding = toHost[1].msg.frame,
           toApp' = toApp \/ \E i \in Nat : toApp' = Append(toApp, S!Answer(i))
    PROVE  FrameInv'
<1> DEFINE m == toHost[1].msg
<1>1. /\ Len(toHost) \in Nat /\ Len(toHost') = Len(toHost) - 1 /\ 1 \in 1..Len(toHost)
      /\ \A i \in 1..Len(toHost') :
            /\ i + 1 \in 1..Len(toHost) /\ i + 1 # 1 /\ toHost'[i] = toHost[i + 1]
            /\ i + 1 = Len(toHost) => i = Len(toHost')
      /\ \A i, j \in 1..Len(toHost') : i + 1 = j + 1 => i = j
  BY Dropped
<1>2. /\ \A i \in 1..Len(toApp) : LiveDraw(i)' <=> LiveDraw(i)
      /\ \A i \in 1..Len(toApp') : LiveDraw(i)' => i \in 1..Len(toApp)
      /\ LiveDrawing' <=> LiveDrawing
      /\ \A i \in 1..Len(toApp') : toApp'[i].is = "draw" => i \in 1..Len(toApp) /\ toApp'[i] = toApp[i]
  <2>1. CASE toApp' = toApp
    BY <2>1 DEF LiveDraw, LiveDrawing
  <2>2. CASE \E i \in Nat : toApp' = Append(toApp, S!Answer(i))
    <3>1. PICK a \in Nat : toApp' = Append(toApp, S!Answer(a))
      BY <2>2
    <3>2. S!Answer(a) \in ToAppMessages /\ S!Answer(a).is = "answer" /\ ~Notice(S!Answer(a))
      BY ToAppKinds DEF S!Answer, Notice
    <3>3. /\ toApp'[Len(toApp) + 1] = S!Answer(a)
          /\ \A i \in 1..Len(toApp) : i \in 1..Len(toApp') /\ toApp'[i] = toApp[i]
          /\ \A i \in 1..Len(toApp') : i \in 1..Len(toApp) \/ i = Len(toApp) + 1
      BY <3>1, <3>2, Sent
    <3>4. /\ \A i \in 1..Len(toApp) : LiveDraw(i)' <=> LiveDraw(i)
          /\ \A i \in 1..Len(toApp') : LiveDraw(i)' => i \in 1..Len(toApp)
          /\ LiveDrawing' <=> LiveDrawing
      BY <3>1, <3>2, LiveStays
    <3> QED
      BY <3>2, <3>3, <3>4
  <2> QED
    BY <2>1, <2>2
<1>3. /\ \A i \in 1..Len(toHost) : toHost[i].msg.is = "frame" => toHost[i].msg.frame \in Nat
      /\ \A i \in 1..Len(toApp) : toApp[i].is = "draw" => toApp[i].frame \in Nat
      /\ app.pc = "drawing" => app.drawing \in Nat
  BY Queued DEF SessionTypes
<1>4. Nil \notin Nat /\ app' = app /\ host'.next = host.next /\ host'.notices = host.notices
  BY DEF NilAssumption, Folds
<1>5. \A i \in 1..Len(toHost') : LiveFrame(i)' <=> LiveFrame(i + 1)
  BY <1>1, <1>4 DEF LiveFrame
<1>6. /\ \A i \in 1..Len(toApp) : toApp[i].is = "draw" =>
            /\ toApp[i].frame < host.next
            /\ host.outstanding = toApp[i].frame => LiveDraw(i)
            /\ LiveDraw(i) => Asked(toApp[i].frame) /\ \A j \in 1..Len(toApp) : LiveDraw(j) => i = j
      /\ app.pc = "drawing" =>
            /\ app.drawing < host.next
            /\ host.outstanding = app.drawing => LiveDrawing
            /\ LiveDrawing => Asked(app.drawing) /\ \A i \in 1..Len(toApp) : ~LiveDraw(i)
      /\ \A i \in 1..Len(toHost) : toHost[i].msg.is = "frame" =>
            /\ toHost[i].msg.frame < host.next
            /\ host.outstanding = toHost[i].msg.frame => LiveFrame(i)
            /\ LiveFrame(i) => /\ Asked(toHost[i].msg.frame) /\ ~LiveDrawing
                               /\ \A j \in 1..Len(toHost) : LiveFrame(j) => i = j
                               /\ \A j \in 1..Len(toApp) : ~LiveDraw(j)
  BY DEF FrameInv
<1>7. CASE m.is = "frame"
  <2>1. LiveFrame(1) /\ host'.outstanding = Nil
    BY <1>1, <1>6, <1>7 DEF Folds
  <2>2. /\ ~LiveDrawing /\ \A j \in 1..Len(toApp) : ~LiveDraw(j)
        /\ \A j \in 1..Len(toHost) : LiveFrame(j) => 1 = j
    BY <1>1, <1>6, <1>7, <2>1
  <2>3. ASSUME NEW i \in 1..Len(toApp'), toApp'[i].is = "draw"
        PROVE  toApp'[i].frame < host'.next /\ host'.outstanding # toApp'[i].frame /\ ~LiveDraw(i)'
    BY <1>2, <1>3, <1>4, <1>6, <2>1, <2>2, <2>3
  <2>4. app'.pc = "drawing" => app'.drawing < host'.next /\ host'.outstanding # app'.drawing /\ ~LiveDrawing'
    BY <1>2, <1>3, <1>4, <1>6, <2>1, <2>2
  <2>5. ASSUME NEW i \in 1..Len(toHost'), toHost'[i].msg.is = "frame"
        PROVE  toHost'[i].msg.frame < host'.next /\ host'.outstanding # toHost'[i].msg.frame /\ ~LiveFrame(i)'
    <3> DEFINE k == i + 1
    <3>1. k \in 1..Len(toHost) /\ k # 1 /\ toHost'[i] = toHost[k] /\ (LiveFrame(i)' <=> LiveFrame(k))
      BY <1>1, <1>5
    <3> HIDE DEF k
    <3> QED
      BY <1>3, <1>4, <1>6, <2>1, <2>2, <2>5, <3>1
  <2> QED
    BY <2>3, <2>4, <2>5 DEF FrameInv
<1>8. CASE m.is # "frame"
  <2>1. /\ host'.outstanding = host.outstanding
        /\ host'.state # "Closed" => (host.state = "Running" => host'.state = "Running")
    BY <1>8 DEF Folds
  <2>2. SUFFICES ASSUME host'.state # "Closed"
                 PROVE  FrameInv'
    BY DEF FrameInv
  <2>3. \A f : Asked(f) => host'.state = "Running" /\ host'.outstanding = f
    BY <2>1, <2>2 DEF Asked
  <2>4. ASSUME NEW i \in 1..Len(toApp'), toApp'[i].is = "draw"
        PROVE  /\ toApp'[i].frame < host'.next
               /\ host'.outstanding = toApp'[i].frame => LiveDraw(i)'
               /\ LiveDraw(i)' => /\ host'.state = "Running" /\ host'.outstanding = toApp'[i].frame
                                  /\ \A j \in 1..Len(toApp') : LiveDraw(j)' => i = j
    <3>1. i \in 1..Len(toApp) /\ toApp'[i] = toApp[i] /\ toApp[i].is = "draw"
      BY <1>2, <2>4
    <3>2. /\ toApp[i].frame < host.next
          /\ host.outstanding = toApp[i].frame => LiveDraw(i)
          /\ LiveDraw(i) => Asked(toApp[i].frame) /\ \A j \in 1..Len(toApp) : LiveDraw(j) => i = j
      BY <1>6, <3>1
    <3> QED
      BY <1>2, <1>4, <2>1, <2>3, <3>1, <3>2
  <2>5. app'.pc = "drawing" =>
            /\ app'.drawing < host'.next
            /\ host'.outstanding = app'.drawing => LiveDrawing'
            /\ LiveDrawing' => /\ host'.state = "Running" /\ host'.outstanding = app'.drawing
                               /\ \A i \in 1..Len(toApp') : ~LiveDraw(i)'
    BY <1>2, <1>4, <1>6, <2>1, <2>3
  <2>6. ASSUME NEW i \in 1..Len(toHost'), toHost'[i].msg.is = "frame"
        PROVE  /\ toHost'[i].msg.frame < host'.next
               /\ host'.outstanding = toHost'[i].msg.frame => LiveFrame(i)'
               /\ LiveFrame(i)' => /\ host'.state = "Running" /\ host'.outstanding = toHost'[i].msg.frame
                                   /\ ~LiveDrawing'
                                   /\ \A j \in 1..Len(toHost') : LiveFrame(j)' => i = j
                                   /\ \A j \in 1..Len(toApp') : ~LiveDraw(j)'
    <3> DEFINE k == i + 1
    <3>1. k \in 1..Len(toHost) /\ toHost'[i] = toHost[k] /\ (LiveFrame(i)' <=> LiveFrame(k))
      BY <1>1, <1>5
    <3> HIDE DEF k
    <3>2. /\ toHost[k].msg.frame < host.next
          /\ host.outstanding = toHost[k].msg.frame => LiveFrame(k)
          /\ LiveFrame(k) => /\ Asked(toHost[k].msg.frame) /\ ~LiveDrawing
                             /\ \A j \in 1..Len(toHost) : LiveFrame(j) => k = j
                             /\ \A j \in 1..Len(toApp) : ~LiveDraw(j)
      BY <1>6, <2>6, <3>1
    <3>3. ASSUME LiveFrame(k), NEW j \in 1..Len(toHost'), LiveFrame(j)'
          PROVE  i = j
      <4>1. LiveFrame(j + 1) /\ j + 1 \in 1..Len(toHost)
        BY <1>1, <1>5, <3>3
      <4>2. i + 1 = j + 1
        BY <3>2, <3>3, <4>1 DEF k
      <4> QED
        BY <1>1, <4>2
    <3> QED
      BY <1>2, <1>4, <2>1, <2>3, <3>1, <3>2, <3>3
  <2> QED
    BY <2>4, <2>5, <2>6 DEF FrameInv, Asked
<1> QED
  BY <1>7, <1>8

LEMMA FoldsTalk ==
    ASSUME NilAssumption, SessionTypes, HostInv, TalkInv, toHost # <<>>, toHost' = Tail(toHost), UNCHANGED app,
           S!Violation(host, toHost[1].msg) = Nil, Folds(toHost[1].msg),
           toApp' = toApp \/ \E i \in Nat : toApp' = Append(toApp, S!Answer(i))
    PROVE  TalkInv'
<1>1. toHost[1].msg \in ToHostMessages
  <2>1. toHost \in Seq(Stamped)
    BY DEF SessionTypes
  <2>2. 1 \in 1..Len(toHost)
    BY <2>1
  <2> QED
    BY <2>2, Queued
<1>2. /\ host.state # "Closed"
      /\ toHost[1].msg.is = "ready" => host.state = "Greeting"
      /\ toHost[1].msg.is = "frame" => host.outstanding = toHost[1].msg.frame
      /\ toHost[1].msg.is = "saved" => host.state = "Exiting"
  BY <1>1, Legal
<1>3. SaidInv /\ TurnInv /\ FrameInv /\ Counted
  BY DEF TalkInv
<1>4. SaidInv'
  BY <1>2, <1>3, FoldsSaid
<1>5. TurnInv'
  BY <1>2, <1>3, FoldsTurn
<1>6. FrameInv'
  BY <1>2, <1>3, FoldsFrames
<1>7. host'.notices = host.notices /\ host.notices \in Nat
  BY DEF Folds, SessionTypes, Sessions
<1>8. Counted'
  <2>1. CASE toApp' = toApp
    <3>1. Alive => Counted'
      BY <1>3, <1>7, <2>1, NoticesStay
    <3>2. Alive' <=> Alive
      BY DEF Alive
    <3> QED
      BY <3>1, <3>2 DEF Counted
  <2>2. CASE \E i \in Nat : toApp' = Append(toApp, S!Answer(i))
    <3>1. PICK a \in Nat : toApp' = Append(toApp, S!Answer(a))
      BY <2>2
    <3>2. S!Answer(a) \in ToAppMessages /\ ~Notice(S!Answer(a))
      BY ToAppKinds DEF S!Answer, Notice
    <3>3. host'.notices = host.notices + (IF Notice(S!Answer(a)) THEN 1 ELSE 0)
      BY <1>7, <3>2
    <3> QED
      BY <1>3, <3>1, <3>2, <3>3, NoticeComes
  <2> QED
    BY <2>1, <2>2
<1> QED
  BY <1>4, <1>5, <1>6, <1>8 DEF TalkInv

(* What the host reads was published, or is on disk.                          *)
LEMMA ReadsTrue ==
    ASSUME SessionTypes, PublishedInv, SavedInv, toHost # <<>>, toHost' = Tail(toHost), UNCHANGED <<app, disk>>,
           Folds(toHost[1].msg) \/ (host'.accepted = host.accepted /\ host'.saved = host.saved)
    PROVE  PublishedInv' /\ SavedInv'
<1> DEFINE m == toHost[1].msg
<1>1. /\ 1 \in 1..Len(toHost)
      /\ \A i \in 1..Len(toHost') : i + 1 \in 1..Len(toHost) /\ toHost'[i] = toHost[i + 1]
  BY Dropped
<1>2. app' = app /\ disk' = disk /\ (Alive' <=> Alive)
  BY DEF Alive
<1>3. host'.accepted \subseteq app.published
  BY <1>1 DEF Folds, PublishedInv
<1>4. host'.saved = TRUE => ~Alive /\ disk.save = app.memory
  <2>1. m.is = "saved" => ~Alive /\ (m.ok = TRUE => disk.save = app.memory)
    BY <1>1 DEF SavedInv
  <2>2. host'.saved = host.saved \/ (m.is = "saved" /\ host'.saved = m.ok)
    BY DEF Folds
  <2> HIDE DEF m
  <2> QED
    BY <2>1, <2>2 DEF SavedInv
<1> HIDE DEF m
<1>5. \A i \in 1..Len(toHost') :
         /\ toHost'[i].msg.is = "frame" => toHost'[i].msg.frame \in app.published
         /\ toHost'[i].msg.is = "saved" => ~Alive /\ (toHost'[i].msg.ok = TRUE => disk.save = app.memory)
  <2> SUFFICES ASSUME NEW i \in 1..Len(toHost')
               PROVE  /\ toHost'[i].msg.is = "frame" => toHost'[i].msg.frame \in app.published
                      /\ toHost'[i].msg.is = "saved" =>
                            ~Alive /\ (toHost'[i].msg.ok = TRUE => disk.save = app.memory)
    OBVIOUS
  <2> DEFINE k == i + 1
  <2>1. k \in 1..Len(toHost) /\ toHost'[i] = toHost[k]
    BY <1>1
  <2> HIDE DEF k
  <2> QED
    BY <2>1 DEF PublishedInv, SavedInv
<1>6. PublishedInv'
  BY <1>2, <1>3, <1>5 DEF PublishedInv
<1>7. SavedInv'
  BY <1>2, <1>4, <1>5 DEF SavedInv
<1> QED
  BY <1>6, <1>7

LEMMA ReadKeeps ==
    ASSUME NilAssumption, SessionInv, S!HostReads
    PROVE  SessionInv'
<1>1. SessionTypes /\ HostInv
  BY DEF SessionInv
<1>2. /\ SessionTypes' /\ UNCHANGED <<app, disk>>
      /\ toHost # <<>> /\ toHost[1].msg \in ToHostMessages /\ toHost[1].seen \in Nat
      /\ toHost' = Tail(toHost)
      /\ host' = S!OnAppMessage(host, toHost[1].msg, toHost[1].seen)
      /\ \/ toApp' = toApp
         \/ \E i \in Nat : toApp' = Append(toApp, S!Answer(i))
  BY <1>1, HostReadsOne
<1> DEFINE m == toHost[1].msg
           seen == toHost[1].seen
<1>3. HostInv'
  BY <1>1, <1>2, HearsFrames
<1>4. IF S!Violation(host, m) = Nil THEN Folds(m) ELSE Refuses(seen)
  BY <1>1, <1>2, Hears
<1>5. S!Violation(host, m) = Nil => host.violation = Nil
  BY <1>1, <1>2, Legal
<1>6. app.sdk => PublishedInv' /\ SavedInv'
  BY <1>1, <1>2, <1>4, ReadsTrue DEF SessionInv, Refuses
<1>7. app.sdk /\ host'.violation = Nil => TalkInv'
  <2>1. ASSUME app.sdk, host'.violation = Nil
        PROVE  TalkInv'
    <3>1. S!Violation(host, m) = Nil /\ Folds(m)
      BY <1>4, <2>1 DEF Refuses
    <3>2. TalkInv
      BY <1>5, <2>1, <3>1 DEF SessionInv
    <3> QED
      BY <1>1, <1>2, <3>1, <3>2, FoldsTalk
  <2> QED
    BY <2>1
<1>8. app.sdk /\ host'.violation # Nil => host'.crossing
  <2>1. ASSUME app.sdk, host'.violation # Nil
        PROVE  host'.crossing
    <3>1. Refuses(seen)
      BY <1>4, <1>5, <2>1 DEF Folds
    <3>2. S!Violation(host, m) # Nil
      BY <1>4, <1>5, <2>1 DEF Folds
    <3>3. CASE host.violation = Nil
      <4>1. TalkInv
        BY <2>1, <3>3 DEF SessionInv
      <4>2. seen # host.notices
        BY <1>1, <1>2, <3>2, <4>1, HeardKnowing
      <4>3. seen <= host.notices /\ host.notices \in Nat
        <5>1. 1 \in 1..Len(toHost)
          BY <1>1, <1>2, Dropped
        <5> QED
          BY <1>1, <4>1, <5>1 DEF TalkInv, SaidInv, SessionTypes, Sessions
      <4>4. seen < host.notices
        BY <1>2, <4>2, <4>3
      <4> QED
        BY <3>1, <3>3, <4>4 DEF Refuses
    <3>4. CASE host.violation # Nil
      BY <2>1, <3>1, <3>4 DEF Refuses, SessionInv
    <3> QED
      BY <3>3, <3>4
  <2> QED
    BY <2>1
<1> QED
  BY <1>2, <1>3, <1>6, <1>7, <1>8 DEF SessionInv

LEMMA HostKeeps ==
    ASSUME NilAssumption, SessionInv, S!Host, ~S!HostReads
    PROVE  SessionInv'
<1>1. SessionTypes /\ HostInv
  BY DEF SessionInv
<1>2. SessionTypes' /\ Moves /\ HostInv'
  BY <1>1, HostTypes, HostMoves
<1>3. /\ UNCHANGED <<toHost, app, disk>> /\ host'.violation = host.violation /\ host'.crossing = host.crossing
      /\ host'.saved = host.saved /\ host'.accepted = host.accepted
  BY <1>2 DEF Moves
<1>4. app.sdk => PublishedInv' /\ SavedInv'
  BY <1>3 DEF SessionInv, PublishedInv, SavedInv, Alive
<1>5. app.sdk /\ host.violation = Nil => TalkInv'
  BY <1>1, <1>2, MovesTalk DEF SessionInv
<1> QED
  BY <1>2, <1>3, <1>4, <1>5 DEF SessionInv

(* ------------------------------------------------------------------------- *)
(* What the app's process does.                                              *)
LEMMA Read ==
    ASSUME SessionTypes, toApp # <<>>, toApp' = Tail(toApp)
    PROVE  /\ Len(toApp) \in Nat /\ 1 \in 1..Len(toApp) /\ Head(toApp) = toApp[1]
           /\ \A i \in 1..Len(toApp') : i + 1 \in 1..Len(toApp) /\ i + 1 > 1 /\ toApp'[i] = toApp[i + 1]
           /\ \A i \in 1..Len(toApp) : i # 1 => i - 1 \in 1..Len(toApp') /\ toApp'[i - 1] = toApp[i]
           /\ \A i, j \in 1..Len(toApp') : (i + 1 = j + 1 => i = j) /\ (i > j <=> i + 1 > j + 1)
<1> DEFINE q == toApp
           w == Tail(q)
<1>1. q \in Seq(ToAppMessages) /\ q # <<>>
  BY DEF SessionTypes
<1>2. toApp' = w
  OBVIOUS
<1>3. /\ Len(q) \in Nat /\ Len(q) >= 1 /\ Len(w) = Len(q) - 1
      /\ Head(q) = q[1]
      /\ \A i \in 1..Len(w) : i + 1 \in 1..Len(q) /\ i + 1 > 1 /\ w[i] = q[i + 1]
      /\ \A i \in 1..Len(q) : i # 1 => i - 1 \in 1..Len(w) /\ w[i - 1] = q[i]
  BY <1>1, HeadGoes
<1> HIDE DEF w
<1>4. \A i, j \in 1..Len(w) : (i + 1 = j + 1 => i = j) /\ (i > j <=> i + 1 > j + 1)
  BY <1>3
<1>5. 1 \in 1..Len(q)
  BY <1>3
<1> QED
  BY <1>2, <1>3, <1>4, <1>5

(* Seen before, of the state a step leads to.                                 *)
LEMMA SeenAfter ==
    ASSUME SessionTypes', Counted', Alive'
    PROVE  /\ app'.seen <= host'.notices
           /\ (\E i \in 1..Len(toApp') : Notice(toApp'[i])) => app'.seen < host'.notices
           /\ (\A i \in 1..Len(toApp') : ~Notice(toApp'[i])) => app'.seen = host'.notices
<1>1. PICK g \in [0..Len(toApp') -> Nat] : Counts(g, toApp', app'.seen, host'.notices)
  BY DEF Counted
<1> DEFINE q == toApp'
           seen == app'.seen
           told == host'.notices
<1>2. q \in Seq(ToAppMessages) /\ g \in [0..Len(q) -> Nat] /\ Counts(g, q, seen, told)
  BY <1>1 DEF SessionTypes
<1> HIDE DEF q, seen, told
<1>3. Len(q) \in Nat /\ 0 \in 0..Len(q) /\ Len(q) \in 0..Len(q) /\ g[0] \in Nat /\ g[Len(q)] \in Nat
  BY <1>2
<1>4. g[0] <= g[Len(q)] /\ g[0] = seen /\ g[Len(q)] = told
  BY <1>2, <1>3 DEF Counts
<1>5. ASSUME NEW i \in 1..Len(q), Notice(q[i])
      PROVE  seen < told
  <2>1. i \in 0..Len(q) /\ i - 1 \in 0..Len(q) /\ 0 <= i - 1 /\ i <= Len(q)
        /\ g[i] \in Nat /\ g[i - 1] \in Nat
    BY <1>2, <1>3
  <2>2. g[i] = g[i - 1] + 1
    BY <1>2, <1>5 DEF Counts
  <2>3. g[0] <= g[i - 1] /\ g[i] <= g[Len(q)]
    BY <1>2, <1>3, <2>1 DEF Counts
  <2> QED
    BY <1>3, <1>4, <2>1, <2>2, <2>3
<1>6. ASSUME \A i \in 1..Len(q) : ~Notice(q[i])
      PROVE  seen = told
  <2>1. \A k \in 0 + 1..Len(q) : ~Notice(q[k])
    BY <1>6
  <2>2. g[0] = g[Len(q)]
    BY <1>2, <1>3, <2>1 DEF Counts
  <2> QED
    BY <1>4, <2>2
<1> QED
  BY <1>4, <1>5, <1>6 DEF q, seen, told

LEMMA WalksCount ==
    ASSUME SessionTypes, Counted, Walks, UNCHANGED host
    PROVE  Counted'
<1>1. Alive /\ app.seen \in Nat
  BY DEF Walks, Alive, SessionTypes, Processes
<1>2. CASE app'.pc \in {"ended", "dead"}
  BY <1>2 DEF Counted, Alive
<1>3. CASE Works
  BY <1>1, <1>3, NoticesStay DEF Works
<1>4. CASE \E m \in ToAppMessages : Reads(m)
  <2>1. PICK m \in ToAppMessages : Reads(m)
    BY <1>4
  <2>2. toApp # <<>> /\ toApp' = Tail(toApp) /\ app'.seen = app.seen + (IF Notice(Head(toApp)) THEN 1 ELSE 0)
    BY <1>1, <2>1 DEF Reads
  <2> QED
    BY <1>1, <2>2, NoticeGoes
<1> QED
  BY <1>2, <1>3, <1>4 DEF Walks

LEMMA WalksTurn ==
    ASSUME SessionTypes, TurnInv, Walks, Speaks, app'.seen \in Nat, UNCHANGED host
    PROVE  TurnInv'
<1>1. /\ Len(toHost) \in Nat /\ Len(toHost') \in Nat /\ Len(toHost') >= Len(toHost)
      /\ \A i \in 1..Len(toHost) : i \in 1..Len(toHost') /\ toHost'[i] = toHost[i]
      /\ \A i \in 1..Len(toHost') : i \notin 1..Len(toHost) =>
            Word(toHost'[i].msg, i = Len(toHost) + 1 /\ i = Len(toHost'), i = Len(toHost'))
  BY Heard
<1>2. app.pc \notin {"ended", "dead"} /\ app'.pc # "boot" /\ host' = host
  BY DEF Walks
<1>3. host.state = "Greeting" => /\ toHost' # <<>> => toHost'[1].msg.is = "ready"
                                 /\ app'.pc \notin {"boot", "ended", "dead"} => toHost' # <<>>
  <2>1. SUFFICES ASSUME host.state = "Greeting"
                 PROVE  /\ toHost' # <<>> => toHost'[1].msg.is = "ready"
                        /\ app'.pc \notin {"boot", "ended", "dead"} => toHost' # <<>>
    OBVIOUS
  <2>2. toHost \in Seq(Stamped)
    BY DEF SessionTypes
  <2>3. CASE toHost # <<>>
    <3>1. 1 \in 1..Len(toHost)
      BY <2>2, <2>3
    <3>2. toHost'[1] = toHost[1] /\ 1 \in 1..Len(toHost')
      BY <1>1, <3>1
    <3>3. toHost' # <<>>
      BY <3>2
    <3> QED
      BY <2>1, <2>3, <3>2, <3>3 DEF TurnInv
  <2>4. CASE toHost = <<>>
    <3>1. app.pc = "boot" /\ Len(toHost) = 0
      BY <1>2, <2>1, <2>4 DEF TurnInv
    <3>2. ASSUME NEW i \in 1..Len(toHost')
          PROVE  toHost'[i].msg.is = "ready"
      <4>1. i \notin 1..Len(toHost)
        BY <3>1
      <4> QED
        BY <1>1, <3>1, <4>1 DEF Word
    <3>3. toHost' # <<>> => 1 \in 1..Len(toHost')
      <4>1. CASE UNCHANGED toHost
        BY <2>4, <4>1
      <4>2. CASE ~UNCHANGED toHost
        <5>1. PICK ms \in Seq(ToHostMessages) : S!Say(ms)
          BY <4>2 DEF Speaks
        <5>2. toHost' \in Seq(Stamped)
          BY <2>2, <5>1, SayAdds
        <5> QED
          BY <5>2
      <4> QED
        BY <4>1, <4>2
    <3>4. app'.pc \notin {"boot", "ended", "dead"} => toHost' # <<>>
      BY <3>1 DEF Walks, Works, Reads
    <3> QED
      BY <3>2, <3>3, <3>4
  <2> QED
    BY <2>3, <2>4
<1>4. /\ host.state = "Exiting" /\ app'.pc \in {"loop", "drawing"} => \E i \in 1..Len(toApp') : toApp'[i].is = "exit"
      /\ \A i \in 1..Len(toApp') : toApp'[i].is = "exit" =>
           host.state \in {"Exiting", "Closed"} /\ (host.state = "Exiting" => toApp'[i].reason = host.exiting)
      /\ app'.pc \in {"writing", "renaming", "saved", "unsaved"} =>
           host.state \in {"Exiting", "Closed"} /\ (host.state = "Exiting" => app'.exit = host.exiting)
      /\ host.state = "Closed" /\ Alive' => \E i \in 1..Len(toApp') : toApp'[i].is = "goodbye"
  <2>1. Alive /\ (Alive' <=> app'.pc \notin {"ended", "dead"})
    BY <1>2 DEF Alive
  <2>2. CASE Works
    BY <2>1, <2>2 DEF Works, TurnInv
  <2>3. ASSUME toApp # <<>>, toApp' = Tail(toApp)
        PROVE  \A i \in 1..Len(toApp') : toApp'[i].is = "exit" =>
                 host.state \in {"Exiting", "Closed"} /\ (host.state = "Exiting" => toApp'[i].reason = host.exiting)
    BY <2>3, Read DEF TurnInv
  <2>4. CASE \E m \in ToAppMessages : Reads(m)
    <3>1. PICK m \in ToAppMessages : Reads(m)
      BY <2>4
    <3>2. toApp # <<>> /\ Head(toApp) = m /\ toApp' = Tail(toApp)
      BY <3>1 DEF Reads
    <3>3. /\ 1 \in 1..Len(toApp) /\ toApp[1] = m
          /\ \A i \in 1..Len(toApp) : i # 1 => i - 1 \in 1..Len(toApp') /\ toApp'[i - 1] = toApp[i]
      BY <3>2, Read
    <3>4. ASSUME NEW k, m.is # k, \E i \in 1..Len(toApp) : toApp[i].is = k
          PROVE  \E i \in 1..Len(toApp') : toApp'[i].is = k
      <4>1. PICK i \in 1..Len(toApp) : toApp[i].is = k
        BY <3>4
      <4>2. i # 1
        BY <3>3, <3>4, <4>1
      <4> QED
        BY <3>3, <4>1, <4>2
    <3>5. /\ m.is # "goodbye"
          /\ app'.pc \in {"loop", "drawing"} => m.is # "exit" /\ app.pc \in {"boot", "loop"}
          /\ app'.pc \in {"writing", "renaming", "saved", "unsaved"} => m.is = "exit" /\ app'.exit = m.reason
      BY <3>1 DEF Reads
    <3>6. app'.pc \in {"writing", "renaming", "saved", "unsaved"} =>
             host.state \in {"Exiting", "Closed"} /\ (host.state = "Exiting" => app'.exit = host.exiting)
      BY <3>3, <3>5 DEF TurnInv
    <3>7. host.state = "Exiting" /\ app'.pc \in {"loop", "drawing"} => \E i \in 1..Len(toApp') : toApp'[i].is = "exit"
      BY <3>4, <3>5 DEF TurnInv
    <3>8. host.state = "Closed" => \E i \in 1..Len(toApp') : toApp'[i].is = "goodbye"
      BY <2>1, <3>4, <3>5 DEF TurnInv
    <3> QED
      BY <2>3, <3>2, <3>6, <3>7, <3>8
  <2>5. CASE app'.pc \in {"ended", "dead"} /\ (toApp' = toApp \/ (toApp # <<>> /\ toApp' = Tail(toApp)))
    <3>1. \A i \in 1..Len(toApp') : toApp'[i].is = "exit" =>
             host.state \in {"Exiting", "Closed"} /\ (host.state = "Exiting" => toApp'[i].reason = host.exiting)
      BY <2>3, <2>5 DEF TurnInv
    <3> QED
      BY <2>1, <2>5, <3>1
  <2> QED
    BY <2>2, <2>4, <2>5 DEF Walks
<1> QED
  BY <1>2, <1>3, <1>4 DEF TurnInv

LEMMA WalksSaid ==
    ASSUME SessionTypes, SessionTypes', SaidInv, TurnInv, Counted, TurnInv', Counted', Walks, Speaks, UNCHANGED host
    PROVE  SaidInv'
<1>1. app'.seen \in Nat /\ app.seen \in Nat /\ host.notices \in Nat
  BY DEF SessionTypes, Sessions, Processes
<1>2. /\ Len(toHost) \in Nat /\ Len(toHost') \in Nat /\ Len(toHost') >= Len(toHost)
      /\ \A i \in 1..Len(toHost) : i \in 1..Len(toHost') /\ toHost'[i] = toHost[i]
      /\ \A i \in 1..Len(toHost') : i \notin 1..Len(toHost) =>
            /\ i > Len(toHost) /\ toHost'[i].seen = app'.seen /\ toHost'[i].msg \in ToHostMessages
            /\ Word(toHost'[i].msg, i = Len(toHost) + 1 /\ i = Len(toHost'), i = Len(toHost'))
  BY <1>1, Heard
<1>3. Alive /\ host' = host /\ app'.pc # "boot"
  BY DEF Walks, Alive
<1>4. app.seen <= host.notices /\ (host.state = "Closed" => app.seen < host.notices)
  <2>1. host.state = "Closed" => \E i \in 1..Len(toApp) : Notice(toApp[i])
    BY <1>3 DEF TurnInv, Notice
  <2> QED
    BY <1>3, <2>1, SeenBefore
<1>5. ASSUME Alive'
      PROVE  /\ app'.seen <= host.notices
             /\ host.state = "Closed" => app'.seen < host.notices
             /\ host.state = "Exiting" /\ app'.pc \in {"loop", "drawing"} => app'.seen < host.notices
  <2>1. host'.state = "Closed" => \E i \in 1..Len(toApp') : Notice(toApp'[i])
    BY <1>5 DEF TurnInv, Notice
  <2>2. host'.state = "Exiting" /\ app'.pc \in {"loop", "drawing"} => \E i \in 1..Len(toApp') : Notice(toApp'[i])
    BY DEF TurnInv, Notice
  <2> QED
    BY <1>3, <1>5, <2>1, <2>2, SeenAfter
<1>6. app'.pc \in {"loop", "drawing"} => Alive'
  BY DEF Alive
<1>7. app'.pc = "ended" => ~Alive'
  BY DEF Alive
<1> DEFINE Sound(i) ==
        LET e == toHost'[i]
        IN  /\ e.seen <= host.notices
            /\ host.state = "Closed" => e.seen < host.notices
            /\ e.msg.is = "ready" => i = 1 /\ e.msg.protocol = "same" /\ host.state \in {"Greeting", "Closed"}
            /\ e.msg.is = "diagnostic" => ~e.msg.long
            /\ e.msg.is = "frame" => ~e.msg.many
            /\ e.msg.is = "saved" => /\ i = Len(toHost') /\ ~Alive'
                                     /\ host.state # "Closed" => host.state = "Exiting" /\ e.msg.reason = host.exiting
            /\ Asks(e.msg) /\ e.seen = host.notices => host.state # "Exiting"
<1>8. ASSUME NEW i \in 1..Len(toHost), i \in 1..Len(toHost'), toHost'[i] = toHost[i]
      PROVE  Sound(i)
  <2>1. toHost[i].msg.is # "saved"
    BY <1>3 DEF SaidInv
  <2> QED
    BY <1>3, <1>8, <2>1 DEF SaidInv
<1>9. ASSUME NEW i \in 1..Len(toHost'), i \notin 1..Len(toHost)
      PROVE  Sound(i)
  <2> DEFINE m == toHost'[i].msg
  <2>1. /\ toHost'[i].seen = app'.seen
        /\ Word(m, i = Len(toHost) + 1 /\ i = Len(toHost'), i = Len(toHost'))
    BY <1>2, <1>9
  <2>2. app'.seen <= host.notices /\ (host.state = "Closed" => app'.seen < host.notices)
    BY <1>4, <1>5, <1>6, <2>1 DEF Word
  <2>3. m.is = "ready" => i = 1 /\ m.protocol = "same" /\ host.state \in {"Greeting", "Closed"}
    <3>1. app.pc = "boot" => host.state \in {"Greeting", "Closed"} /\ Len(toHost) = 0
      BY DEF TurnInv
    <3> QED
      BY <2>1, <3>1 DEF Word
  <2>4. m.is = "diagnostic" => ~m.long
    BY <2>1 DEF Word
  <2>5. m.is = "frame" => ~m.many
    BY <2>1 DEF Word
  <2>6. m.is = "saved" => /\ i = Len(toHost') /\ ~Alive'
                          /\ host.state # "Closed" => host.state = "Exiting" /\ m.reason = host.exiting
    BY <1>7, <2>1 DEF Word, TurnInv
  <2>7. Asks(m) /\ app'.seen = host.notices => host.state # "Exiting"
    <3>1. Asks(m) => app'.pc \in {"loop", "drawing"}
      BY <2>1 DEF Word, Asks
    <3> QED
      BY <1>1, <1>5, <1>6, <3>1
  <2> QED
    BY <2>1, <2>2, <2>3, <2>4, <2>5, <2>6, <2>7
<1>10. \A i \in 1..Len(toHost') : Sound(i)
  <2> HIDE DEF Sound
  <2> QED
    BY <1>2, <1>8, <1>9
<1> QED
  BY <1>3, <1>10 DEF SaidInv

LEMMA WalksTrue ==
    ASSUME SessionTypes, SessionTypes', PublishedInv, SavedInv, Walks, Speaks, UNCHANGED host
    PROVE  PublishedInv' /\ SavedInv'
<1>1. app'.seen \in Nat
  BY DEF SessionTypes, Processes
<1>2. /\ \A i \in 1..Len(toHost) : i \in 1..Len(toHost') /\ toHost'[i] = toHost[i]
      /\ \A i \in 1..Len(toHost') : i \notin 1..Len(toHost) =>
            Word(toHost'[i].msg, i = Len(toHost) + 1 /\ i = Len(toHost'), i = Len(toHost'))
  BY <1>1, Heard
<1>3. /\ Alive /\ host' = host /\ app.published \subseteq app'.published
      /\ app'.pc = "drawing" => app'.drawing \in app'.published
      /\ app'.pc = "saved" => disk'.save = app'.memory
      /\ app.pc = "saved" => disk'.save = disk.save /\ app'.memory = app.memory
  BY DEF Walks, Alive
<1>4. ASSUME NEW i \in 1..Len(toHost')
      PROVE  /\ toHost'[i].msg.is = "frame" => toHost'[i].msg.frame \in app'.published
             /\ toHost'[i].msg.is = "saved" => ~Alive' /\ (toHost'[i].msg.ok = TRUE => disk'.save = app'.memory)
  <2>1. CASE i \in 1..Len(toHost)
    <3>1. toHost'[i] = toHost[i] /\ toHost[i].msg.is # "saved"
      BY <1>2, <1>3, <2>1 DEF SavedInv
    <3>2. toHost[i].msg.is = "frame" => toHost[i].msg.frame \in app.published
      BY <2>1 DEF PublishedInv
    <3> QED
      BY <1>3, <3>1, <3>2
  <2>2. CASE i \notin 1..Len(toHost)
    <3> DEFINE m == toHost'[i].msg
    <3>1. Word(m, i = Len(toHost) + 1 /\ i = Len(toHost'), i = Len(toHost'))
      BY <1>2, <2>2
    <3>2. m.is = "frame" => m.frame \in app'.published
      BY <1>3, <3>1 DEF Word, PublishedInv
    <3>3. m.is = "saved" => ~Alive' /\ m.ok = (app.pc = "saved")
      BY <3>1 DEF Word, Alive
    <3>4. app.pc = "saved" => disk'.save = app'.memory
      BY <1>3 DEF SavedInv
    <3> QED
      BY <3>2, <3>3, <3>4
  <2> QED
    BY <2>1, <2>2
<1>5. host.saved # TRUE
  BY <1>3 DEF SavedInv
<1>6. host.accepted \subseteq app'.published
  BY <1>3 DEF PublishedInv
<1>7. PublishedInv'
  BY <1>3, <1>4, <1>6 DEF PublishedInv
<1>8. SavedInv'
  BY <1>3, <1>4, <1>5 DEF SavedInv
<1> QED
  BY <1>7, <1>8

(* Reading moves what was asked for along: from the socket to the drawing.    *)
LEMMA LiveWalks ==
    ASSUME SessionTypes, toApp # <<>>, toApp' = Tail(toApp)
    PROVE  /\ \A i \in 1..Len(toApp') : LiveDraw(i)' <=> LiveDraw(i + 1)
           /\ toApp[1].is = "draw" =>
                 (LiveDraw(1) <=> \A j \in 1..Len(toApp') : ~Notice(toApp'[j]))
<1>1. /\ Len(toApp) \in Nat /\ 1 \in 1..Len(toApp)
      /\ \A i \in 1..Len(toApp') : i + 1 \in 1..Len(toApp) /\ i + 1 > 1 /\ toApp'[i] = toApp[i + 1]
      /\ \A i \in 1..Len(toApp) : i # 1 => i - 1 \in 1..Len(toApp') /\ toApp'[i - 1] = toApp[i]
      /\ \A i, j \in 1..Len(toApp') : (i + 1 = j + 1 => i = j) /\ (i > j <=> i + 1 > j + 1)
  BY Read
<1>2. \A j \in 1..Len(toApp) : j # 1 => (j - 1) + 1 = j /\ j > 1
  BY <1>1
<1>3. ASSUME NEW i \in 1..Len(toApp')
      PROVE  LiveDraw(i)' <=> LiveDraw(i + 1)
  <2>1. ASSUME LiveDraw(i + 1), NEW j \in 1..Len(toApp'), j > i
        PROVE  ~Notice(toApp'[j])
    <3>1. j + 1 \in 1..Len(toApp) /\ toApp'[j] = toApp[j + 1] /\ j + 1 > i + 1
      BY <1>1, <2>1
    <3> QED
      BY <2>1, <3>1 DEF LiveDraw
  <2>2. ASSUME LiveDraw(i)', NEW j \in 1..Len(toApp), j > i + 1
        PROVE  ~Notice(toApp[j])
    <3>1. j # 1
      BY <2>2
    <3>2. j - 1 \in 1..Len(toApp') /\ toApp'[j - 1] = toApp[j] /\ j - 1 > i
      BY <1>1, <2>2, <3>1
    <3>3. \A k \in 1..Len(toApp') : k > i => ~Notice(toApp'[k])
      BY <2>2 DEF LiveDraw
    <3> QED
      BY <3>2, <3>3
  <2>3. toApp'[i] = toApp[i + 1]
    BY <1>1
  <2>4. LiveDraw(i + 1) => LiveDraw(i)'
    <3>1. LiveDraw(i + 1) => toApp'[i].is = "draw"
      BY <2>3 DEF LiveDraw
    <3> QED
      BY <2>1, <3>1 DEF LiveDraw
  <2>5. LiveDraw(i)' => LiveDraw(i + 1)
    <3>1. LiveDraw(i)' => toApp[i + 1].is = "draw"
      BY <2>3 DEF LiveDraw
    <3> QED
      BY <2>2, <3>1 DEF LiveDraw
  <2> QED
    BY <2>4, <2>5
<1>4. ASSUME toApp[1].is = "draw"
      PROVE  LiveDraw(1) <=> \A j \in 1..Len(toApp') : ~Notice(toApp'[j])
  <2>1. ASSUME LiveDraw(1), NEW j \in 1..Len(toApp')
        PROVE  ~Notice(toApp'[j])
    BY <1>1, <2>1 DEF LiveDraw
  <2>2. ASSUME \A j \in 1..Len(toApp') : ~Notice(toApp'[j]), NEW j \in 1..Len(toApp), j > 1
        PROVE  ~Notice(toApp[j])
    <3>1. j # 1
      BY <2>2
    <3> QED
      BY <1>1, <2>2, <3>1
  <2> QED
    BY <1>4, <2>1, <2>2 DEF LiveDraw
<1> QED
  BY <1>3, <1>4

(* The frames asked for, wherever they are on their way.                      *)
DrawsOf ==
    /\ \A i \in 1..Len(toApp) : toApp[i].is = "draw" =>
          /\ toApp[i].frame < host.next
          /\ host.outstanding = toApp[i].frame => LiveDraw(i)
          /\ LiveDraw(i) => Asked(toApp[i].frame) /\ \A j \in 1..Len(toApp) : LiveDraw(j) => i = j
DrawingOf ==
    app.pc = "drawing" =>
        /\ app.drawing < host.next
        /\ host.outstanding = app.drawing => LiveDrawing
        /\ LiveDrawing => Asked(app.drawing) /\ \A i \in 1..Len(toApp) : ~LiveDraw(i)
FramesOf ==
    \A i \in 1..Len(toHost) : toHost[i].msg.is = "frame" =>
        /\ toHost[i].msg.frame < host.next
        /\ host.outstanding = toHost[i].msg.frame => LiveFrame(i)
        /\ LiveFrame(i) => /\ Asked(toHost[i].msg.frame) /\ ~LiveDrawing
                           /\ \A j \in 1..Len(toHost) : LiveFrame(j) => i = j
                           /\ \A j \in 1..Len(toApp) : ~LiveDraw(j)
OnTheWay == DrawsOf /\ DrawingOf /\ FramesOf

LEMMA FrameParts == FrameInv <=> (host.state # "Closed" => OnTheWay)
BY DEF FrameInv, OnTheWay, DrawsOf, DrawingOf, FramesOf

LEMMA WalksDraws ==
    ASSUME SessionTypes, OnTheWay, UNCHANGED host,
           toApp' = toApp \/ (toApp # <<>> /\ toApp' = Tail(toApp))
    PROVE  /\ DrawsOf'
           /\ (\A i \in 1..Len(toApp) : ~LiveDraw(i)) => \A i \in 1..Len(toApp') : ~LiveDraw(i)'
<1>1. host' = host /\ \A f : Asked(f)' <=> Asked(f)
  BY DEF Asked
<1>2. CASE toApp' = toApp
  BY <1>1, <1>2 DEF OnTheWay, DrawsOf, LiveDraw
<1>3. CASE toApp # <<>> /\ toApp' = Tail(toApp)
  <2>1. /\ \A i \in 1..Len(toApp') : i + 1 \in 1..Len(toApp) /\ toApp'[i] = toApp[i + 1]
        /\ \A i, j \in 1..Len(toApp') : i + 1 = j + 1 => i = j
    BY <1>3, Read
  <2>2. \A i \in 1..Len(toApp') : LiveDraw(i)' <=> LiveDraw(i + 1)
    BY <1>3, LiveWalks
  <2>3. ASSUME NEW i \in 1..Len(toApp'), toApp'[i].is = "draw"
        PROVE  /\ toApp'[i].frame < host.next
               /\ host.outstanding = toApp'[i].frame => LiveDraw(i)'
               /\ LiveDraw(i)' => /\ host.state = "Running" /\ host.outstanding = toApp'[i].frame
                                  /\ \A j \in 1..Len(toApp') : LiveDraw(j)' => i = j
    <3> DEFINE k == i + 1
    <3>1. k \in 1..Len(toApp) /\ toApp'[i] = toApp[k] /\ (LiveDraw(i)' <=> LiveDraw(k))
      BY <2>1, <2>2
    <3> HIDE DEF k
    <3>2. /\ toApp[k].frame < host.next
          /\ host.outstanding = toApp[k].frame => LiveDraw(k)
          /\ LiveDraw(k) => Asked(toApp[k].frame) /\ \A j \in 1..Len(toApp) : LiveDraw(j) => k = j
      BY <2>3, <3>1 DEF OnTheWay, DrawsOf
    <3>3. ASSUME LiveDraw(k), NEW j \in 1..Len(toApp'), LiveDraw(j)'
          PROVE  i = j
      <4>1. j + 1 \in 1..Len(toApp) /\ LiveDraw(j + 1)
        BY <2>1, <2>2, <3>3
      <4>2. i + 1 = j + 1
        BY <3>2, <3>3, <4>1 DEF k
      <4> QED
        BY <2>1, <4>2
    <3> QED
      BY <3>1, <3>2, <3>3 DEF Asked
  <2>4. DrawsOf'
    BY <1>1, <2>3 DEF DrawsOf, Asked
  <2>5. (\A i \in 1..Len(toApp) : ~LiveDraw(i)) => \A i \in 1..Len(toApp') : ~LiveDraw(i)'
    BY <2>1, <2>2
  <2> QED
    BY <2>4, <2>5
<1> QED
  BY <1>2, <1>3

LEMMA WalksFrames ==
    ASSUME SessionTypes, SessionTypes', SaidInv, FrameInv, Counted, Walks, Speaks, UNCHANGED host
    PROVE  FrameInv'
<1> SUFFICES ASSUME host.state # "Closed"
             PROVE  OnTheWay'
  <2>1. FrameInv' <=> (host'.state # "Closed" => OnTheWay')
    BY DEF FrameInv, OnTheWay, DrawsOf, DrawingOf, FramesOf
  <2> QED
    BY <2>1
<1>1. app'.seen \in Nat /\ app.seen \in Nat /\ host.notices \in Nat
  BY DEF SessionTypes, Sessions, Processes
<1>2. /\ Len(toHost) \in Nat /\ Len(toHost') \in Nat /\ Len(toHost') >= Len(toHost)
      /\ \A i \in 1..Len(toHost) : i \in 1..Len(toHost') /\ toHost'[i] = toHost[i]
      /\ \A i \in 1..Len(toHost') : i \notin 1..Len(toHost) =>
            /\ toHost'[i].seen = app'.seen
            /\ Word(toHost'[i].msg, i = Len(toHost) + 1 /\ i = Len(toHost'), i = Len(toHost'))
  BY <1>1, Heard
<1>3. /\ Alive /\ host' = host
      /\ toApp' = toApp \/ (toApp # <<>> /\ toApp' = Tail(toApp))
  BY DEF Walks, Works, Reads, Alive
<1>4. OnTheWay
  BY FrameParts
<1>5. /\ DrawsOf'
      /\ (\A i \in 1..Len(toApp) : ~LiveDraw(i)) => \A i \in 1..Len(toApp') : ~LiveDraw(i)'
  BY <1>3, <1>4, WalksDraws
<1>6. /\ app'.pc = "drawing" => /\ toApp # <<>> /\ toApp' = Tail(toApp)
                                /\ toApp[1].is = "draw" /\ app'.drawing = toApp[1].frame
      /\ app.pc = "drawing" /\ app'.pc = "loop" => toApp' = toApp /\ app'.seen = app.seen
  BY Read DEF Walks, Works, Reads
<1>7. ASSUME app'.pc = "drawing"
      PROVE  /\ 1 \in 1..Len(toApp) /\ (LiveDrawing' <=> LiveDraw(1))
             /\ \A i \in 1..Len(toApp') : LiveDraw(i)' => LiveDraw(i + 1) /\ i + 1 \in 1..Len(toApp) /\ i + 1 # 1
  <2>1. toApp # <<>> /\ toApp' = Tail(toApp) /\ toApp[1].is = "draw"
    BY <1>6, <1>7
  <2>2. 1 \in 1..Len(toApp) /\ \A i \in 1..Len(toApp') : i + 1 \in 1..Len(toApp) /\ i + 1 > 1
    BY <2>1, Read
  <2>3. \A i \in 1..Len(toApp') : i + 1 # 1
    BY <2>2
  <2>4. /\ \A i \in 1..Len(toApp') : LiveDraw(i)' <=> LiveDraw(i + 1)
        /\ LiveDraw(1) <=> \A j \in 1..Len(toApp') : ~Notice(toApp'[j])
    BY <2>1, LiveWalks
  <2>5. LiveDrawing' <=> LiveDraw(1)
    BY <1>7, <2>4 DEF LiveDrawing
  <2> QED
    BY <2>2, <2>3, <2>4, <2>5
<1>8. DrawingOf'
  <2>1. ASSUME app'.pc = "drawing"
        PROVE  /\ app'.drawing < host.next
               /\ host.outstanding = app'.drawing => LiveDrawing'
               /\ LiveDrawing' => /\ host.state = "Running" /\ host.outstanding = app'.drawing
                                  /\ \A i \in 1..Len(toApp') : ~LiveDraw(i)'
    <3>1. toApp[1].is = "draw" /\ app'.drawing = toApp[1].frame
      BY <1>6, <2>1
    <3>2. /\ 1 \in 1..Len(toApp) /\ (LiveDrawing' <=> LiveDraw(1))
          /\ \A i \in 1..Len(toApp') : LiveDraw(i)' => LiveDraw(i + 1) /\ i + 1 \in 1..Len(toApp) /\ i + 1 # 1
      BY <1>7, <2>1
    <3>3. /\ toApp[1].frame < host.next
          /\ host.outstanding = toApp[1].frame => LiveDraw(1)
          /\ LiveDraw(1) => Asked(toApp[1].frame) /\ \A j \in 1..Len(toApp) : LiveDraw(j) => 1 = j
      BY <1>4, <3>1, <3>2 DEF OnTheWay, DrawsOf
    <3>4. LiveDraw(1) => \A i \in 1..Len(toApp') : ~LiveDraw(i)'
      BY <3>2, <3>3
    <3> QED
      BY <3>1, <3>2, <3>3, <3>4 DEF Asked
  <2> QED
    BY <1>3, <2>1 DEF DrawingOf, Asked
<1>9. LiveDrawing => \A j \in 1..Len(toApp) : ~Notice(toApp[j])
  BY DEF LiveDrawing
<1>10. app.pc = "drawing" => (LiveDrawing <=> app.seen = host.notices)
  <2>1. (\A j \in 1..Len(toApp) : ~Notice(toApp[j])) <=> app.seen = host.notices
    BY <1>1, <1>3, SeenBefore
  <2> QED
    BY <2>1 DEF LiveDrawing
<1>11. app.pc = "drawing" =>
          /\ app.drawing < host.next
          /\ host.outstanding = app.drawing => LiveDrawing
          /\ LiveDrawing => Asked(app.drawing) /\ \A i \in 1..Len(toApp) : ~LiveDraw(i)
  BY <1>4 DEF OnTheWay, DrawingOf
<1>12. ASSUME NEW i \in 1..Len(toHost'), i \notin 1..Len(toHost), toHost'[i].msg.is = "frame"
       PROVE  /\ app.pc = "drawing" /\ toHost'[i].msg.frame = app.drawing /\ app'.pc = "loop"
              /\ i = Len(toHost') /\ (LiveFrame(i)' <=> LiveDrawing)
  <2>1. /\ app.pc = "drawing" /\ toHost'[i].msg.frame = app.drawing /\ app'.pc = "loop"
        /\ i = Len(toHost') /\ toHost'[i].seen = app'.seen
    BY <1>2, <1>12 DEF Word
  <2>2. app'.seen = app.seen
    BY <1>6, <2>1
  <2>3. LiveFrame(i)' <=> app.seen = host.notices
    BY <1>3, <1>12, <2>1, <2>2 DEF LiveFrame
  <2> QED
    BY <1>10, <2>1, <2>3
<1>13. \A i \in 1..Len(toHost) : LiveFrame(i)' <=> LiveFrame(i)
  BY <1>2, <1>3 DEF LiveFrame
<1>14. ASSUME NEW i \in 1..Len(toHost), toHost[i].msg.is = "frame"
       PROVE  /\ toHost[i].msg.frame < host.next
              /\ host.outstanding = toHost[i].msg.frame => LiveFrame(i)
              /\ LiveFrame(i) => /\ Asked(toHost[i].msg.frame) /\ ~LiveDrawing
                                 /\ \A j \in 1..Len(toHost) : LiveFrame(j) => i = j
                                 /\ \A j \in 1..Len(toApp) : ~LiveDraw(j)
  BY <1>4, <1>14 DEF OnTheWay, FramesOf
<1>15. ASSUME NEW i \in 1..Len(toHost'), toHost'[i].msg.is = "frame"
       PROVE  /\ toHost'[i].msg.frame < host.next
              /\ host.outstanding = toHost'[i].msg.frame => LiveFrame(i)'
              /\ LiveFrame(i)' => /\ host.state = "Running" /\ host.outstanding = toHost'[i].msg.frame
                                  /\ ~LiveDrawing'
                                  /\ \A j \in 1..Len(toHost') : LiveFrame(j)' => i = j
                                  /\ \A j \in 1..Len(toApp') : ~LiveDraw(j)'
  <2>1. CASE i \in 1..Len(toHost)
    <3>1. toHost'[i] = toHost[i] /\ toHost[i].msg.is = "frame" /\ (LiveFrame(i)' <=> LiveFrame(i))
      BY <1>2, <1>13, <1>15, <2>1
    <3>2. /\ toHost[i].msg.frame < host.next
          /\ host.outstanding = toHost[i].msg.frame => LiveFrame(i)
          /\ LiveFrame(i) => /\ Asked(toHost[i].msg.frame) /\ ~LiveDrawing
                             /\ \A j \in 1..Len(toHost) : LiveFrame(j) => i = j
                             /\ \A j \in 1..Len(toApp) : ~LiveDraw(j)
      BY <1>14, <2>1, <3>1
    <3>3. LiveFrame(i) => ~LiveDrawing'
      <4>1. LiveDrawing' => app'.pc = "drawing"
        BY DEF LiveDrawing
      <4> QED
        BY <1>7, <3>2, <4>1
    <3>4. ASSUME LiveFrame(i), NEW j \in 1..Len(toHost'), LiveFrame(j)'
          PROVE  i = j
      <4>1. CASE j \in 1..Len(toHost)
        BY <1>13, <3>2, <3>4, <4>1
      <4>2. CASE j \notin 1..Len(toHost)
        <5>1. toHost'[j].msg.is = "frame"
          BY <3>4 DEF LiveFrame
        <5>2. LiveDrawing
          BY <1>12, <3>4, <4>2, <5>1
        <5> QED
          BY <3>2, <3>4, <5>2
      <4> QED
        BY <4>1, <4>2
    <3> QED
      BY <1>5, <3>1, <3>2, <3>3, <3>4 DEF Asked
  <2>2. CASE i \notin 1..Len(toHost)
    <3>1. /\ app.pc = "drawing" /\ toHost'[i].msg.frame = app.drawing /\ app'.pc = "loop"
          /\ i = Len(toHost') /\ (LiveFrame(i)' <=> LiveDrawing)
      BY <1>12, <1>15, <2>2
    <3>2. ~LiveDrawing'
      BY <3>1 DEF LiveDrawing
    <3>3. ASSUME LiveDrawing, NEW j \in 1..Len(toHost'), LiveFrame(j)'
          PROVE  i = j
      <4>0. toHost'[j].msg.is = "frame"
        BY <3>3 DEF LiveFrame
      <4>1. CASE j \in 1..Len(toHost)
        <5>1. LiveFrame(j) /\ toHost[j].msg.is = "frame"
          BY <1>2, <1>13, <3>3, <4>0, <4>1
        <5> QED
          BY <1>14, <3>3, <4>1, <5>1
      <4>2. CASE j \notin 1..Len(toHost)
        BY <1>12, <3>1, <4>0, <4>2
      <4> QED
        BY <4>1, <4>2
    <3> QED
      BY <1>5, <1>11, <3>1, <3>2, <3>3 DEF Asked
  <2> QED
    BY <2>1, <2>2
<1>16. FramesOf'
  BY <1>3, <1>15 DEF FramesOf, Asked
<1> QED
  BY <1>5, <1>8, <1>16 DEF OnTheWay

LEMMA AppKeeps ==
    ASSUME NilAssumption, SessionInv, S!Loop \/ S!Die
    PROVE  SessionInv'
<1>1. SessionTypes /\ HostInv
  BY DEF SessionInv
<1>2. SessionTypes' /\ UNCHANGED host /\ Speaks /\ Walks
  BY <1>1, AppSteps
<1>3. app'.sdk = app.sdk /\ app'.seen \in Nat
  BY <1>2 DEF Walks, SessionTypes, Processes
<1>4. HostInv'
  BY <1>1, <1>2 DEF HostInv
<1>5. app.sdk => PublishedInv' /\ SavedInv'
  BY <1>1, <1>2, WalksTrue DEF SessionInv
<1>6. ASSUME TalkInv
      PROVE  TalkInv'
  <2>1. SaidInv /\ TurnInv /\ FrameInv /\ Counted
    BY <1>6 DEF TalkInv
  <2>2. Counted'
    BY <1>1, <1>2, <2>1, WalksCount
  <2>3. TurnInv'
    BY <1>1, <1>2, <1>3, <2>1, WalksTurn
  <2>4. SaidInv'
    BY <1>1, <1>2, <2>1, <2>2, <2>3, WalksSaid
  <2>5. FrameInv'
    BY <1>1, <1>2, <2>1, WalksFrames
  <2> QED
    BY <2>2, <2>3, <2>4, <2>5 DEF TalkInv
<1> QED
  BY <1>2, <1>3, <1>4, <1>5, <1>6 DEF SessionInv

LEMMA AnythingKeeps ==
    ASSUME SessionInv, S!SendAnything
    PROVE  SessionInv'
<1>1. SessionTypes' /\ UNCHANGED <<host, app, disk>> /\ ~app.sdk
  BY AnythingSteps DEF SessionInv
<1> QED
  BY <1>1 DEF SessionInv, HostInv

LEMMA RestKeeps ==
    ASSUME SessionInv, UNCHANGED session
    PROVE  SessionInv'
BY DEF session, SessionInv, SessionTypes, HostInv, PublishedInv, SavedInv, TalkInv, SaidInv, TurnInv, FrameInv,
       LiveDraw, LiveDrawing, LiveFrame, Asked, Counted, Alive, Asks

LEMMA SessionStarts ==
    ASSUME NilAssumption, S!Init
    PROVE  SessionInv
<1>1. /\ host = S!NewSession /\ toApp = <<S!Greeting>> /\ toHost = <<>>
      /\ app \in {S!NewProcess(TRUE, TRUE), S!NewProcess(TRUE, FALSE), S!NewProcess(FALSE, FALSE)}
      /\ disk \in {[save |-> Nil, partial |-> Nil], [save |-> 0, partial |-> S!Torn]}
  BY DEF S!Init
<1>2. /\ host \in Sessions /\ host.state = "Greeting" /\ host.next = 0 /\ host.outstanding = Nil
      /\ host.violation = Nil /\ host.notices = 0 /\ host.accepted = {} /\ host.abandoned = {} /\ host.saved = Nil
  BY <1>1 DEF S!NewSession, Sessions, S!State
<1>3. app \in Processes /\ app.pc = "boot" /\ app.seen = 0
  <2>1. ASSUME NEW sdk \in BOOLEAN, NEW granted \in BOOLEAN
        PROVE  /\ S!NewProcess(sdk, granted) \in Processes
               /\ S!NewProcess(sdk, granted).pc = "boot" /\ S!NewProcess(sdk, granted).seen = 0
    BY DEF S!NewProcess, Processes, AppPcs
  <2> QED
    BY <1>1, <2>1
<1>4. disk \in Disks
  BY <1>1 DEF S!Torn, Disks
<1>5. Len(toHost) = 0 /\ toHost \in Seq(Stamped)
  BY <1>1
<1>6. toApp \in Seq(ToAppMessages) /\ Len(toApp) = 1 /\ toApp[1].is = "hello"
  <2> DEFINE m == S!Greeting
  <2>1. m \in ToAppMessages /\ m.is = "hello"
    BY ToAppKinds DEF S!Greeting
  <2>2. toApp = <<m>>
    BY <1>1
  <2> HIDE DEF m
  <2> QED
    BY <2>1, <2>2
<1>7. \A i \in 1..Len(toApp) : toApp[i].is = "hello"
  BY <1>6
<1>8. SessionTypes
  BY <1>2, <1>3, <1>4, <1>5, <1>6 DEF SessionTypes
<1>9. Nil # TRUE
  BY DEF NilAssumption
<1>10. HostInv /\ PublishedInv /\ SavedInv
  <2>1. 1..Len(toHost) = {} /\ host.accepted \union host.abandoned = {}
    BY <1>2, <1>5
  <2>2. HostInv
    BY <1>2, <2>1 DEF HostInv
  <2>3. PublishedInv
    BY <1>2, <1>3, <2>1 DEF PublishedInv
  <2>4. SavedInv
    BY <1>2, <1>3, <1>9, <2>1 DEF SavedInv
  <2> QED
    BY <2>2, <2>3, <2>4
<1>11. SaidInv /\ TurnInv /\ FrameInv
  <2>1. 1..Len(toHost) = {}
    BY <1>5
  <2>2. SaidInv
    BY <2>1 DEF SaidInv
  <2>3. TurnInv
    BY <1>1, <1>2, <1>3, <1>7 DEF TurnInv
  <2>4. FrameInv
    BY <1>3, <1>7, <2>1 DEF FrameInv
  <2> QED
    BY <2>2, <2>3, <2>4
<1>12. Counted
  <2> DEFINE g == [i \in 0..Len(toApp) |-> 0]
  <2>1. g \in [0..Len(toApp) -> Nat] /\ \A i \in 0..Len(toApp) : g[i] = 0
    OBVIOUS
  <2>2. \A i \in 1..Len(toApp) : ~Notice(toApp[i])
    BY <1>7 DEF Notice
  <2> HIDE DEF g
  <2>3. /\ 0 \in 0..Len(toApp) /\ Len(toApp) \in 0..Len(toApp)
        /\ \A i \in 1..Len(toApp) : i \in 0..Len(toApp) /\ i - 1 \in 0..Len(toApp)
    BY <1>6
  <2>4. Counts(g, toApp, app.seen, host.notices)
    BY <1>2, <1>3, <2>1, <2>2, <2>3 DEF Counts
  <2> QED
    BY <2>1, <2>4 DEF Counted
<1>13. TalkInv
  BY <1>11, <1>12 DEF TalkInv
<1> QED
  BY <1>2, <1>8, <1>10, <1>13 DEF SessionInv

LEMMA SessionInvSound ==
    ASSUME NilAssumption, SessionInv
    PROVE  SessionIsSound
<1>1. host \in Sessions /\ app \in Processes /\ disk \in Disks /\ HostInv
  BY DEF SessionInv, SessionTypes
<1>2. Nil \notin Reasons
  BY DEF NilAssumption
<1>3. S!TypeOK
  BY <1>1, <1>2 DEF S!TypeOK, Sessions, Processes, AppPcs, HostInv
<1>4. S!HonestOnlyCrossed
  BY DEF S!HonestOnlyCrossed, SessionInv
<1>5. S!FrameIsPublished
  BY DEF S!FrameIsPublished, SessionInv, PublishedInv
<1>6. S!AbandonedStaysAbandoned
  BY <1>1 DEF S!AbandonedStaysAbandoned, HostInv
<1>7. S!SaveIsWhole
  <2>1. Nil # 2 /\ disk.save \in {0, 1, Nil}
    BY <1>1 DEF Disks, NilAssumption
  <2> QED
    BY <2>1 DEF S!SaveIsWhole, S!Torn
<1>8. S!SavedIsTrue
  BY DEF S!SavedIsTrue, SessionInv, SavedInv
<1> QED
  BY <1>3, <1>4, <1>5, <1>6, <1>7, <1>8 DEF SessionIsSound

(* An app built with the SDK is refused only for a message that crossed a     *)
(* suspend, exit or goodbye notice (check_app_message); a frame is accepted   *)
(* only after it was published and never after it was given up; a save file   *)
(* is never torn (write_private), and one that was reported is on disk.       *)
THEOREM SessionsAreSound == Spec => []SessionIsSound
<1>1. Init => SessionInv
  BY NilAssumption, SessionStarts DEF Init
<1>2. SessionInv /\ [Next]_vars => SessionInv'
  <2> SUFFICES ASSUME SessionInv, [Next]_vars
               PROVE  SessionInv'
    OBVIOUS
  <2>1. CASE S!Next
    BY <2>1, NilAssumption, ReadKeeps, HostKeeps, AppKeeps, AnythingKeeps DEF S!Next
  <2>2. CASE UNCHANGED session
    BY <2>2, RestKeeps
  <2> QED
    BY <2>1, <2>2 DEF Next, vars
<1>3. SessionInv => SessionIsSound
  BY NilAssumption, SessionInvSound
<1> QED
  BY <1>1, <1>2, <1>3, PTL DEF Spec

-----------------------------------------------------------------------------
(* The session implements its contract. *)

(* A frame is outstanding only while the session runs.                       *)
OneFrameInv ==
    /\ DOMAIN host = DOMAIN S!NewSession
    /\ host.state \in S!State
    /\ host.state = "Greeting" => host.outstanding = Nil
    /\ host.state \in {"Suspended", "Exiting"} => host.outstanding = Nil

Conversation == <<host.state, host.outstanding, host.next, host.exiting>>

ContractStep ==
    \/ S!Abstract!Accept \/ S!Abstract!Ask \/ S!Abstract!Answer
    \/ S!Abstract!Rest \/ S!Abstract!Leave \/ S!Abstract!End

LEMMA ReadIsContract ==
    ASSUME NilAssumption, OneFrameInv, NEW m, NEW seen, host' = S!OnAppMessage(host, m, seen)
    PROVE  (ContractStep \/ UNCHANGED Conversation) /\ OneFrameInv'
<1> USE DEF OneFrameInv, S!NewSession, Conversation
<1>1. CASE S!Violation(host, m) = Nil
  <2>1. host' = S!Fold(host, m)
    BY <1>1 DEF S!OnAppMessage
  <2>2. CASE m.is = "ready"
    <3>1. host.state = "Greeting"
      BY <1>1, <2>2, NilAssumption DEF S!Violation, Violations
    <3> QED
      BY <2>1, <2>2, <3>1 DEF S!Fold, ContractStep, S!Abstract!Accept, S!State
  <2>3. CASE m.is = "frame"
    <3>1. /\ host.state = "Closed" => S!Violation(host, m) = "AfterClose"
          /\ host.state = "Greeting" => S!Violation(host, m) = "BeforeReady"
          /\ host.state = "Exiting" => S!Violation(host, m) = "AfterExit"
      BY <2>3 DEF S!Violation
    <3>2. host.state \in {"Running", "Suspended"}
      BY <1>1, <3>1, NilAssumption DEF S!State, Violations
    <3>4. host.outstanding = Nil => S!Violation(host, m) = "NoFrameOutstanding"
      BY <2>3, <3>2 DEF S!Violation, S!FrameViolation
    <3>5. host.outstanding # Nil
      BY <1>1, <3>4, NilAssumption DEF Violations
    <3>3. host.state = "Running"
      BY <3>2, <3>5
    <3> QED
      BY <2>1, <2>3, <3>5, <3>3 DEF S!Fold, ContractStep, S!Abstract!Answer, S!State
  <2>4. CASE m.is = "saved"
    <3>1. host.state = "Exiting"
      BY <1>1, <2>4, NilAssumption DEF S!Violation, Violations
    <3> QED
      BY <2>1, <2>4, <3>1 DEF S!Fold, ContractStep, S!Abstract!End, S!State
  <2>5. CASE m.is \notin {"ready", "frame", "saved"}
    BY <2>1, <2>5 DEF S!Fold
  <2> QED
    BY <2>2, <2>3, <2>4, <2>5
<1>2. CASE S!Violation(host, m) # Nil
  BY <1>2 DEF S!OnAppMessage, ContractStep, S!Abstract!End, S!State
<1> QED
  BY <1>1, <1>2

LEMMA SessionStep ==
    ASSUME NilAssumption, OneFrameInv, S!Next
    PROVE  (ContractStep \/ UNCHANGED Conversation) /\ OneFrameInv'
<1> USE DEF Conversation
<1>1. CASE S!HostReads
  BY <1>1, ReadIsContract DEF S!HostReads
<1>2. CASE S!HostSeesEof
  BY <1>2 DEF S!HostSeesEof, OneFrameInv, S!NewSession, ContractStep, S!Abstract!End, S!State
<1>3. CASE S!HostDraws
  BY <1>3 DEF S!HostDraws, OneFrameInv, S!NewSession, ContractStep, S!Abstract!Ask, S!State
<1>4. CASE S!HostSuspends
  BY <1>4 DEF S!HostSuspends, S!Forget, OneFrameInv, S!NewSession, ContractStep, S!Abstract!Rest, S!State
<1>5. CASE S!HostResumes
  BY <1>5 DEF S!HostResumes, OneFrameInv, S!NewSession, ContractStep, S!Abstract!Rest, S!State
<1>6. CASE \E x \in Reasons : S!HostPreparesToExit(x)
  BY <1>6 DEF S!HostPreparesToExit, S!Forget, OneFrameInv, S!NewSession, ContractStep,
              S!Abstract!Leave, S!State
<1>7. CASE S!HostCloses
  BY <1>7 DEF S!HostCloses, OneFrameInv, S!NewSession, ContractStep, S!Abstract!End, S!State
<1>8. CASE S!HostForwards \/ S!Loop \/ S!SendAnything \/ S!Die
  <2>1. UNCHANGED host
    BY <1>8 DEF S!HostForwards, S!Loop, S!SendAnything, S!Die, S!Start, S!HandleEvent, S!IgnoreHello,
                S!HandleCompleted, S!HandleDraw, S!ReportFrame, S!HandleExit, S!WritePartial,
                S!RenamePartial, S!ReportSaved, S!HandleGoodbye
  <2> QED
    BY <2>1 DEF OneFrameInv
<1> QED
  BY <1>1, <1>2, <1>3, <1>4, <1>5, <1>6, <1>7, <1>8 DEF S!Next, S!Host

(* SessionImplementsContract: whatever an app says, the session the host      *)
(* holds with it is a run of SessionContract, which Session (session.rs) is   *)
(* meant to enforce.                                                          *)
THEOREM SessionKeepsContract == Spec => SessionImplementsContract
<1> USE NilAssumption
<1>1. Init => S!Abstract!Greeted /\ OneFrameInv
  BY DEF Init, S!Init, S!NewSession, S!Abstract!Greeted, OneFrameInv, S!State
<1>2. OneFrameInv /\ [Next]_vars => [ContractStep]_(S!Abstract!svars) /\ OneFrameInv'
  <2> SUFFICES ASSUME OneFrameInv, [Next]_vars
               PROVE  [ContractStep]_(S!Abstract!svars) /\ OneFrameInv'
    OBVIOUS
  <2>1. CASE which = "session" /\ S!Next
    BY <2>1, SessionStep DEF Conversation, S!Abstract!svars
  <2>2. CASE UNCHANGED session
    BY <2>2 DEF session, OneFrameInv, S!Abstract!svars
  <2>3. (which = "session" /\ S!Next) \/ UNCHANGED session
    BY DEF Next, vars, session
  <2> QED
    BY <2>1, <2>2, <2>3
<1> QED
  BY <1>1, <1>2, PTL DEF Spec, SessionImplementsContract, S!ImplementsContract, S!Abstract!Contract,
     ContractStep

-----------------------------------------------------------------------------
(* What is in a queue.                                                        *)
Has(q, k) == \E i \in 1..Len(q) : q[i].is = k
One(q, k) == \A i, j \in 1..Len(q) : q[i].is = k /\ q[j].is = k => i = j
Only(q, k, n) == \A i \in 1..Len(q) : q[i].is = k => q[i].id = n

LEMMA TailKeeps ==
    ASSUME NEW M, NEW q \in Seq(M), q # <<>>, NEW k, NEW n
    PROVE  /\ Tail(q) \in Seq(M) /\ Head(q) \in M
           /\ Head(q).is = k => Has(q, k)
           /\ Has(Tail(q), k) => Has(q, k)
           /\ One(q, k) => One(Tail(q), k)
           /\ One(q, k) /\ Head(q).is = k => ~Has(Tail(q), k)
           /\ Only(q, k, n) => Only(Tail(q), k, n)
           /\ Only(q, k, n) /\ Head(q).is = k => Head(q).id = n
<1>1. /\ Tail(q) \in Seq(M) /\ Len(q) \in Nat /\ Len(q) > 0 /\ Len(Tail(q)) = Len(q) - 1
      /\ \A i \in 1..Len(Tail(q)) : i + 1 \in 1..Len(q) /\ i + 1 # 1 /\ Tail(q)[i] = q[i + 1]
      /\ Head(q) = q[1] /\ q[1] \in M /\ 1 \in 1..Len(q)
  OBVIOUS
<1>2. \A i, j \in 1..Len(Tail(q)) : i + 1 = j + 1 => i = j
  BY <1>1
<1> DEFINE t == Tail(q)
<1>3. \A i \in 1..Len(t) : i + 1 \in 1..Len(q) /\ i + 1 # 1 /\ t[i] = q[i + 1]
  BY <1>1
<1> HIDE DEF t
<1>4. Has(t, k) => Has(q, k)
  BY <1>3 DEF Has
<1>5. One(q, k) => One(t, k)
  BY <1>2, <1>3 DEF One, t
<1>6. One(q, k) /\ Head(q).is = k => ~Has(t, k)
  BY <1>1, <1>3 DEF One, Has
<1>7. Only(q, k, n) => Only(t, k, n)
  BY <1>3 DEF Only
<1>8. /\ Head(q).is = k => Has(q, k)
      /\ Only(q, k, n) /\ Head(q).is = k => Head(q).id = n
  BY <1>1 DEF Has, Only
<1> QED
  BY <1>1, <1>4, <1>5, <1>6, <1>7, <1>8 DEF t

LEMMA JoinKeeps ==
    ASSUME NEW M, NEW q \in Seq(M), NEW e \in Seq(M), NEW k, NEW n
    PROVE  /\ q \o e \in Seq(M)
           /\ Has(q \o e, k) => Has(q, k) \/ Has(e, k)
           /\ ~Has(e, k) /\ One(q, k) => One(q \o e, k)
           /\ ~Has(q, k) /\ One(e, k) => One(q \o e, k)
           /\ Only(q, k, n) /\ Only(e, k, n) => Only(q \o e, k, n)
<1> DEFINE j == q \o e
<1>1. /\ j \in Seq(M) /\ Len(q) \in Nat /\ Len(e) \in Nat /\ Len(j) = Len(q) + Len(e)
      /\ \A i \in 1..Len(j) : \/ i \in 1..Len(q) /\ j[i] = q[i]
                              \/ i - Len(q) \in 1..Len(e) /\ j[i] = e[i - Len(q)]
  OBVIOUS
<1> HIDE DEF j
<1>2. Has(j, k) => Has(q, k) \/ Has(e, k)
  BY <1>1 DEF Has
<1>3. ~Has(e, k) /\ One(q, k) => One(j, k)
  BY <1>1 DEF Has, One
<1>4. ~Has(q, k) /\ One(e, k) => One(j, k)
  <2> SUFFICES ASSUME ~Has(q, k), One(e, k), NEW a \in 1..Len(j), NEW b \in 1..Len(j),
                      j[a].is = k, j[b].is = k
               PROVE  a = b
    BY DEF One
  <2>1. /\ a - Len(q) \in 1..Len(e) /\ j[a] = e[a - Len(q)]
        /\ b - Len(q) \in 1..Len(e) /\ j[b] = e[b - Len(q)]
    BY <1>1 DEF Has
  <2>2. a - Len(q) = b - Len(q)
    BY <2>1 DEF One
  <2> QED
    BY <2>2, <1>1
<1>5. Only(q, k, n) /\ Only(e, k, n) => Only(j, k, n)
  BY <1>1 DEF Only
<1> QED
  BY <1>1, <1>2, <1>3, <1>4, <1>5 DEF j

LEMMA OneMessage ==
    ASSUME NEW M, NEW m \in M, NEW q \in Seq(M), NEW k, NEW n
    PROVE  /\ <<m>> \in Seq(M) /\ Append(q, m) = q \o <<m>>
           /\ m.is # k => ~Has(<<m>>, k)
           /\ One(<<m>>, k)
           /\ m.is = k /\ m.id = n => Only(<<m>>, k, n)
<1>1. <<m>> \in Seq(M) /\ Len(<<m>>) = 1 /\ <<m>>[1] = m
  OBVIOUS
<1>2. Append(q, m) = q \o <<m>>
  OBVIOUS
<1> QED
  BY <1>1, <1>2 DEF Has, One, Only

LEMMA NoneThere ==
    ASSUME NEW q, NEW k, NEW n
    PROVE  ~Has(q, k) => One(q, k) /\ Only(q, k, n)
BY DEF Has, One, Only

LEMMA AppendKeeps ==
    ASSUME NEW M, NEW q \in Seq(M), NEW m \in M, NEW k, NEW n
    PROVE  /\ Append(q, m) \in Seq(M)
           /\ m.is # k => /\ Has(Append(q, m), k) => Has(q, k)
                          /\ One(q, k) => One(Append(q, m), k)
                          /\ Only(q, k, n) => Only(Append(q, m), k, n)
           /\ m.is = k => /\ ~Has(q, k) => One(Append(q, m), k)
                          /\ Only(q, k, n) /\ m.id = n => Only(Append(q, m), k, n)
<1>1. /\ <<m>> \in Seq(M) /\ Append(q, m) = q \o <<m>> /\ One(<<m>>, k)
      /\ m.is # k => ~Has(<<m>>, k)
      /\ m.is = k /\ m.id = n => Only(<<m>>, k, n)
  BY OneMessage
<1>2. m.is # k => Only(<<m>>, k, n)
  BY <1>1, NoneThere
<1>3. /\ q \o <<m>> \in Seq(M)
      /\ Has(q \o <<m>>, k) => Has(q, k) \/ Has(<<m>>, k)
      /\ ~Has(<<m>>, k) /\ One(q, k) => One(q \o <<m>>, k)
      /\ ~Has(q, k) /\ One(<<m>>, k) => One(q \o <<m>>, k)
      /\ Only(q, k, n) /\ Only(<<m>>, k, n) => Only(q \o <<m>>, k, n)
  BY <1>1, JoinKeeps
<1> QED
  BY <1>1, <1>2, <1>3

LEMMA Repeated ==
    ASSUME NEW M, NEW m \in M, NEW n \in Nat, NEW k, m.is # k
    PROVE  /\ [i \in 1..n |-> m] \in Seq(M)
           /\ ~Has([i \in 1..n |-> m], k)
<1> DEFINE f == [i \in 1..n |-> m]
<1>1. f \in Seq(M) /\ \A i \in 1..Len(f) : f[i] = m
  OBVIOUS
<1> HIDE DEF f
<1>2. ~Has(f, k)
  BY <1>1 DEF Has
<1> QED
  BY <1>1, <1>2 DEF f

-----------------------------------------------------------------------------
(* The loop of `paperctl run`. *)

AppMessages == [is : {"hello", "pointer", "system", "draw", "answer", "exit"}, id : Nat]
HostMessages == [is : {"ready", "frame", "query", "saved"} \union L!Requests, id : Nat]
Wires == [toApp : Seq(AppMessages), toHost : Seq(HostMessages)]
Wanted == L!Requests \union {L!NoRequest}
DriverPcs == {"opening", "first", "introduce", "idle", "await", "batch", "more", "leaving", "shutdown",
              "switch", "clear", "ended"}
Lines == {"ignored", "save failed", "unclean"}
Drivers == [pc : DriverPcs, next : Nat, request : Wanted, seen : Wanted, batch : Nat,
            matched : BOOLEAN, lines : SUBSET Lines, result : {"none", "ok", "error"}]
Threads == [alive : BOOLEAN, picture : [L!Regions -> 0..1], changed : SUBSET L!Regions,
            saved : {"no", "yes", "failed"}]
Bridges == [frame : [L!Regions -> 0..1], damage : SUBSET (L!Regions \union {0})]

LoopTypes ==
    /\ wire \in Wires /\ drv \in Drivers /\ thread \in Threads /\ bridge \in Bridges
    /\ glass \in [L!Regions -> 0..2]

(* Frames are never pipelined: whoever is asked, one draw or one frame is on  *)
(* the wire, and it is the last one asked for.                                *)
DrawInv ==
    /\ drv.matched
    /\ One(wire.toApp, "draw") /\ One(wire.toHost, "frame")
    /\ ~(Has(wire.toApp, "draw") /\ Has(wire.toHost, "frame"))
    /\ Only(wire.toApp, "draw", drv.next - 1) /\ Only(wire.toHost, "frame", drv.next - 1)
    /\ drv.pc \notin {"first", "await", "more", "ended"} =>
           ~Has(wire.toApp, "draw") /\ ~Has(wire.toHost, "frame")

(* What the glass lacks of the last frame is in the damage slot, and what the *)
(* frame lacks of the app's picture is in what the app knows it changed.      *)
PictureInv ==
    /\ \A x \in L!Regions \ thread.changed : thread.picture[x] = bridge.frame[x]
    /\ drv.pc \in {"idle", "await", "batch", "more"} =>
           \A x \in L!Regions \ L!Covering(bridge.damage) : glass[x] = bridge.frame[x]
    /\ drv.pc = "idle" => glass = bridge.frame

(* What the app's thread says of its save is what became of it.               *)
LoopSavedInv ==
    /\ thread.alive => ~Has(wire.toHost, "saved") /\ thread.saved = "no"
    /\ Only(wire.toHost, "saved", IF thread.saved = "yes" THEN 1 ELSE 0)
    /\ L!QuietMeansSaved

LoopInv == LoopTypes /\ DrawInv /\ PictureInv /\ LoopSavedInv

LEMMA AskingAdds ==
    ASSUME LoopTypes, NEW w \in Wires, NEW pointers \in 0..1, L!Asking(w, pointers)
    PROVE  /\ wire' \in Wires /\ wire'.toHost = w.toHost
           /\ ~Has(w.toApp, "draw") =>
                 One(wire'.toApp, "draw") /\ Only(wire'.toApp, "draw", drv.next)
<1>1. PICK system \in 0..1 :
        wire' = [w EXCEPT !.toApp = @ \o [i \in 1..pointers |-> [is |-> "pointer", id |-> 0]]
                                      \o [i \in 1..system |-> [is |-> "system", id |-> 0]]
                                      \o <<[is |-> "draw", id |-> drv.next]>>]
  BY DEF L!Asking
<1> DEFINE p == [i \in 1..pointers |-> [is |-> "pointer", id |-> 0]]
           s == [i \in 1..system |-> [is |-> "system", id |-> 0]]
           d == [is |-> "draw", id |-> drv.next]
<1>2. d \in AppMessages /\ d.is = "draw" /\ d.id = drv.next
  BY DEF LoopTypes, Drivers, AppMessages
<1>3. [is |-> "pointer", id |-> 0] \in AppMessages /\ [is |-> "system", id |-> 0] \in AppMessages
  BY DEF AppMessages
<1>4. p \in Seq(AppMessages) /\ ~Has(p, "draw")
  BY <1>3, Repeated
<1>5. s \in Seq(AppMessages) /\ ~Has(s, "draw")
  BY <1>3, Repeated
<1>6. wire' = [w EXCEPT !.toApp = ((w.toApp \o p) \o s) \o <<d>>]
  BY <1>1
<1> HIDE DEF p, s, d
<1>7. w.toApp \in Seq(AppMessages) /\ w.toHost \in Seq(HostMessages) /\ w = [toApp |-> w.toApp, toHost |-> w.toHost]
  BY DEF Wires
<1> DEFINE q == (w.toApp \o p) \o s
<1>8. w.toApp \o p \in Seq(AppMessages) /\ (Has(w.toApp \o p, "draw") => Has(w.toApp, "draw"))
  BY <1>4, <1>7, JoinKeeps
<1>9. q \in Seq(AppMessages) /\ (Has(q, "draw") => Has(w.toApp, "draw"))
  BY <1>5, <1>8, JoinKeeps
<1>10. wire' = [w EXCEPT !.toApp = q \o <<d>>]
  BY <1>6
<1> HIDE DEF q
<1>11. <<d>> \in Seq(AppMessages) /\ One(<<d>>, "draw") /\ Only(<<d>>, "draw", drv.next)
  BY <1>2, <1>9, OneMessage
<1>12. /\ q \o <<d>> \in Seq(AppMessages)
       /\ ~Has(q, "draw") => One(q \o <<d>>, "draw") /\ Only(q \o <<d>>, "draw", drv.next)
  BY <1>9, <1>11, JoinKeeps, NoneThere
<1>13. wire'.toApp = q \o <<d>> /\ wire'.toHost = w.toHost /\ wire' \in Wires
  BY <1>7, <1>10, <1>12 DEF Wires
<1> QED
  BY <1>9, <1>12, <1>13
LEMMA Messages ==
    /\ \A k \in {"hello", "pointer", "system", "draw", "answer", "exit"}, n \in Nat :
          [is |-> k, id |-> n] \in AppMessages
    /\ \A k \in {"ready", "frame", "query", "saved"} \union L!Requests, n \in Nat :
          [is |-> k, id |-> n] \in HostMessages
BY DEF AppMessages, HostMessages

LEMMA Fresh ==
    /\ L!NewWire \in Wires /\ ~Has(L!NewWire.toApp, "draw")
    /\ \A k : ~Has(L!NewWire.toHost, k)
    /\ L!NewThread \in Threads
<1>1. [is |-> "hello", id |-> 0] \in AppMessages
  BY Messages
<1>2. <<[is |-> "hello", id |-> 0]>> \in Seq(AppMessages) /\ <<>> \in Seq(HostMessages)
  BY <1>1
<1>3. ~Has(<<[is |-> "hello", id |-> 0]>>, "draw")
  BY DEF Has
<1>4. \A k : ~Has(<<>>, k)
  BY DEF Has
<1> QED
  BY <1>2, <1>3, <1>4 DEF L!NewWire, L!NewThread, Wires, Threads

(* What a step of the app's thread puts on the wire.                          *)
LEMMA ThreadSays ==
    ASSUME LoopTypes, wire.toApp # <<>>, NEW said \in Seq(HostMessages),
           wire' = [toApp |-> Tail(wire.toApp), toHost |-> wire.toHost \o said]
    PROVE  /\ wire' \in Wires
           /\ ~Has(said, "frame") /\ DrawInv /\ UNCHANGED drv => DrawInv'
           /\ ~Has(said, "saved") /\ LoopSavedInv /\ UNCHANGED <<drv, thread.alive, thread.saved>> => LoopSavedInv'
<1>1. wire.toApp \in Seq(AppMessages) /\ wire.toHost \in Seq(HostMessages)
  BY DEF LoopTypes, Wires
<1>2. wire'.toApp = Tail(wire.toApp) /\ wire'.toHost = wire.toHost \o said
  OBVIOUS
<1>3. wire' \in Wires
  <2>1. Tail(wire.toApp) \in Seq(AppMessages)
    BY <1>1, TailKeeps
  <2>2. wire.toHost \o said \in Seq(HostMessages)
    BY <1>1, JoinKeeps
  <2> QED
    BY <2>1, <2>2 DEF Wires
<1>4. ASSUME ~Has(said, "frame"), DrawInv, UNCHANGED drv PROVE DrawInv'
  <2>1. /\ Has(wire'.toApp, "draw") => Has(wire.toApp, "draw")
        /\ One(wire'.toApp, "draw") /\ Only(wire'.toApp, "draw", drv.next - 1)
    BY <1>1, <1>2, <1>4, TailKeeps DEF DrawInv
  <2>2. /\ Has(wire'.toHost, "frame") => Has(wire.toHost, "frame")
        /\ One(wire'.toHost, "frame") /\ Only(wire'.toHost, "frame", drv.next - 1)
    BY <1>1, <1>2, <1>4, JoinKeeps, NoneThere DEF DrawInv
  <2> QED
    BY <1>4, <2>1, <2>2 DEF DrawInv
<1>5. ASSUME ~Has(said, "saved"), LoopSavedInv, UNCHANGED <<drv, thread.alive, thread.saved>> PROVE LoopSavedInv'
  <2>1. Has(wire'.toHost, "saved") => Has(wire.toHost, "saved")
    BY <1>1, <1>2, <1>5, JoinKeeps
  <2> DEFINE n == IF thread.saved = "yes" THEN 1 ELSE 0
  <2>2. Only(wire'.toHost, "saved", n)
    BY <1>1, <1>2, <1>5, JoinKeeps, NoneThere DEF LoopSavedInv
  <2> QED
    BY <1>5, <2>1, <2>2 DEF LoopSavedInv, L!QuietMeansSaved
<1> QED
  BY <1>3, <1>4, <1>5

(* What is said when a pointer or an answer is handled.                       *)
LEMMA HandlerSays ==
    ASSUME NEW asks \in BOOLEAN, NEW wants \in Wanted, NEW q \in Seq(HostMessages)
    PROVE  \E said \in Seq(HostMessages) :
              /\ ~Has(said, "frame") /\ ~Has(said, "saved")
              /\ q \o (IF asks THEN <<[is |-> "query", id |-> 0]>> ELSE <<>>)
                   \o (IF wants = L!NoRequest THEN <<>> ELSE <<[is |-> wants, id |-> 0]>>) = q \o said
<1> DEFINE a == IF asks THEN <<[is |-> "query", id |-> 0]>> ELSE <<>>
           b == IF wants = L!NoRequest THEN <<>> ELSE <<[is |-> wants, id |-> 0]>>
<1>1. <<>> \in Seq(HostMessages) /\ ~Has(<<>>, "frame") /\ ~Has(<<>>, "saved")
  BY DEF Has
<1>2. ASSUME NEW k \in {"query"} \union L!Requests
      PROVE  /\ <<[is |-> k, id |-> 0]>> \in Seq(HostMessages)
             /\ ~Has(<<[is |-> k, id |-> 0]>>, "frame") /\ ~Has(<<[is |-> k, id |-> 0]>>, "saved")
  <2>1. [is |-> k, id |-> 0] \in HostMessages /\ k # "frame" /\ k # "saved"
    BY Messages DEF L!Requests
  <2> QED
    BY <2>1 DEF Has
<1>3. a \in Seq(HostMessages) /\ ~Has(a, "frame") /\ ~Has(a, "saved")
  BY <1>1, <1>2
<1>4. b \in Seq(HostMessages) /\ ~Has(b, "frame") /\ ~Has(b, "saved")
  <2>1. CASE wants = L!NoRequest
    BY <2>1, <1>1
  <2>2. CASE wants # L!NoRequest
    <3>1. wants \in L!Requests
      BY <2>2 DEF Wanted
    <3> QED
      BY <2>2, <3>1, <1>2
  <2> QED
    BY <2>1, <2>2
<1> HIDE DEF a, b
<1>5. a \o b \in Seq(HostMessages) /\ ~Has(a \o b, "frame") /\ ~Has(a \o b, "saved")
  BY <1>3, <1>4, JoinKeeps
<1>6. (q \o a) \o b = q \o (a \o b)
  BY <1>3, <1>4
<1> QED
  BY <1>5, <1>6 DEF a, b

LEMMA ThreadStep ==
    ASSUME WidthAssumption, LoopInv,
           L!ThreadHandles \/ L!ThreadGreets \/ L!ThreadDraws \/ L!ThreadSaves \/ L!ThreadSeesEof
    PROVE  LoopInv'
<1> USE DEF LoopInv
<1>1. wire.toApp \in Seq(AppMessages) /\ wire.toHost \in Seq(HostMessages)
  BY DEF LoopTypes, Wires
<1>2. CASE L!ThreadHandles
  <2>1. PICK repaint \in SUBSET L!Regions, asks \in BOOLEAN, wants \in Wanted :
          /\ thread' = [thread EXCEPT !.picture = [x \in L!Regions |-> IF x \in repaint THEN 1 - @[x] ELSE @[x]],
                                      !.changed = @ \union repaint]
          /\ wire' = [toApp |-> Tail(wire.toApp),
                      toHost |-> wire.toHost
                        \o (IF asks THEN <<[is |-> "query", id |-> 0]>> ELSE <<>>)
                        \o (IF wants = L!NoRequest THEN <<>> ELSE <<[is |-> wants, id |-> 0]>>)]
    BY <1>2 DEF L!ThreadHandles, Wanted
  <2>2. PICK said \in Seq(HostMessages) :
          /\ ~Has(said, "frame") /\ ~Has(said, "saved")
          /\ wire' = [toApp |-> Tail(wire.toApp), toHost |-> wire.toHost \o said]
    BY <2>1, <1>1, HandlerSays
  <2>3. UNCHANGED <<drv, bridge, glass>> /\ wire.toApp # <<>>
    BY <1>2 DEF L!ThreadHandles
  <2>4. thread' \in Threads /\ thread'.alive = thread.alive /\ thread'.saved = thread.saved
    <3> DEFINE repainted == [x \in L!Regions |-> IF x \in repaint THEN 1 - thread.picture[x]
                                                                 ELSE thread.picture[x]]
    <3>1. thread \in Threads
      BY DEF LoopTypes
    <3>2. repainted \in [L!Regions -> 0..1]
      BY <3>1 DEF Threads
    <3>3. thread' = [thread EXCEPT !.picture = repainted, !.changed = @ \union repaint]
      BY <2>1
    <3> HIDE DEF repainted
    <3> QED
      BY <3>1, <3>2, <3>3 DEF Threads
  <2>5. wire' \in Wires /\ DrawInv' /\ LoopSavedInv'
    BY <2>2, <2>3, <2>4, ThreadSays
  <2>6. PictureInv'
    <3>1. thread \in Threads
      BY DEF LoopTypes
    <3>2. \A x \in L!Regions \ thread'.changed : x \notin thread.changed /\ thread'.picture[x] = thread.picture[x]
      BY <2>1, <3>1 DEF Threads
    <3> QED
      BY <3>2, <2>3 DEF PictureInv
  <2> QED
    BY <2>3, <2>4, <2>5, <2>6 DEF LoopTypes
<1>3. CASE L!ThreadGreets
  <2> DEFINE said == <<[is |-> "ready", id |-> 0]>>
  <2>1. said \in Seq(HostMessages) /\ ~Has(said, "frame") /\ ~Has(said, "saved")
    BY Messages DEF Has
  <2>2. /\ wire' = [toApp |-> Tail(wire.toApp), toHost |-> wire.toHost \o said]
        /\ wire.toApp # <<>> /\ UNCHANGED <<drv, thread, bridge, glass>>
    BY <1>3, <1>1, Messages, OneMessage DEF L!ThreadGreets
  <2> HIDE DEF said
  <2>3. wire' \in Wires /\ DrawInv' /\ LoopSavedInv'
    BY <2>1, <2>2, ThreadSays
  <2> QED
    BY <2>2, <2>3 DEF LoopTypes, PictureInv
<1>4. CASE L!ThreadDraws
  <2> DEFINE m == [is |-> "frame", id |-> Head(wire.toApp).id]
  <2>1. PICK claim \in {thread.changed, L!Regions} :
          bridge' = [frame |-> thread.picture, damage |-> L!MergeDamage(bridge.damage, claim)]
    BY <1>4 DEF L!ThreadDraws
  <2>2. /\ thread' = [thread EXCEPT !.changed = {}]
        /\ wire' = [toApp |-> Tail(wire.toApp), toHost |-> Append(wire.toHost, m)]
        /\ wire.toApp # <<>> /\ Head(wire.toApp).is = "draw" /\ UNCHANGED <<drv, glass>>
    BY <1>4 DEF L!ThreadDraws
  <2>3. thread \in Threads /\ bridge \in Bridges /\ drv \in Drivers
    BY DEF LoopTypes
  <2>4. Has(wire.toApp, "draw") /\ Head(wire.toApp).id = drv.next - 1 /\ Head(wire.toApp) \in AppMessages
    BY <1>1, <2>2, TailKeeps DEF DrawInv
  <2>5. m \in HostMessages /\ m.is = "frame" /\ m.id = drv.next - 1
    BY <2>4, Messages DEF AppMessages
  <2> HIDE DEF m
  <2>6. /\ Append(wire.toHost, m) = wire.toHost \o <<m>> /\ <<m>> \in Seq(HostMessages)
        /\ One(<<m>>, "frame") /\ Only(<<m>>, "frame", drv.next - 1) /\ ~Has(<<m>>, "saved")
    BY <1>1, <2>5, OneMessage
  <2>7. thread' \in Threads /\ thread'.alive = thread.alive /\ thread'.saved = thread.saved
    BY <2>2, <2>3 DEF Threads
  <2>8. wire' \in Wires /\ LoopSavedInv'
    BY <2>2, <2>6, <2>7, ThreadSays
  <2>9. claim \subseteq L!Regions
    BY <2>3 DEF Threads
  <2>10. bridge' \in Bridges
    BY <2>1, <2>3, <2>9 DEF Bridges, Threads, L!MergeDamage
  <2>11. DrawInv'
    <3>1. wire'.toApp = Tail(wire.toApp) /\ wire'.toHost = wire.toHost \o <<m>>
      BY <2>2, <2>6
    <3>2. ~Has(wire'.toApp, "draw") /\ One(wire'.toApp, "draw") /\ Only(wire'.toApp, "draw", drv.next - 1)
      BY <1>1, <2>2, <3>1, TailKeeps, NoneThere DEF DrawInv
    <3>3. ~Has(wire.toHost, "frame")
      BY <2>4 DEF DrawInv
    <3>6. wire'.toHost = Append(wire.toHost, m) /\ Only(wire.toHost, "frame", drv.next - 1)
      BY <2>2 DEF DrawInv
    <3>4. One(wire'.toHost, "frame") /\ Only(wire'.toHost, "frame", drv.next - 1)
      BY <1>1, <2>5, <3>3, <3>6, AppendKeeps
    <3>5. drv.pc \in {"first", "await", "more", "ended"}
      BY <2>4 DEF DrawInv
    <3> QED
      BY <2>2, <3>2, <3>4, <3>5 DEF DrawInv
  <2>12. PictureInv'
    <3>1. thread'.changed = {} /\ thread'.picture = thread.picture /\ bridge'.frame = thread.picture
      BY <2>1, <2>2, <2>3 DEF Threads
    <3>2. drv.pc \notin {"idle", "batch"}
      BY <2>4 DEF DrawInv
    <3>3. ASSUME NEW x \in L!Regions, x \notin L!Covering(bridge'.damage)
          PROVE  x \notin L!Covering(bridge.damage) /\ x \notin thread.changed
      <4>1. bridge'.damage = L!MergeDamage(bridge.damage, claim)
        BY <2>1
      <4>2. claim \subseteq bridge'.damage
        BY <4>1 DEF L!MergeDamage
      <4>3. thread.changed \subseteq bridge'.damage
        BY <2>3, <4>2 DEF Threads
      <4>4. x \in Nat /\ x > 0
        BY WidthAssumption DEF L!Regions, WidthAssumption
      <4>5. x \notin thread.changed
        BY <3>3, <4>3, <4>4 DEF L!Covering
      <4>6. bridge.damage = L!NoDamage \/ bridge.damage \subseteq bridge'.damage
        BY <4>1 DEF L!MergeDamage
      <4>7. bridge.damage = L!NoDamage => x \notin L!Covering(bridge.damage)
        BY <4>4 DEF L!Covering, L!NoDamage
      <4>8. bridge.damage \subseteq bridge'.damage => x \notin L!Covering(bridge.damage)
        BY <3>3 DEF L!Covering
      <4> QED
        BY <4>5, <4>6, <4>7, <4>8
    <3>4. drv.pc \in {"await", "more"} =>
             \A x \in L!Regions \ L!Covering(bridge'.damage) : glass[x] = thread.picture[x]
      BY <3>3 DEF PictureInv
    <3> QED
      BY <2>2, <3>1, <3>2, <3>4 DEF PictureInv
  <2> QED
    BY <2>2, <2>7, <2>8, <2>10, <2>11, <2>12 DEF LoopTypes
<1>5. CASE L!ThreadSaves
  <2>1. PICK ok \in {"yes", "failed"} :
          /\ thread' = [thread EXCEPT !.alive = FALSE, !.saved = ok]
          /\ wire' = [toApp |-> Tail(wire.toApp),
                      toHost |-> Append(wire.toHost, [is |-> "saved", id |-> IF ok = "yes" THEN 1 ELSE 0])]
    BY <1>5 DEF L!ThreadSaves
  <2>2. thread.alive /\ wire.toApp # <<>> /\ UNCHANGED <<drv, bridge, glass>>
    BY <1>5 DEF L!ThreadSaves
  <2> DEFINE n == IF ok = "yes" THEN 1 ELSE 0
             m == [is |-> "saved", id |-> n]
  <2>3. m \in HostMessages /\ m.is = "saved" /\ m.id = n
    BY Messages
  <2>4. wire' = [toApp |-> Tail(wire.toApp), toHost |-> Append(wire.toHost, m)]
    BY <2>1
  <2> HIDE DEF n, m
  <2>5. /\ Append(wire.toHost, m) = wire.toHost \o <<m>> /\ <<m>> \in Seq(HostMessages)
        /\ Only(<<m>>, "saved", n) /\ ~Has(<<m>>, "frame")
    BY <1>1, <2>3, OneMessage
  <2>6. thread' \in Threads /\ ~thread'.alive /\ thread'.saved = ok
    BY <2>1 DEF LoopTypes, Threads
  <2>7. wire' \in Wires /\ DrawInv'
    BY <2>2, <2>4, <2>5, ThreadSays
  <2>8. LoopSavedInv'
    <3>1. ~Has(wire.toHost, "saved") /\ thread.saved = "no"
      BY <2>2 DEF LoopSavedInv
    <3>2. wire'.toHost = Append(wire.toHost, m) /\ Only(wire.toHost, "saved", n)
      BY <2>4, <3>1, NoneThere
    <3>4. Only(wire'.toHost, "saved", n)
      BY <1>1, <2>3, <3>2, AppendKeeps
    <3>3. L!QuietMeansSaved'
      BY <2>2, <3>1 DEF LoopSavedInv, L!QuietMeansSaved
    <3> QED
      BY <2>6, <3>3, <3>4 DEF LoopSavedInv, n
  <2>9. PictureInv'
    BY <2>1, <2>2 DEF PictureInv, LoopTypes, Threads
  <2> QED
    BY <2>2, <2>6, <2>7, <2>8, <2>9 DEF LoopTypes
<1>6. CASE L!ThreadSeesEof
  <2>1. thread' = [thread EXCEPT !.alive = FALSE] /\ UNCHANGED <<drv, wire, bridge, glass>>
    BY <1>6 DEF L!ThreadSeesEof
  <2>2. thread' \in Threads /\ ~thread'.alive /\ thread'.saved = thread.saved
          /\ thread'.changed = thread.changed /\ thread'.picture = thread.picture
    BY <2>1 DEF LoopTypes, Threads
  <2> QED
    BY <2>1, <2>2 DEF LoopTypes, DrawInv, PictureInv, LoopSavedInv, L!QuietMeansSaved
<1> QED
  BY <1>2, <1>3, <1>4, <1>5, <1>6
(* Asking for a frame, when nothing is asked already.                         *)
LEMMA AskStep ==
    ASSUME LoopInv, drv.pc \notin {"first", "await", "more", "ended"}, NEW w \in Wires, NEW pointers \in 0..1,
           w.toApp = wire.toApp,
           \/ w.toHost = wire.toHost
           \/ wire.toHost # <<>> /\ w.toHost = Tail(wire.toHost),
           L!Asking(w, pointers), UNCHANGED thread,
           drv'.matched = drv.matched, drv'.next = drv.next + 1, drv'.pc \in {"first", "await", "more"}
    PROVE  wire' \in Wires /\ DrawInv' /\ LoopSavedInv'
<1>1. wire.toHost \in Seq(HostMessages) /\ drv.next \in Nat
  BY DEF LoopInv, LoopTypes, Wires, Drivers
<1>2. ~Has(wire.toApp, "draw") /\ ~Has(wire.toHost, "frame")
  BY DEF LoopInv, DrawInv
<1>3. /\ wire' \in Wires /\ wire'.toHost = w.toHost
      /\ One(wire'.toApp, "draw") /\ Only(wire'.toApp, "draw", drv.next)
  BY <1>2, AskingAdds DEF LoopInv
<1>4. /\ Has(wire'.toHost, "frame") => Has(wire.toHost, "frame")
      /\ Has(wire'.toHost, "saved") => Has(wire.toHost, "saved")
      /\ \A n : Only(wire.toHost, "saved", n) => Only(wire'.toHost, "saved", n)
  <2>1. CASE w.toHost = wire.toHost
    BY <2>1, <1>3
  <2>2. CASE wire.toHost # <<>> /\ w.toHost = Tail(wire.toHost)
    <3>1. ASSUME NEW k, NEW n
          PROVE  /\ Has(Tail(wire.toHost), k) => Has(wire.toHost, k)
                 /\ Only(wire.toHost, k, n) => Only(Tail(wire.toHost), k, n)
      BY <1>1, <2>2, TailKeeps
    <3> QED
      BY <3>1, <2>2, <1>3
  <2> QED
    BY <2>1, <2>2
<1>5. drv'.next - 1 = drv.next
  BY <1>1
<1>6. DrawInv'
  <2>1. One(wire'.toHost, "frame") /\ Only(wire'.toHost, "frame", drv'.next - 1)
    BY <1>2, <1>4, NoneThere
  <2> QED
    BY <1>2, <1>3, <1>4, <1>5, <2>1 DEF LoopInv, DrawInv
<1>7. LoopSavedInv'
  <2> DEFINE n == IF thread.saved = "yes" THEN 1 ELSE 0
  <2>1. Only(wire'.toHost, "saved", n)
    BY <1>4 DEF LoopInv, LoopSavedInv
  <2> QED
    BY <1>4, <2>1 DEF LoopInv, LoopSavedInv, L!QuietMeansSaved
<1> QED
  BY <1>3, <1>6, <1>7

(* Reading a message.                                                         *)
LEMMA ReadStep ==
    ASSUME LoopTypes, wire.toHost # <<>>, wire'.toHost = Tail(wire.toHost)
    PROVE  /\ wire'.toHost \in Seq(HostMessages) /\ Head(wire.toHost) \in HostMessages
           /\ \A k \in {"frame", "saved"}, n \in Int :
                /\ Head(wire.toHost).is = k => Has(wire.toHost, k)
                /\ Has(wire'.toHost, k) => Has(wire.toHost, k)
                /\ One(wire.toHost, k) => One(wire'.toHost, k)
                /\ One(wire.toHost, k) /\ Head(wire.toHost).is = k => ~Has(wire'.toHost, k)
                /\ Only(wire.toHost, k, n) => Only(wire'.toHost, k, n)
                /\ Only(wire.toHost, k, n) /\ Head(wire.toHost).is = k => Head(wire.toHost).id = n
<1>1. wire.toHost \in Seq(HostMessages)
  BY DEF LoopTypes, Wires
<1>2. ASSUME NEW k, NEW n
      PROVE  /\ Head(wire.toHost).is = k => Has(wire.toHost, k)
             /\ Has(Tail(wire.toHost), k) => Has(wire.toHost, k)
             /\ One(wire.toHost, k) => One(Tail(wire.toHost), k)
             /\ One(wire.toHost, k) /\ Head(wire.toHost).is = k => ~Has(Tail(wire.toHost), k)
             /\ Only(wire.toHost, k, n) => Only(Tail(wire.toHost), k, n)
             /\ Only(wire.toHost, k, n) /\ Head(wire.toHost).is = k => Head(wire.toHost).id = n
  BY <1>1, TailKeeps
<1>3. Tail(wire.toHost) \in Seq(HostMessages) /\ Head(wire.toHost) \in HostMessages
  BY <1>1, TailKeeps
<1> QED
  BY <1>2, <1>3

LEMMA ReadingStep ==
    ASSUME LoopInv, L!OpenSession \/ L!ReadMessage \/ L!ReadFrame \/ L!ReadTimeout
    PROVE  LoopInv'
<1> USE DEF LoopInv
<1>1. wire \in Wires /\ drv \in Drivers /\ drv.next \in Nat /\ wire.toApp \in Seq(AppMessages)
  BY DEF LoopTypes, Wires, Drivers
<1>2. CASE L!OpenSession
  <2> DEFINE w == [wire EXCEPT !.toHost = Tail(@)]
  <2>1. /\ drv.pc = "opening" /\ wire.toHost # <<>> /\ L!Asking(w, 0)
        /\ drv' = [drv EXCEPT !.pc = "first", !.next = @ + 1]
        /\ UNCHANGED <<thread, bridge, glass>>
    BY <1>2 DEF L!OpenSession
  <2>2. w \in Wires /\ w.toApp = wire.toApp /\ w.toHost = Tail(wire.toHost)
    <3>1. Tail(wire.toHost) \in Seq(HostMessages)
      BY <1>1, <2>1, TailKeeps DEF Wires
    <3> QED
      BY <1>1, <3>1 DEF Wires
  <2> HIDE DEF w
  <2>3. drv' \in Drivers /\ drv'.pc = "first" /\ drv'.next = drv.next + 1 /\ drv'.matched = drv.matched
    <3>1. drv' = [drv EXCEPT !.pc = "first", !.next = drv.next + 1] /\ drv.next + 1 \in Nat
      BY <1>1, <2>1
    <3> QED
      BY <1>1, <3>1 DEF Drivers, DriverPcs
  <2>4. wire' \in Wires /\ DrawInv' /\ LoopSavedInv'
    BY <2>1, <2>2, <2>3, AskStep
  <2>5. PictureInv'
    BY <2>1, <2>3 DEF PictureInv
  <2> QED
    BY <2>1, <2>3, <2>4, <2>5 DEF LoopTypes
<1>3. CASE L!ReadMessage
  <2>1. /\ L!Awaiting /\ wire.toHost # <<>> /\ Head(wire.toHost).is # "frame"
        /\ wire'.toHost = Tail(wire.toHost)
        /\ \/ wire'.toApp = wire.toApp
           \/ wire'.toApp = Append(wire.toApp, [is |-> "answer", id |-> 0])
        /\ wire' = [toHost |-> wire'.toHost, toApp |-> wire'.toApp]
        /\ drv' = [drv EXCEPT !.seen = IF Head(wire.toHost).is \in L!Requests THEN Head(wire.toHost).is ELSE @]
        /\ UNCHANGED <<thread, bridge, glass>>
    BY <1>3 DEF L!ReadMessage
  <2>2. drv' \in Drivers /\ drv'.pc = drv.pc /\ drv'.matched = drv.matched /\ drv'.next = drv.next
        /\ drv'.lines = drv.lines
    BY <1>1, <2>1 DEF Drivers, Wanted
  <2>3. /\ wire'.toApp \in Seq(AppMessages)
        /\ Has(wire'.toApp, "draw") => Has(wire.toApp, "draw")
        /\ One(wire.toApp, "draw") => One(wire'.toApp, "draw")
        /\ \A n \in Int : Only(wire.toApp, "draw", n) => Only(wire'.toApp, "draw", n)
    <3> DEFINE m == [is |-> "answer", id |-> 0]
               q == Append(wire.toApp, m)
    <3>1. m \in AppMessages /\ m.is # "draw"
      BY Messages
    <3>6. wire'.toApp = wire.toApp \/ wire'.toApp = q
      BY <2>1
    <3> HIDE DEF m
    <3>2. ASSUME NEW n \in Int PROVE Only(wire.toApp, "draw", n) => Only(q, "draw", n)
      BY <1>1, <3>1, AppendKeeps
    <3>3. /\ q \in Seq(AppMessages)
          /\ Has(q, "draw") => Has(wire.toApp, "draw")
          /\ One(wire.toApp, "draw") => One(q, "draw")
      BY <1>1, <3>1, AppendKeeps
    <3> HIDE DEF q
    <3>4. CASE wire'.toApp = wire.toApp
      BY <1>1, <3>4
    <3>5. CASE wire'.toApp = q
      BY <3>2, <3>3, <3>5
    <3> QED
      BY <3>6, <3>4, <3>5
  <2>4. wire' \in Wires
    BY <2>1, <2>3, ReadStep DEF Wires
  <2>5. DrawInv'
    BY <1>1, <2>1, <2>2, <2>3, ReadStep DEF DrawInv
  <2>6. LoopSavedInv'
    <3> DEFINE n == IF thread.saved = "yes" THEN 1 ELSE 0
    <3>1. n \in Int /\ Only(wire'.toHost, "saved", n)
      BY <2>1, ReadStep DEF LoopSavedInv
    <3> QED
      BY <2>1, <2>2, <3>1, ReadStep DEF LoopSavedInv, L!QuietMeansSaved
  <2>7. PictureInv'
    BY <2>1, <2>2 DEF PictureInv
  <2> QED
    BY <2>1, <2>2, <2>4, <2>5, <2>6, <2>7 DEF LoopTypes
<1>4. CASE L!ReadFrame
  <2>1. /\ L!Awaiting /\ wire.toHost # <<>> /\ Head(wire.toHost).is = "frame"
        /\ wire' = [wire EXCEPT !.toHost = Tail(@)]
        /\ UNCHANGED <<thread, bridge, glass>>
    BY <1>4 DEF L!ReadFrame
  <2>2. wire'.toHost = Tail(wire.toHost) /\ wire'.toApp = wire.toApp
    BY <1>1, <2>1 DEF Wires
  <2>3. drv' = [drv EXCEPT !.pc = IF drv.pc = "first" THEN "introduce" ELSE "batch",
                          !.matched = Head(wire.toHost).id = drv.next - 1,
                          !.request = IF drv.seen = L!NoRequest THEN @ ELSE drv.seen,
                          !.seen = L!NoRequest]
    BY <1>4 DEF L!ReadFrame
  <2>4. Head(wire.toHost).id = drv.next - 1
    BY <1>1, <2>1, <2>2, ReadStep DEF DrawInv
  <2>5. ~Has(wire'.toHost, "frame") /\ ~Has(wire'.toApp, "draw")
    BY <1>1, <2>1, <2>2, ReadStep DEF DrawInv
  <2>6. drv' \in Drivers /\ drv'.matched /\ drv'.next = drv.next /\ drv'.lines = drv.lines
        /\ drv'.pc = IF drv.pc = "first" THEN "introduce" ELSE "batch"
    BY <1>1, <2>3, <2>4 DEF Drivers, Wanted, DriverPcs
  <2>7. wire' \in Wires
    BY <1>1, <2>1, <2>2, ReadStep DEF Wires
  <2>8. DrawInv'
    BY <2>5, <2>6, NoneThere DEF DrawInv
  <2>9. LoopSavedInv'
    <3> DEFINE n == IF thread.saved = "yes" THEN 1 ELSE 0
    <3>1. n \in Int /\ Only(wire'.toHost, "saved", n)
      BY <2>1, <2>2, ReadStep DEF LoopSavedInv
    <3> QED
      BY <2>1, <2>2, <2>6, <3>1, ReadStep DEF LoopSavedInv, L!QuietMeansSaved
  <2>10. PictureInv'
    BY <2>1, <2>6 DEF PictureInv, L!Awaiting
  <2> QED
    BY <2>1, <2>6, <2>7, <2>8, <2>9, <2>10 DEF LoopTypes
<1>5. CASE L!ReadTimeout
  <2>1. drv' = [drv EXCEPT !.pc = "ended", !.result = "error"] /\ UNCHANGED <<wire, thread, bridge, glass>>
    BY <1>5 DEF L!ReadTimeout
  <2>2. drv' \in Drivers /\ drv'.pc = "ended" /\ drv'.matched = drv.matched /\ drv'.next = drv.next
    BY <1>1, <2>1 DEF Drivers, DriverPcs
  <2> QED
    BY <2>1, <2>2 DEF LoopTypes, DrawInv, PictureInv, LoopSavedInv, L!QuietMeansSaved
<1> QED
  BY <1>2, <1>3, <1>4, <1>5
LEMMA ShowingStep ==
    ASSUME LoopInv,
           L!Introduce \/ L!TakePointer \/ L!TakeMore \/ L!PresentDamage
    PROVE  LoopInv'
<1> USE DEF LoopInv
<1>1. /\ wire \in Wires /\ drv \in Drivers /\ drv.next \in Nat /\ drv.next + 1 \in Nat
      /\ drv.batch \in Nat /\ drv.batch + 1 \in Nat /\ bridge \in Bridges /\ glass \in [L!Regions -> 0..2]
  BY DEF LoopTypes, Drivers
<1>2. ASSUME NEW rect, L!Paint(rect)
      PROVE  /\ glass' \in [L!Regions -> 0..2]
             /\ \A x \in L!Regions : glass'[x] = IF x \in rect THEN bridge.frame[x] ELSE glass[x]
  BY <1>1, <1>2 DEF L!Paint, Bridges
<1>3. ASSUME \A x \in L!Regions : glass'[x] = bridge.frame[x], glass' \in [L!Regions -> 0..2]
      PROVE  glass' = bridge.frame
  BY <1>1, <1>3 DEF Bridges
(* The panel failed: the loop is over.                                        *)
<1>4. ASSUME L!PresentFails, UNCHANGED <<wire, thread>>, bridge' \in Bridges, bridge'.frame = bridge.frame
      PROVE  LoopInv'
  <2>1. drv' = [drv EXCEPT !.pc = "ended", !.result = "error"] /\ UNCHANGED glass
    BY <1>4 DEF L!PresentFails
  <2>2. drv' \in Drivers /\ drv'.pc = "ended" /\ drv'.matched = drv.matched /\ drv'.next = drv.next
    BY <1>1, <2>1 DEF Drivers, DriverPcs
  <2> QED
    BY <1>4, <2>1, <2>2 DEF LoopTypes, DrawInv, PictureInv, LoopSavedInv, L!QuietMeansSaved
<1>5. CASE L!Introduce
  <2>1. drv.pc = "introduce" /\ UNCHANGED <<wire, thread, bridge>>
    BY <1>5 DEF L!Introduce
  <2>2. CASE L!Paint(L!Regions) /\ drv' = [drv EXCEPT !.pc = "idle"]
    <3>1. drv' \in Drivers /\ drv'.pc = "idle" /\ drv'.matched = drv.matched /\ drv'.next = drv.next
      BY <1>1, <2>2 DEF Drivers, DriverPcs
    <3>2. glass' = bridge.frame /\ glass' \in [L!Regions -> 0..2]
      BY <1>2, <1>3, <2>2
    <3> QED
      BY <2>1, <3>1, <3>2 DEF LoopTypes, DrawInv, PictureInv, LoopSavedInv, L!QuietMeansSaved
  <2> QED
    BY <1>1, <1>4, <1>5, <2>1, <2>2 DEF L!Introduce
<1>6. CASE L!TakePointer
  <2>1. /\ drv.pc = "idle" /\ L!Asking(wire, 1) /\ UNCHANGED <<thread, bridge, glass>>
        /\ drv' = [drv EXCEPT !.pc = "await", !.next = drv.next + 1, !.request = L!NoRequest, !.batch = 0]
    BY <1>6 DEF L!TakePointer
  <2>2. drv' \in Drivers /\ drv'.pc = "await" /\ drv'.matched = drv.matched /\ drv'.next = drv.next + 1
    BY <1>1, <2>1 DEF Drivers, DriverPcs, Wanted
  <2>3. wire' \in Wires /\ DrawInv' /\ LoopSavedInv'
    BY <1>1, <2>1, <2>2, AskStep
  <2> QED
    BY <2>1, <2>2, <2>3 DEF LoopTypes, PictureInv
<1>7. CASE L!TakeMore
  <2>1. /\ drv.pc = "batch" /\ L!Asking(wire, 1) /\ UNCHANGED <<thread, bridge, glass>>
        /\ drv' = [drv EXCEPT !.pc = "more", !.next = drv.next + 1, !.batch = drv.batch + 1]
    BY <1>7 DEF L!TakeMore
  <2>2. drv' \in Drivers /\ drv'.pc = "more" /\ drv'.matched = drv.matched /\ drv'.next = drv.next + 1
    BY <1>1, <2>1 DEF Drivers, DriverPcs
  <2>3. wire' \in Wires /\ DrawInv' /\ LoopSavedInv'
    BY <1>1, <2>1, <2>2, AskStep
  <2> QED
    BY <2>1, <2>2, <2>3 DEF LoopTypes, PictureInv
<1>8. CASE L!PresentDamage
  <2>1. drv.pc = "batch" /\ UNCHANGED <<wire, thread>> /\ bridge' = [bridge EXCEPT !.damage = L!NoDamage]
    BY <1>8 DEF L!PresentDamage
  <2>2. bridge' \in Bridges /\ bridge'.frame = bridge.frame
    BY <1>1, <2>1 DEF Bridges, L!NoDamage
  <2>3. ASSUME drv' = L!Decide(drv), glass' = bridge.frame, glass' \in [L!Regions -> 0..2] PROVE LoopInv'
    <3>1. /\ drv' \in Drivers /\ drv'.pc \in {"leaving", "idle"} /\ drv'.matched = drv.matched
          /\ drv'.next = drv.next
      BY <1>1, <2>3 DEF L!Decide, Drivers, DriverPcs, Lines
    <3> QED
      BY <2>1, <2>2, <2>3, <3>1 DEF LoopTypes, DrawInv, PictureInv, LoopSavedInv, L!QuietMeansSaved
  <2>4. \A x \in L!Regions \ L!Covering(bridge.damage) : glass[x] = bridge.frame[x]
    BY <2>1 DEF PictureInv
  <2>5. CASE bridge.damage = L!NoDamage \/ L!Covering(bridge.damage) = {}
    <3>1. drv' = L!Decide(drv) /\ UNCHANGED glass
      BY <1>8, <2>5 DEF L!PresentDamage
    <3>2. \A x \in L!Regions : x \notin L!Covering(bridge.damage)
      BY <2>5 DEF L!Covering, L!NoDamage, L!Regions
    <3>3. glass' = bridge.frame /\ glass' \in [L!Regions -> 0..2]
      BY <1>1, <1>3, <2>4, <3>1, <3>2
    <3> QED
      BY <2>3, <3>1, <3>3
  <2>6. CASE L!Paint(L!Covering(bridge.damage)) /\ drv' = L!Decide(drv)
    <3>1. glass' = bridge.frame /\ glass' \in [L!Regions -> 0..2]
      BY <1>2, <1>3, <2>4, <2>6
    <3> QED
      BY <2>3, <2>6, <3>1
  <2>7. CASE L!PresentFails
    BY <1>4, <2>1, <2>2, <2>7
  <2> QED
    BY <1>8, <2>5, <2>6, <2>7 DEF L!PresentDamage
<1> QED
  BY <1>5, <1>6, <1>7, <1>8

LEMMA LeavingStep ==
    ASSUME LoopInv,
           \/ L!ReadersGone \/ L!BeginShutdown \/ L!ReadUntilSaved \/ L!ShutdownTimeout
           \/ L!SwitchApp \/ L!ClearPanel
    PROVE  LoopInv'
<1> USE DEF LoopInv
<1>1. wire \in Wires /\ drv \in Drivers /\ wire.toApp \in Seq(AppMessages)
  BY DEF LoopTypes, Wires
<1>2. CASE L!ReadersGone
  <2>1. /\ drv.pc = "idle" /\ drv' = [drv EXCEPT !.pc = "leaving", !.request = "stock"]
        /\ UNCHANGED <<wire, thread, bridge, glass>>
    BY <1>2 DEF L!ReadersGone
  <2>2. drv' \in Drivers /\ drv'.pc = "leaving" /\ drv'.matched = drv.matched /\ drv'.next = drv.next
    BY <1>1, <2>1 DEF Drivers, DriverPcs, Wanted, L!Requests
  <2> QED
    BY <2>1, <2>2 DEF LoopTypes, DrawInv, PictureInv, LoopSavedInv, L!QuietMeansSaved
<1>3. CASE L!BeginShutdown
  <2> DEFINE m == [is |-> "exit", id |-> 0]
  <2>1. /\ drv.pc = "leaving" /\ drv' = [drv EXCEPT !.pc = "shutdown"]
        /\ wire' = [wire EXCEPT !.toApp = Append(wire.toApp, m)]
        /\ UNCHANGED <<thread, bridge, glass>>
    BY <1>3 DEF L!BeginShutdown
  <2>2. m \in AppMessages /\ m.is # "draw"
    BY Messages
  <2> HIDE DEF m
  <2>3. Append(wire.toApp, m) \in Seq(AppMessages) /\ (Has(Append(wire.toApp, m), "draw") => Has(wire.toApp, "draw"))
    BY <1>1, <2>2, AppendKeeps
  <2>4. wire' \in Wires /\ wire'.toApp = Append(wire.toApp, m) /\ wire'.toHost = wire.toHost
    BY <1>1, <2>1, <2>3 DEF Wires
  <2>5. drv' \in Drivers /\ drv'.pc = "shutdown" /\ drv'.matched = drv.matched /\ drv'.next = drv.next
    BY <1>1, <2>1 DEF Drivers, DriverPcs
  <2>6. DrawInv'
    <3>1. ~Has(wire'.toApp, "draw")
      BY <2>1, <2>3, <2>4 DEF DrawInv
    <3> QED
      BY <2>1, <2>4, <2>5, <3>1, NoneThere DEF DrawInv
  <2> QED
    BY <2>1, <2>4, <2>5, <2>6 DEF LoopTypes, PictureInv, LoopSavedInv, L!QuietMeansSaved
(* Leaving one app, for home or for good.                                     *)
<1>4. ASSUME NEW unclean \in SUBSET Lines, drv.pc = "shutdown"
      PROVE  LET d == L!Leave(drv, unclean)
             IN  /\ d \in Drivers /\ d.pc \in {"switch", "clear"} /\ d.matched = drv.matched /\ d.next = drv.next
                 /\ d.lines = drv.lines \union unclean
  BY <1>1, <1>4 DEF L!Leave, Drivers, DriverPcs
<1>5. CASE L!ReadUntilSaved
  <2>1. /\ drv.pc = "shutdown" /\ wire.toHost # <<>> /\ wire' = [wire EXCEPT !.toHost = Tail(@)]
        /\ drv' = IF Head(wire.toHost).is # "saved" THEN drv
                  ELSE L!Leave(drv, IF Head(wire.toHost).id = 1 THEN {} ELSE {"save failed"})
        /\ UNCHANGED <<thread, bridge, glass>>
    BY <1>5 DEF L!ReadUntilSaved
  <2>2. wire'.toHost = Tail(wire.toHost) /\ wire'.toApp = wire.toApp
    BY <1>1, <2>1 DEF Wires
  <2>3. wire' \in Wires
    BY <1>1, <2>1, <2>2, ReadStep DEF Wires
  <2> DEFINE n == IF thread.saved = "yes" THEN 1 ELSE 0
             unclean == IF Head(wire.toHost).id = 1 THEN {} ELSE {"save failed"}
  <2>4. n \in Int /\ Only(wire.toHost, "saved", n) /\ Only(wire'.toHost, "saved", n)
    <3>1. n \in Int /\ Only(wire.toHost, "saved", n)
      BY DEF LoopSavedInv
    <3> HIDE DEF n
    <3> QED
      BY <2>1, <2>2, <3>1, ReadStep
  <2>5. Head(wire.toHost).is = "saved" => Head(wire.toHost).id = n
    BY <2>1, <2>2, <2>4, ReadStep
  <2>6. unclean \in SUBSET Lines
    BY DEF Lines
  <2>7. \/ drv' = drv
        \/ /\ Head(wire.toHost).is = "saved" /\ drv' \in Drivers /\ drv'.pc \in {"switch", "clear"}
           /\ drv'.matched = drv.matched /\ drv'.next = drv.next /\ drv'.lines = drv.lines \union unclean
    BY <1>4, <2>1, <2>6
  <2>8. /\ drv' \in Drivers /\ drv'.pc \in {"shutdown", "switch", "clear"}
        /\ drv'.matched = drv.matched /\ drv'.next = drv.next
    BY <1>1, <2>1, <2>7
  <2>9. DrawInv'
    <3> HIDE DEF n, unclean
    <3>5. DrawInv /\ drv.pc = "shutdown"
      BY <2>1
    <3>1. ~Has(wire.toApp, "draw") /\ ~Has(wire.toHost, "frame") /\ 0 \in Int
      BY <3>5 DEF DrawInv
    <3>3. LoopTypes /\ wire.toHost # <<>> /\ wire'.toHost = Tail(wire.toHost)
      BY <2>1, <2>2
    <3>4. Has(wire'.toHost, "frame") => Has(wire.toHost, "frame")
      BY <3>1, <3>3, ReadStep
    <3>2. ~Has(wire'.toApp, "draw") /\ ~Has(wire'.toHost, "frame")
      BY <2>2, <3>1, <3>4
    <3> QED
      BY <2>8, <3>2, NoneThere DEF DrawInv
  <2>10. L!QuietMeansSaved'
    <3>1. CASE drv' = drv
      BY <2>1, <3>1 DEF LoopSavedInv, L!QuietMeansSaved
    <3>2. CASE Head(wire.toHost).is = "saved" /\ drv'.lines = drv.lines \union unclean
      BY <2>1, <2>5, <3>2 DEF L!QuietMeansSaved
    <3> QED
      BY <2>7, <3>1, <3>2
  <2>11. LoopSavedInv'
    BY <2>1, <2>2, <2>4, <2>10, ReadStep DEF LoopSavedInv
  <2> QED
    BY <2>1, <2>3, <2>8, <2>9, <2>11 DEF LoopTypes, PictureInv
<1>6. CASE L!ShutdownTimeout
  <2>1. drv.pc = "shutdown" /\ drv' = L!Leave(drv, {"unclean"}) /\ UNCHANGED <<wire, thread, bridge, glass>>
    BY <1>6 DEF L!ShutdownTimeout
  <2>2. /\ drv' \in Drivers /\ drv'.pc \in {"switch", "clear"} /\ drv'.matched = drv.matched
        /\ drv'.next = drv.next /\ drv'.lines = drv.lines \union {"unclean"}
    BY <1>4, <2>1 DEF Lines
  <2> QED
    BY <2>1, <2>2 DEF LoopTypes, DrawInv, PictureInv, LoopSavedInv, L!QuietMeansSaved
<1>7. CASE L!SwitchApp
  <2>1. /\ drv' = [drv EXCEPT !.pc = "opening", !.next = 0, !.request = L!NoRequest, !.seen = L!NoRequest]
        /\ wire' = L!NewWire /\ thread' = L!NewThread
        /\ bridge' = [frame |-> [x \in L!Regions |-> 0], damage |-> L!NoDamage]
        /\ UNCHANGED glass
    BY <1>7 DEF L!SwitchApp
  <2>2. drv' \in Drivers /\ drv'.pc = "opening" /\ drv'.matched = drv.matched
    BY <1>1, <2>1 DEF Drivers, DriverPcs, Wanted
  <2>3. bridge' \in Bridges
    BY <2>1 DEF Bridges, L!NoDamage
  <2>4. LoopTypes'
    BY <2>1, <2>2, <2>3, Fresh DEF LoopTypes
  <2>5. DrawInv'
    BY <2>1, <2>2, Fresh, NoneThere DEF DrawInv
  <2>6. PictureInv'
    BY <2>1, <2>2 DEF PictureInv, L!NewThread
  <2>7. LoopSavedInv'
    BY <2>1, <2>2, Fresh, NoneThere DEF LoopSavedInv, L!NewThread, L!QuietMeansSaved
  <2> QED
    BY <2>4, <2>5, <2>6, <2>7
<1>8. CASE L!ClearPanel
  <2>1. /\ drv' = [drv EXCEPT !.pc = "ended", !.result = "ok"] /\ glass' = [x \in L!Regions |-> 2]
        /\ UNCHANGED <<wire, thread, bridge>>
    BY <1>8 DEF L!ClearPanel
  <2>2. drv' \in Drivers /\ drv'.pc = "ended" /\ drv'.matched = drv.matched /\ drv'.next = drv.next
    BY <1>1, <2>1 DEF Drivers, DriverPcs
  <2>3. glass' \in [L!Regions -> 0..2]
    BY <2>1
  <2> QED
    BY <2>1, <2>2, <2>3 DEF LoopTypes, DrawInv, PictureInv, LoopSavedInv, L!QuietMeansSaved
<1> QED
  BY <1>2, <1>3, <1>5, <1>6, <1>7, <1>8

(* PanelLoopIsSound: waiting for input the glass shows the app's last frame   *)
(* however frames were coalesced, a frame answers the request it was asked    *)
(* by, and a run that reports nothing about saving did save (run.rs,          *)
(* session.rs).                                                               *)
THEOREM GlassShowsTheLastFrame == Spec => []PanelLoopIsSound
<1> USE WidthAssumption
<1>1. Init => LoopInv
  <2> SUFFICES ASSUME L!PInit PROVE LoopInv
    BY DEF Init
  <2>1. LoopTypes
    BY Fresh DEF L!PInit, LoopTypes, Drivers, DriverPcs, Wanted, Bridges, L!NoDamage
  <2>2. DrawInv
    BY Fresh, NoneThere DEF L!PInit, DrawInv
  <2>3. PictureInv
    BY DEF L!PInit, PictureInv, L!NewThread
  <2>4. LoopSavedInv
    BY Fresh, NoneThere DEF L!PInit, LoopSavedInv, L!NewThread, L!QuietMeansSaved
  <2> QED
    BY <2>1, <2>2, <2>3, <2>4 DEF LoopInv
<1>2. LoopInv /\ [Next]_vars => LoopInv'
  <2> SUFFICES ASSUME LoopInv, [Next]_vars PROVE LoopInv'
    OBVIOUS
  <2>1. CASE L!ReaderForwards \/ L!ReaderFails \/ UNCHANGED loop
    BY <2>1 DEF L!ReaderForwards, L!ReaderFails, loop, LoopInv, LoopTypes, DrawInv, PictureInv, LoopSavedInv,
                L!QuietMeansSaved
  <2>2. CASE L!PNext
    BY <2>1, <2>2, ThreadStep, ReadingStep, ShowingStep, LeavingStep DEF L!PNext
  <2>3. L!PNext \/ UNCHANGED loop
    BY DEF Next, vars
  <2> QED
    BY <2>1, <2>2, <2>3
<1>3. LoopInv => PanelLoopIsSound
  BY DEF LoopInv, PanelLoopIsSound, PictureInv, DrawInv, LoopSavedInv, L!GlassFresh, L!FrameMatches
<1> QED
  BY <1>1, <1>2, <1>3, PTL DEF Spec
=============================================================================
