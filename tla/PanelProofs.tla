----------------------------- MODULE PanelProofs -----------------------------
(***************************************************************************)
(* What stands between an app and the glass, for every value of the        *)
(* constants: the compositor, the gestures the host takes, the panel       *)
(* bridge and the decoding of fingers, pen and mouse.                      *)
(***************************************************************************)
EXTENDS MCPanel, FiniteSetTheorems, WellFoundedInduction, TLAPS

---------------------------------------------------------------------------
(* Induction over finite sets and numbers without a theorem that takes an    *)
(* operator: the property is a set, and what has it is a member of it.        *)

(* Induction over the subsets of a finite set, for a property given by the    *)
(* set of the subsets that have it.                                           *)
LEMMA SubsetInduction ==
    ASSUME NEW whole, IsFiniteSet(whole), NEW Good,
           \A s \in SUBSET whole : (\A x \in s : s \ {x} \in Good) => s \in Good
    PROVE  \A s \in SUBSET whole : s \in Good
  <1> DEFINE Bad == {s \in SUBSET whole : s \notin Good}
  <1>1. SUFFICES ASSUME Bad /= {} PROVE FALSE
    OBVIOUS
  <1>2. Bad \subseteq FiniteSubsetsOf(whole)
    BY FS_Subset DEF FiniteSubsetsOf
  <1>3. PICK s \in Bad : \A t \in Bad : <<t, s>> \notin StrictSubsetOrdering(whole)
    <2> HIDE DEF Bad
    <2> QED
      BY <1>1, <1>2, FS_StrictSubsetOrderingWellFounded, WFMin
  <1>4. \A x \in s : s \ {x} \notin Bad
    <2> SUFFICES ASSUME NEW x \in s, s \ {x} \in Bad PROVE FALSE
      OBVIOUS
    <2>1. s \ {x} \in SUBSET whole /\ s \in SUBSET whole /\ s \ {x} /= s
      OBVIOUS
    <2>2. <<s \ {x}, s>> \in StrictSubsetOrdering(whole)
      BY <2>1 DEF StrictSubsetOrdering
    <2> QED
      BY <1>3, <2>2
  <1> QED
    BY <1>3, <1>4

(* Induction over the natural numbers, for a property given the same way. *)
LEMMA NumberInduction ==
    ASSUME NEW Good, 0 \in Good, \A n \in Nat : n \in Good => n + 1 \in Good
    PROVE  \A n \in Nat : n \in Good
  <1> DEFINE Bad == {n \in Nat : n \notin Good}
  <1>1. SUFFICES ASSUME Bad /= {} PROVE FALSE
    OBVIOUS
  <1>2. PICK n \in Bad : \A m \in Bad : <<m, n>> \notin OpToRel(<, Nat)
    <2>1. Bad \subseteq Nat
      OBVIOUS
    <2> HIDE DEF Bad
    <2> QED
      BY <1>1, <2>1, NatLessThanWellFounded, WFMin
  <1>3. n \in Nat /\ n /= 0 /\ n \notin Good
    OBVIOUS
  <1>4. n - 1 \in Nat /\ n - 1 < n /\ (n - 1) + 1 = n
    BY <1>3
  <1>5. <<n - 1, n>> \in OpToRel(<, Nat)
    BY <1>3, <1>4 DEF OpToRel
  <1>6. n - 1 \in Good
    BY <1>2, <1>4, <1>5
  <1> QED
    BY <1>3, <1>4, <1>6

(* A choice of one element of every subset, and the functions that fold op    *)
(* over every subset, taking that element first.                              *)
Choices(whole) == {c \in [(SUBSET whole) \ {{}} -> whole] : \A s \in (SUBSET whole) \ {{}} : c[s] \in s}
FoldsOf(whole, V, base, op, c) ==
    {g \in [SUBSET whole -> V] :
       /\ g[{}] = base
       /\ \A s \in (SUBSET whole) \ {{}} : g[s] = op[<<c[s], g[s \ {c[s]}]>>]}

(* Folding over a finite set is well defined. *)
LEMMA FoldExists ==
    ASSUME NEW whole, IsFiniteSet(whole), NEW V, NEW base \in V, NEW op \in [whole \X V -> V],
           NEW c \in Choices(whole)
    PROVE  FoldsOf(whole, V, base, op, c) /= {}
  <1> DEFINE Step(g, s) == IF s = {} THEN base ELSE op[<<c[s], g[s \ {c[s]}]>>]
             Upto(n) == {s \in SUBSET whole : Cardinality(s) <= n}
             Good == {n \in Nat : \E g \in [SUBSET whole -> V] : \A s \in Upto(n) : g[s] = Step(g, s)}
  <1>1. \A s \in SUBSET whole : IsFiniteSet(s) /\ Cardinality(s) \in Nat
    BY FS_Subset, FS_CardinalityType
  <1>2. \A s \in SUBSET whole : s /= {} => c[s] \in s
    BY DEF Choices
  <1>3. \A s \in SUBSET whole : s /= {} => /\ s \ {c[s]} \in SUBSET whole
                                       /\ Cardinality(s \ {c[s]}) = Cardinality(s) - 1
    BY <1>1, <1>2, FS_RemoveElement
  <1>4. 0 \in Good
    <2> DEFINE g == [s \in SUBSET whole |-> base]
    <2>1. \A s \in Upto(0) : s = {}
      <3> SUFFICES ASSUME NEW s \in SUBSET whole, Cardinality(s) <= 0 PROVE s = {}
        OBVIOUS
      <3> QED
        BY <1>1, FS_EmptySet
    <2>2. g \in [SUBSET whole -> V] /\ \A s \in Upto(0) : g[s] = Step(g, s)
      BY <2>1
    <2> QED
      BY <2>2
  <1>5. ASSUME NEW n \in Nat, n \in Good PROVE n + 1 \in Good
    <2>1. PICK g \in [SUBSET whole -> V] : \A s \in Upto(n) : g[s] = Step(g, s)
      BY <1>5
    <2> DEFINE f == [s \in SUBSET whole |-> Step(g, s)]
    <2>2. f \in [SUBSET whole -> V]
      <3> SUFFICES ASSUME NEW s \in SUBSET whole PROVE Step(g, s) \in V
        OBVIOUS
      <3> QED
        BY <1>2, <1>3
    <2>3. ASSUME NEW s \in Upto(n + 1) PROVE f[s] = Step(f, s)
      <3>1. CASE s = {}
        BY <3>1
      <3>2. CASE s /= {}
        <4>1. s \ {c[s]} \in Upto(n)
          BY <1>1, <1>3, <3>2
        <4>2. f[s \ {c[s]}] = g[s \ {c[s]}]
          BY <2>1, <4>1
        <4> QED
          BY <3>2, <4>2
      <3> QED
        BY <3>1, <3>2
    <2>4. \E k \in [SUBSET whole -> V] : \A s \in Upto(n + 1) : k[s] = Step(k, s)
      <3> HIDE DEF f, Upto, Step
      <3> WITNESS f \in [SUBSET whole -> V]
      <3> QED
        BY <2>3
    <2>5. n + 1 \in Nat
      OBVIOUS
    <2> HIDE DEF f, Upto, Step
    <2> QED
      BY <2>4, <2>5
  <1>6. Cardinality(whole) \in Good
    <2> HIDE DEF Good
    <2> QED
      BY <1>4, <1>5, NumberInduction, FS_CardinalityType
  <1>7. PICK g \in [SUBSET whole -> V] : \A s \in Upto(Cardinality(whole)) : g[s] = Step(g, s)
    BY <1>6
  <1>8. \A s \in SUBSET whole : s \in Upto(Cardinality(whole))
    BY FS_Subset
  <1>9. g[{}] = base /\ \A s \in (SUBSET whole) \ {{}} : g[s] = op[<<c[s], g[s \ {c[s]}]>>]
    BY <1>7, <1>8
  <1> QED
    BY <1>9 DEF FoldsOf

-----------------------------------------------------------------------------
(* The compositor. *)
(***************************************************************************)
(* The compositor is sound for every value of the constants: any clients,  *)
(* any number of frames, requests, sleeps and failing presentations, any   *)
(* size of socket buffer.                                                  *)
(*                                                                         *)
(* The invariant is CompositorInv.  Its heart is Speaks: what an honest    *)
(* client has sent and not yet had read fits the surface the server keeps  *)
(* for it, and a slot the server holds, or has a notice on its way for, is *)
(* one the client believes in flight.  It holds for a client until the     *)
(* compositor notifies it of a slot it was not holding.                    *)
(***************************************************************************)

Attached(s) == [is |-> "attach", slot |-> s]
Committed == [is |-> "commit", damage |-> "ok"]

Surfaces ==
    [slots : [C!Slots -> C!SlotState], pending : C!Slots \union {C!None}, current : C!Slots \union {C!None}]
Foregrounds == {C!NoFg} \union {C!ClientFg(p) : p \in Procs} \union {C!StoppedFg(p) : p \in Procs}
Glasses ==
    {C!Blank, C!LockFrame} \union {C!StoppedFrame(p) : p \in Procs}
      \union {C!ClientFrame(p, n) : p \in Procs, n \in Nat}
Fits == {pool.fits : pool \in C!Pools} \union {FALSE}
Servers ==
    [running : BOOLEAN, backlog : SUBSET Procs, pending : SUBSET Procs, expired : SUBSET Procs,
     clients : SUBSET Procs, home : Procs \union {C!None}, foreground : Foregrounds, locked : BOOLEAN,
     glass : Glasses, status : Foregrounds, surface : [Procs -> Surfaces], fits : [Procs -> Fits],
     repeated : SUBSET Procs, refused : SUBSET Procs, faults : Nat, sleeps : Nat]
Messages == {C!Hello(pool) : pool \in C!Pools} \union C!ClientRequest \union {C!Eof}
Queues == [Procs -> Seq(Messages)]
Notices == [Procs -> Seq(C!Slots)]
Stages == [srv : Servers, down : Notices]

ClientTypes ==
    /\ proc \in [Procs -> {"new", "idle", "waiting", "writing", "failed", "gone"}]
    /\ next \in [Procs -> C!Slots] /\ inFlight \in [Procs -> SUBSET C!Slots]
    /\ mem \in [Procs -> [C!Slots -> Nat]] /\ sent \in [Procs -> Nat]

\* A slot in flight holds a whole frame.
Whole ==
    \A p \in Procs :
        /\ \A s \in inFlight[p] : mem[p][s] # C!Torn
        /\ proc[p] = "writing" => next[p] \notin inFlight[p]

\* The queue q of an honest client whose surface is f, with the notices d on
\* their way to it and the slots b it believes in flight.
Speaks(f, q, d, b) ==
    /\ \A i \in 1..Len(q) : q[i] \in {Attached(s) : s \in C!Slots} \union {Committed, C!Eof}
    /\ \A i \in 1..Len(q) : \A s \in C!Slots :
          q[i] = Attached(s) =>
              /\ i + 1 \in 1..Len(q) /\ q[i + 1] = Committed
              /\ f.slots[s] = "free" /\ s \in b
              /\ \A k \in 1..Len(d) : d[k] # s
              /\ \A j \in 1..Len(q) : q[j] = Attached(s) => j = i
    /\ \A i \in 1..Len(q) :
          q[i] = Committed => IF i = 1 THEN f.pending # C!None ELSE \E s \in C!Slots : q[i - 1] = Attached(s)
    /\ f.pending # C!None => q # <<>> /\ q[1] = Committed /\ f.slots[f.pending] = "attached"
    /\ \A s \in C!Slots : f.slots[s] # "free" => s \in b
    /\ \A k \in 1..Len(d) :
          f.slots[d[k]] = "free" /\ d[k] \in b /\ \A j \in 1..Len(d) : d[j] = d[k] => j = k

Talks(v, u, d, p) ==
    /\ p \in v.backlog \union v.pending =>
          /\ u[p] # <<>> /\ Head(u[p]) = C!Hello(C!GoodPool)
          /\ Speaks(C!NewSurface, Tail(u[p]), d[p], inFlight[p])
    /\ p \in v.clients => Speaks(v.surface[p], u[p], d[p], inFlight[p])

\* What every stage of a turn of the server keeps.
Core(v, u, d) ==
    /\ v \in Servers /\ u \in Queues /\ d \in Notices
    /\ v.backlog \intersect (v.pending \union v.clients) = {} /\ v.pending \intersect v.clients = {}
    /\ v.running /\ v.home # C!None => v.home \in v.clients \intersect Homes
    /\ v.refused \intersect Honest \subseteq v.repeated
    /\ \A p \in Procs : Len(d[p]) <= Capacity
    /\ \A p \in Procs :
          proc[p] = "new" => p \notin v.backlog \union v.pending \union v.clients /\ d[p] = <<>>
    /\ \A p \in (Procs \intersect Honest) \ v.repeated : Talks(v, u, d, p)
Covered(v) == v.locked => v.glass = C!LockFrame
Exclusive(v) ==
    v.glass.is = "frame" /\ v.glass.of \in Honest /\ v.glass.frame = C!Torn => v.glass.of \in v.repeated
Pointed(v) == v.foreground.is = "client" => v.foreground.of \in v.clients

NothingYet == \A p \in Procs : proc[p] = "new" => inFlight[p] = {}

CompositorInv ==
    /\ ClientTypes /\ Whole /\ NothingYet
    /\ Core(srv, up, down) /\ Exclusive(srv)
    /\ srv.running => Covered(srv) /\ Pointed(srv) /\ srv.status = srv.foreground
    /\ ~srv.running => srv.backlog \union srv.pending \union srv.clients = {}

-----------------------------------------------------------------------------
\* What a surface, a message and a queue are.
LEMMA SurfaceKinds ==
    /\ C!NewSurface \in Surfaces
    /\ \A f \in Surfaces : \A s \in C!Slots :
          /\ C!Attach(f, s) \in Surfaces
          /\ C!Release(f, s) \in Surfaces
    /\ \A f \in Surfaces : f.pending # C!None => f.pending \in C!Slots /\ C!Commit(f) \in Surfaces
    /\ \A f \in Surfaces : f.current # C!None => f.current \in C!Slots
<1>1. C!NewSurface \in Surfaces
  BY DEF C!NewSurface, Surfaces, C!SlotState
<1>2. ASSUME NEW f \in Surfaces, NEW s \in C!Slots
      PROVE  C!Attach(f, s) \in Surfaces /\ C!Release(f, s) \in Surfaces
  <2>1. C!Attach(f, s) \in Surfaces
    BY <1>2 DEF C!Attach, Surfaces, C!SlotState
  <2>2. C!Release(f, s) \in Surfaces
    BY <1>2 DEF C!Release, Surfaces, C!SlotState
  <2> QED
    BY <2>1, <2>2
<1>3. ASSUME NEW f \in Surfaces, f.pending # C!None
      PROVE  f.pending \in C!Slots /\ C!Commit(f) \in Surfaces
  <2>1. f.pending \in C!Slots
    BY <1>3 DEF Surfaces
  <2>2. C!Commit(f) \in Surfaces
    BY <1>3, <2>1 DEF C!Commit, Surfaces, C!SlotState
  <2> QED
    BY <2>1, <2>2
<1>4. \A f \in Surfaces : f.current # C!None => f.current \in C!Slots
  BY DEF Surfaces
<1> QED
  BY <1>1, <1>2, <1>3, <1>4

LEMMA Words ==
    /\ Committed # C!Eof
    /\ \A s \in C!Slots :
          /\ Attached(s) # Committed /\ Attached(s) # C!Eof /\ Attached(s).slot = s
          /\ Attached(s).is = "attach" /\ Committed.is = "commit" /\ C!Eof.is = "eof"
    /\ \A s, t \in C!Slots : Attached(s) = Attached(t) => s = t
    /\ Committed.damage = "ok"
    /\ C!None \notin C!Slots
<1>1. /\ Committed.is = "commit" /\ C!Eof.is = "eof" /\ Committed.damage = "ok"
      /\ \A s \in C!Slots : Attached(s).is = "attach" /\ Attached(s).slot = s
  BY DEF Attached, Committed, C!Eof
<1>2. C!None \notin C!Slots
  BY DEF C!None, C!Slots
<1> QED
  BY <1>1, <1>2

LEMMA WordsTold ==
    ASSUME NEW m \in {Attached(s) : s \in C!Slots} \union {Committed, C!Eof}
    PROVE  /\ m.is = "attach" => \E s \in C!Slots : m = Attached(s)
           /\ m.is = "commit" => m = Committed
BY DEF Attached, Committed, C!Eof

LEMMA SaysTyped ==
    /\ \A s \in C!Slots : Attached(s) \in Messages
    /\ Committed \in Messages /\ C!Eof \in Messages
    /\ \A pool \in C!Pools : C!Hello(pool) \in Messages
    /\ C!ClientRequest \subseteq Messages
BY DEF Messages, C!ClientRequest, Attached, Committed

LEMMA MessageKinds ==
    ASSUME NEW m \in Messages
    PROVE  /\ m.is = "attach" => m.slot \in C!Slots
           /\ m.is = "hello" => m.pool \in C!Pools
BY DEF Messages, C!ClientRequest, C!Hello, C!Eof

LEMMA SpeaksNew == Speaks(C!NewSurface, <<>>, <<>>, {})
BY DEF Speaks, C!NewSurface

-----------------------------------------------------------------------------
\* The surface gives a slot back, and its notice arrives or is lost.
LEMMA Released ==
    ASSUME NEW f \in Surfaces, NEW q \in Seq(Messages), NEW d \in Seq(C!Slots), NEW b, NEW s \in C!Slots,
           Speaks(f, q, d, b), f.slots[s] = "presenting"
    PROVE  Speaks(C!Release(f, s), q, d, b) /\ Speaks(C!Release(f, s), q, Append(d, s), b)
<1> DEFINE g == C!Release(f, s)
<1>1. /\ g.slots = [f.slots EXCEPT ![s] = "free"] /\ g.pending = f.pending
      /\ g.slots[s] = "free" /\ \A t \in C!Slots : t # s => g.slots[t] = f.slots[t]
  BY DEF C!Release, Surfaces
<1> HIDE DEF g
<1>2. \A t \in C!Slots : f.slots[t] = "free" => g.slots[t] = "free"
  BY <1>1
<1>3. \A t \in C!Slots : g.slots[t] # "free" => t \in b
  BY <1>1 DEF Speaks
<1>4. g.pending # C!None => q # <<>> /\ q[1] = Committed /\ g.slots[g.pending] = "attached"
  <2> SUFFICES ASSUME g.pending # C!None
               PROVE  q # <<>> /\ q[1] = Committed /\ g.slots[g.pending] = "attached"
    OBVIOUS
  <2>1. q # <<>> /\ q[1] = Committed /\ f.slots[f.pending] = "attached"
    BY <1>1 DEF Speaks
  <2>2. f.pending \in C!Slots
    BY <1>1, SurfaceKinds
  <2> QED
    BY <1>1, <2>1, <2>2
<1>5. \A k \in 1..Len(d) : d[k] \in C!Slots /\ d[k] # s
  BY DEF Speaks
<1>6. \A i \in 1..Len(q) : q[i] # Attached(s)
  BY DEF Speaks
<1>7. \A i \in 1..Len(q) : q[i] \in {Attached(t) : t \in C!Slots} \union {Committed, C!Eof}
  BY DEF Speaks
<1>8. \A i \in 1..Len(q) :
        q[i] = Committed => IF i = 1 THEN g.pending # C!None ELSE \E t \in C!Slots : q[i - 1] = Attached(t)
  BY <1>1 DEF Speaks
<1>9. Speaks(g, q, d, b)
  <2>1. \A i \in 1..Len(q) : \A t \in C!Slots :
          q[i] = Attached(t) =>
              /\ i + 1 \in 1..Len(q) /\ q[i + 1] = Committed
              /\ g.slots[t] = "free" /\ t \in b
              /\ \A k \in 1..Len(d) : d[k] # t
              /\ \A j \in 1..Len(q) : q[j] = Attached(t) => j = i
    BY <1>2 DEF Speaks
  <2>2. \A k \in 1..Len(d) :
          g.slots[d[k]] = "free" /\ d[k] \in b /\ \A j \in 1..Len(d) : d[j] = d[k] => j = k
    BY <1>2, <1>5 DEF Speaks
  <2> QED
    BY <1>3, <1>4, <1>7, <1>8, <2>1, <2>2 DEF Speaks
<1>10. Speaks(g, q, Append(d, s), b)
  <2> DEFINE e == Append(d, s)
  <2>1. /\ Len(e) = Len(d) + 1 /\ e[Len(d) + 1] = s /\ Len(d) \in Nat
        /\ \A k \in 1..Len(d) : e[k] = d[k]
    OBVIOUS
  <2>2. \A k \in 1..Len(e) : k \in 1..Len(d) \/ k = Len(d) + 1
    BY <2>1
  <2> HIDE DEF e
  <2>3. \A i \in 1..Len(q) : \A t \in C!Slots :
          q[i] = Attached(t) =>
              /\ i + 1 \in 1..Len(q) /\ q[i + 1] = Committed
              /\ g.slots[t] = "free" /\ t \in b
              /\ \A k \in 1..Len(e) : e[k] # t
              /\ \A j \in 1..Len(q) : q[j] = Attached(t) => j = i
    <3> SUFFICES ASSUME NEW i \in 1..Len(q), NEW t \in C!Slots, q[i] = Attached(t)
                 PROVE  /\ i + 1 \in 1..Len(q) /\ q[i + 1] = Committed
                        /\ g.slots[t] = "free" /\ t \in b
                        /\ \A k \in 1..Len(e) : e[k] # t
                        /\ \A j \in 1..Len(q) : q[j] = Attached(t) => j = i
      OBVIOUS
    <3>1. t # s
      BY <1>6
    <3>2. \A k \in 1..Len(d) : d[k] # t
      BY DEF Speaks
    <3>3. \A k \in 1..Len(e) : e[k] # t
      BY <2>1, <2>2, <3>1, <3>2
    <3> QED
      BY <1>2, <3>3 DEF Speaks
  <2>4. ASSUME NEW k \in 1..Len(e)
        PROVE  g.slots[e[k]] = "free" /\ e[k] \in b /\ \A j \in 1..Len(e) : e[j] = e[k] => j = k
    <3>1. s \in b
      BY DEF Speaks
    <3>2. CASE k \in 1..Len(d)
      <4>1. e[k] = d[k] /\ d[k] # s /\ d[k] \in C!Slots
        BY <1>5, <2>1, <3>2
      <4>2. f.slots[d[k]] = "free" /\ d[k] \in b /\ \A j \in 1..Len(d) : d[j] = d[k] => j = k
        BY <3>2 DEF Speaks
      <4> QED
        BY <1>2, <2>1, <2>2, <4>1, <4>2
    <3>3. CASE k = Len(d) + 1
      BY <1>1, <1>5, <2>1, <2>2, <3>1, <3>3
    <3> QED
      BY <2>2, <3>2, <3>3
  <2>5. Speaks(g, q, e, b)
    BY <1>3, <1>4, <1>7, <1>8, <2>3, <2>4 DEF Speaks
  <2> QED
    BY <2>5 DEF e
<1> QED
  BY <1>9, <1>10 DEF g

LEMMA Rest ==
    ASSUME NEW q \in Seq(Messages), q # <<>>
    PROVE  /\ Head(q) = q[1] /\ 1 \in 1..Len(q) /\ Tail(q) \in Seq(Messages)
           /\ Len(Tail(q)) = Len(q) - 1 /\ Len(q) \in Nat
           /\ \A i \in 1..Len(Tail(q)) : i \in Nat /\ i + 1 \in 1..Len(q) /\ Tail(q)[i] = q[i + 1]
           /\ \A i \in 1..Len(q) : i # 1 => i - 1 \in 1..Len(Tail(q)) /\ Tail(q)[i - 1] = q[i]
<1>1. /\ Head(q) = q[1] /\ Tail(q) \in Seq(Messages) /\ Len(Tail(q)) = Len(q) - 1 /\ Len(q) \in Nat /\ Len(q) # 0
  OBVIOUS
<1>2. \A i \in 1..Len(Tail(q)) : i \in Nat /\ i + 1 \in 1..Len(q) /\ Tail(q)[i] = q[i + 1]
  BY <1>1
<1>3. ASSUME NEW i \in 1..Len(q), i # 1
      PROVE  i - 1 \in 1..Len(Tail(q)) /\ Tail(q)[i - 1] = q[i]
  <2>1. i - 1 \in 1..Len(Tail(q)) /\ (i - 1) + 1 = i
    BY <1>1, <1>3
  <2> QED
    BY <1>2, <2>1
<1> QED
  BY <1>1, <1>2, <1>3

-----------------------------------------------------------------------------
\* The server reads an attach, then the commit behind it.
LEMMA AttachRead ==
    ASSUME NEW f \in Surfaces, NEW q \in Seq(Messages), NEW d \in Seq(C!Slots), NEW b, NEW s \in C!Slots,
           Speaks(f, q, d, b), q # <<>>, q[1] = Attached(s)
    PROVE  C!CanAttach(f, s) /\ Speaks(C!Attach(f, s), Tail(q), d, b)
<1> DEFINE g == C!Attach(f, s)
           r1 == Tail(q)
<1>1. /\ r1 \in Seq(Messages) /\ Len(r1) = Len(q) - 1 /\ 1 \in 1..Len(q) /\ Len(q) \in Nat
      /\ \A i \in 1..Len(r1) : i \in Nat /\ i + 1 \in 1..Len(q) /\ r1[i] = q[i + 1]
      /\ \A i \in 1..Len(q) : i # 1 => i - 1 \in 1..Len(r1) /\ r1[i - 1] = q[i]
  BY Rest
<1>2. /\ 2 \in 1..Len(q) /\ q[2] = Committed
      /\ f.slots[s] = "free" /\ s \in b
      /\ \A k \in 1..Len(d) : d[k] # s
      /\ \A j \in 1..Len(q) : q[j] = Attached(s) => j = 1
  <2>1. 1 + 1 = 2
    OBVIOUS
  <2>2. \A i \in 1..Len(q) : q[i] = Attached(s) =>
           /\ i + 1 \in 1..Len(q) /\ q[i + 1] = Committed
           /\ f.slots[s] = "free" /\ s \in b
           /\ \A k \in 1..Len(d) : d[k] # s
           /\ \A j \in 1..Len(q) : q[j] = Attached(s) => j = i
    BY DEF Speaks
  <2>3. 1 \in 1..Len(q) /\ q[1] = Attached(s)
    BY <1>1
  <2> QED
    BY <2>1, <2>2, <2>3
<1>3. f.pending = C!None
  BY <1>1, Words DEF Speaks
<1>4. C!CanAttach(f, s)
  BY <1>2 DEF C!CanAttach
<1>5. /\ g.pending = s /\ g.slots[s] = "attached"
      /\ \A t \in C!Slots : t # s => g.slots[t] = f.slots[t]
  <2>1. \A t \in C!Slots : t # C!None
    BY Words
  <2> QED
    BY <1>3, <2>1 DEF C!Attach, Surfaces
<1>6. r1 # <<>> /\ r1[1] = Committed
  <2>1. 2 - 1 = 1 /\ 2 # 1
    OBVIOUS
  <2>2. 1 \in 1..Len(r1) /\ r1[1] = Committed
    BY <1>1, <1>2, <2>1
  <2>3. Len(r1) # 0 /\ Len(<<>>) = 0
    BY <1>1, <2>2
  <2> QED
    BY <2>2, <2>3
<1>7. s # C!None
  BY Words
<1> HIDE DEF g, r1
<1>8. \A i \in 1..Len(r1) : r1[i] \in {Attached(t) : t \in C!Slots} \union {Committed, C!Eof}
  <2>1. \A i \in 1..Len(q) : q[i] \in {Attached(t) : t \in C!Slots} \union {Committed, C!Eof}
    BY DEF Speaks
  <2> QED
    BY <1>1, <2>1
<1>9. ASSUME NEW i \in 1..Len(r1), NEW t \in C!Slots, r1[i] = Attached(t)
      PROVE  /\ i + 1 \in 1..Len(r1) /\ r1[i + 1] = Committed
             /\ g.slots[t] = "free" /\ t \in b
             /\ \A k \in 1..Len(d) : d[k] # t
             /\ \A j \in 1..Len(r1) : r1[j] = Attached(t) => j = i
  <2>1. i \in Nat /\ i + 1 \in 1..Len(q) /\ q[i + 1] = Attached(t)
    BY <1>1, <1>9
  <2> DEFINE n == i + 1
  <2>2. n \in 1..Len(q) /\ q[n] = Attached(t)
    BY <2>1
  <2>3. n # 1 /\ n \in Nat
    BY <2>1
  <2> HIDE DEF n
  <2>4. /\ n + 1 \in 1..Len(q) /\ q[n + 1] = Committed
        /\ f.slots[t] = "free" /\ t \in b
        /\ \A k \in 1..Len(d) : d[k] # t
        /\ \A j \in 1..Len(q) : q[j] = Attached(t) => j = n
    BY <2>2 DEF Speaks
  <2>5. t # s
    BY <1>2, <2>2, <2>3
  <2>6. i + 1 \in 1..Len(r1) /\ r1[i + 1] = Committed
    <3>1. (n + 1) - 1 = i + 1 /\ n + 1 # 1
      BY <2>1 DEF n
    <3> QED
      BY <1>1, <2>4, <3>1
  <2>7. \A j \in 1..Len(r1) : r1[j] = Attached(t) => j = i
    <3> SUFFICES ASSUME NEW j \in 1..Len(r1), r1[j] = Attached(t)
                 PROVE  j = i
      OBVIOUS
    <3>1. j \in Nat /\ j + 1 \in 1..Len(q) /\ q[j + 1] = Attached(t)
      BY <1>1
    <3>2. j + 1 = n
      BY <2>4, <3>1
    <3> QED
      BY <2>1, <3>1, <3>2 DEF n
  <2> QED
    BY <1>5, <2>4, <2>5, <2>6, <2>7
<1>10. ASSUME NEW i \in 1..Len(r1), r1[i] = Committed
       PROVE  IF i = 1 THEN g.pending # C!None ELSE \E t \in C!Slots : r1[i - 1] = Attached(t)
  <2>1. CASE i = 1
    BY <1>5, <1>7, <2>1
  <2>2. CASE i # 1
    <3>1. i \in Nat /\ i + 1 \in 1..Len(q) /\ q[i + 1] = Committed /\ i + 1 # 1
      BY <1>1, <1>10
    <3> DEFINE n == i + 1
    <3>2. n \in 1..Len(q) /\ q[n] = Committed /\ n # 1 /\ n - 1 = i
      BY <3>1
    <3> HIDE DEF n
    <3>3. \E t \in C!Slots : q[n - 1] = Attached(t)
      BY <3>2 DEF Speaks
    <3>4. i \in 1..Len(q) /\ r1[i - 1] = q[i]
      BY <1>1, <2>2, <3>1
    <3> QED
      BY <2>2, <3>2, <3>3, <3>4
  <2> QED
    BY <2>1, <2>2
<1>11. g.pending # C!None => r1 # <<>> /\ r1[1] = Committed /\ g.slots[g.pending] = "attached"
  BY <1>5, <1>6
<1>12. \A t \in C!Slots : g.slots[t] # "free" => t \in b
  BY <1>2, <1>5 DEF Speaks
<1>13. \A k \in 1..Len(d) :
          g.slots[d[k]] = "free" /\ d[k] \in b /\ \A j \in 1..Len(d) : d[j] = d[k] => j = k
  <2>1. \A k \in 1..Len(d) : d[k] \in C!Slots /\ d[k] # s
    BY <1>2
  <2> QED
    BY <1>5, <2>1 DEF Speaks
<1>14. Speaks(g, r1, d, b)
  BY <1>8, <1>9, <1>10, <1>11, <1>12, <1>13 DEF Speaks
<1> QED
  BY <1>4, <1>14 DEF g, r1

LEMMA CommitRead ==
    ASSUME NEW f \in Surfaces, NEW q \in Seq(Messages), NEW d \in Seq(C!Slots), NEW b,
           Speaks(f, q, d, b), q # <<>>, q[1] = Committed
    PROVE  C!CanCommit(f, "ok") /\ Speaks(C!Commit(f), Tail(q), d, b)
<1> DEFINE g == C!Commit(f)
           r1 == Tail(q)
<1>1. /\ r1 \in Seq(Messages) /\ Len(r1) = Len(q) - 1 /\ 1 \in 1..Len(q) /\ Len(q) \in Nat
      /\ \A i \in 1..Len(r1) : i \in Nat /\ i + 1 \in 1..Len(q) /\ r1[i] = q[i + 1]
      /\ \A i \in 1..Len(q) : i # 1 => i - 1 \in 1..Len(r1) /\ r1[i - 1] = q[i]
  BY Rest
<1>2. f.pending # C!None
  BY <1>1 DEF Speaks
<1> DEFINE s == f.pending
<1>3. s \in C!Slots /\ f.slots[s] = "attached"
  BY <1>2, SurfaceKinds DEF Speaks
<1>4. C!CanCommit(f, "ok")
  BY <1>2 DEF C!CanCommit
<1>5. /\ g.pending = C!None /\ g.slots[s] = "presenting" /\ g.slots = [f.slots EXCEPT ![s] = "presenting"]
      /\ \A t \in C!Slots : t # s => g.slots[t] = f.slots[t]
  BY <1>3 DEF C!Commit, Surfaces
<1> HIDE DEF g, r1, s
<1>6. /\ \A t \in C!Slots : f.slots[t] # "free" => t \in b
      /\ \A k \in 1..Len(d) : f.slots[d[k]] = "free" /\ d[k] \in b /\ \A j \in 1..Len(d) : d[j] = d[k] => j = k
      /\ \A k \in 1..Len(d) : d[k] \in C!Slots
  BY DEF Speaks
<1>7. s \in b /\ \A k \in 1..Len(d) : d[k] # s
  BY <1>3, <1>6
<1>8. \A i \in 1..Len(r1) : r1[i] \in {Attached(t) : t \in C!Slots} \union {Committed, C!Eof}
  <2>1. \A i \in 1..Len(q) : q[i] \in {Attached(t) : t \in C!Slots} \union {Committed, C!Eof}
    BY DEF Speaks
  <2> QED
    BY <1>1, <2>1
<1>9. ASSUME NEW i \in 1..Len(r1), NEW t \in C!Slots, r1[i] = Attached(t)
      PROVE  /\ i + 1 \in 1..Len(r1) /\ r1[i + 1] = Committed
             /\ g.slots[t] = "free" /\ t \in b
             /\ \A k \in 1..Len(d) : d[k] # t
             /\ \A j \in 1..Len(r1) : r1[j] = Attached(t) => j = i
  <2>1. i \in Nat /\ i + 1 \in 1..Len(q) /\ q[i + 1] = Attached(t)
    BY <1>1, <1>9
  <2> DEFINE n == i + 1
  <2>2. n \in 1..Len(q) /\ q[n] = Attached(t)
    BY <2>1
  <2> HIDE DEF n
  <2>4. /\ n + 1 \in 1..Len(q) /\ q[n + 1] = Committed
        /\ f.slots[t] = "free" /\ t \in b
        /\ \A k \in 1..Len(d) : d[k] # t
        /\ \A j \in 1..Len(q) : q[j] = Attached(t) => j = n
    BY <2>2 DEF Speaks
  <2>5. t # s
    BY <1>3, <2>4
  <2>6. i + 1 \in 1..Len(r1) /\ r1[i + 1] = Committed
    <3>1. (n + 1) - 1 = i + 1 /\ n + 1 # 1
      BY <2>1 DEF n
    <3> QED
      BY <1>1, <2>4, <3>1
  <2>7. \A j \in 1..Len(r1) : r1[j] = Attached(t) => j = i
    <3> SUFFICES ASSUME NEW j \in 1..Len(r1), r1[j] = Attached(t)
                 PROVE  j = i
      OBVIOUS
    <3>1. j \in Nat /\ j + 1 \in 1..Len(q) /\ q[j + 1] = Attached(t)
      BY <1>1
    <3>2. j + 1 = n
      BY <2>4, <3>1
    <3> QED
      BY <2>1, <3>1, <3>2 DEF n
  <2> QED
    BY <1>5, <2>4, <2>5, <2>6, <2>7
<1>10. ASSUME NEW i \in 1..Len(r1), r1[i] = Committed
       PROVE  i # 1 /\ \E t \in C!Slots : r1[i - 1] = Attached(t)
  <2>1. i \in Nat /\ i + 1 \in 1..Len(q) /\ q[i + 1] = Committed /\ i + 1 # 1 /\ i # 0
    BY <1>1, <1>10
  <2> DEFINE n == i + 1
  <2>2. n \in 1..Len(q) /\ q[n] = Committed /\ n # 1 /\ n - 1 = i
    BY <2>1
  <2> HIDE DEF n
  <2>3. \E t \in C!Slots : q[n - 1] = Attached(t)
    BY <2>2 DEF Speaks
  <2>4. i # 1
    BY <2>2, <2>3, Words
  <2>5. i \in 1..Len(q) /\ r1[i - 1] = q[i]
    BY <1>1, <2>1, <2>4
  <2> QED
    BY <2>2, <2>3, <2>4, <2>5
<1>11. \A t \in C!Slots : g.slots[t] # "free" => t \in b
  BY <1>5, <1>6, <1>7
<1>12. \A k \in 1..Len(d) :
          g.slots[d[k]] = "free" /\ d[k] \in b /\ \A j \in 1..Len(d) : d[j] = d[k] => j = k
  BY <1>5, <1>6, <1>7
<1>13. Speaks(g, r1, d, b)
  BY <1>5, <1>8, <1>9, <1>10, <1>11, <1>12 DEF Speaks
<1> QED
  BY <1>4, <1>13 DEF g, r1

-----------------------------------------------------------------------------
\* The client reads a notice, publishes a frame, or exits.
LEMMA NoticeRead ==
    ASSUME NEW f \in Surfaces, NEW q \in Seq(Messages), NEW d \in Seq(C!Slots), NEW b,
           Speaks(f, q, d, b), d # <<>>
    PROVE  Speaks(f, q, Tail(d), b \ {Head(d)})
<1> DEFINE s == Head(d)
           e == Tail(d)
<1>1. /\ s = d[1] /\ s \in C!Slots /\ 1 \in 1..Len(d) /\ e \in Seq(C!Slots) /\ Len(e) = Len(d) - 1 /\ Len(d) \in Nat
      /\ \A k \in 1..Len(e) : k + 1 \in 1..Len(d) /\ e[k] = d[k + 1] /\ k \in Nat
  OBVIOUS
<1> HIDE DEF s, e
<1>2. f.slots[s] = "free" /\ \A j \in 1..Len(d) : d[j] = s => j = 1
  BY <1>1 DEF Speaks
<1>3. \A k \in 1..Len(e) : e[k] # s
  <2> SUFFICES ASSUME NEW k \in 1..Len(e), e[k] = s
               PROVE  FALSE
    OBVIOUS
  <2>1. k \in Nat /\ k + 1 = 1
    BY <1>1, <1>2
  <2>2. k # 0
    OBVIOUS
  <2> QED
    BY <2>1, <2>2
<1>4. \A i \in 1..Len(q) : \A t \in C!Slots :
        q[i] = Attached(t) =>
            /\ i + 1 \in 1..Len(q) /\ q[i + 1] = Committed
            /\ f.slots[t] = "free" /\ t \in b \ {s}
            /\ \A k \in 1..Len(e) : e[k] # t
            /\ \A j \in 1..Len(q) : q[j] = Attached(t) => j = i
  <2> SUFFICES ASSUME NEW i \in 1..Len(q), NEW t \in C!Slots, q[i] = Attached(t)
               PROVE  /\ i + 1 \in 1..Len(q) /\ q[i + 1] = Committed
                      /\ f.slots[t] = "free" /\ t \in b \ {s}
                      /\ \A k \in 1..Len(e) : e[k] # t
                      /\ \A j \in 1..Len(q) : q[j] = Attached(t) => j = i
    OBVIOUS
  <2>1. /\ i + 1 \in 1..Len(q) /\ q[i + 1] = Committed
        /\ f.slots[t] = "free" /\ t \in b
        /\ \A k \in 1..Len(d) : d[k] # t
        /\ \A j \in 1..Len(q) : q[j] = Attached(t) => j = i
    BY DEF Speaks
  <2> QED
    BY <1>1, <2>1
<1>5. \A t \in C!Slots : f.slots[t] # "free" => t \in b \ {s}
  BY <1>2 DEF Speaks
<1>6. ASSUME NEW k \in 1..Len(e)
      PROVE  f.slots[e[k]] = "free" /\ e[k] \in b \ {s} /\ \A j \in 1..Len(e) : e[j] = e[k] => j = k
  <2>1. k \in Nat /\ k + 1 \in 1..Len(d) /\ e[k] = d[k + 1]
    BY <1>1
  <2> DEFINE n == k + 1
  <2>2. n \in 1..Len(d) /\ e[k] = d[n]
    BY <2>1
  <2> HIDE DEF n
  <2>3. f.slots[d[n]] = "free" /\ d[n] \in b /\ \A j \in 1..Len(d) : d[j] = d[n] => j = n
    BY <2>2 DEF Speaks
  <2>4. \A j \in 1..Len(e) : e[j] = e[k] => j = k
    <3> SUFFICES ASSUME NEW j \in 1..Len(e), e[j] = e[k]
                 PROVE  j = k
      OBVIOUS
    <3>1. j \in Nat /\ j + 1 = n
      BY <1>1, <2>2, <2>3
    <3> QED
      BY <2>1, <3>1 DEF n
  <2> QED
    BY <1>3, <2>2, <2>3, <2>4
<1>7. Speaks(f, q, e, b \ {s})
  BY <1>4, <1>5, <1>6 DEF Speaks
<1> QED
  BY <1>7 DEF s, e

LEMMA PublishSaid ==
    ASSUME NEW f \in Surfaces, NEW q \in Seq(Messages), NEW d \in Seq(C!Slots), NEW b, NEW s \in C!Slots,
           Speaks(f, q, d, b), s \notin b
    PROVE  Speaks(f, q \o <<Attached(s), Committed>>, d, b \union {s})
<1> DEFINE r1 == q \o <<Attached(s), Committed>>
           N == Len(q)
<1>1. /\ N \in Nat /\ Len(r1) = N + 2 /\ r1[N + 1] = Attached(s) /\ r1[N + 2] = Committed
      /\ \A i \in 1..N : r1[i] = q[i]
  BY SaysTyped
<1>2. \A i \in 1..Len(r1) : i \in 1..N \/ i = N + 1 \/ i = N + 2
  BY <1>1
<1>3. /\ \A i \in 1..N : i \in 1..Len(r1)
      /\ N + 1 \in 1..Len(r1) /\ N + 2 \in 1..Len(r1) /\ N + 1 \notin 1..N /\ N + 2 \notin 1..N
      /\ N + 2 # 1 /\ (N + 2) - 1 = N + 1 /\ (N + 1) + 1 = N + 2
  BY <1>1
<1> HIDE DEF r1
<1>4. /\ f.slots[s] = "free"
      /\ \A k \in 1..Len(d) : d[k] # s
      /\ \A i \in 1..N : q[i] # Attached(s)
  BY DEF Speaks
<1>5. \A i \in 1..Len(r1) : r1[i] \in {Attached(t) : t \in C!Slots} \union {Committed, C!Eof}
  <2>1. \A i \in 1..N : q[i] \in {Attached(t) : t \in C!Slots} \union {Committed, C!Eof}
    BY DEF Speaks
  <2> QED
    BY <1>1, <1>2, <2>1
<1>6. ASSUME NEW i \in 1..Len(r1), NEW t \in C!Slots, r1[i] = Attached(t)
      PROVE  /\ i + 1 \in 1..Len(r1) /\ r1[i + 1] = Committed
             /\ f.slots[t] = "free" /\ t \in b \union {s}
             /\ \A k \in 1..Len(d) : d[k] # t
             /\ \A j \in 1..Len(r1) : r1[j] = Attached(t) => j = i
  <2>1. CASE i \in 1..N
    <3>1. q[i] = Attached(t)
      BY <1>1, <1>6, <2>1
    <3>2. /\ i + 1 \in 1..N /\ q[i + 1] = Committed
          /\ f.slots[t] = "free" /\ t \in b
          /\ \A k \in 1..Len(d) : d[k] # t
          /\ \A j \in 1..N : q[j] = Attached(t) => j = i
      BY <2>1, <3>1 DEF Speaks
    <3>3. t # s
      BY <3>2
    <3>4. Attached(t) # Attached(s) /\ Attached(t) # Committed
      BY <3>3, Words
    <3>5. \A j \in 1..Len(r1) : r1[j] = Attached(t) => j = i
      BY <1>1, <1>2, <3>2, <3>4
    <3>6. i + 1 \in 1..Len(r1) /\ r1[i + 1] = Committed
      BY <1>1, <1>3, <3>2
    <3> QED
      BY <3>2, <3>5, <3>6
  <2>2. CASE i = N + 1
    <3>1. t = s
      BY <1>1, <1>6, <2>2, Words
    <3>2. \A j \in 1..Len(r1) : r1[j] = Attached(t) => j = i
      BY <1>1, <1>2, <1>4, <2>2, <3>1, Words
    <3>3. i + 1 = N + 2
      BY <1>3, <2>2
    <3> QED
      BY <1>1, <1>3, <1>4, <3>1, <3>2, <3>3
  <2>3. CASE i = N + 2
    BY <1>1, <1>6, <2>3, Words
  <2> QED
    BY <1>2, <2>1, <2>2, <2>3
<1>7. ASSUME NEW i \in 1..Len(r1), r1[i] = Committed
      PROVE  IF i = 1 THEN f.pending # C!None ELSE \E t \in C!Slots : r1[i - 1] = Attached(t)
  <2>1. CASE i \in 1..N
    <3>1. q[i] = Committed
      BY <1>1, <1>7, <2>1
    <3>2. CASE i = 1
      BY <2>1, <3>1, <3>2 DEF Speaks
    <3>3. CASE i # 1
      <4>1. \E t \in C!Slots : q[i - 1] = Attached(t)
        BY <2>1, <3>1, <3>3 DEF Speaks
      <4>2. i - 1 \in 1..N
        BY <1>1, <2>1, <3>3
      <4> QED
        BY <1>1, <3>3, <4>1, <4>2
    <3> QED
      BY <3>2, <3>3
  <2>2. CASE i = N + 1
    BY <1>1, <1>7, <2>2, Words
  <2>3. CASE i = N + 2
    BY <1>1, <1>3, <2>3
  <2> QED
    BY <1>2, <2>1, <2>2, <2>3
<1>8. f.pending # C!None => r1 # <<>> /\ r1[1] = Committed /\ f.slots[f.pending] = "attached"
  <2> SUFFICES ASSUME f.pending # C!None
               PROVE  r1 # <<>> /\ r1[1] = Committed /\ f.slots[f.pending] = "attached"
    OBVIOUS
  <2>1. q # <<>> /\ q[1] = Committed /\ f.slots[f.pending] = "attached"
    BY DEF Speaks
  <2>2. 1 \in 1..N
    BY <2>1, Rest
  <2>3. r1 # <<>>
    <3>1. Len(r1) # 0 /\ Len(<<>>) = 0
      BY <1>1
    <3> QED
      BY <3>1
  <2> QED
    BY <1>1, <2>1, <2>2, <2>3
<1>9. \A t \in C!Slots : f.slots[t] # "free" => t \in b \union {s}
  BY DEF Speaks
<1>10. \A k \in 1..Len(d) :
          f.slots[d[k]] = "free" /\ d[k] \in b \union {s} /\ \A j \in 1..Len(d) : d[j] = d[k] => j = k
  BY DEF Speaks
<1>11. Speaks(f, r1, d, b \union {s})
  BY <1>5, <1>6, <1>7, <1>8, <1>9, <1>10 DEF Speaks
<1> QED
  BY <1>11 DEF r1

LEMMA ExitSaid ==
    ASSUME NEW f \in Surfaces, NEW q \in Seq(Messages), NEW d \in Seq(C!Slots), NEW b, Speaks(f, q, d, b)
    PROVE  Speaks(f, Append(q, C!Eof), d, b)
<1> DEFINE r1 == Append(q, C!Eof)
           N == Len(q)
<1>1. /\ N \in Nat /\ Len(r1) = N + 1 /\ r1[N + 1] = C!Eof
      /\ \A i \in 1..N : r1[i] = q[i]
  BY SaysTyped
<1>2. /\ \A i \in 1..Len(r1) : i \in 1..N \/ i = N + 1
      /\ \A i \in 1..N : i \in 1..Len(r1)
  BY <1>1
<1> HIDE DEF r1
<1>3. \A i \in 1..Len(r1) : r1[i] \in {Attached(t) : t \in C!Slots} \union {Committed, C!Eof}
  <2>1. \A i \in 1..N : q[i] \in {Attached(t) : t \in C!Slots} \union {Committed, C!Eof}
    BY DEF Speaks
  <2> QED
    BY <1>1, <1>2, <2>1
<1>4. ASSUME NEW i \in 1..Len(r1), NEW t \in C!Slots, r1[i] = Attached(t)
      PROVE  /\ i + 1 \in 1..Len(r1) /\ r1[i + 1] = Committed
             /\ f.slots[t] = "free" /\ t \in b
             /\ \A k \in 1..Len(d) : d[k] # t
             /\ \A j \in 1..Len(r1) : r1[j] = Attached(t) => j = i
  <2>1. Attached(t) # C!Eof
    BY Words
  <2>2. i \in 1..N /\ q[i] = Attached(t)
    BY <1>1, <1>2, <1>4, <2>1
  <2>3. /\ i + 1 \in 1..N /\ q[i + 1] = Committed
        /\ f.slots[t] = "free" /\ t \in b
        /\ \A k \in 1..Len(d) : d[k] # t
        /\ \A j \in 1..N : q[j] = Attached(t) => j = i
    BY <2>2 DEF Speaks
  <2> QED
    BY <1>1, <1>2, <2>1, <2>3
<1>5. ASSUME NEW i \in 1..Len(r1), r1[i] = Committed
      PROVE  IF i = 1 THEN f.pending # C!None ELSE \E t \in C!Slots : r1[i - 1] = Attached(t)
  <2>1. i \in 1..N /\ q[i] = Committed
    BY <1>1, <1>2, <1>5, Words
  <2>2. CASE i = 1
    BY <2>1, <2>2 DEF Speaks
  <2>3. CASE i # 1
    <3>1. \E t \in C!Slots : q[i - 1] = Attached(t)
      BY <2>1, <2>3 DEF Speaks
    <3>2. i - 1 \in 1..N
      BY <1>1, <2>1, <2>3
    <3> QED
      BY <1>1, <2>3, <3>1, <3>2
  <2> QED
    BY <2>2, <2>3
<1>6. f.pending # C!None => r1 # <<>> /\ r1[1] = Committed /\ f.slots[f.pending] = "attached"
  <2> SUFFICES ASSUME f.pending # C!None
               PROVE  r1 # <<>> /\ r1[1] = Committed /\ f.slots[f.pending] = "attached"
    OBVIOUS
  <2>1. q # <<>> /\ q[1] = Committed /\ f.slots[f.pending] = "attached"
    BY DEF Speaks
  <2>2. 1 \in 1..N
    BY <2>1, Rest
  <2>3. Len(r1) # 0 /\ Len(<<>>) = 0
    BY <1>1
  <2> QED
    BY <1>1, <2>1, <2>2, <2>3
<1>7. /\ \A t \in C!Slots : f.slots[t] # "free" => t \in b
      /\ \A k \in 1..Len(d) :
            f.slots[d[k]] = "free" /\ d[k] \in b /\ \A j \in 1..Len(d) : d[j] = d[k] => j = k
  BY DEF Speaks
<1>8. Speaks(f, r1, d, b)
  BY <1>3, <1>4, <1>5, <1>6, <1>7 DEF Speaks
<1> QED
  BY <1>8 DEF r1

-----------------------------------------------------------------------------
\* What the server's record says of the foreground.
LEMMA ForegroundKinds ==
    ASSUME NEW v \in Servers, ClientsAssumption
    PROVE  /\ C!ForegroundClient(v) \in Procs \union {C!None}
           /\ v.foreground.is = "client" <=> C!ForegroundClient(v) # C!None
           /\ C!ForegroundClient(v) # C!None =>
                 v.foreground = C!ClientFg(C!ForegroundClient(v)) /\ v.foreground.of = C!ForegroundClient(v)
           /\ \A p \in Procs : v.foreground = C!ClientFg(p) => v.foreground.is = "client" /\ v.foreground.of = p
           /\ v.foreground.is = "stopped" => v.foreground.of \in Procs
<1>1. v.foreground \in Foregrounds
  BY DEF Servers
<1>2. \A p \in Procs : p # C!None
  BY DEF ClientsAssumption, C!None
<1>3. /\ C!NoFg.is = "none"
      /\ \A p \in Procs : /\ C!ClientFg(p).is = "client" /\ C!ClientFg(p).of = p
                          /\ C!StoppedFg(p).is = "stopped" /\ C!StoppedFg(p).of = p
  BY DEF C!NoFg, C!ClientFg, C!StoppedFg
<1>4. CASE v.foreground = C!NoFg
  BY <1>2, <1>3, <1>4 DEF C!ForegroundClient
<1>5. ASSUME NEW p \in Procs, v.foreground = C!ClientFg(p)
      PROVE  /\ C!ForegroundClient(v) = p
             /\ v.foreground.is = "client" /\ v.foreground.of = p /\ p # C!None
  BY <1>2, <1>3, <1>5 DEF C!ForegroundClient
<1>6. ASSUME NEW p \in Procs, v.foreground = C!StoppedFg(p)
      PROVE  C!ForegroundClient(v) = C!None /\ v.foreground.is = "stopped" /\ v.foreground.of = p
  BY <1>3, <1>6 DEF C!ForegroundClient
<1> QED
  BY <1>1, <1>3, <1>4, <1>5, <1>6 DEF Foregrounds

LEMMA GlassKinds ==
    /\ C!Blank.is = "blank" /\ C!LockFrame.is = "locked"
    /\ \A p \in Procs : C!StoppedFrame(p).is = "stopped"
    /\ \A p \in Procs : \A n \in Nat :
          /\ C!ClientFrame(p, n).is = "frame" /\ C!ClientFrame(p, n).of = p /\ C!ClientFrame(p, n).frame = n
    /\ C!Blank \in Glasses /\ C!LockFrame \in Glasses
    /\ \A p \in Procs : C!StoppedFrame(p) \in Glasses
    /\ \A p \in Procs : \A n \in Nat : C!ClientFrame(p, n) \in Glasses
<1>1. /\ C!Blank.is = "blank" /\ C!LockFrame.is = "locked"
      /\ \A p \in Procs : C!StoppedFrame(p).is = "stopped"
      /\ \A p \in Procs : \A n \in Nat :
            /\ C!ClientFrame(p, n).is = "frame" /\ C!ClientFrame(p, n).of = p /\ C!ClientFrame(p, n).frame = n
  BY DEF C!Blank, C!LockFrame, C!StoppedFrame, C!ClientFrame
<1>2. /\ C!Blank \in Glasses /\ C!LockFrame \in Glasses
      /\ \A p \in Procs : C!StoppedFrame(p) \in Glasses
      /\ \A p \in Procs : \A n \in Nat : C!ClientFrame(p, n) \in Glasses
  BY DEF Glasses
<1> QED
  BY <1>1, <1>2

\* A step of the server that leaves the clients, the foreground and the lock.
Aside(v, w) ==
    /\ w.running = v.running /\ w.backlog = v.backlog /\ w.pending = v.pending /\ w.expired = v.expired
    /\ w.clients = v.clients /\ w.home = v.home /\ w.foreground = v.foreground /\ w.locked = v.locked
    /\ w.status = v.status /\ w.refused = v.refused

\* Core says nothing of the glass, the status file, the lock and the counters.
LEMMA CoreIgnores ==
    ASSUME NEW v, NEW w \in Servers, NEW u, NEW d, Core(v, u, d),
           w.running => v.running, w.backlog = v.backlog, w.pending = v.pending, w.clients = v.clients,
           w.home = v.home, w.surface = v.surface, w.repeated = v.repeated, w.refused = v.refused
    PROVE  Core(w, u, d)
<1>1. \A p \in Procs : Talks(v, u, d, p) => Talks(w, u, d, p)
  BY DEF Talks
<1> QED
  BY <1>1 DEF Core

\* notify_release and Surface::release together.
LEMMA GiveBackKeeps ==
    ASSUME ClientsAssumption,
           NEW st \in Stages, NEW u, Core(st.srv, u, st.down), NEW p \in st.srv.clients, NEW s \in C!Slots
    PROVE  LET t == C!GiveBack(st, p, s)
           IN  /\ t \in Stages /\ Core(t.srv, u, t.down)
               /\ Aside(st.srv, t.srv) /\ t.srv.glass = st.srv.glass
               /\ st.srv.repeated \subseteq t.srv.repeated
               /\ st.srv.surface[p].slots[s] # "presenting" => p \in t.srv.repeated
<1> DEFINE t == C!GiveBack(st, p, s)
           v == st.srv
           f == v.surface[p]
           held == f.slots[s] = "presenting"
           w == [v EXCEPT !.repeated = IF held THEN @ ELSE @ \union {p},
                          !.surface = [@ EXCEPT ![p] = C!Release(f, s)]]
           d == st.down
           e == IF Len(d[p]) < Capacity THEN [d EXCEPT ![p] = Append(@, s)] ELSE d
<1>1. p \in Procs /\ v \in Servers /\ d \in Notices /\ f \in Surfaces /\ d[p] \in Seq(C!Slots) /\ u \in Queues
  BY DEF Core, Servers, Stages, Notices
<1>2. t.srv = w /\ t.down = e /\ t = [srv |-> w, down |-> e]
  BY <1>1 DEF C!GiveBack, C!NotifyRelease, Stages, Servers
<1>3. C!Release(f, s) \in Surfaces
  BY <1>1, SurfaceKinds
<1>4. w \in Servers
  BY <1>1, <1>3 DEF Servers
<1>5. e \in Notices
  BY <1>1 DEF Notices
<1>6. /\ w.repeated = IF held THEN v.repeated ELSE v.repeated \union {p}
      /\ w.surface = [v.surface EXCEPT ![p] = C!Release(f, s)]
      /\ Aside(v, w) /\ w.glass = v.glass
  BY <1>1 DEF Servers, Aside
<1>7. /\ w.surface[p] = C!Release(f, s)
      /\ \A o \in Procs : o # p => w.surface[o] = v.surface[o] /\ e[o] = d[o]
      /\ e[p] = d[p] \/ e[p] = Append(d[p], s)
  <2>1. v.surface \in [Procs -> Surfaces]
    BY <1>1 DEF Servers
  <2> QED
    BY <1>1, <1>6, <2>1 DEF Notices
<1>8. \A o \in Procs : Len(e[o]) <= Capacity
  <2>1. \A o \in Procs : Len(d[o]) <= Capacity /\ d[o] \in Seq(C!Slots)
    BY <1>1 DEF Core, Notices
  <2>2. CASE Len(d[p]) < Capacity
    <3>1. e[p] = Append(d[p], s)
      BY <1>1, <2>2 DEF Notices
    <3>2. Len(e[p]) = Len(d[p]) + 1 /\ Len(d[p]) \in Nat
      BY <1>1, <3>1
    <3>3. Len(e[p]) <= Capacity
      BY <2>2, <3>2 DEF ClientsAssumption
    <3> QED
      BY <1>7, <2>1, <3>3
  <2>3. CASE ~(Len(d[p]) < Capacity)
    BY <2>1, <2>3
  <2> QED
    BY <2>2, <2>3
<1> HIDE DEF w, e
<1>9. ASSUME NEW o \in (Procs \intersect Honest) \ w.repeated
      PROVE  Talks(w, u, e, o)
  <2>1. o \in Procs /\ o \in (Procs \intersect Honest) \ v.repeated
    BY <1>6
  <2>2. Talks(v, u, d, o)
    BY <2>1 DEF Core
  <2>3. CASE o # p
    BY <1>6, <1>7, <2>1, <2>2, <2>3 DEF Talks, Aside
  <2>4. CASE o = p
    <3>1. held
      BY <1>6, <2>4
    <3>2. p \notin v.backlog \union v.pending
      BY DEF Core
    <3>3. Speaks(f, u[p], d[p], inFlight[p])
      BY <2>2, <2>4 DEF Talks
    <3>4. u[p] \in Seq(Messages)
      BY <1>1 DEF Queues
    <3>5. /\ Speaks(C!Release(f, s), u[p], d[p], inFlight[p])
          /\ Speaks(C!Release(f, s), u[p], Append(d[p], s), inFlight[p])
      BY <1>1, <3>1, <3>3, <3>4, Released
    <3>6. Speaks(w.surface[p], u[p], e[p], inFlight[p])
      BY <1>7, <3>5
    <3> QED
      BY <1>6, <2>4, <3>2, <3>6 DEF Talks, Aside
  <2> QED
    BY <2>3, <2>4
<1>10. Core(w, u, e)
  <2>1. \A o \in Procs :
          proc[o] = "new" => o \notin w.backlog \union w.pending \union w.clients /\ e[o] = <<>>
    BY <1>6, <1>7 DEF Core, Aside
  <2> QED
    BY <1>1, <1>4, <1>5, <1>6, <1>8, <1>9, <2>1 DEF Core, Aside
<1>11. t \in Stages
  BY <1>2, <1>4, <1>5 DEF Stages
<1> QED
  BY <1>2, <1>6, <1>10, <1>11

-----------------------------------------------------------------------------
\* A presentation that fails changes a counter only; one that does not is shown.
Kept(st, t, u) == t \in Stages /\ Core(t.srv, u, t.down) /\ Covered(t.srv) /\ Exclusive(t.srv)

LEMMA FailsKeeps ==
    ASSUME NEW st \in Stages, NEW u, Core(st.srv, u, st.down), NEW t \in C!PanelFails(st)
    PROVE  /\ t \in Stages /\ Core(t.srv, u, t.down) /\ Aside(st.srv, t.srv)
           /\ t.srv.glass = st.srv.glass /\ t.srv.repeated = st.srv.repeated
<1> DEFINE w == [st.srv EXCEPT !.faults = @ + 1]
<1>1. st.srv \in Servers /\ st.down \in Notices
  BY DEF Stages
<1>2. t.srv = w /\ t.down = st.down /\ t = [srv |-> w, down |-> st.down]
  BY DEF C!PanelFails, Stages
<1>3. w \in Servers
  BY <1>1 DEF Servers
<1>4. /\ Aside(st.srv, w) /\ w.glass = st.srv.glass /\ w.repeated = st.srv.repeated
      /\ w.surface = st.srv.surface
  BY <1>1 DEF Servers, Aside
<1> HIDE DEF w
<1>5. Core(w, u, st.down)
  BY <1>3, <1>4, CoreIgnores DEF Aside
<1> QED
  BY <1>1, <1>2, <1>3, <1>4, <1>5 DEF Stages

LEMMA ShowKeeps ==
    ASSUME NEW st \in Stages, NEW u, Core(st.srv, u, st.down), NEW g \in Glasses, NEW t \in C!Show(st, g)
    PROVE  /\ t \in Stages /\ Core(t.srv, u, t.down) /\ Aside(st.srv, t.srv)
           /\ t.srv.glass \in {g, st.srv.glass} /\ t.srv.repeated = st.srv.repeated
<1>1. CASE t \in C!PanelFails(st)
  BY <1>1, FailsKeeps
<1>2. CASE t = [st EXCEPT !.srv.glass = g]
  <2> DEFINE w == [st.srv EXCEPT !.glass = g]
  <2>1. st.srv \in Servers /\ st.down \in Notices
    BY DEF Stages
  <2>2. t.srv = w /\ t.down = st.down /\ t = [srv |-> w, down |-> st.down]
    BY <1>2 DEF Stages
  <2>3. w \in Servers
    BY <2>1 DEF Servers
  <2>4. /\ Aside(st.srv, w) /\ w.glass = g /\ w.repeated = st.srv.repeated
        /\ w.surface = st.srv.surface
    BY <2>1 DEF Servers, Aside
  <2> HIDE DEF w
  <2>5. Core(w, u, st.down)
    BY <2>3, <2>4, CoreIgnores DEF Aside
  <2> QED
    BY <2>1, <2>2, <2>3, <2>4, <2>5 DEF Stages
<1> QED
  BY <1>1, <1>2 DEF C!Show

\* present_foreground: over the lock screen the slot is given back unshown.
LEMMA PresentKeeps ==
    ASSUME ClientsAssumption, ClientTypes, Whole,
           NEW st \in Stages, NEW u, Core(st.srv, u, st.down), Covered(st.srv), Exclusive(st.srv),
           Pointed(st.srv), NEW t \in C!PresentForeground(st)
    PROVE  Kept(st, t, u) /\ Aside(st.srv, t.srv)
<1> DEFINE v == st.srv
           p == C!ForegroundClient(v)
           s == v.surface[p].current
<1>1. v \in Servers /\ st.down \in Notices /\ u \in Queues
  BY DEF Stages, Core
<1>2. Aside(v, v) /\ Kept(st, st, u)
  BY DEF Aside, Kept
<1>3. p # C!None => p \in Procs /\ p \in v.clients
  BY <1>1, ForegroundKinds DEF Pointed
<1>4. CASE p = C!None
  BY <1>2, <1>4 DEF C!PresentForeground
<1>5. CASE p # C!None /\ v.locked
  <2>1. s # C!None => s \in C!Slots
    BY <1>1, <1>3, <1>5, SurfaceKinds DEF Servers
  <2>2. CASE s = C!None
    BY <1>2, <1>5, <2>2 DEF C!PresentForeground
  <2>3. CASE s # C!None
    <3>1. t = C!GiveBack(st, p, s)
      BY <1>5, <2>3 DEF C!PresentForeground
    <3>2. /\ t \in Stages /\ Core(t.srv, u, t.down)
          /\ Aside(v, t.srv) /\ t.srv.glass = v.glass
          /\ v.repeated \subseteq t.srv.repeated
      BY <1>3, <1>5, <2>1, <2>3, <3>1, GiveBackKeeps
    <3> QED
      BY <3>2 DEF Kept, Covered, Exclusive, Aside
  <2> QED
    BY <2>2, <2>3
<1>6. CASE p # C!None /\ ~v.locked
  <2>1. t \in C!PresentUnlocked(st)
    BY <1>6 DEF C!PresentForeground
  <2>2. s # C!None => s \in C!Slots
    BY <1>1, <1>3, <1>6, SurfaceKinds DEF Servers
  <2>3. CASE t = st
    BY <1>2, <2>3
  <2>4. CASE t \in C!PanelFails(st)
    BY <2>4, FailsKeeps DEF Kept, Covered, Exclusive, Aside
  <2> DEFINE n == mem[p][s]
             g == C!ClientFrame(p, n)
             w == [v EXCEPT !.glass = g]
             sh == [srv |-> w, down |-> st.down]
  <2>5. ASSUME s # C!None, t = C!GiveBack([st EXCEPT !.srv.glass = g], p, s)
        PROVE  Kept(st, t, u) /\ Aside(v, t.srv)
    <3>1. n \in Nat /\ s \in C!Slots /\ p \in Procs
      BY <1>3, <1>6, <2>2, <2>5 DEF ClientTypes
    <3> HIDE DEF n
    <3>2. g \in Glasses /\ g.is = "frame" /\ g.of = p /\ g.frame = n
      BY <3>1, GlassKinds
    <3> HIDE DEF g
    <3>3. w \in Servers
      BY <1>1, <3>2 DEF Servers
    <3>4. /\ Aside(v, w) /\ w.glass = g /\ w.repeated = v.repeated /\ w.surface = v.surface
      BY <1>1 DEF Servers, Aside
    <3>5. [st EXCEPT !.srv.glass = g] = sh
      BY DEF Stages
    <3> HIDE DEF w
    <3>6. sh \in Stages /\ sh.srv = w /\ sh.down = st.down
      BY <1>1, <3>3 DEF Stages
    <3> HIDE DEF sh
    <3>7. Core(w, u, st.down)
      BY <3>3, <3>4, CoreIgnores DEF Aside
    <3>8. /\ t \in Stages /\ Core(t.srv, u, t.down)
          /\ Aside(w, t.srv) /\ t.srv.glass = g
          /\ w.repeated \subseteq t.srv.repeated
          /\ w.surface[p].slots[s] # "presenting" => p \in t.srv.repeated
      <4>1. p \in sh.srv.clients /\ Core(sh.srv, u, sh.down) /\ t = C!GiveBack(sh, p, s)
        BY <1>3, <1>6, <2>5, <3>4, <3>5, <3>6, <3>7 DEF Aside
      <4> QED
        BY <3>1, <3>4, <3>6, <4>1, GiveBackKeeps
    <3>9. Aside(v, t.srv)
      BY <3>4, <3>8 DEF Aside
    <3>10. Covered(t.srv)
      BY <1>6, <3>9 DEF Covered, Aside
    <3>11. Exclusive(t.srv)
      <4> SUFFICES ASSUME p \in Honest, n = C!Torn, p \notin t.srv.repeated
                   PROVE  FALSE
        BY <3>2, <3>8 DEF Exclusive
      <4>1. v.surface[p].slots[s] = "presenting" /\ p \notin v.repeated
        BY <3>4, <3>8
      <4>2. Speaks(v.surface[p], u[p], st.down[p], inFlight[p])
        BY <1>3, <1>6, <4>1 DEF Core, Talks
      <4>3. s \in inFlight[p]
        BY <3>1, <4>1, <4>2 DEF Speaks
      <4> QED
        BY <3>1, <4>3 DEF Whole, n
    <3> QED
      BY <3>8, <3>9, <3>10, <3>11 DEF Kept
  <2>6. t = st \/ (s # C!None /\ t = C!GiveBack([st EXCEPT !.srv.glass = g], p, s)) \/ t \in C!PanelFails(st)
    BY <1>6, <2>1 DEF C!PresentUnlocked
  <2> QED
    BY <2>3, <2>4, <2>5, <2>6
<1> QED
  BY <1>4, <1>5, <1>6

-----------------------------------------------------------------------------
\* What a connection's end may change beside its own client.
Beside(v, w) ==
    /\ w.running = v.running /\ w.backlog = v.backlog /\ w.pending = v.pending
    /\ w.clients = v.clients /\ w.refused = v.refused /\ w.locked = v.locked

LEMMA FallBackKeeps ==
    ASSUME ClientsAssumption, ClientTypes, Whole,
           NEW st \in Stages, NEW u, Kept(st, st, u), st.srv.running, Pointed(st.srv),
           NEW t \in C!FallBack(st)
    PROVE  Kept(st, t, u) /\ Pointed(t.srv) /\ Beside(st.srv, t.srv)
<1> DEFINE v == st.srv
           w == [v EXCEPT !.foreground = C!ClientFg(v.home)]
           sh == [srv |-> w, down |-> st.down]
<1>1. v \in Servers /\ st.down \in Notices
  BY DEF Stages
<1>2. CASE v.home = C!None
  BY <1>2 DEF C!FallBack, Beside, Kept
<1>3. CASE v.home # C!None
  <2>1. v.home \in v.clients /\ v.home \in Procs
    BY <1>1, <1>3 DEF Kept, Core, Servers
  <2>2. C!ClientFg(v.home) \in Foregrounds /\ C!ClientFg(v.home).of = v.home
    BY <2>1 DEF Foregrounds, C!ClientFg
  <2>3. w \in Servers
    BY <1>1, <2>2 DEF Servers
  <2>4. /\ Beside(v, w) /\ w.glass = v.glass /\ w.repeated = v.repeated /\ w.surface = v.surface
        /\ w.home = v.home /\ w.foreground = C!ClientFg(v.home)
    BY <1>1 DEF Servers, Beside
  <2>5. [st EXCEPT !.srv.foreground = C!ClientFg(st.srv.home)] = sh
    BY DEF Stages
  <2> HIDE DEF w
  <2>6. sh \in Stages /\ sh.srv = w /\ sh.down = st.down
    BY <1>1, <2>3 DEF Stages
  <2> HIDE DEF sh
  <2>7. Core(w, u, st.down)
    <3>1. Core(v, u, st.down)
      BY DEF Kept
    <3> QED
      BY <2>3, <2>4, <3>1, CoreIgnores DEF Beside
  <2>8. Covered(w) /\ Exclusive(w) /\ Pointed(w)
    BY <2>1, <2>2, <2>4 DEF Kept, Covered, Exclusive, Pointed, Beside
  <2>9. t \in C!PresentForeground(sh)
    BY <1>3, <2>5 DEF C!FallBack
  <2>10. Kept(sh, t, u) /\ Aside(w, t.srv)
    BY <2>6, <2>7, <2>8, <2>9, PresentKeeps
  <2> QED
    BY <2>4, <2>8, <2>10 DEF Kept, Aside, Beside, Pointed
<1> QED
  BY <1>2, <1>3

\* The stopped frame is not painted over the lock screen.
LEMMA StopForegroundKeeps ==
    ASSUME ClientsAssumption, ClientTypes, Whole,
           NEW st \in Stages, NEW u, Kept(st, st, u), st.srv.running, NEW p \in Procs,
           NEW t \in C!StopForeground(st, p)
    PROVE  Kept(st, t, u) /\ Pointed(t.srv) /\ Beside(st.srv, t.srv)
<1>1. PICK z \in (IF st.srv.locked THEN {st} ELSE C!Show(st, C!StoppedFrame(p))) :
         t \in C!FallBack([z EXCEPT !.srv.foreground = C!StoppedFg(p)])
  BY DEF C!StopForeground
<1>2. Kept(st, z, u) /\ Aside(st.srv, z.srv)
  <2>1. CASE st.srv.locked
    BY <1>1, <2>1 DEF Aside
  <2>2. CASE ~st.srv.locked
    <3>1. z \in C!Show(st, C!StoppedFrame(p)) /\ C!StoppedFrame(p) \in Glasses /\ C!StoppedFrame(p).is # "frame"
      BY <1>1, <2>2, GlassKinds
    <3>2. /\ z \in Stages /\ Core(z.srv, u, z.down) /\ Aside(st.srv, z.srv)
          /\ z.srv.glass \in {C!StoppedFrame(p), st.srv.glass} /\ z.srv.repeated = st.srv.repeated
      BY <3>1, ShowKeeps DEF Kept
    <3>3. Covered(z.srv) /\ Exclusive(z.srv)
      BY <2>2, <3>1, <3>2 DEF Kept, Covered, Exclusive, Aside
    <3> QED
      BY <3>2, <3>3 DEF Kept
  <2> QED
    BY <2>1, <2>2
<1> DEFINE w == [z.srv EXCEPT !.foreground = C!StoppedFg(p)]
           sh == [srv |-> w, down |-> z.down]
<1>3. z.srv \in Servers /\ z.down \in Notices /\ z \in Stages
  BY <1>2 DEF Kept, Stages
<1>4. C!StoppedFg(p) \in Foregrounds /\ C!StoppedFg(p).is # "client"
  BY DEF Foregrounds, C!StoppedFg
<1>5. w \in Servers
  BY <1>3, <1>4 DEF Servers
<1>6. /\ Beside(z.srv, w) /\ w.glass = z.srv.glass /\ w.repeated = z.srv.repeated /\ w.surface = z.srv.surface
      /\ w.home = z.srv.home /\ w.foreground = C!StoppedFg(p)
  BY <1>3 DEF Servers, Beside
<1>7. [z EXCEPT !.srv.foreground = C!StoppedFg(p)] = sh
  BY <1>3 DEF Stages
<1> HIDE DEF w
<1>8. sh \in Stages /\ sh.srv = w /\ sh.down = z.down
  BY <1>3, <1>5 DEF Stages
<1> HIDE DEF sh
<1>9. Core(w, u, z.down)
  <2>1. Core(z.srv, u, z.down)
    BY <1>2 DEF Kept
  <2> QED
    BY <1>5, <1>6, <2>1, CoreIgnores DEF Beside
<1>10. Kept(sh, sh, u) /\ sh.srv.running /\ Pointed(sh.srv)
  BY <1>2, <1>4, <1>6, <1>8, <1>9 DEF Kept, Covered, Exclusive, Pointed, Beside, Aside
<1>11. t \in C!FallBack(sh)
  BY <1>1, <1>7
<1>12. Kept(sh, t, u) /\ Pointed(t.srv) /\ Beside(sh.srv, t.srv)
  BY <1>8, <1>10, <1>11, FallBackKeeps
<1> QED
  BY <1>2, <1>6, <1>8, <1>12 DEF Kept, Beside, Aside

\* disconnect: what the client had said and was still unread goes with it.
LEMMA DisconnectKeeps ==
    ASSUME ClientsAssumption, ClientTypes, Whole,
           NEW st \in Stages, NEW u, Kept(st, st, u), st.srv.running, Pointed(st.srv),
           NEW p \in st.srv.clients, NEW n \in Queues, \A o \in Procs : o # p => n[o] = u[o],
           NEW t \in C!Disconnect(st, p)
    PROVE  /\ Kept(st, t, n) /\ Pointed(t.srv) /\ t.srv.running /\ p \notin t.srv.clients
           /\ t.srv.backlog = st.srv.backlog /\ t.srv.pending = st.srv.pending
           /\ t.srv.clients \subseteq st.srv.clients
<1> DEFINE v == st.srv
           w == [v EXCEPT !.clients = @ \ {p}, !.surface = [@ EXCEPT ![p] = C!NewSurface],
                          !.home = IF @ = p THEN C!None ELSE @]
           gone == [srv |-> w, down |-> st.down]
<1>1. v \in Servers /\ st.down \in Notices /\ p \in Procs /\ v.surface \in [Procs -> Surfaces] /\ p # C!None
  BY DEF Stages, Servers, ClientsAssumption, C!None
<1>2. w \in Servers
  BY <1>1, SurfaceKinds DEF Servers
<1>3. /\ w.clients = v.clients \ {p} /\ w.surface = [v.surface EXCEPT ![p] = C!NewSurface]
      /\ w.home = IF v.home = p THEN C!None ELSE v.home
      /\ w.running = v.running /\ w.backlog = v.backlog /\ w.pending = v.pending /\ w.refused = v.refused
      /\ w.locked = v.locked /\ w.glass = v.glass /\ w.repeated = v.repeated /\ w.foreground = v.foreground
  BY <1>1 DEF Servers
<1>4. [st EXCEPT !.srv = [st.srv EXCEPT !.clients = @ \ {p}, !.surface[p] = C!NewSurface,
                                       !.home = IF @ = p THEN C!None ELSE @]] = gone
  BY DEF Stages
<1> HIDE DEF w
<1>5. gone \in Stages /\ gone.srv = w /\ gone.down = st.down
  BY <1>1, <1>2 DEF Stages
<1> HIDE DEF gone
<1>6. Core(v, u, st.down) /\ Covered(v) /\ Exclusive(v)
  BY DEF Kept
<1>7. ASSUME NEW o \in (Procs \intersect Honest) \ w.repeated
      PROVE  Talks(w, n, st.down, o)
  <2>1. Talks(v, u, st.down, o)
    BY <1>3, <1>6 DEF Core
  <2>2. CASE o = p
    <3>1. p \notin v.backlog \union v.pending
      BY <1>6 DEF Core
    <3> QED
      BY <1>3, <2>2, <3>1 DEF Talks
  <2>3. CASE o # p
    <3>1. o \in Procs /\ n[o] = u[o] /\ w.surface[o] = v.surface[o]
      BY <1>1, <1>3, <2>3
    <3> QED
      BY <1>3, <2>1, <2>3, <3>1 DEF Talks
  <2> QED
    BY <2>2, <2>3
<1>8. Core(w, n, st.down)
  <2>1. /\ w.backlog \intersect (w.pending \union w.clients) = {} /\ w.pending \intersect w.clients = {}
        /\ w.refused \intersect Honest \subseteq w.repeated
        /\ \A o \in Procs : Len(st.down[o]) <= Capacity
        /\ \A o \in Procs :
              proc[o] = "new" => o \notin w.backlog \union w.pending \union w.clients /\ st.down[o] = <<>>
    BY <1>3, <1>6 DEF Core
  <2>2. w.running /\ w.home # C!None => w.home \in w.clients \intersect Homes
    BY <1>3, <1>6 DEF Core
  <2> QED
    BY <1>1, <1>2, <1>7, <2>1, <2>2 DEF Core
<1>9. Kept(gone, gone, n) /\ gone.srv.running
  BY <1>3, <1>5, <1>6, <1>8 DEF Kept, Covered, Exclusive
<1>10. CASE v.foreground = C!ClientFg(p)
  <2>1. t \in C!StopForeground(gone, p)
    BY <1>4, <1>10 DEF C!Disconnect
  <2>2. Kept(gone, t, n) /\ Pointed(t.srv) /\ Beside(gone.srv, t.srv)
    BY <1>1, <1>5, <1>9, <2>1, StopForegroundKeeps
  <2> QED
    BY <1>3, <1>5, <2>2 DEF Kept, Beside
<1>11. CASE v.foreground # C!ClientFg(p)
  <2>1. t = gone
    BY <1>4, <1>11 DEF C!Disconnect
  <2>2. Pointed(w)
    <3> SUFFICES ASSUME v.foreground.is = "client"
                 PROVE  v.foreground.of \in v.clients \ {p}
      BY <1>3 DEF Pointed
    <3>1. v.foreground = C!ClientFg(v.foreground.of) /\ v.foreground.of \in v.clients
      BY <1>1, ForegroundKinds DEF Pointed
    <3> QED
      BY <1>11, <3>1
  <2> QED
    BY <1>3, <1>5, <1>9, <2>1, <2>2 DEF Kept
<1> QED
  BY <1>10, <1>11

\* The surface changes, and what is left to read still fits it.
LEMMA SurfaceServed ==
    ASSUME NEW st \in Stages, NEW u, Core(st.srv, u, st.down), NEW p \in st.srv.clients, u[p] # <<>>,
           NEW g \in Surfaces,
           p \in (Procs \intersect Honest) \ st.srv.repeated => Speaks(g, Tail(u[p]), st.down[p], inFlight[p]),
           NEW t, t = [st EXCEPT !.srv.surface[p] = g]
    PROVE  /\ t \in Stages /\ Aside(st.srv, t.srv) /\ t.srv.glass = st.srv.glass
           /\ t.srv.repeated = st.srv.repeated
           /\ Core(t.srv, [u EXCEPT ![p] = Tail(@)], t.down)
<1> DEFINE v == st.srv
           w == [v EXCEPT !.surface = [@ EXCEPT ![p] = g]]
           k == [u EXCEPT ![p] = Tail(@)]
<1>1. /\ v \in Servers /\ st.down \in Notices /\ p \in Procs /\ v.surface \in [Procs -> Surfaces]
      /\ u \in Queues /\ u[p] \in Seq(Messages)
  BY DEF Stages, Servers, Core, Queues
<1>2. w \in Servers
  BY <1>1 DEF Servers
<1>3. /\ Aside(v, w) /\ w.glass = v.glass /\ w.repeated = v.repeated
      /\ w.surface = [v.surface EXCEPT ![p] = g]
  BY <1>1 DEF Servers, Aside
<1>4. t = [srv |-> w, down |-> st.down]
  BY DEF Stages
<1>5. Tail(u[p]) \in Seq(Messages)
  BY <1>1, Rest
<1>6. k \in Queues /\ k[p] = Tail(u[p]) /\ \A o \in Procs : o # p => k[o] = u[o]
  BY <1>1, <1>5 DEF Queues
<1> HIDE DEF w, k
<1>7. ASSUME NEW o \in (Procs \intersect Honest) \ w.repeated
      PROVE  Talks(w, k, st.down, o)
  <2>1. Talks(v, u, st.down, o)
    BY <1>3 DEF Core
  <2>2. CASE o = p
    <3>1. p \notin v.backlog \union v.pending
      BY DEF Core
    <3>2. Speaks(g, Tail(u[p]), st.down[p], inFlight[p])
      BY <1>3, <2>2
    <3>3. w.surface[p] = g
      BY <1>1, <1>3
    <3> QED
      BY <1>3, <1>6, <2>2, <3>1, <3>2, <3>3 DEF Talks, Aside
  <2>3. CASE o # p
    <3>1. o \in Procs /\ k[o] = u[o] /\ w.surface[o] = v.surface[o]
      BY <1>1, <1>3, <1>6, <2>3
    <3> QED
      BY <1>3, <2>1, <3>1 DEF Talks, Aside
  <2> QED
    BY <2>2, <2>3
<1>8. Core(w, k, st.down)
  BY <1>1, <1>2, <1>3, <1>6, <1>7 DEF Core, Aside
<1>9. t \in Stages /\ t.srv = w /\ t.down = st.down
  BY <1>1, <1>2, <1>4 DEF Stages
<1> QED
  BY <1>3, <1>8, <1>9 DEF k

\* A client whose request is not served is ended.
Refusing(st, p) == [st EXCEPT !.srv.refused = @ \union {p}]

LEMMA Refuses ==
    ASSUME NEW st \in Stages, NEW u, Kept(st, st, u), NEW p \in st.srv.clients,
           p \in Honest => p \in st.srv.repeated,
           NEW t, t = Refusing(st, p)
    PROVE  /\ Kept(t, t, u) /\ t.srv.running = st.srv.running /\ t.srv.clients = st.srv.clients
           /\ t.srv.foreground = st.srv.foreground
<1> DEFINE v == st.srv
           w == [v EXCEPT !.refused = @ \union {p}]
<1>1. v \in Servers /\ st.down \in Notices /\ p \in Procs /\ Core(v, u, st.down)
  BY DEF Stages, Servers, Kept
<1>2. t = [srv |-> w, down |-> st.down]
  BY DEF Stages, Refusing
<1>3. w \in Servers
  BY <1>1 DEF Servers
<1>4. /\ w.running = v.running /\ w.backlog = v.backlog /\ w.pending = v.pending /\ w.clients = v.clients
      /\ w.home = v.home /\ w.locked = v.locked /\ w.glass = v.glass /\ w.foreground = v.foreground
      /\ w.surface = v.surface /\ w.repeated = v.repeated /\ w.refused = v.refused \union {p}
  BY <1>1 DEF Servers
<1> HIDE DEF w
<1>6. t \in Stages /\ t.srv = w /\ t.down = st.down
  BY <1>1, <1>2, <1>3 DEF Stages
<1>7. Core(w, u, st.down)
  <2>1. w.refused \intersect Honest \subseteq w.repeated
    BY <1>1, <1>4 DEF Core
  <2>2. \A o \in (Procs \intersect Honest) \ w.repeated : Talks(w, u, st.down, o)
    BY <1>1, <1>4 DEF Core, Talks
  <2> QED
    BY <1>1, <1>3, <1>4, <2>1, <2>2 DEF Core
<1>8. Kept(t, t, u)
  BY <1>4, <1>6, <1>7 DEF Kept, Covered, Exclusive
<1> QED
  BY <1>4, <1>6, <1>8

\* What the server finds at the head of a client's queue.
LEMMA HeadSaid ==
    ASSUME NEW st \in Stages, NEW u, Core(st.srv, u, st.down), NEW p \in st.srv.clients, u[p] # <<>>
    PROVE  /\ Head(u[p]) = u[p][1] /\ Head(u[p]) \in Messages
           /\ p \in Procs /\ st.srv.surface[p] \in Surfaces /\ u[p] \in Seq(Messages)
           /\ st.down[p] \in Seq(C!Slots)
           /\ p \in (Procs \intersect Honest) \ st.srv.repeated =>
                 /\ Speaks(st.srv.surface[p], u[p], st.down[p], inFlight[p])
                 /\ Head(u[p]) \in {Attached(s) : s \in C!Slots} \union {Committed, C!Eof}
<1>1. /\ p \in Procs /\ st.srv.surface[p] \in Surfaces /\ u[p] \in Seq(Messages) /\ st.down[p] \in Seq(C!Slots)
  BY DEF Stages, Servers, Core, Queues, Notices
<1>2. Head(u[p]) = u[p][1] /\ 1 \in 1..Len(u[p]) /\ Head(u[p]) \in Messages
  <2>1. Head(u[p]) = u[p][1] /\ 1 \in 1..Len(u[p])
    BY <1>1, Rest
  <2> QED
    BY <1>1, <2>1
<1>3. ASSUME p \in (Procs \intersect Honest) \ st.srv.repeated
      PROVE  /\ Speaks(st.srv.surface[p], u[p], st.down[p], inFlight[p])
             /\ Head(u[p]) \in {Attached(s) : s \in C!Slots} \union {Committed, C!Eof}
  <2>1. Speaks(st.srv.surface[p], u[p], st.down[p], inFlight[p])
    BY <1>3 DEF Core, Talks
  <2> QED
    BY <1>2, <2>1 DEF Speaks
<1> QED
  BY <1>1, <1>2, <1>3

\* A client that is still connected has only its first frame read.
Read(u, p, t) == [u EXCEPT ![p] = IF p \in t.srv.clients THEN Tail(@) ELSE <<>>]

LEMMA AttachKeeps ==
    ASSUME ClientsAssumption, ClientTypes, Whole,
           NEW st \in Stages, NEW u, Kept(st, st, u), st.srv.running, Pointed(st.srv),
           NEW p \in st.srv.clients, u[p] # <<>>,
           Head(u[p]).is = "attach", C!CanAttach(st.srv.surface[p], Head(u[p]).slot),
           NEW t, t = [st EXCEPT !.srv.surface[p] = C!Attach(st.srv.surface[p], Head(u[p]).slot)]
    PROVE  Kept(st, t, Read(u, p, t)) /\ Pointed(t.srv) /\ t.srv.running
<1> DEFINE v == st.srv
           f == v.surface[p]
           m == Head(u[p])
           g == C!Attach(f, m.slot)
<1>1. Core(v, u, st.down) /\ Covered(v) /\ Exclusive(v)
  BY DEF Kept
<1>2. /\ m = u[p][1] /\ m \in Messages /\ p \in Procs /\ f \in Surfaces /\ u[p] \in Seq(Messages)
      /\ st.down[p] \in Seq(C!Slots)
      /\ p \in (Procs \intersect Honest) \ v.repeated =>
            /\ Speaks(f, u[p], st.down[p], inFlight[p])
            /\ m \in {Attached(s) : s \in C!Slots} \union {Committed, C!Eof}
  BY <1>1, HeadSaid
<1>3. m.is = "attach"
  OBVIOUS
<1> HIDE DEF m
<1>4. m.slot \in C!Slots /\ g \in Surfaces
  BY <1>2, <1>3, MessageKinds, SurfaceKinds
<1>5. ASSUME p \in (Procs \intersect Honest) \ v.repeated
      PROVE  Speaks(g, Tail(u[p]), st.down[p], inFlight[p])
  <2>1. PICK s \in C!Slots : m = Attached(s)
    BY <1>2, <1>3, <1>5, WordsTold
  <2>2. m.slot = s
    BY <2>1, Words
  <2>3. Speaks(C!Attach(f, s), Tail(u[p]), st.down[p], inFlight[p])
    BY <1>2, <1>5, <2>1, AttachRead
  <2> QED
    BY <2>2, <2>3
<1>6. t = [st EXCEPT !.srv.surface[p] = g]
  BY DEF m
<1> HIDE DEF g
<1>7. /\ t \in Stages /\ Aside(v, t.srv) /\ t.srv.glass = v.glass
      /\ t.srv.repeated = v.repeated
      /\ Core(t.srv, [u EXCEPT ![p] = Tail(@)], t.down)
  BY <1>1, <1>4, <1>5, <1>6, SurfaceServed
<1>8. p \in t.srv.clients
  BY <1>7 DEF Aside
<1>9. Core(t.srv, Read(u, p, t), t.down)
  BY <1>7, <1>8 DEF Read
<1> QED
  BY <1>1, <1>7, <1>9 DEF Kept, Covered, Exclusive, Pointed, Aside

LEMMA CommitKeeps ==
    ASSUME ClientsAssumption, ClientTypes, Whole,
           NEW st \in Stages, NEW u, Kept(st, st, u), st.srv.running, Pointed(st.srv),
           NEW p \in st.srv.clients, u[p] # <<>>,
           Head(u[p]).is = "commit", C!CanCommit(st.srv.surface[p], Head(u[p]).damage),
           NEW sh, sh = [st EXCEPT !.srv.surface[p] = C!Commit(st.srv.surface[p])],
           NEW t, t = sh \/ t \in C!PresentForeground(sh)
    PROVE  Kept(st, t, Read(u, p, t)) /\ Pointed(t.srv) /\ t.srv.running
<1> DEFINE v == st.srv
           f == v.surface[p]
           m == Head(u[p])
           g == C!Commit(f)
           k == [u EXCEPT ![p] = Tail(@)]
<1>1. Core(v, u, st.down) /\ Covered(v) /\ Exclusive(v)
  BY DEF Kept
<1>2. /\ m = u[p][1] /\ p \in Procs /\ f \in Surfaces /\ u[p] \in Seq(Messages)
      /\ st.down[p] \in Seq(C!Slots)
      /\ p \in (Procs \intersect Honest) \ v.repeated =>
            /\ Speaks(f, u[p], st.down[p], inFlight[p])
            /\ m \in {Attached(s) : s \in C!Slots} \union {Committed, C!Eof}
  BY <1>1, HeadSaid
<1>3. m.is = "commit"
  OBVIOUS
<1>4. g \in Surfaces
  BY <1>2, SurfaceKinds DEF C!CanCommit
<1> HIDE DEF m
<1>5. ASSUME p \in (Procs \intersect Honest) \ v.repeated
      PROVE  Speaks(g, Tail(u[p]), st.down[p], inFlight[p])
  <2>1. m = Committed
    BY <1>2, <1>3, <1>5, WordsTold
  <2> QED
    BY <1>2, <1>5, <2>1, CommitRead
<1> HIDE DEF g
<1>6. sh = [st EXCEPT !.srv.surface[p] = g]
  BY DEF g
<1>7. /\ sh \in Stages /\ Aside(v, sh.srv) /\ sh.srv.glass = v.glass
      /\ sh.srv.repeated = v.repeated
      /\ Core(sh.srv, k, sh.down)
  BY <1>1, <1>4, <1>5, <1>6, SurfaceServed
<1> HIDE DEF k
<1>8. Covered(sh.srv) /\ Exclusive(sh.srv) /\ Pointed(sh.srv) /\ sh.srv.running /\ Aside(sh.srv, sh.srv)
  BY <1>1, <1>7 DEF Covered, Exclusive, Pointed, Aside
<1>9. Kept(sh, t, k) /\ Aside(sh.srv, t.srv)
  <2>1. CASE t = sh
    BY <1>7, <1>8, <2>1 DEF Kept
  <2>2. CASE t \in C!PresentForeground(sh)
    BY <1>7, <1>8, <2>2, PresentKeeps
  <2> QED
    BY <2>1, <2>2
<1>10. p \in t.srv.clients /\ t.srv.running /\ Pointed(t.srv)
  BY <1>7, <1>8, <1>9 DEF Aside, Pointed
<1>11. Read(u, p, t) = k
  BY <1>10 DEF Read, k
<1> QED
  BY <1>9, <1>10, <1>11 DEF Kept

LEMMA RefusalKeeps ==
    ASSUME ClientsAssumption, ClientTypes, Whole,
           NEW st \in Stages, NEW u, Kept(st, st, u), st.srv.running, Pointed(st.srv),
           NEW p \in st.srv.clients, u[p] # <<>>,
           ~(Head(u[p]).is = "attach" /\ C!CanAttach(st.srv.surface[p], Head(u[p]).slot)),
           ~(Head(u[p]).is = "commit" /\ C!CanCommit(st.srv.surface[p], Head(u[p]).damage)),
           Head(u[p]) # C!Eof,
           NEW sh, sh = Refusing(st, p), NEW t, t \in C!Disconnect(sh, p)
    PROVE  Kept(st, t, Read(u, p, t)) /\ Pointed(t.srv) /\ t.srv.running
<1> DEFINE v == st.srv
           f == v.surface[p]
           m == Head(u[p])
<1>1. Core(v, u, st.down)
  BY DEF Kept
<1>2. /\ m = u[p][1] /\ p \in Procs /\ f \in Surfaces /\ u[p] \in Seq(Messages)
      /\ st.down[p] \in Seq(C!Slots)
      /\ p \in (Procs \intersect Honest) \ v.repeated =>
            /\ Speaks(f, u[p], st.down[p], inFlight[p])
            /\ m \in {Attached(s) : s \in C!Slots} \union {Committed, C!Eof}
  BY <1>1, HeadSaid
<1>3. /\ m # C!Eof
      /\ ~(m.is = "attach" /\ C!CanAttach(f, m.slot))
      /\ ~(m.is = "commit" /\ C!CanCommit(f, m.damage))
  OBVIOUS
<1> HIDE DEF m
<1>4. p \in Honest => p \in v.repeated
  <2> SUFFICES ASSUME p \in (Procs \intersect Honest) \ v.repeated
               PROVE  FALSE
    BY <1>2
  <2>1. CASE m = Committed
    <3>1. C!CanCommit(f, "ok")
      <4>1. Speaks(f, u[p], st.down[p], inFlight[p]) /\ u[p][1] = Committed
        BY <1>2, <2>1
      <4> QED
        BY <1>2, <4>1, CommitRead
    <3> QED
      BY <1>3, <2>1, <3>1 DEF Committed
  <2>2. ASSUME NEW s \in C!Slots, m = Attached(s)
        PROVE  FALSE
    <3>1. C!CanAttach(f, s)
      <4>1. Speaks(f, u[p], st.down[p], inFlight[p]) /\ u[p][1] = Attached(s)
        BY <1>2, <2>2
      <4> QED
        BY <1>2, <4>1, AttachRead
    <3> QED
      BY <1>3, <2>2, <3>1 DEF Attached
  <2> QED
    BY <1>2, <1>3, <2>1, <2>2
<1>5. /\ Kept(sh, sh, u) /\ sh.srv.running = v.running /\ sh.srv.clients = v.clients
      /\ sh.srv.foreground = v.foreground
  BY <1>4, Refuses
<1>6. t \in C!Disconnect(sh, p)
  OBVIOUS
<1>7. sh \in Stages /\ sh.srv.running /\ p \in sh.srv.clients /\ Pointed(sh.srv)
  BY <1>5 DEF Kept, Pointed
<1> DEFINE n == [u EXCEPT ![p] = <<>>]
<1>8. n \in Queues /\ \A o \in Procs : o # p => n[o] = u[o]
  BY <1>1, <1>2 DEF Core, Queues
<1> HIDE DEF n
<1>9. /\ Kept(sh, t, n) /\ Pointed(t.srv) /\ t.srv.running /\ p \notin t.srv.clients
  BY <1>5, <1>6, <1>7, <1>8, DisconnectKeeps
<1>10. Read(u, p, t) = n
  BY <1>9 DEF Read, n
<1> QED
  BY <1>9, <1>10 DEF Kept

LEMMA EofKeeps ==
    ASSUME ClientsAssumption, ClientTypes, Whole,
           NEW st \in Stages, NEW u, Kept(st, st, u), st.srv.running, Pointed(st.srv),
           NEW p \in st.srv.clients, NEW t \in C!Disconnect(st, p)
    PROVE  Kept(st, t, Read(u, p, t)) /\ Pointed(t.srv) /\ t.srv.running
<1> DEFINE n == [u EXCEPT ![p] = <<>>]
<1>1. u \in Queues /\ p \in Procs
  BY DEF Kept, Core, Stages, Servers
<1>2. n \in Queues /\ \A o \in Procs : o # p => n[o] = u[o]
  BY <1>1 DEF Queues
<1> HIDE DEF n
<1>3. /\ Kept(st, t, n) /\ Pointed(t.srv) /\ t.srv.running /\ p \notin t.srv.clients
  BY <1>2, DisconnectKeeps
<1>4. Read(u, p, t) = n
  BY <1>3 DEF Read, n
<1> QED
  BY <1>3, <1>4

\* finish_handshake, for a hello of any client with a pool that maps.
LEMMA HandshakeKeeps ==
    ASSUME ClientsAssumption,
           NEW st \in Stages, NEW u, Kept(st, st, u), st.srv.running, Pointed(st.srv),
           NEW p \in st.srv.pending, u[p] # <<>>, NEW pool, pool.fits \in Fits,
           NEW sh, sh = [st EXCEPT !.srv.pending = @ \ {p}],
           NEW t, t = C!FinishHandshake(sh, p, pool)
    PROVE  Kept(st, t, Read(u, p, t)) /\ Pointed(t.srv) /\ t.srv.running
<1> DEFINE v == st.srv
           z == [v EXCEPT !.pending = @ \ {p}]
           w == [z EXCEPT !.clients = @ \union {p}, !.surface[p] = C!NewSurface,
                          !.fits[p] = pool.fits,
                          !.home = IF p \in Homes THEN p ELSE @,
                          !.foreground = IF @ = C!NoFg \/ p \notin Homes THEN C!ClientFg(p) ELSE @]
           k == [u EXCEPT ![p] = Tail(@)]
<1>1. /\ v \in Servers /\ st.down \in Notices /\ p \in Procs /\ v.surface \in [Procs -> Surfaces]
      /\ v.fits \in [Procs -> Fits] /\ u \in Queues /\ u[p] \in Seq(Messages)
  BY DEF Stages, Servers, Kept, Core, Queues
<1>2. Core(v, u, st.down) /\ Covered(v) /\ Exclusive(v)
  BY DEF Kept
<1>3. C!ClientFg(p) \in Foregrounds /\ C!ClientFg(p).of = p
  BY <1>1 DEF Foregrounds, C!ClientFg
<1>4. z \in Servers
  BY <1>1 DEF Servers
<1>5. /\ z.running = v.running /\ z.backlog = v.backlog /\ z.pending = v.pending \ {p} /\ z.clients = v.clients
      /\ z.home = v.home /\ z.surface = v.surface /\ z.fits = v.fits /\ z.repeated = v.repeated
      /\ z.refused = v.refused /\ z.locked = v.locked /\ z.glass = v.glass /\ z.foreground = v.foreground
  BY <1>1 DEF Servers
<1>6. sh = [srv |-> z, down |-> st.down]
  BY DEF Stages
<1> HIDE DEF z
<1>7. t = [srv |-> w, down |-> st.down]
  <2>1. sh.srv = z /\ sh.down = st.down
    BY <1>6
  <2>2. t = [sh EXCEPT !.srv = w]
    BY <2>1 DEF C!FinishHandshake
  <2> HIDE DEF w
  <2> QED
    BY <1>6, <2>2
<1>8. w \in Servers
  BY <1>1, <1>3, <1>4, <1>5, SurfaceKinds DEF Servers
<1>9. /\ w.running = v.running /\ w.backlog = v.backlog /\ w.pending = v.pending \ {p}
      /\ w.clients = v.clients \union {p} /\ w.home = (IF p \in Homes THEN p ELSE v.home)
      /\ w.surface = [v.surface EXCEPT ![p] = C!NewSurface] /\ w.repeated = v.repeated
      /\ w.refused = v.refused /\ w.locked = v.locked /\ w.glass = v.glass
      /\ w.foreground = IF v.foreground = C!NoFg \/ p \notin Homes THEN C!ClientFg(p) ELSE v.foreground
  BY <1>4, <1>5 DEF Servers
<1> HIDE DEF w
<1>10. t \in Stages /\ t.srv = w /\ t.down = st.down
  BY <1>1, <1>7, <1>8 DEF Stages
<1>11. Tail(u[p]) \in Seq(Messages)
  BY <1>1, Rest
<1>12. k \in Queues /\ k[p] = Tail(u[p]) /\ \A o \in Procs : o # p => k[o] = u[o]
  BY <1>1, <1>11 DEF Queues
<1>13. Read(u, p, t) = k
  BY <1>9, <1>10 DEF Read
<1> HIDE DEF k
<1>14. ASSUME NEW o \in (Procs \intersect Honest) \ w.repeated
       PROVE  Talks(w, k, st.down, o)
  <2>1. Talks(v, u, st.down, o)
    BY <1>2, <1>9 DEF Core
  <2>2. CASE o = p
    <3>1. Speaks(C!NewSurface, Tail(u[p]), st.down[p], inFlight[p])
      BY <2>1, <2>2 DEF Talks
    <3>2. w.surface[p] = C!NewSurface
      BY <1>1, <1>9
    <3>3. p \notin w.backlog \union w.pending
      BY <1>2, <1>9 DEF Core
    <3> QED
      BY <1>12, <2>2, <3>1, <3>2, <3>3 DEF Talks
  <2>3. CASE o # p
    <3>1. o \in Procs /\ k[o] = u[o] /\ w.surface[o] = v.surface[o]
      BY <1>1, <1>9, <1>12, <2>3
    <3> QED
      BY <1>9, <2>1, <2>3, <3>1 DEF Talks
  <2> QED
    BY <2>2, <2>3
<1>15. Core(w, k, st.down)
  <2>1. /\ w.backlog \intersect (w.pending \union w.clients) = {} /\ w.pending \intersect w.clients = {}
        /\ w.refused \intersect Honest \subseteq w.repeated
        /\ \A o \in Procs : Len(st.down[o]) <= Capacity
        /\ \A o \in Procs :
              proc[o] = "new" => o \notin w.backlog \union w.pending \union w.clients /\ st.down[o] = <<>>
    BY <1>2, <1>9 DEF Core
  <2>2. w.home # C!None => w.home \in w.clients \intersect Homes
    BY <1>2, <1>9 DEF Core
  <2> QED
    BY <1>1, <1>8, <1>12, <1>14, <2>1, <2>2 DEF Core
<1>16. Covered(w) /\ Exclusive(w) /\ Pointed(w)
  BY <1>2, <1>3, <1>9 DEF Covered, Exclusive, Pointed
<1> QED
  BY <1>9, <1>10, <1>13, <1>15, <1>16 DEF Kept

-----------------------------------------------------------------------------
\* Steps of the server.
ServerFacts ==
    /\ Core(srv, up, down) /\ Exclusive(srv)
    /\ srv.running => Covered(srv) /\ Pointed(srv) /\ srv.status = srv.foreground
    /\ ~srv.running => srv.backlog \union srv.pending \union srv.clients = {}
ClientFacts == ClientTypes /\ Whole /\ NothingYet

LEMMA ServerMoves ==
    ASSUME ClientFacts, UNCHANGED C!clientVars,
           NEW w, w = srv', Core(w, up', down'), Exclusive(w),
           w.running => Covered(w) /\ Pointed(w) /\ w.status = w.foreground,
           ~w.running => w.backlog \union w.pending \union w.clients = {}
    PROVE  CompositorInv'
<1>1. proc' = proc /\ next' = next /\ inFlight' = inFlight /\ mem' = mem /\ sent' = sent
  BY DEF C!clientVars
<1>2. (ClientTypes /\ Whole /\ NothingYet)'
  BY <1>1 DEF ClientFacts, ClientTypes, Whole, NothingYet
<1>3. Core(srv, up, down)'
  BY <1>1 DEF Core, Talks
<1>4. /\ Exclusive(srv)'
      /\ (srv.running => Covered(srv) /\ Pointed(srv) /\ srv.status = srv.foreground)'
      /\ (~srv.running => srv.backlog \union srv.pending \union srv.clients = {})'
  BY DEF Exclusive, Covered, Pointed
<1> QED
  BY <1>2, <1>3, <1>4 DEF CompositorInv

LEMMA NowKept ==
    ASSUME CompositorInv, srv.running
    PROVE  /\ C!Now \in Stages /\ C!Now.srv = srv /\ C!Now.down = down
           /\ Kept(C!Now, C!Now, up) /\ Pointed(srv) /\ srv.status = srv.foreground
           /\ ClientFacts
<1>1. srv \in Servers /\ down \in Notices
  BY DEF CompositorInv, Core
<1>2. C!Now \in Stages /\ C!Now.srv = srv /\ C!Now.down = down
  BY <1>1 DEF C!Now, Stages
<1> QED
  BY <1>2 DEF CompositorInv, Kept, ClientFacts

\* The loop writes the status file after every turn with events.
LEMMA TurnKeeps ==
    ASSUME ClientFacts, UNCHANGED C!clientVars, NEW t, NEW st,
           Kept(st, t, up'), Pointed(t.srv), t.srv.running,
           srv' = C!WriteStatus(t.srv), down' = t.down
    PROVE  CompositorInv'
<1> DEFINE v == t.srv
           w == [v EXCEPT !.status = v.foreground]
<1>1. v \in Servers /\ Core(v, up', t.down) /\ Covered(v) /\ Exclusive(v)
  BY DEF Kept, Core
<1>2. w \in Servers
  BY <1>1 DEF Servers
<1>3. /\ Aside([v EXCEPT !.status = v.foreground], w)
      /\ w.running = v.running /\ w.backlog = v.backlog /\ w.pending = v.pending /\ w.clients = v.clients
      /\ w.home = v.home /\ w.foreground = v.foreground /\ w.locked = v.locked /\ w.refused = v.refused
      /\ w.glass = v.glass /\ w.surface = v.surface /\ w.repeated = v.repeated /\ w.status = v.foreground
  BY <1>1 DEF Servers, Aside
<1>4. w = srv'
  BY DEF C!WriteStatus
<1> HIDE DEF w
<1>5. Core(w, up', down')
  BY <1>1, <1>2, <1>3, CoreIgnores
<1>6. Exclusive(w) /\ Covered(w) /\ Pointed(w) /\ w.running /\ w.status = w.foreground
  BY <1>1, <1>3 DEF Exclusive, Covered, Pointed
<1> QED
  BY <1>4, <1>5, <1>6, ServerMoves

LEMMA StatusIsWritten ==
    ASSUME NEW v \in Servers
    PROVE  C!WriteStatus(v).clients = v.clients
BY DEF C!WriteStatus, Servers

LEMMA ServiceClientKeeps ==
    ASSUME ClientsAssumption, CompositorInv, NEW p \in Procs, C!ServiceClient(p)
    PROVE  CompositorInv'
<1>1. /\ srv.running /\ p \in srv.clients /\ up[p] # <<>>
      /\ UNCHANGED C!clientVars
  BY DEF C!ServiceClient
<1>2. /\ C!Now \in Stages /\ C!Now.srv = srv /\ C!Now.down = down
      /\ Kept(C!Now, C!Now, up) /\ Pointed(srv) /\ ClientFacts
  BY <1>1, NowKept
<1> DEFINE st == C!Now
           m == Head(up[p])
<1>3. PICK t \in (IF m = C!Eof THEN C!Disconnect(st, p) ELSE C!HandleRequest(st, p, m)) :
         srv' = C!WriteStatus(t.srv) /\ down' = t.down
  BY DEF C!ServiceClient, C!Turn
<1>4. up' = [up EXCEPT ![p] = IF p \in srv'.clients THEN Tail(@) ELSE <<>>]
  BY DEF C!ServiceClient, C!Consume
<1> HIDE DEF st
<1> SUFFICES Kept(st, t, Read(up, p, t)) /\ Pointed(t.srv) /\ t.srv.running
  <2>1. ASSUME Kept(st, t, Read(up, p, t)), Pointed(t.srv), t.srv.running
        PROVE  CompositorInv'
    <3>1. t.srv \in Servers
      BY <2>1 DEF Kept, Core
    <3>2. srv'.clients = t.srv.clients
      BY <1>3, <3>1, StatusIsWritten
    <3>3. up' = Read(up, p, t)
      BY <1>4, <3>2 DEF Read
    <3> QED
      BY <1>1, <1>2, <1>3, <2>1, <3>3, TurnKeeps
  <2> QED
    BY <2>1
<1>5. /\ st \in Stages /\ Kept(st, st, up) /\ st.srv.running /\ Pointed(st.srv) /\ p \in st.srv.clients
      /\ ClientTypes /\ Whole
  BY <1>1, <1>2 DEF ClientFacts, st
<1> DEFINE f == st.srv.surface[p]
           attaches == m.is = "attach" /\ C!CanAttach(f, m.slot)
           commits == m.is = "commit" /\ C!CanCommit(f, m.damage)
           served == [st EXCEPT !.srv.surface[p] = C!Attach(f, m.slot)]
           done == [st EXCEPT !.srv.surface[p] = C!Commit(f)]
           bad == Refusing(st, p)
<1>6. m # C!Eof =>
        \/ attaches /\ t = served
        \/ commits /\ t \in IF C!ForegroundClient(st.srv) = p THEN C!PresentForeground(done) ELSE {done}
        \/ ~attaches /\ ~commits /\ t \in C!Disconnect(bad, p)
  BY <1>3 DEF C!HandleRequest, Refusing
<1> HIDE DEF served, done, bad
<1>7. CASE m = C!Eof
  BY <1>3, <1>5, <1>7, EofKeeps
<1>8. CASE attaches /\ t = served
  BY <1>1, <1>5, <1>8, AttachKeeps DEF served
<1>9. CASE commits /\ t \in IF C!ForegroundClient(st.srv) = p THEN C!PresentForeground(done) ELSE {done}
  <2>1. t = done \/ t \in C!PresentForeground(done)
    BY <1>9
  <2>2. done = [st EXCEPT !.srv.surface[p] = C!Commit(st.srv.surface[p])]
    BY DEF done
  <2> QED
    BY <1>1, <1>5, <1>9, <2>1, <2>2, CommitKeeps
<1>10. CASE m # C!Eof /\ ~attaches /\ ~commits /\ t \in C!Disconnect(bad, p)
  BY <1>1, <1>5, <1>10, RefusalKeeps DEF bad
<1> QED
  BY <1>6, <1>7, <1>8, <1>9, <1>10

\* Connections that wait for their hello, are accepted or are closed.
LEMMA CoreWaits ==
    ASSUME NEW v, NEW w \in Servers, NEW u, NEW d, Core(v, u, d), w.running = v.running,
           w.backlog \union w.pending \subseteq v.backlog \union v.pending, w.backlog \intersect w.pending = {},
           w.clients = v.clients, w.home = v.home, w.surface = v.surface,
           w.repeated = v.repeated, w.refused = v.refused
    PROVE  Core(w, u, d)
<1>1. \A p \in Procs : Talks(v, u, d, p) => Talks(w, u, d, p)
  BY DEF Talks
<1>2. w.backlog \intersect (w.pending \union w.clients) = {} /\ w.pending \intersect w.clients = {}
  BY DEF Core
<1>3. \A p \in Procs :
        proc[p] = "new" => p \notin w.backlog \union w.pending \union w.clients /\ d[p] = <<>>
  BY DEF Core
<1> QED
  BY <1>1, <1>2, <1>3 DEF Core

LEMMA CoreForgets ==
    ASSUME NEW v, NEW u, NEW d, Core(v, u, d), NEW p \in Procs,
           p \notin v.backlog \union v.pending \union v.clients,
           NEW n \in Queues, \A o \in Procs : o # p => n[o] = u[o]
    PROVE  Core(v, n, d)
<1>1. \A o \in Procs : Talks(v, u, d, o) => Talks(v, n, d, o)
  BY DEF Talks
<1> QED
  BY <1>1 DEF Core

LEMMA AcceptKeeps ==
    ASSUME CompositorInv, C!AcceptAll
    PROVE  CompositorInv'
<1> DEFINE w == [srv EXCEPT !.pending = @ \union srv.backlog, !.backlog = {}]
<1>1. /\ srv \in Servers /\ Core(srv, up, down) /\ srv.running /\ ClientFacts
      /\ Covered(srv) /\ Pointed(srv) /\ srv.status = srv.foreground /\ Exclusive(srv)
  BY DEF CompositorInv, C!AcceptAll, Core, ClientFacts
<1>2. srv' = w /\ up' = up /\ down' = down /\ UNCHANGED C!clientVars
  BY DEF C!AcceptAll
<1>3. w \in Servers
  BY <1>1 DEF Servers
<1>4. /\ w.backlog = {} /\ w.pending = srv.pending \union srv.backlog /\ w.running = srv.running
      /\ w.clients = srv.clients /\ w.home = srv.home /\ w.surface = srv.surface
      /\ w.repeated = srv.repeated /\ w.refused = srv.refused /\ w.locked = srv.locked /\ w.glass = srv.glass
      /\ w.foreground = srv.foreground /\ w.status = srv.status
  BY <1>1 DEF Servers
<1> HIDE DEF w
<1>5. Core(w, up, down)
  BY <1>1, <1>3, <1>4, CoreWaits
<1> QED
  BY <1>1, <1>2, <1>4, <1>5, ServerMoves DEF Covered, Pointed, Exclusive

LEMMA ReapKeeps ==
    ASSUME CompositorInv, C!ReapExpiredPending
    PROVE  CompositorInv'
<1> DEFINE z == [srv EXCEPT !.pending = @ \ srv.expired, !.expired = {}]
           w == [z EXCEPT !.status = z.foreground]
<1>1. /\ srv \in Servers /\ Core(srv, up, down) /\ srv.running /\ ClientFacts
      /\ Covered(srv) /\ Pointed(srv) /\ srv.status = srv.foreground /\ Exclusive(srv)
      /\ srv.backlog \intersect srv.pending = {}
  BY DEF CompositorInv, C!ReapExpiredPending, Core, ClientFacts
<1>2. srv' = w /\ up' = up /\ down' = down /\ UNCHANGED C!clientVars
  BY DEF C!ReapExpiredPending, C!WriteStatus
<1>3. z \in Servers
  BY <1>1 DEF Servers
<1>4. /\ z.backlog = srv.backlog /\ z.pending = srv.pending \ srv.expired /\ z.running = srv.running
      /\ z.clients = srv.clients /\ z.home = srv.home /\ z.surface = srv.surface
      /\ z.repeated = srv.repeated /\ z.refused = srv.refused /\ z.locked = srv.locked /\ z.glass = srv.glass
      /\ z.foreground = srv.foreground
  BY <1>1 DEF Servers
<1> HIDE DEF z
<1>5. w \in Servers
  BY <1>3 DEF Servers
<1>6. /\ w.backlog = z.backlog /\ w.pending = z.pending /\ w.running = z.running
      /\ w.clients = z.clients /\ w.home = z.home /\ w.surface = z.surface
      /\ w.repeated = z.repeated /\ w.refused = z.refused /\ w.locked = z.locked /\ w.glass = z.glass
      /\ w.foreground = z.foreground /\ w.status = z.foreground
  BY <1>3 DEF Servers
<1> HIDE DEF w
<1>7. w.backlog \union w.pending \subseteq srv.backlog \union srv.pending /\ w.backlog \intersect w.pending = {}
  BY <1>1, <1>4, <1>6
<1>8. Core(w, up, down)
  BY <1>1, <1>4, <1>5, <1>6, <1>7, CoreWaits
<1> QED
  BY <1>1, <1>2, <1>4, <1>6, <1>8, ServerMoves DEF Covered, Pointed, Exclusive

LEMMA DeadlineKeeps ==
    ASSUME CompositorInv, NEW p \in Procs, C!HelloDeadline(p)
    PROVE  CompositorInv'
<1> DEFINE w == [srv EXCEPT !.expired = @ \union {p}]
<1>1. /\ srv \in Servers /\ Core(srv, up, down) /\ srv.running /\ ClientFacts
      /\ Covered(srv) /\ Pointed(srv) /\ srv.status = srv.foreground /\ Exclusive(srv)
  BY DEF CompositorInv, C!HelloDeadline, Core, ClientFacts
<1>2. srv' = w /\ up' = up /\ down' = down /\ UNCHANGED C!clientVars
  BY DEF C!HelloDeadline
<1>3. w \in Servers
  BY <1>1 DEF Servers
<1>4. /\ w.backlog = srv.backlog /\ w.pending = srv.pending /\ w.running = srv.running
      /\ w.clients = srv.clients /\ w.home = srv.home /\ w.surface = srv.surface
      /\ w.repeated = srv.repeated /\ w.refused = srv.refused /\ w.locked = srv.locked /\ w.glass = srv.glass
      /\ w.foreground = srv.foreground /\ w.status = srv.status
  BY <1>1 DEF Servers
<1> HIDE DEF w
<1>5. Core(w, up, down)
  BY <1>1, <1>3, <1>4, CoreIgnores
<1> QED
  BY <1>1, <1>2, <1>4, <1>5, ServerMoves DEF Covered, Pointed, Exclusive

LEMMA ServicePendingKeeps ==
    ASSUME ClientsAssumption, CompositorInv, NEW p \in Procs, C!ServicePending(p)
    PROVE  CompositorInv'
<1>1. /\ srv.running /\ p \in srv.pending /\ up[p] # <<>>
      /\ UNCHANGED C!clientVars
  BY DEF C!ServicePending
<1>2. /\ C!Now \in Stages /\ C!Now.srv = srv /\ C!Now.down = down
      /\ Kept(C!Now, C!Now, up) /\ Pointed(srv) /\ ClientFacts
  BY <1>1, NowKept
<1> DEFINE st == C!Now
           m == Head(up[p])
           sh == [st EXCEPT !.srv.pending = @ \ {p}]
           greeted == m.is = "hello" /\ C!PoolMaps(m.pool)
           t == IF greeted THEN C!FinishHandshake(sh, p, m.pool) ELSE sh
<1>3. srv' = C!WriteStatus(t.srv) /\ down' = t.down
  BY DEF C!ServicePending, C!Turn
<1>4. up' = [up EXCEPT ![p] = IF p \in srv'.clients THEN Tail(@) ELSE <<>>]
  BY DEF C!ServicePending, C!Consume
<1>5. /\ st \in Stages /\ st.srv = srv /\ st.down = down /\ Kept(st, st, up) /\ st.srv.running
      /\ Pointed(st.srv) /\ p \in st.srv.pending
  BY <1>1, <1>2
<1>6. up[p] \in Seq(Messages) /\ m \in Messages
  <2>1. up[p] \in Seq(Messages)
    BY <1>2 DEF Kept, Core, Queues
  <2> QED
    BY <1>1, <2>1
<1> HIDE DEF st, m
<1> DEFINE x == t
<1>7. x = t
  OBVIOUS
<1> HIDE DEF x
<1> SUFFICES Kept(st, x, Read(up, p, x)) /\ Pointed(x.srv) /\ x.srv.running
  <2>1. ASSUME Kept(st, x, Read(up, p, x)), Pointed(x.srv), x.srv.running
        PROVE  CompositorInv'
    <3> HIDE DEF t
    <3>1. x.srv \in Servers
      BY <2>1 DEF Kept, Core
    <3>2. srv'.clients = x.srv.clients
      BY <1>3, <1>7, <3>1, StatusIsWritten
    <3>3. up' = Read(up, p, x)
      BY <1>4, <3>2 DEF Read
    <3> QED
      BY <1>1, <1>2, <1>3, <1>7, <2>1, <3>3, TurnKeeps
  <2> QED
    BY <2>1
<1>8. CASE greeted
  <2>1. m.pool.fits \in Fits
    <3>1. m.pool \in C!Pools
      BY <1>6, <1>8, MessageKinds
    <3> QED
      BY <3>1 DEF Fits
  <2>2. x = C!FinishHandshake(sh, p, m.pool)
    BY <1>7, <1>8
  <2> QED
    BY <1>1, <1>5, <2>1, <2>2, HandshakeKeeps
<1>9. CASE ~greeted
  <2> DEFINE v == st.srv
             w == [v EXCEPT !.pending = @ \ {p}]
             n == [up EXCEPT ![p] = <<>>]
  <2>1. x = sh
    BY <1>7, <1>9
  <2>2. sh = [srv |-> w, down |-> st.down]
    BY <1>5 DEF Stages
  <2>3. v \in Servers /\ Core(v, up, st.down) /\ Covered(v) /\ Exclusive(v) /\ up \in Queues
        /\ st.down \in Notices
    BY <1>5 DEF Kept, Core, Stages
  <2>4. w \in Servers
    BY <2>3 DEF Servers
  <2>5. /\ w.backlog = v.backlog /\ w.pending = v.pending \ {p} /\ w.running = v.running
        /\ w.clients = v.clients /\ w.home = v.home /\ w.surface = v.surface
        /\ w.repeated = v.repeated /\ w.refused = v.refused /\ w.locked = v.locked /\ w.glass = v.glass
        /\ w.foreground = v.foreground
    BY <2>3 DEF Servers
  <2> HIDE DEF w
  <2>6. x \in Stages /\ x.srv = w /\ x.down = st.down
    BY <2>1, <2>2, <2>3, <2>4 DEF Stages
  <2>7. w.backlog \intersect w.pending = {} /\ p \notin w.backlog \union w.pending \union w.clients
    BY <1>5, <2>3, <2>5 DEF Core
  <2>8. Core(w, up, st.down)
    BY <2>3, <2>4, <2>5, <2>7, CoreWaits
  <2>9. n \in Queues /\ \A o \in Procs : o # p => n[o] = up[o]
    BY <2>3 DEF Queues
  <2>10. Read(up, p, x) = n
    BY <2>6, <2>7 DEF Read
  <2> HIDE DEF n
  <2>11. Core(w, n, st.down)
    BY <2>7, <2>8, <2>9, CoreForgets
  <2> QED
    BY <1>5, <2>3, <2>5, <2>6, <2>10, <2>11 DEF Kept, Covered, Exclusive, Pointed
<1> QED
  BY <1>8, <1>9

LEMMA SleepKeeps ==
    ASSUME CompositorInv, C!Sleep
    PROVE  CompositorInv'
<1>1. srv.running /\ ~srv.locked /\ up' = up /\ down' = down /\ UNCHANGED C!clientVars
  BY DEF C!Sleep
<1>2. /\ C!Now \in Stages /\ C!Now.srv = srv /\ C!Now.down = down
      /\ Kept(C!Now, C!Now, up) /\ Pointed(srv) /\ srv.status = srv.foreground /\ ClientFacts
  BY <1>1, NowKept
<1> DEFINE z == [srv EXCEPT !.sleeps = @ + 1]
           st == [srv |-> z, down |-> down]
<1>3. srv \in Servers /\ down \in Notices /\ Core(srv, up, down) /\ Exclusive(srv)
  BY <1>2 DEF Kept, Core
<1>4. z \in Servers
  BY <1>3 DEF Servers
<1>5. Aside(srv, z) /\ z.glass = srv.glass /\ z.repeated = srv.repeated /\ z.surface = srv.surface
  BY <1>3 DEF Servers, Aside
<1>6. PICK t \in C!Show(st, C!LockFrame) : srv' = [t.srv EXCEPT !.locked = t.srv.glass = C!LockFrame]
  <2>1. [C!Now EXCEPT !.srv.sleeps = @ + 1] = st
    BY <1>2 DEF Stages
  <2>2. \E t \in C!Show([C!Now EXCEPT !.srv.sleeps = @ + 1], C!LockFrame) :
           srv' = [t.srv EXCEPT !.locked = t.srv.glass = C!LockFrame]
    BY DEF C!Sleep
  <2> HIDE DEF st
  <2> QED
    BY <2>1, <2>2
<1> HIDE DEF z
<1>7. st \in Stages /\ st.srv = z /\ st.down = down
  BY <1>3, <1>4 DEF Stages
<1> HIDE DEF st
<1>8. Core(z, up, down)
  BY <1>3, <1>4, <1>5, CoreIgnores DEF Aside
<1>9. /\ t \in Stages /\ Core(t.srv, up, t.down) /\ Aside(z, t.srv)
      /\ t.srv.glass \in {C!LockFrame, z.glass} /\ t.srv.repeated = z.repeated
  BY <1>6, <1>7, <1>8, GlassKinds, ShowKeeps
<1>10. t.down = down
  BY <1>6, <1>7 DEF C!Show, C!PanelFails, Stages
<1> DEFINE v == t.srv
           w == [v EXCEPT !.locked = v.glass = C!LockFrame]
<1>11. v \in Servers
  BY <1>9 DEF Stages
<1>12. w \in Servers
  BY <1>11 DEF Servers
<1>13. /\ w.running = v.running /\ w.backlog = v.backlog /\ w.pending = v.pending /\ w.clients = v.clients
       /\ w.home = v.home /\ w.foreground = v.foreground /\ w.refused = v.refused /\ w.status = v.status
       /\ w.glass = v.glass /\ w.surface = v.surface /\ w.repeated = v.repeated
       /\ w.locked = (v.glass = C!LockFrame)
  BY <1>11 DEF Servers
<1>14. srv' = w
  BY <1>6
<1> HIDE DEF w
<1>15. Core(w, up, down)
  BY <1>9, <1>10, <1>12, <1>13, CoreIgnores
<1>16. Exclusive(w) /\ Covered(w)
  BY <1>3, <1>5, <1>9, <1>13, GlassKinds DEF Exclusive, Covered
<1>17. Pointed(w) /\ w.running /\ w.status = w.foreground
  BY <1>1, <1>2, <1>5, <1>9, <1>13 DEF Pointed, Aside
<1> QED
  BY <1>1, <1>2, <1>14, <1>15, <1>16, <1>17, ServerMoves

LEMMA WakeKeeps ==
    ASSUME ClientsAssumption, CompositorInv, C!Wake
    PROVE  CompositorInv'
<1>1. srv.running /\ up' = up /\ UNCHANGED C!clientVars
  BY DEF C!Wake
<1>2. /\ C!Now \in Stages /\ C!Now.srv = srv /\ C!Now.down = down
      /\ Kept(C!Now, C!Now, up) /\ Pointed(srv) /\ srv.status = srv.foreground /\ ClientFacts
  BY <1>1, NowKept
<1> DEFINE z == [srv EXCEPT !.locked = FALSE]
           st == [srv |-> z, down |-> down]
<1>3. srv \in Servers /\ down \in Notices /\ Core(srv, up, down) /\ Exclusive(srv)
  BY <1>2 DEF Kept, Core
<1>4. z \in Servers
  BY <1>3 DEF Servers
<1>5. /\ z.running = srv.running /\ z.backlog = srv.backlog /\ z.pending = srv.pending /\ z.clients = srv.clients
      /\ z.home = srv.home /\ z.foreground = srv.foreground /\ z.refused = srv.refused /\ z.status = srv.status
      /\ z.glass = srv.glass /\ z.surface = srv.surface /\ z.repeated = srv.repeated /\ z.locked = FALSE
  BY <1>3 DEF Servers
<1>6. PICK t : 
        /\ srv' = t.srv /\ down' = t.down
        /\ \/ t \in C!PresentForeground(st)
           \/ srv.foreground.is = "stopped" /\ t \in C!Show(st, C!StoppedFrame(srv.foreground.of))
           \/ t = st
  <2>1. [C!Now EXCEPT !.srv.locked = FALSE] = st
    <3>1. \A b : [C!Now EXCEPT !.srv.locked = b] = [srv |-> [srv EXCEPT !.locked = b], down |-> down]
      BY <1>2 DEF Stages
    <3> QED
      BY <3>1, Zenon
  <2>2. \E t \in (CASE srv.foreground.is = "client" ->
                       C!PresentForeground([C!Now EXCEPT !.srv.locked = FALSE])
                   [] srv.foreground.is = "stopped" ->
                       C!Show([C!Now EXCEPT !.srv.locked = FALSE], C!StoppedFrame(srv.foreground.of))
                   [] OTHER -> {[C!Now EXCEPT !.srv.locked = FALSE]}) :
           srv' = t.srv /\ down' = t.down
    BY DEF C!Wake
  <2> HIDE DEF st
  <2> QED
    BY <2>1, <2>2
<1> HIDE DEF z
<1>7. st \in Stages /\ st.srv = z /\ st.down = down
  BY <1>3, <1>4 DEF Stages
<1> HIDE DEF st
<1>8. Core(z, up, down)
  BY <1>3, <1>4, <1>5, CoreIgnores
<1>9. Kept(st, st, up) /\ Pointed(z) /\ z.running /\ z.status = z.foreground /\ Aside(z, z)
  BY <1>1, <1>2, <1>3, <1>5, <1>7, <1>8 DEF Kept, Covered, Exclusive, Pointed, Aside
<1>10. Kept(st, t, up) /\ Aside(z, t.srv)
  <2>1. CASE t \in C!PresentForeground(st)
    BY <1>2, <1>7, <1>9, <2>1, PresentKeeps DEF Kept, ClientFacts
  <2>2. CASE srv.foreground.is = "stopped" /\ t \in C!Show(st, C!StoppedFrame(srv.foreground.of))
    <3>1. srv.foreground.of \in Procs
      BY <1>3, <2>2, ForegroundKinds
    <3>2. C!StoppedFrame(srv.foreground.of) \in Glasses /\ C!StoppedFrame(srv.foreground.of).is = "stopped"
      BY <3>1, GlassKinds
    <3>3. /\ t \in Stages /\ Core(t.srv, up, t.down) /\ Aside(z, t.srv)
          /\ t.srv.glass \in {C!StoppedFrame(srv.foreground.of), z.glass} /\ t.srv.repeated = z.repeated
      BY <1>7, <1>8, <2>2, <3>2, ShowKeeps
    <3>4. Covered(t.srv) /\ Exclusive(t.srv)
      BY <1>3, <1>5, <3>2, <3>3 DEF Covered, Exclusive, Aside
    <3> QED
      BY <3>3, <3>4 DEF Kept
  <2>3. CASE t = st
    BY <1>7, <1>9, <2>3
  <2> QED
    BY <1>6, <2>1, <2>2, <2>3
<1>11. Pointed(t.srv) /\ t.srv.running /\ t.srv.status = t.srv.foreground
  BY <1>9, <1>10 DEF Pointed, Aside
<1>12. Core(t.srv, up', down') /\ Covered(t.srv) /\ Exclusive(t.srv)
  BY <1>1, <1>6, <1>10 DEF Kept
<1> QED
  BY <1>1, <1>2, <1>6, <1>11, <1>12, ServerMoves

LEMMA StopKeeps ==
    ASSUME CompositorInv, C!Stop
    PROVE  CompositorInv'
<1> DEFINE w == [srv EXCEPT !.running = FALSE, !.glass = C!Blank, !.clients = {}, !.pending = {},
                            !.backlog = {}, !.expired = {},
                            !.surface = [p \in Procs |-> C!NewSurface]]
<1>1. srv' = w /\ up' = [p \in Procs |-> <<>>] /\ down' = down /\ UNCHANGED C!clientVars
  BY DEF C!Stop
<1>2. srv \in Servers /\ down \in Notices /\ Core(srv, up, down) /\ ClientFacts
  BY DEF CompositorInv, Core, ClientFacts
<1>3. [p \in Procs |-> C!NewSurface] \in [Procs -> Surfaces]
  BY SurfaceKinds
<1>4. w \in Servers
  BY <1>2, <1>3, GlassKinds DEF Servers
<1>5. /\ w.running = FALSE /\ w.glass = C!Blank /\ w.clients = {} /\ w.pending = {} /\ w.backlog = {}
      /\ w.repeated = srv.repeated /\ w.refused = srv.refused
  BY <1>2 DEF Servers
<1> HIDE DEF w
<1>6. up' \in Queues
  BY <1>1 DEF Queues
<1>7. /\ w.refused \intersect Honest \subseteq w.repeated
      /\ \A o \in Procs : Len(down[o]) <= Capacity
      /\ \A o \in Procs :
            proc[o] = "new" => o \notin w.backlog \union w.pending \union w.clients /\ down[o] = <<>>
  BY <1>2, <1>5 DEF Core
<1>8. \A o \in Procs : Talks(w, up', down, o)
  BY <1>5 DEF Talks
<1>9. Core(w, up', down')
  BY <1>1, <1>2, <1>4, <1>5, <1>6, <1>7, <1>8 DEF Core
<1>10. Exclusive(w)
  BY <1>5, GlassKinds DEF Exclusive
<1> QED
  BY <1>1, <1>2, <1>5, <1>9, <1>10, ServerMoves

-----------------------------------------------------------------------------
\* Steps of a client.
LEMMA ClientMoves ==
    ASSUME CompositorInv, NEW p \in Procs, NEW w \in Servers, w = srv',
           w.running = srv.running, w.pending = srv.pending, w.clients = srv.clients, w.home = srv.home,
           w.surface = srv.surface, w.repeated = srv.repeated, w.refused = srv.refused, w.locked = srv.locked,
           w.glass = srv.glass, w.foreground = srv.foreground, w.status = srv.status,
           w.backlog \subseteq srv.backlog \union {p}, w.backlog \intersect (w.pending \union w.clients) = {},
           srv.running \/ w.backlog = srv.backlog,
           up' \in Queues, down' \in Notices, Len(down'[p]) <= Capacity,
           \A o \in Procs :
              o # p => up'[o] = up[o] /\ down'[o] = down[o] /\ inFlight'[o] = inFlight[o] /\ proc'[o] = proc[o],
           proc'[p] # "new", ClientTypes', Whole',
           p \in Honest \ w.repeated => Talks(srv, up, down, p)'
    PROVE  CompositorInv'
<1>1. NothingYet'
  BY DEF CompositorInv, NothingYet
<1>2. Core(srv, up, down)
  BY DEF CompositorInv
<1>3. ASSUME NEW o \in (Procs \intersect Honest) \ w.repeated
      PROVE  Talks(srv, up, down, o)'
  <2>1. CASE o = p
    BY <1>3, <2>1
  <2>2. CASE o # p
    <3>1. Talks(srv, up, down, o)
      BY <1>2 DEF Core
    <3>2. up'[o] = up[o] /\ down'[o] = down[o] /\ inFlight'[o] = inFlight[o]
      BY <2>2
    <3> QED
      BY <2>2, <3>1, <3>2 DEF Talks
  <2> QED
    BY <2>1, <2>2
<1>4. /\ \A o \in Procs : Len(down'[o]) <= Capacity
      /\ \A o \in Procs :
            proc'[o] = "new" => o \notin w.backlog \union w.pending \union w.clients /\ down'[o] = <<>>
  BY <1>2 DEF Core
<1>5. /\ w.pending \intersect w.clients = {} /\ w.refused \intersect Honest \subseteq w.repeated
      /\ w.running /\ w.home # C!None => w.home \in w.clients \intersect Homes
  BY <1>2 DEF Core
<1>6. Core(srv, up, down)'
  BY <1>3, <1>4, <1>5 DEF Core
<1>7. /\ Exclusive(srv)'
      /\ (srv.running => Covered(srv) /\ Pointed(srv) /\ srv.status = srv.foreground)'
      /\ (~srv.running => srv.backlog \union srv.pending \union srv.clients = {})'
  BY DEF CompositorInv, Exclusive, Covered, Pointed
<1> QED
  BY <1>1, <1>6, <1>7 DEF CompositorInv

LEMMA ClientStays ==
    ASSUME CompositorInv, NEW p \in Procs, UNCHANGED srv,
           up' \in Queues, down' \in Notices, Len(down'[p]) <= Capacity,
           \A o \in Procs :
              o # p => up'[o] = up[o] /\ down'[o] = down[o] /\ inFlight'[o] = inFlight[o] /\ proc'[o] = proc[o],
           proc'[p] # "new", ClientTypes', Whole',
           p \in Honest \ srv.repeated => Talks(srv, up, down, p)'
    PROVE  CompositorInv'
<1>1. srv \in Servers /\ srv.backlog \intersect (srv.pending \union srv.clients) = {}
  BY DEF CompositorInv, Core
<1> QED
  BY <1>1, ClientMoves

LEMMA BothConnect ==
    ASSUME ClientsAssumption, CompositorInv, NEW p \in Procs, srv.running, proc[p] = "new",
           srv' = [srv EXCEPT !.backlog = @ \union {p}], proc' = [proc EXCEPT ![p] = "idle"],
           UNCHANGED <<down, next, inFlight, mem, sent>>,
           up' \in Queues, \A o \in Procs : o # p => up'[o] = up[o],
           p \in Honest => up'[p] = <<C!Hello(C!GoodPool)>>
    PROVE  CompositorInv'
<1> DEFINE w == [srv EXCEPT !.backlog = @ \union {p}]
<1>1. srv \in Servers /\ down \in Notices /\ Core(srv, up, down) /\ ClientTypes /\ Whole /\ NothingYet
  BY DEF CompositorInv, Core
<1>2. p \notin srv.backlog \union srv.pending \union srv.clients /\ down[p] = <<>> /\ inFlight[p] = {}
  BY <1>1 DEF Core, NothingYet
<1>3. w \in Servers
  BY <1>1 DEF Servers
<1>4. /\ w.running = srv.running /\ w.pending = srv.pending /\ w.clients = srv.clients /\ w.home = srv.home
      /\ w.surface = srv.surface /\ w.repeated = srv.repeated /\ w.refused = srv.refused
      /\ w.locked = srv.locked /\ w.glass = srv.glass /\ w.foreground = srv.foreground
      /\ w.status = srv.status /\ w.backlog = srv.backlog \union {p}
  BY <1>1 DEF Servers
<1>5. w = srv'
  OBVIOUS
<1> HIDE DEF w
<1>6. w.backlog \intersect (w.pending \union w.clients) = {}
  BY <1>1, <1>2, <1>4 DEF Core
<1>7. proc'[p] = "idle" /\ \A o \in Procs : o # p => proc'[o] = proc[o]
  BY <1>1 DEF ClientTypes
<1>8. ClientTypes' /\ Whole'
  <2>1. ClientTypes'
    BY <1>1 DEF ClientTypes
  <2> QED
    BY <1>1, <1>7, <2>1 DEF Whole
<1>9. p \in Honest => Talks(srv, up, down, p)'
  <2> SUFFICES ASSUME p \in Honest
               PROVE  Talks(srv, up, down, p)'
    OBVIOUS
  <2>1. up'[p] = <<C!Hello(C!GoodPool)>>
    OBVIOUS
  <2>2. up'[p] # <<>> /\ Head(up'[p]) = C!Hello(C!GoodPool) /\ Tail(up'[p]) = <<>>
    BY <2>1
  <2>3. down'[p] = <<>> /\ inFlight'[p] = {} /\ p \notin srv'.clients
    BY <1>2, <1>4, <1>5
  <2>4. Speaks(C!NewSurface, Tail(up'[p]), down'[p], inFlight'[p])
    BY <2>2, <2>3, SpeaksNew
  <2> QED
    BY <2>2, <2>3, <2>4 DEF Talks
<1>10. down' \in Notices /\ Len(down'[p]) <= Capacity
  BY <1>1 DEF Core
<1>11. \A o \in Procs : 
         o # p => up'[o] = up[o] /\ down'[o] = down[o] /\ inFlight'[o] = inFlight[o] /\ proc'[o] = proc[o]
  BY <1>7
<1> QED
  BY <1>3, <1>4, <1>5, <1>6, <1>7, <1>8, <1>9, <1>10, <1>11, ClientMoves

LEMMA ConnectKeeps ==
    ASSUME ClientsAssumption, CompositorInv, NEW p \in Procs, C!Connect(p) \/ C!ConnectSilently(p)
    PROVE  CompositorInv'
<1>1. up \in Queues
  BY DEF CompositorInv, Core
<1>2. CASE C!Connect(p)
  <2>1. PICK pool \in (IF p \in Honest THEN {C!GoodPool} ELSE C!Pools) :
           up' = [up EXCEPT ![p] = <<C!Hello(pool)>>]
    BY <1>2 DEF C!Connect
  <2>2. pool \in C!Pools
    BY <2>1 DEF C!Pools
  <2>3. <<C!Hello(pool)>> \in Seq(Messages)
    BY <2>2, SaysTyped
  <2>4. /\ up' \in Queues /\ \A o \in Procs : o # p => up'[o] = up[o]
        /\ p \in Honest => up'[p] = <<C!Hello(C!GoodPool)>>
    BY <1>1, <2>1, <2>3 DEF Queues
  <2> QED
    BY <1>2, <2>4, BothConnect DEF C!Connect
<1>3. CASE C!ConnectSilently(p)
  BY <1>1, <1>3, BothConnect DEF C!ConnectSilently
<1> QED
  BY <1>2, <1>3

\* One slot of one client's pool is written.
LEMMA PoolWritten ==
    ASSUME ClientTypes, NEW p \in Procs, NEW n \in Nat, mem' = [mem EXCEPT ![p][next[p]] = n]
    PROVE  /\ mem' \in [Procs -> [C!Slots -> Nat]]
           /\ mem'[p][next[p]] = n
           /\ \A s \in C!Slots : s # next[p] => mem'[p][s] = mem[p][s]
           /\ \A o \in Procs : o # p => mem'[o] = mem[o]
<1>1. mem \in [Procs -> [C!Slots -> Nat]] /\ next[p] \in C!Slots
  BY DEF ClientTypes
<1> DEFINE g == [mem[p] EXCEPT ![next[p]] = n]
<1>2. mem' = [mem EXCEPT ![p] = g]
  BY <1>1
<1>3. /\ g \in [C!Slots -> Nat] /\ g[next[p]] = n
      /\ \A s \in C!Slots : s # next[p] => g[s] = mem[p][s]
  BY <1>1
<1> HIDE DEF g
<1> QED
  BY <1>1, <1>2, <1>3

LEMMA BeginPublishKeeps ==
    ASSUME CompositorInv, NEW p \in Procs, C!BeginPublish(p)
    PROVE  CompositorInv'
<1>1. /\ srv \in Servers /\ up \in Queues /\ down \in Notices /\ Core(srv, up, down)
      /\ ClientTypes /\ Whole /\ Len(down[p]) <= Capacity
  BY DEF CompositorInv, Core
<1>2. UNCHANGED <<srv, up, down, next, inFlight, sent>>
  BY DEF C!BeginPublish
<1>3. /\ \/ proc' = [proc EXCEPT ![p] = "waiting"] /\ mem' = mem
         \/ /\ next[p] \notin inFlight[p]
            /\ proc' = [proc EXCEPT ![p] = "writing"] /\ mem' = [mem EXCEPT ![p][next[p]] = C!Torn]
  BY DEF C!BeginPublish, C!StartWriting
<1>4. ClientTypes'
  <2>1. mem' \in [Procs -> [C!Slots -> Nat]]
    BY <1>1, <1>3, PoolWritten DEF ClientTypes, C!Torn
  <2>2. proc' \in [Procs -> {"new", "idle", "waiting", "writing", "failed", "gone"}]
    BY <1>1, <1>3 DEF ClientTypes
  <2> QED
    BY <1>1, <1>2, <2>1, <2>2 DEF ClientTypes
<1>5. proc'[p] \in {"waiting", "writing"} /\ \A o \in Procs : o # p => proc'[o] = proc[o]
  BY <1>1, <1>3 DEF ClientTypes
<1>6. Whole'
  <2> SUFFICES ASSUME NEW o \in Procs
               PROVE  /\ \A s \in inFlight[o] : mem'[o][s] # C!Torn
                      /\ proc'[o] = "writing" => next[o] \notin inFlight[o]
    BY <1>2 DEF Whole
  <2>1. inFlight[o] \subseteq C!Slots /\ next[o] \in C!Slots
    BY <1>1 DEF ClientTypes
  <2>2. CASE proc' = [proc EXCEPT ![p] = "waiting"] /\ mem' = mem
    BY <1>1, <2>2 DEF ClientTypes, Whole
  <2>3. CASE /\ next[p] \notin inFlight[p]
             /\ proc' = [proc EXCEPT ![p] = "writing"] /\ mem' = [mem EXCEPT ![p][next[p]] = C!Torn]
    <3>1. \A s \in inFlight[o] : mem'[o][s] = mem[o][s]
      BY <1>1, <2>1, <2>3 DEF ClientTypes
    <3> QED
      BY <1>1, <2>3, <3>1 DEF ClientTypes, Whole
  <2> QED
    BY <1>3, <2>2, <2>3
<1>7. p \in Honest \ srv.repeated => Talks(srv, up, down, p)'
  <2>1. p \in Honest \ srv.repeated => Talks(srv, up, down, p)
    BY <1>1 DEF Core
  <2> QED
    BY <1>2, <2>1 DEF Talks
<1> QED
  BY <1>1, <1>2, <1>4, <1>5, <1>6, <1>7, ClientStays

LEMMA WaitForReleaseKeeps ==
    ASSUME CompositorInv, NEW p \in Procs, C!WaitForRelease(p)
    PROVE  CompositorInv'
<1> DEFINE s == Head(down[p])
<1>1. /\ srv \in Servers /\ up \in Queues /\ down \in Notices /\ Core(srv, up, down)
      /\ ClientTypes /\ Whole /\ Len(down[p]) <= Capacity
  BY DEF CompositorInv, Core
<1>2. /\ UNCHANGED <<srv, up, next, sent>> /\ proc[p] = "waiting" /\ down[p] # <<>>
      /\ down' = [down EXCEPT ![p] = Tail(@)] /\ inFlight' = [inFlight EXCEPT ![p] = @ \ {s}]
  BY DEF C!WaitForRelease
<1>3. \/ proc' = proc /\ mem' = mem
      \/ /\ s = next[p]
         /\ proc' = [proc EXCEPT ![p] = "writing"] /\ mem' = [mem EXCEPT ![p][next[p]] = C!Torn]
  BY DEF C!WaitForRelease, C!StartWriting
<1>4. down[p] \in Seq(C!Slots) /\ Len(down[p]) \in Nat
  BY <1>1 DEF Notices
<1>5. Tail(down[p]) \in Seq(C!Slots) /\ Len(Tail(down[p])) = Len(down[p]) - 1
  BY <1>2, <1>4
<1>6. /\ down' \in Notices /\ down'[p] = Tail(down[p])
      /\ \A o \in Procs : o # p => down'[o] = down[o]
  BY <1>1, <1>2, <1>5 DEF Notices
<1>7. Len(down'[p]) <= Capacity
  BY <1>1, <1>4, <1>5, <1>6, ClientsAssumption
<1>8. /\ inFlight' \in [Procs -> SUBSET C!Slots] /\ inFlight'[p] = inFlight[p] \ {s}
      /\ \A o \in Procs : o # p => inFlight'[o] = inFlight[o]
  BY <1>1, <1>2 DEF ClientTypes
<1> HIDE DEF s
<1>9. ClientTypes'
  <2>1. mem' \in [Procs -> [C!Slots -> Nat]]
    BY <1>1, <1>3, PoolWritten DEF ClientTypes, C!Torn
  <2>2. proc' \in [Procs -> {"new", "idle", "waiting", "writing", "failed", "gone"}]
    BY <1>1, <1>3 DEF ClientTypes
  <2> QED
    BY <1>1, <1>2, <1>8, <2>1, <2>2 DEF ClientTypes
<1>10. proc'[p] \in {"waiting", "writing"} /\ \A o \in Procs : o # p => proc'[o] = proc[o]
  BY <1>1, <1>2, <1>3 DEF ClientTypes
<1>11. Whole'
  <2> SUFFICES ASSUME NEW o \in Procs
               PROVE  /\ \A t \in inFlight'[o] : mem'[o][t] # C!Torn
                      /\ proc'[o] = "writing" => next[o] \notin inFlight'[o]
    BY <1>2 DEF Whole
  <2>1. inFlight'[o] \subseteq inFlight[o] /\ inFlight[o] \subseteq C!Slots /\ next[o] \in C!Slots
    BY <1>1, <1>8 DEF ClientTypes
  <2>2. CASE proc' = proc /\ mem' = mem
    BY <1>1, <2>1, <2>2 DEF Whole
  <2>3. CASE /\ s = next[p]
             /\ proc' = [proc EXCEPT ![p] = "writing"] /\ mem' = [mem EXCEPT ![p][next[p]] = C!Torn]
    <3>1. \A t \in inFlight'[o] : mem'[o][t] = mem[o][t]
      BY <1>1, <1>8, <2>1, <2>3, PoolWritten DEF C!Torn
    <3>2. proc'[o] = "writing" => next[o] \notin inFlight'[o]
      BY <1>1, <1>8, <1>10, <2>1, <2>3 DEF Whole
    <3> QED
      BY <1>1, <2>1, <3>1, <3>2 DEF Whole
  <2> QED
    BY <1>3, <2>2, <2>3
<1>12. p \in Honest \ srv.repeated => Talks(srv, up, down, p)'
  <2> SUFFICES ASSUME p \in Honest \ srv.repeated
               PROVE  Talks(srv, up, down, p)'
    OBVIOUS
  <2>1. Talks(srv, up, down, p)
    BY <1>1 DEF Core
  <2>2. up[p] \in Seq(Messages) /\ srv.surface[p] \in Surfaces /\ C!NewSurface \in Surfaces
    BY <1>1, SurfaceKinds DEF Queues, Servers
  <2>3. p \in srv.backlog \union srv.pending =>
          /\ up[p] # <<>> /\ Head(up[p]) = C!Hello(C!GoodPool)
          /\ Speaks(C!NewSurface, Tail(up[p]), Tail(down[p]), inFlight[p] \ {s})
    <3> SUFFICES ASSUME p \in srv.backlog \union srv.pending
                 PROVE  /\ up[p] # <<>> /\ Head(up[p]) = C!Hello(C!GoodPool)
                        /\ Speaks(C!NewSurface, Tail(up[p]), Tail(down[p]), inFlight[p] \ {s})
      OBVIOUS
    <3>1. /\ up[p] # <<>> /\ Head(up[p]) = C!Hello(C!GoodPool)
          /\ Speaks(C!NewSurface, Tail(up[p]), down[p], inFlight[p])
      BY <2>1 DEF Talks
    <3>2. Tail(up[p]) \in Seq(Messages)
      BY <2>2, <3>1
    <3> QED
      BY <1>2, <1>4, <2>2, <3>1, <3>2, NoticeRead DEF s
  <2>4. p \in srv.clients => Speaks(srv.surface[p], up[p], Tail(down[p]), inFlight[p] \ {s})
    BY <1>2, <1>4, <2>1, <2>2, NoticeRead DEF Talks, s
  <2> QED
    BY <1>2, <1>6, <1>8, <2>3, <2>4 DEF Talks
<1> QED
  BY <1>1, <1>2, <1>6, <1>7, <1>8, <1>9, <1>10, <1>11, <1>12, ClientStays

LEMMA LoseConnectionKeeps ==
    ASSUME CompositorInv, NEW p \in Procs, C!LoseConnection(p)
    PROVE  CompositorInv'
<1>1. /\ srv \in Servers /\ up \in Queues /\ down \in Notices /\ Core(srv, up, down)
      /\ ClientTypes /\ Whole /\ Len(down[p]) <= Capacity
  BY DEF CompositorInv, Core
<1>2. UNCHANGED <<srv, up, down, next, inFlight, mem, sent>> /\ proc' = [proc EXCEPT ![p] = "failed"]
  BY DEF C!LoseConnection
<1>3. ClientTypes' /\ proc'[p] = "failed" /\ \A o \in Procs : o # p => proc'[o] = proc[o]
  BY <1>1, <1>2 DEF ClientTypes
<1>4. Whole'
  BY <1>1, <1>2, <1>3 DEF Whole
<1>5. p \in Honest \ srv.repeated => Talks(srv, up, down, p)'
  <2>1. p \in Honest \ srv.repeated => Talks(srv, up, down, p)
    BY <1>1 DEF Core
  <2> QED
    BY <1>2, <2>1 DEF Talks
<1> QED
  BY <1>1, <1>2, <1>3, <1>4, <1>5, ClientStays

LEMMA SendAnythingKeeps ==
    ASSUME CompositorInv, NEW p \in Procs, C!SendAnything(p)
    PROVE  CompositorInv'
<1>1. /\ srv \in Servers /\ up \in Queues /\ down \in Notices /\ Core(srv, up, down)
      /\ ClientTypes /\ Whole /\ Len(down[p]) <= Capacity
  BY DEF CompositorInv, Core
<1>2. /\ UNCHANGED <<srv, down, proc, next, inFlight, mem>> /\ proc[p] = "idle" /\ p \notin Honest
      /\ sent' = [sent EXCEPT ![p] = @ + 1]
  BY DEF C!SendAnything
<1>3. PICK m \in C!ClientRequest : up' = [up EXCEPT ![p] = Append(@, m)]
  BY DEF C!SendAnything
<1>4. m \in Messages /\ up[p] \in Seq(Messages)
  BY <1>1, <1>3, SaysTyped DEF Queues
<1>5. up' \in Queues /\ \A o \in Procs : o # p => up'[o] = up[o]
  BY <1>1, <1>3, <1>4 DEF Queues
<1>6. ClientTypes'
  BY <1>1, <1>2 DEF ClientTypes
<1>7. Whole'
  BY <1>1, <1>2 DEF Whole
<1> QED
  BY <1>1, <1>2, <1>5, <1>6, <1>7, ClientStays

LEMMA TwoMore ==
    ASSUME NEW q \in Seq(Messages), NEW u \in Messages, NEW v \in Messages, q # <<>>
    PROVE  /\ q \o <<u, v>> # <<>> /\ Head(q \o <<u, v>>) = Head(q)
           /\ Tail(q \o <<u, v>>) = Tail(q) \o <<u, v>>
<1> DEFINE r1 == Append(q, u)
           r2 == Append(r1, v)
<1>1. \A z \in Seq(Messages) : z \o <<u, v>> = Append(Append(z, u), v)
  OBVIOUS
<1>2. r1 \in Seq(Messages) /\ r1 # <<>> /\ Head(r1) = Head(q) /\ Tail(r1) = Append(Tail(q), u)
  OBVIOUS
<1>3. Tail(q) \in Seq(Messages) /\ q \o <<u, v>> = r2 /\ Tail(q) \o <<u, v>> = Append(Append(Tail(q), u), v)
  BY <1>1
<1> HIDE DEF r1
<1>4. r2 # <<>> /\ Head(r2) = Head(r1) /\ Tail(r2) = Append(Tail(r1), v)
  BY <1>2
<1> QED
  BY <1>2, <1>3, <1>4

LEMMA FinishPublishKeeps ==
    ASSUME CompositorInv, NEW p \in Procs, C!FinishPublish(p)
    PROVE  CompositorInv'
<1>1. /\ srv \in Servers /\ up \in Queues /\ down \in Notices /\ Core(srv, up, down)
      /\ ClientTypes /\ Whole /\ Len(down[p]) <= Capacity
  BY DEF CompositorInv, Core
<1>2. /\ UNCHANGED <<srv, down>> /\ proc[p] = "writing"
      /\ mem' = [mem EXCEPT ![p][next[p]] = sent[p] + 1]
  BY DEF C!FinishPublish
<1>0. PICK s \in C!Slots : s = next[p]
  BY <1>1 DEF ClientTypes
<1>3. s = next[p] /\ sent[p] \in Nat /\ sent[p] + 1 \in Nat /\ sent[p] + 1 # C!Torn /\ s \notin inFlight[p]
  BY <1>0, <1>1, <1>2 DEF ClientTypes, C!Torn, Whole
<1>4. /\ mem' \in [Procs -> [C!Slots -> Nat]] /\ mem'[p][s] # C!Torn
      /\ \A t \in C!Slots : t # s => mem'[p][t] = mem[p][t]
      /\ \A o \in Procs : o # p => mem'[o] = mem[o]
  <2> DEFINE n == sent[p] + 1
  <2>1. n \in Nat /\ n # C!Torn /\ mem' = [mem EXCEPT ![p][next[p]] = n]
    BY <1>2, <1>3
  <2> HIDE DEF n
  <2>2. /\ mem' \in [Procs -> [C!Slots -> Nat]] /\ mem'[p][next[p]] = n
        /\ \A t \in C!Slots : t # next[p] => mem'[p][t] = mem[p][t]
        /\ \A o \in Procs : o # p => mem'[o] = mem[o]
    BY <1>1, <2>1, PoolWritten
  <2> QED
    BY <1>3, <2>1, <2>2
<1>5. CASE C!Connected(p)
  <2>1. /\ up' = [up EXCEPT ![p] = @ \o <<Attached(s), Committed>>]
        /\ inFlight' = [inFlight EXCEPT ![p] = @ \union {s}]
        /\ next' = [next EXCEPT ![p] = C!Other(@)]
        /\ sent' = [sent EXCEPT ![p] = @ + 1]
        /\ proc' = [proc EXCEPT ![p] = "idle"]
    BY <1>3, <1>5 DEF C!FinishPublish, Attached, Committed
  <2>2. up[p] \in Seq(Messages) /\ <<Attached(s), Committed>> \in Seq(Messages)
    BY <1>1, <1>3, SaysTyped DEF Queues
  <2>3. /\ up' \in Queues /\ up'[p] = up[p] \o <<Attached(s), Committed>>
        /\ \A o \in Procs : o # p => up'[o] = up[o]
    <3>1. up[p] \o <<Attached(s), Committed>> \in Seq(Messages)
      BY <2>2
    <3> QED
      BY <1>1, <2>1, <3>1 DEF Queues
  <2>4. /\ inFlight' \in [Procs -> SUBSET C!Slots] /\ inFlight'[p] = inFlight[p] \union {s}
        /\ \A o \in Procs : o # p => inFlight'[o] = inFlight[o]
    BY <1>1, <1>3, <2>1 DEF ClientTypes
  <2>5. /\ proc' \in [Procs -> {"new", "idle", "waiting", "writing", "failed", "gone"}]
        /\ proc'[p] = "idle" /\ \A o \in Procs : o # p => proc'[o] = proc[o]
    BY <1>1, <2>1 DEF ClientTypes
  <2>6. next' \in [Procs -> C!Slots] /\ \A o \in Procs : o # p => next'[o] = next[o]
    <3>1. C!Other(next[p]) \in C!Slots
      BY <1>3 DEF C!Other, C!Slots
    <3> QED
      BY <1>1, <2>1, <3>1 DEF ClientTypes
  <2>7. sent' \in [Procs -> Nat]
    BY <1>1, <1>3, <2>1 DEF ClientTypes
  <2>8. ClientTypes'
    BY <1>4, <2>4, <2>5, <2>6, <2>7 DEF ClientTypes
  <2>9. ASSUME NEW o \in Procs
        PROVE  /\ \A t \in inFlight'[o] : mem'[o][t] # C!Torn
               /\ proc'[o] = "writing" => next'[o] \notin inFlight'[o]
    <3>1. inFlight[o] \subseteq C!Slots
      BY <1>1 DEF ClientTypes
    <3>2. CASE o = p
      <4>1. \A t \in inFlight[p] : mem[p][t] # C!Torn
        BY <1>1 DEF Whole
      <4> QED
        BY <1>4, <2>4, <2>5, <3>1, <3>2, <4>1
    <3>3. CASE o # p
      <4>1. mem'[o] = mem[o] /\ inFlight'[o] = inFlight[o] /\ next'[o] = next[o] /\ proc'[o] = proc[o]
        BY <1>4, <2>4, <2>5, <2>6, <3>3
      <4> QED
        BY <1>1, <4>1 DEF Whole
    <3> QED
      BY <3>2, <3>3
  <2>10. Whole'
    BY <2>9 DEF Whole
  <2>11. p \in Honest \ srv.repeated => Talks(srv, up, down, p)'
    <3> SUFFICES ASSUME p \in Honest \ srv.repeated
                 PROVE  Talks(srv, up, down, p)'
      OBVIOUS
    <3>1. Talks(srv, up, down, p)
      BY <1>1 DEF Core
    <3>2. down[p] \in Seq(C!Slots) /\ srv.surface[p] \in Surfaces /\ C!NewSurface \in Surfaces
      BY <1>1, SurfaceKinds DEF Notices, Servers
    <3>5. s \in C!Slots /\ s \notin inFlight[p]
      BY <1>0, <1>3
    <3>3. p \in srv.backlog \union srv.pending =>
            /\ up'[p] # <<>> /\ Head(up'[p]) = C!Hello(C!GoodPool)
            /\ Speaks(C!NewSurface, Tail(up'[p]), down[p], inFlight[p] \union {s})
      <4> SUFFICES ASSUME p \in srv.backlog \union srv.pending
                   PROVE  /\ up'[p] # <<>> /\ Head(up'[p]) = C!Hello(C!GoodPool)
                          /\ Speaks(C!NewSurface, Tail(up'[p]), down[p], inFlight[p] \union {s})
        OBVIOUS
      <4>1. /\ up[p] # <<>> /\ Head(up[p]) = C!Hello(C!GoodPool)
            /\ Speaks(C!NewSurface, Tail(up[p]), down[p], inFlight[p])
        BY <3>1 DEF Talks
      <4>2. Tail(up[p]) \in Seq(Messages)
        BY <2>2, <4>1
      <4>3. Speaks(C!NewSurface, Tail(up[p]) \o <<Attached(s), Committed>>, down[p], inFlight[p] \union {s})
        BY <3>5, <3>2, <4>1, <4>2, PublishSaid
      <4>4. /\ up'[p] # <<>> /\ Head(up'[p]) = Head(up[p])
            /\ Tail(up'[p]) = Tail(up[p]) \o <<Attached(s), Committed>>
        <5>1. Attached(s) \in Messages /\ Committed \in Messages
          BY SaysTyped
        <5>2. /\ up[p] \o <<Attached(s), Committed>> # <<>>
              /\ Head(up[p] \o <<Attached(s), Committed>>) = Head(up[p])
              /\ Tail(up[p] \o <<Attached(s), Committed>>) = Tail(up[p]) \o <<Attached(s), Committed>>
          BY <2>2, <4>1, <5>1, TwoMore
        <5> QED
          BY <2>3, <5>2
      <4> QED
        BY <4>1, <4>3, <4>4
    <3>4. p \in srv.clients => Speaks(srv.surface[p], up'[p], down[p], inFlight[p] \union {s})
      <4> SUFFICES ASSUME p \in srv.clients
                   PROVE  Speaks(srv.surface[p], up'[p], down[p], inFlight[p] \union {s})
        OBVIOUS
      <4>1. Speaks(srv.surface[p], up[p], down[p], inFlight[p])
        BY <3>1 DEF Talks
      <4>2. Speaks(srv.surface[p], up[p] \o <<Attached(s), Committed>>, down[p], inFlight[p] \union {s})
        BY <2>2, <3>5, <3>2, <4>1, PublishSaid
      <4> QED
        BY <2>3, <4>2
    <3> QED
      BY <1>2, <2>4, <3>3, <3>4 DEF Talks
  <2> QED
    BY <1>1, <1>2, <2>3, <2>4, <2>5, <2>8, <2>10, <2>11, ClientStays
<1>6. CASE ~C!Connected(p)
  <2>1. UNCHANGED <<up, inFlight, next, sent>> /\ proc' = [proc EXCEPT ![p] = "failed"]
    BY <1>6 DEF C!FinishPublish
  <2>2. /\ proc' \in [Procs -> {"new", "idle", "waiting", "writing", "failed", "gone"}]
        /\ proc'[p] = "failed" /\ \A o \in Procs : o # p => proc'[o] = proc[o]
    BY <1>1, <2>1 DEF ClientTypes
  <2>3. ClientTypes'
    BY <1>1, <1>4, <2>1, <2>2 DEF ClientTypes
  <2>4. ASSUME NEW o \in Procs
        PROVE  /\ \A t \in inFlight[o] : mem'[o][t] # C!Torn
               /\ proc'[o] = "writing" => next[o] \notin inFlight[o]
    <3>1. inFlight[o] \subseteq C!Slots
      BY <1>1 DEF ClientTypes
    <3>2. CASE o = p
      <4>1. \A t \in inFlight[p] : mem[p][t] # C!Torn
        BY <1>1 DEF Whole
      <4> QED
        BY <1>4, <2>2, <3>1, <3>2, <4>1
    <3>3. CASE o # p
      <4>1. mem'[o] = mem[o] /\ proc'[o] = proc[o]
        BY <1>4, <2>2, <3>3
      <4> QED
        BY <1>1, <4>1 DEF Whole
    <3> QED
      BY <3>2, <3>3
  <2>5. Whole'
    BY <2>1, <2>4 DEF Whole
  <2>6. p \in Honest \ srv.repeated => Talks(srv, up, down, p)'
    <3>1. p \notin srv.backlog \union srv.pending \union srv.clients
      BY <1>6 DEF C!Connected
    <3> QED
      BY <1>2, <3>1 DEF Talks
  <2> QED
    BY <1>1, <1>2, <2>1, <2>2, <2>3, <2>5, <2>6, ClientStays
<1> QED
  BY <1>5, <1>6

LEMMA ExitKeeps ==
    ASSUME CompositorInv, NEW p \in Procs, C!Exit(p)
    PROVE  CompositorInv'
<1>1. /\ srv \in Servers /\ up \in Queues /\ down \in Notices /\ Core(srv, up, down)
      /\ ClientTypes /\ Whole /\ Len(down[p]) <= Capacity
  BY DEF CompositorInv, Core
<1>2. /\ UNCHANGED <<srv, down, next, inFlight, mem, sent>> /\ proc' = [proc EXCEPT ![p] = "gone"]
      /\ up' = [up EXCEPT ![p] = IF C!Connected(p) THEN Append(@, C!Eof) ELSE @]
  BY DEF C!Exit
<1>3. up[p] \in Seq(Messages) /\ Append(up[p], C!Eof) \in Seq(Messages)
  BY <1>1, SaysTyped DEF Queues
<1>4. /\ up' \in Queues /\ up'[p] = (IF C!Connected(p) THEN Append(up[p], C!Eof) ELSE up[p])
      /\ \A o \in Procs : o # p => up'[o] = up[o]
  BY <1>1, <1>2, <1>3 DEF Queues
<1>5. ClientTypes' /\ proc'[p] = "gone" /\ \A o \in Procs : o # p => proc'[o] = proc[o]
  BY <1>1, <1>2 DEF ClientTypes
<1>6. Whole'
  BY <1>1, <1>2, <1>5 DEF Whole
<1>7. p \in Honest \ srv.repeated => Talks(srv, up, down, p)'
  <2> SUFFICES ASSUME p \in Honest \ srv.repeated
               PROVE  Talks(srv, up, down, p)'
    OBVIOUS
  <2>1. Talks(srv, up, down, p)
    BY <1>1 DEF Core
  <2>2. down[p] \in Seq(C!Slots) /\ srv.surface[p] \in Surfaces /\ C!NewSurface \in Surfaces
    BY <1>1, SurfaceKinds DEF Notices, Servers
  <2>3. CASE ~C!Connected(p)
    BY <1>2, <2>3 DEF Talks, C!Connected
  <2>4. CASE C!Connected(p)
    <3>1. up'[p] = Append(up[p], C!Eof)
      BY <1>4, <2>4
    <3>2. p \in srv.backlog \union srv.pending =>
            /\ up'[p] # <<>> /\ Head(up'[p]) = C!Hello(C!GoodPool)
            /\ Speaks(C!NewSurface, Tail(up'[p]), down[p], inFlight[p])
      <4> SUFFICES ASSUME p \in srv.backlog \union srv.pending
                   PROVE  /\ up'[p] # <<>> /\ Head(up'[p]) = C!Hello(C!GoodPool)
                          /\ Speaks(C!NewSurface, Tail(up'[p]), down[p], inFlight[p])
        OBVIOUS
      <4>1. /\ up[p] # <<>> /\ Head(up[p]) = C!Hello(C!GoodPool)
            /\ Speaks(C!NewSurface, Tail(up[p]), down[p], inFlight[p])
        BY <2>1 DEF Talks
      <4>2. Tail(up[p]) \in Seq(Messages)
        BY <1>3, <4>1
      <4>3. Speaks(C!NewSurface, Append(Tail(up[p]), C!Eof), down[p], inFlight[p])
        BY <2>2, <4>1, <4>2, ExitSaid
      <4>4. up'[p] # <<>> /\ Head(up'[p]) = Head(up[p]) /\ Tail(up'[p]) = Append(Tail(up[p]), C!Eof)
        BY <1>3, <3>1, <4>1, SaysTyped
      <4> QED
        BY <4>1, <4>3, <4>4
    <3>3. p \in srv.clients => Speaks(srv.surface[p], up'[p], down[p], inFlight[p])
      BY <1>3, <2>1, <2>2, <3>1, ExitSaid DEF Talks
    <3> QED
      BY <1>2, <3>2, <3>3 DEF Talks
  <2> QED
    BY <2>3, <2>4
<1> QED
  BY <1>1, <1>2, <1>4, <1>5, <1>6, <1>7, ClientStays

-----------------------------------------------------------------------------
LEMMA CompositorStarts ==
    ASSUME ClientsAssumption, C!Init
    PROVE  CompositorInv
<1>1. [o \in Procs |-> C!NewSurface] \in [Procs -> Surfaces]
  BY SurfaceKinds
<1>2. [o \in Procs |-> FALSE] \in [Procs -> Fits]
  BY DEF Fits
<1>3. C!NoFg \in Foregrounds /\ C!NoFg.is = "none"
  BY DEF Foregrounds, C!NoFg
<1>4. srv \in Servers
  BY <1>1, <1>2, <1>3, GlassKinds DEF C!Init, Servers
<1>5. /\ srv.backlog = {} /\ srv.pending = {} /\ srv.clients = {} /\ srv.refused = {}
      /\ srv.home = C!None /\ srv.running = TRUE /\ srv.locked = FALSE
      /\ srv.glass = C!Blank /\ srv.foreground = C!NoFg /\ srv.status = C!NoFg
  BY DEF C!Init
<1>6. up \in Queues /\ down \in Notices
  BY DEF C!Init, Queues, Notices
<1>7. ClientTypes
  BY DEF C!Init, ClientTypes, C!Torn, C!Slots
<1>8. Whole /\ NothingYet
  BY DEF C!Init, Whole, NothingYet
<1>9. \A p \in Procs : down[p] = <<>> /\ Len(down[p]) <= Capacity
  BY ClientsAssumption DEF C!Init
<1>10. \A p \in Procs : Talks(srv, up, down, p)
  BY <1>5 DEF Talks
<1>11. Core(srv, up, down)
  BY <1>4, <1>5, <1>6, <1>9, <1>10 DEF Core
<1>12. Exclusive(srv) /\ Covered(srv) /\ Pointed(srv)
  BY <1>3, <1>5, GlassKinds DEF Exclusive, Covered, Pointed
<1> QED
  BY <1>5, <1>7, <1>8, <1>11, <1>12 DEF CompositorInv

LEMMA CompositorRests ==
    ASSUME CompositorInv, UNCHANGED compositor
    PROVE  CompositorInv'
<1>1. /\ srv' = srv /\ up' = up /\ down' = down /\ proc' = proc /\ next' = next
      /\ inFlight' = inFlight /\ mem' = mem /\ sent' = sent
  BY DEF compositor
<1>2. ClientTypes' /\ Whole' /\ NothingYet'
  BY <1>1 DEF CompositorInv, ClientTypes, Whole, NothingYet
<1>3. Core(srv, up, down)'
  <2>1. Core(srv, up, down)
    BY DEF CompositorInv
  <2>2. \A p \in (Procs \intersect Honest) \ srv.repeated : Talks(srv, up, down, p)'
    BY <1>1, <2>1 DEF Core, Talks
  <2> QED
    BY <1>1, <2>1, <2>2 DEF Core
<1>4. /\ Exclusive(srv)'
      /\ (srv.running => Covered(srv) /\ Pointed(srv) /\ srv.status = srv.foreground)'
      /\ (~srv.running => srv.backlog \union srv.pending \union srv.clients = {})'
  BY <1>1 DEF CompositorInv, Exclusive, Covered, Pointed
<1> QED
  BY <1>2, <1>3, <1>4 DEF CompositorInv

LEMMA CompositorMoves ==
    ASSUME ClientsAssumption, CompositorInv, C!Next
    PROVE  CompositorInv'
<1>1. CASE C!Server
  BY <1>1, AcceptKeeps, ReapKeeps, ServicePendingKeeps, ServiceClientKeeps DEF C!Server
<1>2. CASE C!Sleep
  BY <1>2, SleepKeeps
<1>3. CASE C!Wake
  BY <1>3, WakeKeeps
<1>4. CASE C!Stop
  BY <1>4, StopKeeps
<1>5. CASE \E p \in Procs : C!HelloDeadline(p)
  BY <1>5, DeadlineKeeps
<1>6. CASE \E p \in Procs : C!Client(p)
  <2>1. PICK p \in Procs : C!Client(p)
    BY <1>6
  <2> QED
    BY <2>1, ConnectKeeps, BeginPublishKeeps, WaitForReleaseKeeps, FinishPublishKeeps, LoseConnectionKeeps,
       SendAnythingKeeps, ExitKeeps DEF C!Client
<1> QED
  BY <1>1, <1>2, <1>3, <1>4, <1>5, <1>6 DEF C!Next

LEMMA CompositorInvSound ==
    ASSUME ClientsAssumption, CompositorInv
    PROVE  CompositorIsSound
<1>1. srv \in Servers /\ Core(srv, up, down) /\ ClientTypes
  BY DEF CompositorInv, Core
<1>2. C!TypeOK
  <2>1. srv.home \in Procs \union {C!None}
    BY <1>1 DEF Servers
  <2>2. srv.backlog \union srv.pending \union srv.clients \union srv.expired \subseteq Procs
    BY <1>1 DEF Servers
  <2>3. srv.foreground \in {C!NoFg} \union {C!ClientFg(p) : p \in Procs} \union {C!StoppedFg(p) : p \in Procs}
    BY <1>1 DEF Servers, Foregrounds
  <2>4. srv.surface \in [Procs -> [slots : [C!Slots -> C!SlotState], pending : C!Slots \union {C!None},
                                   current : C!Slots \union {C!None}]]
    BY <1>1 DEF Servers, Surfaces
  <2>5. \A p \in Procs : Len(down[p]) <= Capacity
    BY <1>1 DEF Core
  <2> QED
    BY <1>1, <2>1, <2>2, <2>3, <2>4, <2>5 DEF C!TypeOK, ClientTypes
<1>3. C!LockCovers
  BY DEF C!LockCovers, CompositorInv, Covered
<1>4. C!PointersLive
  BY <1>1 DEF C!PointersLive, CompositorInv, Pointed, Core
<1>5. C!StatusTruth
  BY DEF C!StatusTruth, CompositorInv
<1>6. C!HonestNeverRefused
  BY <1>1 DEF C!HonestNeverRefused, Core
<1>7. C!ExclusiveRead
  BY DEF C!ExclusiveRead, CompositorInv, Exclusive
<1> QED
  BY <1>2, <1>3, <1>4, <1>5, <1>6, <1>7 DEF CompositorIsSound

(* Whatever clients connect, send, publish and die, and whichever frames the  *)
(* panel fails to show: nothing paints over the lock screen; home and the     *)
(* foreground name connected clients (disconnect); the status file names the  *)
(* foreground; a client that follows CompositorSurface is refused, and a slot *)
(* it is drawing into shown, only after the compositor notified it of a slot  *)
(* it was not holding (give_back, notify_release).                            *)
THEOREM CompositorsAreSound == Spec => []CompositorIsSound
<1>1. Init => CompositorInv
  BY ClientsAssumption, CompositorStarts DEF Init
<1>2. CompositorInv /\ [Next]_vars => CompositorInv'
  <2> SUFFICES ASSUME CompositorInv, [Next]_vars
               PROVE  CompositorInv'
    OBVIOUS
  <2>1. CASE C!Next
    BY <2>1, ClientsAssumption, CompositorMoves
  <2>2. CASE UNCHANGED compositor
    BY <2>2, CompositorRests
  <2> QED
    BY <2>1, <2>2 DEF Next, vars
<1>3. CompositorInv => CompositorIsSound
  BY ClientsAssumption, CompositorInvSound
<1> QED
  BY <1>1, <1>2, <1>3, PTL DEF Spec

-----------------------------------------------------------------------------
(* Gestures. *)

Edges == {"top", "bottom", "left", "right"}
Gestures == Edges \union {"escape"}

Track ==
    [on : {TRUE}, pointer : {"touch", "pen"}, origin : Points, last : Points,
     edge : Edges \union {"none"}, claimed : Gestures \union {G!App}]

TrackTable == [Contacts -> Track \union {G!NoTrack}]

(* A contact that was ruled the system's is on the glass, and its track keeps *)
(* the gesture that took it.                                                  *)
GestureInv ==
    /\ tracks \in TrackTable
    /\ ruled \in [Contacts -> Gestures \union {G!App}]
    /\ \A c \in Contacts : ruled[c] # G!App => tracks[c].on /\ tracks[c].claimed = ruled[c]

LEMMA SameCardinality == \A s : G!Cardinality(s) = Cardinality(s)
BY DEF G!Cardinality, Cardinality

LEMMA EdgeIsAnEdge == \A p : G!EdgeOf(p) \in Edges \union {"none"}
<1> TAKE p
<1> DEFINE zones == {e \in {"top", "bottom", "left", "right"} :
                    \/ e = "top" /\ p[2] <= EDGE_ZONE_DEPTH
                    \/ e = "bottom" /\ p[2] >= Side - EDGE_ZONE_DEPTH
                    \/ e = "left" /\ p[1] <= EDGE_ZONE_DEPTH
                    \/ e = "right" /\ p[1] >= Side - EDGE_ZONE_DEPTH}
<1>1. zones = {} => Cardinality(zones) # 1
  BY FS_EmptySet
<1>2. zones # {} => (CHOOSE e \in zones : TRUE) \in zones
  OBVIOUS
<1>3. zones \subseteq Edges
  BY DEF Edges
<1>4. G!EdgeOf(p) = IF Cardinality(zones) = 1 THEN CHOOSE e \in zones : TRUE ELSE "none"
  BY SameCardinality DEF G!EdgeOf
<1> HIDE DEF zones
<1> QED
  BY <1>1, <1>2, <1>3, <1>4

(* A pinch takes only touches nobody has taken, a handful at once.            *)
LEMMA PinchTakesAHandful ==
    ASSUME NEW t \in TrackTable
    PROVE  /\ G!ConfirmPinch(t) \in TrackTable
           /\ \/ G!ConfirmPinch(t) = t
              \/ /\ Cardinality(G!UnclaimedTouches(t)) >= MIN_PINCH_FINGERS
                 /\ \A c \in G!UnclaimedTouches(t) :
                        G!ConfirmPinch(t)[c] = [t[c] EXCEPT !.claimed = "escape"]
                 /\ \A c \in Contacts \ G!UnclaimedTouches(t) : G!ConfirmPinch(t)[c] = t[c]
<1> DEFINE hand == G!UnclaimedTouches(t)
           taken == G!Claim(t, hand, "escape")
<1>1. hand \subseteq Contacts /\ \A c \in hand : t[c] \in Track
  <2>1. \A c \in Contacts : t[c] \in Track \/ ~t[c].on
    BY DEF TrackTable, G!NoTrack
  <2> QED
    BY <2>1 DEF G!UnclaimedTouches, G!Live
<1>2. taken \in TrackTable
  <2>1. \A c \in hand : [t[c] EXCEPT !.claimed = "escape"] \in Track
    BY <1>1 DEF Track, Gestures
  <2>2. \A c \in Contacts : t[c] \in Track \union {G!NoTrack}
    BY DEF TrackTable
  <2> HIDE DEF hand
  <2>3. \A c \in Contacts :
          (IF c \in hand THEN [t[c] EXCEPT !.claimed = "escape"] ELSE t[c]) \in Track \union {G!NoTrack}
    BY <2>1, <2>2
  <2> QED
    BY <2>3 DEF G!Claim, TrackTable
<1>3. \A c \in hand : taken[c] = [t[c] EXCEPT !.claimed = "escape"]
  BY <1>1 DEF G!Claim
<1>4. \A c \in Contacts \ hand : taken[c] = t[c]
  BY DEF G!Claim
<1>5. G!ConfirmPinch(t) = t \/ (G!ConfirmPinch(t) = taken /\ Cardinality(hand) >= MIN_PINCH_FINGERS)
  BY SameCardinality DEF G!ConfirmPinch
<1>6. hand = G!UnclaimedTouches(t)
  OBVIOUS
<1> HIDE DEF hand, taken
<1> QED
  BY <1>2, <1>3, <1>4, <1>5, <1>6

(* The verdict on one contact, and what it writes down.                       *)
RuledOn(t, c) ==
    /\ tracks' \in TrackTable /\ ruled' \in [Contacts -> Gestures \union {G!App}]
    /\ \A d \in Contacts \ {c} : tracks'[d] = t[d] /\ ruled'[d] = ruled[d]
    /\ \/ ~tracks'[c].on /\ ruled'[c] = G!App
       \/ /\ tracks'[c].on /\ tracks'[c].pointer = t[c].pointer
          /\ tracks'[c].claimed = ruled'[c]
          /\ t[c].claimed # G!App => ruled'[c] = t[c].claimed
          /\ t[c].claimed = G!App => ruled'[c] # "escape"

LEMMA RuleDecides ==
    ASSUME GestureInv, NEW t \in TrackTable, NEW c \in Contacts, t[c] \in Track, NEW ends \in BOOLEAN,
           G!Rule(t, c, ends)
    PROVE  RuledOn(t, c)
<1> DEFINE verdict == G!Verdict(t[c])
           claimed == IF verdict = G!App THEN t ELSE G!Claim(t, {c}, verdict)
<1>1. /\ verdict \in Gestures \union {G!App}
      /\ t[c].claimed # G!App => verdict = t[c].claimed
      /\ t[c].claimed = G!App => verdict # "escape"
  BY DEF G!Verdict, Track, Gestures, Edges, G!App
<1>2. /\ tracks' = IF ends THEN [claimed EXCEPT ![c] = G!NoTrack] ELSE claimed
      /\ ruled' = [ruled EXCEPT ![c] = IF ends THEN G!App ELSE verdict]
  BY DEF G!Rule
<1> HIDE DEF verdict
<1>3. [t[c] EXCEPT !.claimed = verdict] \in Track
  BY <1>1 DEF Track
<1>4. \A d \in Contacts : t[d] \in Track \union {G!NoTrack}
  BY DEF TrackTable
<1>5. claimed \in TrackTable /\ claimed[c] \in Track /\ \A d \in Contacts \ {c} : claimed[d] = t[d]
  <2>1. CASE verdict = G!App
    BY <2>1
  <2>2. CASE verdict # G!App
    BY <2>2, <1>3, <1>4 DEF G!Claim, TrackTable
  <2> QED
    BY <2>1, <2>2
<1>6. claimed[c].pointer = t[c].pointer /\ claimed[c].claimed = verdict /\ claimed[c].on
  <2>1. CASE verdict = G!App
    BY <2>1, <1>1 DEF Track
  <2>2. CASE verdict # G!App
    BY <2>2 DEF G!Claim, Track
  <2> QED
    BY <2>1, <2>2
<1> HIDE DEF claimed
<1>7. ruled \in [Contacts -> Gestures \union {G!App}]
  BY DEF GestureInv
<1>8. tracks' \in TrackTable /\ ruled' \in [Contacts -> Gestures \union {G!App}]
  BY <1>1, <1>2, <1>5, <1>7 DEF TrackTable
<1>9. \A d \in Contacts \ {c} : tracks'[d] = t[d] /\ ruled'[d] = ruled[d]
  BY <1>2, <1>5, <1>7 DEF TrackTable
<1>10. CASE ends
  <2>1. tracks'[c] = G!NoTrack /\ ruled'[c] = G!App
    BY <1>2, <1>5, <1>7, <1>10 DEF TrackTable
  <2> QED
    BY <2>1, <1>8, <1>9 DEF RuledOn, G!NoTrack
<1>11. CASE ~ends
  <2>1. tracks'[c] = claimed[c] /\ ruled'[c] = verdict
    BY <1>2, <1>7, <1>11
  <2> QED
    BY <2>1, <1>1, <1>6, <1>8, <1>9 DEF RuledOn
<1> QED
  BY <1>10, <1>11

(* Both actions: a contact is put on the glass or moved, a pinch may be       *)
(* confirmed, then the contact is ruled on.                                   *)
LEMMA EventIsRuled ==
    ASSUME GestureInv, G!GestureNext
    PROVE  \E c \in Contacts, u \in TrackTable :
              /\ u[c] \in Track
              /\ \A d \in Contacts \ {c} : u[d] = tracks[d]
              /\ u[c].claimed = IF tracks[c].on THEN tracks[c].claimed ELSE G!App
              /\ RuledOn(G!ConfirmPinch(u), c)
<1>1. ASSUME NEW c \in Contacts, NEW u \in TrackTable, NEW ends \in BOOLEAN, u[c] \in Track,
             G!Rule(G!ConfirmPinch(u), c, ends)
      PROVE  RuledOn(G!ConfirmPinch(u), c)
  <2>1. G!ConfirmPinch(u) \in TrackTable
    BY PinchTakesAHandful
  <2>2. [u[c] EXCEPT !.claimed = "escape"] \in Track
    BY <1>1 DEF Track, Gestures
  <2>3. G!ConfirmPinch(u)[c] \in Track
    BY <1>1, <2>2, PinchTakesAHandful
  <2> QED
    BY <1>1, <2>1, <2>3, RuleDecides
<1>2. tracks \in TrackTable /\ \A c \in Contacts : tracks[c] \in Track \union {G!NoTrack}
  BY DEF GestureInv, TrackTable
<1>3. CASE G!Down
  <2>1. PICK c \in Contacts, p \in Points, pointer \in {"touch", "pen"} :
          /\ ~tracks[c].on
          /\ G!Rule(G!ConfirmPinch([tracks EXCEPT ![c] =
                [on |-> TRUE, pointer |-> pointer, origin |-> p, last |-> p,
                 edge |-> G!EdgeOf(p), claimed |-> G!App]]), c, FALSE)
    BY <1>3 DEF G!Down
  <2> DEFINE new == [on |-> TRUE, pointer |-> pointer, origin |-> p, last |-> p,
                     edge |-> G!EdgeOf(p), claimed |-> G!App]
             u == [tracks EXCEPT ![c] = new]
  <2>2. new \in Track /\ new.claimed = G!App
    BY EdgeIsAnEdge DEF Track
  <2> HIDE DEF new
  <2>3. u \in TrackTable /\ u[c] = new /\ \A d \in Contacts \ {c} : u[d] = tracks[d]
    BY <1>2, <2>2 DEF TrackTable
  <2>4. G!Rule(G!ConfirmPinch(u), c, FALSE)
    BY <2>1 DEF new
  <2> HIDE DEF u
  <2>5. RuledOn(G!ConfirmPinch(u), c)
    BY <1>1, <2>2, <2>3, <2>4
  <2> QED
    BY <2>1, <2>2, <2>3, <2>5
<1>4. CASE G!MovedOrEnded
  <2>1. PICK c \in G!Live(tracks), p \in Points, ends \in BOOLEAN :
          G!Rule(G!ConfirmPinch([tracks EXCEPT ![c].last = p]), c, ends)
    BY <1>4 DEF G!MovedOrEnded
  <2>2. c \in Contacts /\ tracks[c].on /\ tracks[c] \in Track
    BY <1>2 DEF G!Live, G!NoTrack
  <2> DEFINE new == [tracks[c] EXCEPT !.last = p]
             u == [tracks EXCEPT ![c].last = p]
  <2>3. new \in Track /\ new.claimed = tracks[c].claimed
    BY <2>2 DEF Track
  <2>4. u = [tracks EXCEPT ![c] = new]
    OBVIOUS
  <2> HIDE DEF new
  <2>5. u \in TrackTable /\ u[c] = new /\ \A d \in Contacts \ {c} : u[d] = tracks[d]
    BY <1>2, <2>2, <2>3, <2>4 DEF TrackTable
  <2> HIDE DEF u
  <2>6. RuledOn(G!ConfirmPinch(u), c)
    BY <1>1, <2>1, <2>2, <2>3, <2>5 DEF u
  <2> QED
    BY <2>2, <2>3, <2>5, <2>6
<1> QED
  BY <1>3, <1>4 DEF G!GestureNext

StaysRuled ==
    \A c \in Contacts : ruled[c] # G!App /\ tracks'[c].on => ruled'[c] = ruled[c]

Escaped ==
    {c \in G!Live(tracks') : tracks'[c].claimed = "escape" /\ ~(tracks[c].on /\ tracks[c].claimed = "escape")}

LEMMA GestureStep ==
    ASSUME ContactsAssumption, GestureInv, G!GestureNext
    PROVE  /\ GestureInv' /\ StaysRuled
           /\ \A c \in Escaped : tracks'[c].pointer = "touch"
           /\ Escaped # {} => Cardinality(Escaped) >= MIN_PINCH_FINGERS - 1
<1>1. PICK c \in Contacts, u \in TrackTable :
         /\ u[c] \in Track
         /\ \A d \in Contacts \ {c} : u[d] = tracks[d]
         /\ u[c].claimed = IF tracks[c].on THEN tracks[c].claimed ELSE G!App
         /\ RuledOn(G!ConfirmPinch(u), c)
  BY EventIsRuled
<1> DEFINE t == G!ConfirmPinch(u)
           hand == G!UnclaimedTouches(u)
<1>2. /\ t \in TrackTable
      /\ \/ t = u
         \/ /\ Cardinality(hand) >= MIN_PINCH_FINGERS
            /\ \A d \in hand : t[d] = [u[d] EXCEPT !.claimed = "escape"]
            /\ \A d \in Contacts \ hand : t[d] = u[d]
  BY PinchTakesAHandful
<1>3. hand \subseteq Contacts /\ \A d \in hand : u[d].on /\ u[d].pointer = "touch" /\ u[d].claimed = G!App
  BY DEF G!UnclaimedTouches, G!Live
<1>4. RuledOn(t, c)
  BY <1>1
<1> HIDE DEF t, hand
<1>5. /\ tracks \in TrackTable
      /\ \A d \in Contacts : tracks[d] \in Track \union {G!NoTrack} /\ u[d] \in Track \union {G!NoTrack}
  BY DEF GestureInv, TrackTable
<1>6. \A d \in hand : /\ t[d].claimed = "escape" /\ t[d].pointer = "touch" /\ t[d].on
                      \/ t = u
  <2> SUFFICES ASSUME NEW d \in hand, t # u
               PROVE  t[d].claimed = "escape" /\ t[d].pointer = "touch" /\ t[d].on
    OBVIOUS
  <2>1. u[d] \in Track
    BY <1>3, <1>5 DEF G!NoTrack
  <2>2. t[d] = [u[d] EXCEPT !.claimed = "escape"]
    BY <1>2
  <2> QED
    BY <2>1, <2>2, <1>3 DEF Track
(* What nobody had taken is all that this step takes.                         *)
<1>7. \A d \in Contacts : tracks[d].on /\ tracks[d].claimed # G!App => t[d] = u[d]
  BY <1>1, <1>2, <1>3
<1>8. \A d \in Contacts : ruled[d] # G!App => tracks[d].on /\ tracks[d].claimed = ruled[d]
  BY DEF GestureInv
<1>9. GestureInv'
  <2>1. \A d \in Contacts \ {c} : ruled'[d] # G!App => tracks'[d].on /\ tracks'[d].claimed = ruled'[d]
    BY <1>1, <1>4, <1>7, <1>8 DEF RuledOn
  <2>2. ruled'[c] # G!App => tracks'[c].on /\ tracks'[c].claimed = ruled'[c]
    BY <1>4 DEF RuledOn
  <2> QED
    BY <2>1, <2>2, <1>4 DEF RuledOn, GestureInv
<1>10. StaysRuled
  <2> SUFFICES ASSUME NEW d \in Contacts, ruled[d] # G!App, tracks'[d].on
               PROVE  ruled'[d] = ruled[d]
    BY DEF StaysRuled
  <2>1. tracks[d].on /\ tracks[d].claimed = ruled[d] /\ t[d] = u[d]
    BY <1>7, <1>8
  <2>2. CASE d = c
    BY <2>1, <2>2, <1>1, <1>4 DEF RuledOn
  <2>3. CASE d # c
    BY <2>3, <1>4 DEF RuledOn
  <2> QED
    BY <2>2, <2>3
<1>11. \A d \in Escaped : d \in hand /\ t # u
  <2> SUFFICES ASSUME NEW d \in Escaped PROVE d \in hand /\ t # u
    OBVIOUS
  <2>1. /\ d \in Contacts /\ tracks'[d].on /\ tracks'[d].claimed = "escape"
        /\ ~(tracks[d].on /\ tracks[d].claimed = "escape")
    BY DEF Escaped, G!Live
  <2>2. CASE d = c
    <3>1. ruled'[d] = "escape"
      BY <2>1, <2>2, <1>4 DEF RuledOn
    <3>2. t[d].claimed = "escape"
      BY <3>1, <2>1, <2>2, <1>4 DEF RuledOn
    <3>3. u[d].claimed # "escape"
      BY <2>1, <2>2, <1>1 DEF G!App
    <3> QED
      BY <3>2, <3>3, <2>1, <1>2
  <2>3. CASE d # c
    <3>1. t[d] = tracks'[d] /\ u[d] = tracks[d]
      BY <2>1, <2>3, <1>1, <1>4 DEF RuledOn
    <3> QED
      BY <3>1, <2>1, <1>2
  <2> QED
    BY <2>2, <2>3
<1>12. \A d \in Escaped : tracks'[d].pointer = "touch"
  <2> SUFFICES ASSUME NEW d \in Escaped PROVE tracks'[d].pointer = "touch"
    OBVIOUS
  <2>1. d \in Contacts /\ tracks'[d].on
    BY DEF Escaped, G!Live
  <2>2. tracks'[d].pointer = t[d].pointer
    BY <2>1, <1>4 DEF RuledOn
  <2> QED
    BY <2>2, <1>6, <1>11
<1>13. ASSUME Escaped # {} PROVE Cardinality(Escaped) >= MIN_PINCH_FINGERS - 1
  <2>1. Cardinality(hand) >= MIN_PINCH_FINGERS /\ t # u
    BY <1>13, <1>11, <1>2
  <2>2. hand \ {c} \subseteq Escaped
    <3> SUFFICES ASSUME NEW d \in hand, d # c PROVE d \in Escaped
      OBVIOUS
    <3>1. d \in Contacts /\ tracks'[d] = t[d] /\ tracks[d] = u[d]
      BY <1>1, <1>3, <1>4 DEF RuledOn
    <3> QED
      BY <3>1, <2>1, <1>3, <1>6 DEF Escaped, G!Live, G!App
  <2>3. IsFiniteSet(hand) /\ IsFiniteSet(Escaped)
    <3>1. Escaped \subseteq Contacts
      BY DEF Escaped, G!Live
    <3> QED
      BY <3>1, <1>3, FS_Subset, ContactsAssumption
  <2>4. /\ IsFiniteSet(hand \ {c})
        /\ Cardinality(hand \ {c}) = IF c \in hand THEN Cardinality(hand) - 1 ELSE Cardinality(hand)
    BY <2>3, FS_RemoveElement
  <2>5. Cardinality(hand \ {c}) <= Cardinality(Escaped)
    BY <2>2, <2>3, FS_Subset
  <2>6. Cardinality(hand) \in Nat /\ Cardinality(Escaped) \in Nat /\ MIN_PINCH_FINGERS \in Nat
    BY <2>3, FS_CardinalityType, ContactsAssumption
  <2> QED
    BY <2>1, <2>4, <2>5, <2>6
<1> QED
  BY <1>9, <1>10, <1>12, <1>13

(* GesturesAreFinal: a contact the system took stays with the same gesture    *)
(* until it lifts, and leaving an app by a pinch takes a handful of touches   *)
(* at once (GestureDetector::arbitrate in gesture.rs).                        *)
THEOREM GesturesStayFinal == Spec => GesturesAreFinal
<1> USE ContactsAssumption
<1>1. Init => GestureInv
  BY DEF Init, G!GestureInit, GestureInv, TrackTable
<1>2. GestureInv /\ [Next]_vars =>
        /\ GestureInv'
        /\ [\A c \in Contacts : ruled[c] # G!App /\ tracks'[c].on => ruled'[c] = ruled[c]]_(G!gvars)
        /\ [LET taken == {c \in G!Live(tracks') :
                            tracks'[c].claimed = "escape" /\ ~(tracks[c].on /\ tracks[c].claimed = "escape")}
            IN  /\ \A c \in taken : tracks'[c].pointer = "touch"
                /\ taken # {} => G!Cardinality(taken) >= MIN_PINCH_FINGERS - 1]_(G!gvars)
  <2> SUFFICES ASSUME GestureInv, [Next]_vars
               PROVE  /\ GestureInv'
                      /\ StaysRuled \/ UNCHANGED gesture
                      /\ \/ /\ \A c \in Escaped : tracks'[c].pointer = "touch"
                            /\ Escaped # {} => Cardinality(Escaped) >= MIN_PINCH_FINGERS - 1
                         \/ UNCHANGED gesture
    BY SameCardinality DEF StaysRuled, Escaped, gesture, G!gvars
  <2>1. CASE G!GestureNext
    BY <2>1, GestureStep
  <2>2. CASE UNCHANGED gesture
    BY <2>2 DEF gesture, GestureInv
  <2>3. G!GestureNext \/ UNCHANGED gesture
    BY DEF Next, vars
  <2> QED
    BY <2>1, <2>2, <2>3
<1> QED
  BY <1>1, <1>2, PTL DEF Spec, GesturesAreFinal, G!ClaimIsFinal, G!EscapeIsAHandful

-----------------------------------------------------------------------------
(* The panel bridge. *)
(* Rectangles of whole pixels, and marks in half pixels. *)
Rects == [x : Int, y : Int, w : Nat, h : Nat]
InHalves == [x : Int, y : Int, w : Int, h : Int]

LEMMA LeastAndMost ==
    ASSUME NEW a \in Int, NEW b \in Int
    PROVE  /\ E!Min({a, b}) \in Int /\ E!Min({a, b}) <= a /\ E!Min({a, b}) <= b
           /\ E!Max({a, b}) \in Int /\ E!Max({a, b}) >= a /\ E!Max({a, b}) >= b
  <1>1. CASE a <= b
    <2>1. a \in {a, b} /\ \A y \in {a, b} : a <= y
      BY <1>1
    <2>2. b \in {a, b} /\ \A y \in {a, b} : b >= y
      BY <1>1
    <2> QED
      BY <2>1, <2>2 DEF E!Min, E!Max
  <1>2. CASE b <= a
    <2>1. b \in {a, b} /\ \A y \in {a, b} : b <= y
      BY <1>2
    <2>2. a \in {a, b} /\ \A y \in {a, b} : a >= y
      BY <1>2
    <2> QED
      BY <2>1, <2>2 DEF E!Min, E!Max
  <1> QED
    BY <1>1, <1>2

LEMMA EnclosingIsARect ==
    ASSUME W \in Nat, H \in Nat, NEW m \in InHalves
    PROVE  E!Enclosing(m) \in Rects
  <1> DEFINE left == E!Clamp(E!Floor(m.x), W)
             top == E!Clamp(E!Floor(m.y), H)
             right == E!Clamp(E!Ceil(m.x + m.w), W)
             bottom == E!Clamp(E!Ceil(m.y + m.h), H)
  <1>1. /\ m.x \in Int /\ m.y \in Int /\ m.x + m.w \in Int /\ m.y + m.h \in Int
        /\ W \in Int /\ H \in Int
    BY DEF InHalves
  <1>2. \A v \in Int : E!Floor(v) \in Int /\ E!Ceil(v) \in Int
    BY DEF E!Floor, E!Ceil
  <1>3. left \in Int /\ top \in Int /\ right \in Int /\ bottom \in Int
    BY <1>1, <1>2 DEF E!Clamp
  <1>4. E!Enclosing(m) = IF m.w <= 0 \/ m.h <= 0 THEN E!Empty ELSE E!Span(left, top, right, bottom)
    BY DEF E!Enclosing
  <1> HIDE DEF left, top, right, bottom
  <1>5. E!Span(left, top, right, bottom) \in Rects /\ E!Empty \in Rects
    BY <1>3 DEF E!Span, E!Empty, Rects
  <1> QED
    BY <1>4, <1>5

(* Outward to whole pixels: floor and ceiling keep every pixel that is cut. *)
LEMMA Outward ==
    ASSUME NEW v \in Int, NEW p \in Int
    PROVE  /\ v < 2 * p + 2 => E!Floor(v) <= p
           /\ v > 2 * p => E!Ceil(v) >= p + 1
  BY DEF E!Floor, E!Ceil

LEMMA EnclosingCovers ==
    ASSUME W \in Nat, H \in Nat, NEW m \in InHalves, NEW p \in E!Pixel, E!Overlaps(p, m)
    PROVE  p \in E!Within(E!Enclosing(m))
  <1> DEFINE left == E!Clamp(E!Floor(m.x), W)
             top == E!Clamp(E!Floor(m.y), H)
             right == E!Clamp(E!Ceil(m.x + m.w), W)
             bottom == E!Clamp(E!Ceil(m.y + m.h), H)
  <1>1. /\ m.x \in Int /\ m.y \in Int /\ m.w \in Int /\ m.h \in Int
        /\ p[1] \in 0 .. W - 1 /\ p[2] \in 0 .. H - 1
    BY DEF InHalves, E!Pixel
  <1>2. \A v \in Int : E!Floor(v) \in Int /\ E!Ceil(v) \in Int
    BY DEF E!Floor, E!Ceil
  <1>3. /\ E!Floor(m.x) <= p[1] /\ E!Ceil(m.x + m.w) >= p[1] + 1
        /\ E!Floor(m.y) <= p[2] /\ E!Ceil(m.y + m.h) >= p[2] + 1
    BY <1>1, Outward DEF E!Overlaps
  <1>4. /\ left \in Int /\ left <= p[1] /\ right \in Int /\ right >= p[1] + 1
        /\ top \in Int /\ top <= p[2] /\ bottom \in Int /\ bottom >= p[2] + 1
    BY <1>1, <1>2, <1>3 DEF E!Clamp
  <1>5. E!Enclosing(m) = E!Span(left, top, right, bottom)
    BY <1>1 DEF E!Overlaps, E!Enclosing
  <1> HIDE DEF left, top, right, bottom
  <1> QED
    BY <1>1, <1>4, <1>5 DEF E!Span, E!Within

LEMMA UnionCovers ==
    ASSUME NEW a \in Rects, NEW b \in Rects
    PROVE  /\ E!Union(a, b) \in Rects
           /\ E!Within(a) \subseteq E!Within(E!Union(a, b))
           /\ E!Within(b) \subseteq E!Within(E!Union(a, b))
  <1>1. CASE E!IsEmpty(a)
    BY <1>1 DEF E!Union, E!IsEmpty, E!Within, E!Pixel, Rects
  <1>2. CASE E!IsEmpty(b)
    BY <1>2 DEF E!Union, E!IsEmpty, E!Within, E!Pixel, Rects
  <1>3. CASE ~E!IsEmpty(a) /\ ~E!IsEmpty(b)
    <2> DEFINE left == E!Min({a.x, b.x})
               top == E!Min({a.y, b.y})
               right == E!Max({a.x + a.w, b.x + b.w})
               bottom == E!Max({a.y + a.h, b.y + b.h})
    <2>1. /\ a.x \in Int /\ a.y \in Int /\ a.w \in Int /\ a.h \in Int
          /\ b.x \in Int /\ b.y \in Int /\ b.w \in Int /\ b.h \in Int
      BY DEF Rects
    <2>2. /\ left \in Int /\ left <= a.x /\ left <= b.x
          /\ top \in Int /\ top <= a.y /\ top <= b.y
          /\ right \in Int /\ right >= a.x + a.w /\ right >= b.x + b.w
          /\ bottom \in Int /\ bottom >= a.y + a.h /\ bottom >= b.y + b.h
      <3>1. a.x + a.w \in Int /\ b.x + b.w \in Int /\ a.y + a.h \in Int /\ b.y + b.h \in Int
        BY <2>1
      <3>2. left \in Int /\ left <= a.x /\ left <= b.x
        BY <2>1, LeastAndMost
      <3>3. top \in Int /\ top <= a.y /\ top <= b.y
        BY <2>1, LeastAndMost
      <3>4. right \in Int /\ right >= a.x + a.w /\ right >= b.x + b.w
        BY <3>1, LeastAndMost
      <3>5. bottom \in Int /\ bottom >= a.y + a.h /\ bottom >= b.y + b.h
        BY <3>1, LeastAndMost
      <3> QED
        BY <3>2, <3>3, <3>4, <3>5
    <2>3. E!Union(a, b) = E!Span(left, top, right, bottom)
      BY <1>3 DEF E!Union
    <2> HIDE DEF left, top, right, bottom
    <2>4. E!Union(a, b) \in Rects
      BY <2>2, <2>3 DEF E!Span, Rects
    <2>5. ASSUME NEW p \in E!Pixel, p \in E!Within(a) \/ p \in E!Within(b)
          PROVE  p \in E!Within(E!Union(a, b))
      BY <2>1, <2>2, <2>3, <2>5 DEF E!Span, E!Within, E!Pixel
    <2> QED
      BY <2>4, <2>5 DEF E!Within
  <1> QED
    BY <1>1, <1>2, <1>3

(* One rectangle for everything a frame claims covers each of its claims. *)
LEMMA CoveringCovers ==
    ASSUME W \in Nat, H \in Nat, NEW damage, ~damage.full, IsFiniteSet(damage.regions),
           damage.regions \subseteq InHalves
    PROVE  /\ E!Covering(damage) \in Rects
           /\ \A m \in damage.regions : E!Within(E!Enclosing(m)) \subseteq E!Within(E!Covering(damage))
  <1> DEFINE regions == damage.regions
             c(s) == CHOOSE x \in s : TRUE
             Sweeps(g) == g = [s \in SUBSET regions |->
                               IF s = {} THEN E!Empty ELSE E!Union(g[s \ {c(s)}], E!Enclosing(c(s)))]
  <1>0. IsFiniteSet(regions) /\ regions \subseteq InHalves
    OBVIOUS
  <1>2. E!Covering(damage) = (CHOOSE g : Sweeps(g))[regions]
    BY DEF E!Covering, E!FoldSet, E!MapThenFoldSet
  <1> HIDE DEF regions
  <1>1. \E g \in [SUBSET regions -> Rects] : Sweeps(g)
    <2> DEFINE op == [q \in regions \X Rects |-> E!Union(q[2], E!Enclosing(q[1]))]
    <2>1. E!Empty \in Rects /\ op \in [regions \X Rects -> Rects]
      BY <1>0, EnclosingIsARect, UnionCovers DEF E!Empty, Rects
    <2> DEFINE k == [s \in (SUBSET regions) \ {{}} |-> c(s)]
    <2>2. \A s \in SUBSET regions : s /= {} => c(s) \in s
      OBVIOUS
    <2>3. k \in Choices(regions)
      <3> HIDE DEF c
      <3> QED
        BY <2>2 DEF Choices
    <2>4. PICK g \in [SUBSET regions -> Rects] :
             /\ g[{}] = E!Empty
             /\ \A s \in (SUBSET regions) \ {{}} : g[s] = op[<<k[s], g[s \ {k[s]}]>>]
      <3> HIDE DEF op, k
      <3>1. FoldsOf(regions, Rects, E!Empty, op, k) /= {}
        BY <1>0, <2>1, <2>3, FoldExists
      <3> QED
        BY <3>1 DEF FoldsOf
    <2>5. ASSUME NEW s \in (SUBSET regions) \ {{}}
          PROVE  g[s] = E!Union(g[s \ {c(s)}], E!Enclosing(c(s)))
      <3> HIDE DEF c
      <3> QED
        BY <2>2, <2>4
    <2>6. Sweeps(g)
      <3> HIDE DEF c
      <3>1. \A s \in SUBSET regions :
              g[s] = IF s = {} THEN E!Empty ELSE E!Union(g[s \ {c(s)}], E!Enclosing(c(s)))
        BY <2>4, <2>5
      <3> QED
        BY <3>1
    <2> QED
      BY <2>6
  <1> DEFINE sweep == CHOOSE g : Sweeps(g)
  <1>3. Sweeps(sweep)
    BY <1>1
  <1>4. \A s \in SUBSET regions : s /= {} => c(s) \in s
    OBVIOUS
  <1> HIDE DEF sweep, c
  <1> DEFINE Good == {s \in SUBSET regions :
                       /\ sweep[s] \in Rects
                       /\ \A n \in s : E!Within(E!Enclosing(n)) \subseteq E!Within(sweep[s])}
  <1>5. ASSUME NEW s \in SUBSET regions, \A x \in s : s \ {x} \in Good
        PROVE  s \in Good
    <2>1. CASE s = {}
      BY <1>3, <2>1 DEF E!Empty, Rects
    <2>2. CASE s /= {}
      <3> DEFINE rest == s \ {c(s)}
      <3>1. c(s) \in s /\ rest \in Good
        BY <1>4, <1>5, <2>2
      <3>2. sweep[s] = E!Union(sweep[rest], E!Enclosing(c(s)))
        BY <1>3, <2>2
      <3>3. sweep[rest] \in Rects /\ E!Enclosing(c(s)) \in Rects
        BY <1>0, <3>1, EnclosingIsARect
      <3>4. /\ sweep[s] \in Rects
            /\ E!Within(sweep[rest]) \subseteq E!Within(sweep[s])
            /\ E!Within(E!Enclosing(c(s))) \subseteq E!Within(sweep[s])
        BY <3>2, <3>3, UnionCovers
      <3>5. \A n \in s : n = c(s) \/ n \in rest
        OBVIOUS
      <3>6. \A n \in rest : E!Within(E!Enclosing(n)) \subseteq E!Within(sweep[rest])
        BY <3>1
      <3>7. \A n \in s : E!Within(E!Enclosing(n)) \subseteq E!Within(sweep[s])
        <4> HIDE DEF rest
        <4> QED
          BY <3>4, <3>5, <3>6
      <3> QED
        BY <3>4, <3>7
    <2> QED
      BY <2>1, <2>2
  <1>6. regions \in Good
    <2> HIDE DEF Good
    <2> QED
      BY <1>0, <1>5, SubsetInduction
  <1>7. E!Covering(damage) = sweep[regions]
    BY <1>2 DEF sweep
  <1> QED
    BY <1>6, <1>7 DEF regions

-----------------------------------------------------------------------------
(* The panel bridge. *)
Shades == {"paper", "ink", "grey"}

EngineTypes ==
    /\ canvas \in [E!Pixel -> Shades]
    /\ epGlass \in [E!Pixel -> Shades \union {"stock"}]
    /\ ram \in [1 .. 2 -> [E!Cell -> Shades]]
    /\ claims \in [full : BOOLEAN, regions : SUBSET Strokes] /\ IsFiniteSet(claims.regions)
    /\ engine \in [stride : {W, W + 1}, at : 1 .. 2, ours : BOOLEAN, stock : BOOLEAN,
                   table : BOOLEAN, surface : BOOLEAN]
    /\ epBridge \in 0 .. 2
    /\ DOMAIN hold = DOMAIN E!Presenter
    /\ hold.real \in BOOLEAN /\ hold.shown \in BOOLEAN

(* Nothing a frame would have to bring is missing from its claims. *)
Claimed(p) == claims.full \/ \E m \in claims.regions : E!Overlaps(p, m)

ClaimInv ==
    /\ hold.pc = "start" => claims.full
    /\ hold.pc = "ready" /\ hold.real =>
          \A p \in E!Pixel : ~Claimed(p) => ram[engine.at][p] = canvas[p] /\ epGlass[p] = canvas[p]

(* What was read back matched because it is the engine's image, and the       *)
(* record says no more than that.                                             *)
ReportInv ==
    /\ hold.pc = "readback" => \E p \in E!Pixel : hold.sent[p] /= "paper"
    /\ hold.real /\ hold.match /= {} => hold.truth
    /\ hold.pc \in {"start", "ready", "readback"} => hold.match = {}
    /\ file.holds = "true" =>
          hold.pc \in {"done", "exited"} /\ file.real = hold.real /\ hold.match /= {}
    /\ parent /= "waiting" => hold.pc = "exited"
    /\ parent = "holds" => hold.truth

EngineInv == EngineTypes /\ ClaimInv /\ ReportInv /\ E!GlassFollowsClaims

LEMMA PanelSize == W \in Nat \ {0} /\ H \in Nat \ {0} /\ Strokes \subseteq InHalves
  BY PanelAssumption DEF InHalves

LEMMA EngineInvInit == Init => EngineInv
  <1> SUFFICES ASSUME E!EngineInit PROVE EngineInv
    BY DEF Init
  <1>1. EngineTypes
    <2>1. IsFiniteSet({})
      BY FS_EmptySet
    <2>2. E!Full \in [full : BOOLEAN, regions : SUBSET Strokes] /\ E!Full.regions = {}
      BY DEF E!Full
    <2>3. E!White \in [E!Cell -> Shades]
      BY DEF E!White, Shades
    <2> QED
      BY <2>1, <2>2, <2>3 DEF EngineTypes, E!EngineInit, E!Presenter, Shades
  <1>2. ClaimInv
    BY DEF E!EngineInit, ClaimInv, Claimed, E!Full
  <1>3. ReportInv
    BY DEF E!EngineInit, ReportInv, E!Presenter, E!NoFile
  <1>4. E!GlassFollowsClaims
    BY DEF E!EngineInit, E!GlassFollowsClaims, E!Presenter
  <1> QED
    BY <1>1, <1>2, <1>3, <1>4 DEF EngineInv

(* The whole panel is every pixel, and there is one. *)
LEMMA WholeIsWhole ==
    /\ E!Within(E!Whole) = E!Pixel /\ ~E!IsEmpty(E!Whole) /\ E!FitsIn(E!Whole)
    /\ E!Pixel \subseteq E!Cell /\ E!Pixel /= {}
  <1>1. E!Within(E!Whole) = E!Pixel
    BY PanelSize DEF E!Within, E!Whole, E!Pixel
  <1>2. ~E!IsEmpty(E!Whole) /\ E!FitsIn(E!Whole)
    BY PanelSize DEF E!IsEmpty, E!FitsIn, E!Whole
  <1>3. E!Pixel \subseteq E!Cell
    BY PanelSize DEF E!Pixel, E!Cell
  <1>4. <<0, 0>> \in E!Pixel
    BY PanelSize DEF E!Pixel
  <1> QED
    BY <1>1, <1>2, <1>3, <1>4

(* A frame looks drawn only if some pixel of it is not paper. *)
LEMMA DrawnIsNotPaper ==
    ASSUME NEW image, E!LooksDrawn(image)
    PROVE  \E p \in E!Pixel : image[p] /= "paper"
  <1> DEFINE inked == {p \in E!Pixel : image[p] /= "paper"}
  <1>1. E!InkCoverage(image) = Cardinality(inked)
    BY DEF E!InkCoverage, E!Cardinality, Cardinality
  <1>2. 10 * W * H > 0
    BY PanelSize
  <1>3. ASSUME inked = {} PROVE FALSE
    <2>1. Cardinality(inked) = 0
      <3> HIDE DEF inked
      <3> QED
        BY <1>3, FS_EmptySet
    <2> QED
      BY <1>1, <1>2, <2>1, PanelSize DEF E!LooksDrawn
  <1> QED
    BY <1>3

(* A frame covers every pixel that was claimed, and is not empty if one was. *)
LEMMA FrameCovers ==
    ASSUME EngineTypes, NEW p \in E!Pixel, Claimed(p)
    PROVE  p \in E!Within(E!Covering(claims)) /\ ~E!IsEmpty(E!Covering(claims))
  <1>1. CASE claims.full
    BY <1>1, WholeIsWhole DEF E!Covering
  <1>2. CASE ~claims.full
    <2>1. PICK m \in claims.regions : E!Overlaps(p, m)
      BY <1>2 DEF Claimed
    <2>2. /\ IsFiniteSet(claims.regions) /\ claims.regions \subseteq InHalves
          /\ m \in InHalves /\ W \in Nat /\ H \in Nat
      BY PanelSize DEF EngineTypes
    <2>3. p \in E!Within(E!Enclosing(m))
      BY <2>1, <2>2, EnclosingCovers
    <2>4. p \in E!Within(E!Covering(claims)) /\ E!Covering(claims) \in Rects
      BY <1>2, <2>2, <2>3, CoveringCovers
    <2>5. ~E!IsEmpty(E!Covering(claims))
      BY <2>4 DEF E!Within, E!IsEmpty, E!Pixel, Rects
    <2> QED
      BY <2>4, <2>5
  <1> QED
    BY <1>1, <1>2

LEMMA BlitType ==
    ASSUME EngineTypes, NEW area, NEW target \in [E!Cell -> Shades]
    PROVE  /\ E!Blit(canvas, area, target) \in [E!Cell -> Shades]
           /\ \A p \in E!Pixel :
                E!Blit(canvas, area, target)[p] = IF p \in E!Within(area) THEN canvas[p] ELSE target[p]
  <1>1. E!Within(area) \subseteq E!Pixel /\ E!Pixel \subseteq E!Cell
    BY WholeIsWhole DEF E!Within
  <1> QED
    BY <1>1 DEF E!Blit, EngineTypes

LEMMA CopiedType ==
    ASSUME EngineTypes, NEW area
    PROVE  E!Copied(area) \in [1 .. 2 -> [E!Cell -> Shades]]
  <1>1. CASE epBridge = 0
    <2> DEFINE blit == E!Blit(canvas, area, ram[epBridge])
               after == E!Copied(area)
    <2>1. after = [ram EXCEPT ![epBridge] = blit]
      BY DEF E!Copied
    <2> HIDE DEF blit, after
    <2>2. 0 \notin 1 .. 2 /\ ram \in [1 .. 2 -> [E!Cell -> Shades]]
      BY DEF EngineTypes
    <2>3. after = ram
      BY <1>1, <2>1, <2>2
    <2> QED
      BY <2>2, <2>3 DEF after
  <1>2. CASE epBridge \in 1 .. 2
    <2>1. E!Blit(canvas, area, ram[epBridge]) \in [E!Cell -> Shades]
      BY <1>2, BlitType DEF EngineTypes
    <2> QED
      BY <1>2, <2>1 DEF E!Copied, EngineTypes
  <1> QED
    BY <1>1, <1>2 DEF EngineTypes

(* What presenting a rectangle does, when it says that it did. *)
Brings(out, area, all) ==
    /\ out.ok \in BOOLEAN /\ out.drove \in BOOLEAN
    /\ out.ram \in [1 .. 2 -> [E!Cell -> Shades]]
    /\ out.glass \in [E!Pixel -> Shades \union {"stock"}]
    /\ out.drove => out.ok /\ hold.real
    /\ ~out.drove => out.glass = epGlass
    /\ hold.real /\ out.ok =>
          \/ E!IsEmpty(area) /\ ~out.drove /\ out.ram = ram
          \/ /\ out.drove
             /\ \A p \in E!Pixel :
                  /\ out.ram[engine.at][p] = IF p \in E!Within(area) THEN canvas[p]
                                             ELSE ram[engine.at][p]
                  /\ out.glass[p] = IF all \/ p \in E!Within(area)
                                    THEN out.ram[engine.at][p] ELSE epGlass[p]

LEMMA Presenting ==
    ASSUME EngineTypes, NEW area, NEW mode \in {0, 2, 3, 4}, NEW all \in BOOLEAN
    PROVE  Brings(E!Outcome(area, mode, all), area, all)
  <1> DEFINE out == E!Outcome(area, mode, all)
  <1>0. out = E!Outcome(area, mode, all)
    OBVIOUS
  <1> HIDE DEF out
  <1> SUFFICES Brings(out, area, all)
    BY <1>0
  <1> USE DEF Brings
  <1>1. CASE ~hold.real
    <2>1. out = E!PresentedInMemory(area)
      BY <1>0, <1>1 DEF E!Outcome
    <2>2. E!Blit(canvas, area, ram[1]) \in [E!Cell -> Shades]
      BY BlitType DEF EngineTypes
    <2>3. out.ram \in [1 .. 2 -> [E!Cell -> Shades]]
      BY <2>1, <2>2 DEF EngineTypes, E!PresentedInMemory
    <2>4. out.ok \in BOOLEAN /\ out.drove = FALSE /\ out.glass = epGlass
      BY <2>1 DEF E!PresentedInMemory, E!FitsIn
    <2> QED
      BY <1>1, <2>3, <2>4 DEF EngineTypes
  <1>2. CASE hold.real
    <2>1. out = E!Presented(area, mode, all)
      BY <1>0, <1>2 DEF E!Outcome
    <2>2. CASE E!IsEmpty(area) /\ E!FitsIn(area)
      BY <1>2, <2>1, <2>2 DEF E!Presented, EngineTypes
    <2>3. CASE ~(E!IsEmpty(area) /\ E!FitsIn(area)) /\ ~E!Fits(area, engine.stride)
      BY <1>2, <2>1, <2>3 DEF E!Presented, EngineTypes
    <2>4. CASE ~(E!IsEmpty(area) /\ E!FitsIn(area)) /\ E!Fits(area, engine.stride)
      <3> DEFINE after == E!Copied(area)
      <3>1. out = E!Swapped(area, mode, all, after)
        BY <2>1, <2>4 DEF E!Presented
      <3>2. after \in [1 .. 2 -> [E!Cell -> Shades]]
        BY CopiedType
      <3>3. CASE ~(E!FitsIn(area) /\ E!Attached)
        BY <1>2, <3>1, <3>2, <3>3 DEF E!Swapped, EngineTypes
      <3>4. CASE E!FitsIn(area) /\ E!Attached
        <4>1. epBridge = engine.at /\ engine.at \in 1 .. 2
          BY <3>4 DEF E!Attached, EngineTypes
        <4>2. after[engine.at] = E!Blit(canvas, area, ram[engine.at])
          BY <4>1 DEF E!Copied, EngineTypes
        <4>3. \A p \in E!Pixel :
                after[engine.at][p] = IF p \in E!Within(area) THEN canvas[p] ELSE ram[engine.at][p]
          BY <4>1, <4>2, BlitType DEF EngineTypes
        <4>4. E!Known(mode)
          BY DEF E!Known
        <4> HIDE DEF after
        <4>5. out = [ok |-> TRUE, drove |-> TRUE, ram |-> after,
                     glass |-> E!Driven(area, mode, all, after[engine.at])]
          BY <3>1, <3>4, <4>4 DEF E!Swapped
        <4>6. after[engine.at] \in [E!Cell -> Shades] /\ E!Pixel \subseteq E!Cell
          BY <3>2, <4>1, WholeIsWhole
        <4>7. /\ out.glass \in [E!Pixel -> Shades \union {"stock"}]
              /\ \A p \in E!Pixel :
                   out.glass[p] = IF all \/ p \in E!Within(area) THEN after[engine.at][p] ELSE epGlass[p]
          BY <4>4, <4>5, <4>6 DEF E!Driven, EngineTypes
        <4> QED
          BY <1>2, <3>2, <4>3, <4>5, <4>7
      <3> QED
        BY <3>3, <3>4
    <2> QED
      BY <2>2, <2>3, <2>4
  <1> QED
    BY <1>1, <1>2 DEF EngineTypes

LEMMA DrawKeeps ==
    ASSUME EngineInv, NEW m \in Strokes, NEW colour \in {"ink", "paper"}, E!Draw(m, colour)
    PROVE  EngineInv'
  <1> USE DEF EngineInv
  <1>1. EngineTypes'
    <2>1. canvas' \in [E!Pixel -> Shades]
      BY DEF E!Draw, E!Fill, EngineTypes, Shades
    <2>2. claims' \in [full : BOOLEAN, regions : SUBSET Strokes] /\ IsFiniteSet(claims'.regions)
      <3>1. claims.regions \union {m} \in SUBSET Strokes /\ IsFiniteSet(claims.regions \union {m})
        BY FS_AddElement DEF EngineTypes
      <3> QED
        BY <3>1 DEF E!Draw, EngineTypes
    <2>3. DOMAIN hold' = DOMAIN E!Presenter /\ hold'.real \in BOOLEAN /\ hold'.shown \in BOOLEAN
      BY DEF E!Draw, EngineTypes, E!Presenter
    <2> QED
      BY <2>1, <2>2, <2>3 DEF E!Draw, EngineTypes
  <1>2. ClaimInv'
    <2> SUFFICES ASSUME hold.real, NEW p \in E!Pixel, ~Claimed(p)'
                 PROVE  ram[engine.at][p] = canvas'[p] /\ epGlass[p] = canvas'[p]
      BY DEF ClaimInv, E!Draw, EngineTypes, E!Presenter
    <2>1. claims' = IF claims.full THEN claims ELSE [claims EXCEPT !.regions = @ \union {m}]
      BY DEF E!Draw
    <2>2. ~Claimed(p) /\ ~E!Overlaps(p, m)
      BY <2>1 DEF Claimed, EngineTypes
    <2>3. ~E!Covers(m, p)
      <3>1. /\ m.x \in Int /\ m.y \in Int /\ m.w \in Int /\ m.h \in Int
            /\ p[1] \in Int /\ p[2] \in Int
        BY PanelSize DEF InHalves, E!Pixel
      <3> QED
        BY <2>2, <3>1 DEF E!Overlaps, E!Covers
    <2>4. canvas'[p] = canvas[p]
      BY <2>2, <2>3 DEF E!Draw, E!Fill
    <2> QED
      BY <2>2, <2>4 DEF ClaimInv, E!Draw
  <1>3. ReportInv'
    BY DEF E!Draw, ReportInv, EngineTypes, E!Presenter
  <1>4. E!GlassFollowsClaims'
    BY DEF E!Draw, E!GlassFollowsClaims, EngineTypes, E!Presenter
  <1> QED
    BY <1>1, <1>2, <1>3, <1>4

LEMMA FrameKeeps ==
    ASSUME EngineInv, NEW name \in DOMAIN E!Waveform, NEW all \in BOOLEAN,
           E!PresentFrame(name, all)
    PROVE  EngineInv'
  <1> DEFINE area == E!Covering(claims)
             out == E!Outcome(area, E!Waveform[name], all)
  <1>1. /\ hold.pc = "ready"
        /\ claims' = E!Nothing
        /\ ram' = out.ram
        /\ epGlass' = out.glass
        /\ hold' = [hold EXCEPT !.pc = IF out.ok THEN "ready" ELSE "failed",
                                !.shown = out.drove \/ (@ /\ out.ok)]
        /\ UNCHANGED <<canvas, engine, epBridge, file, parent, spent>>
    BY DEF E!PresentFrame
  <1>2. E!Waveform[name] \in {0, 2, 3, 4}
    BY DEF E!Waveform
  <1>3. Brings(out, area, all)
    BY <1>2, Presenting DEF EngineInv
  <1> HIDE DEF area, out
  <1> USE DEF Brings
  <1>4. /\ DOMAIN hold' = DOMAIN hold /\ hold'.real = hold.real
        /\ hold'.pc = (IF out.ok THEN "ready" ELSE "failed")
        /\ hold'.shown = (out.drove \/ (hold.shown /\ out.ok))
        /\ hold'.match = hold.match /\ hold'.truth = hold.truth
    BY <1>1, <1>3 DEF EngineInv, EngineTypes, E!Presenter
  <1>5. \A p \in E!Pixel : p \notin E!Within(area) => ~Claimed(p)
    BY FrameCovers DEF EngineInv, area
  <1>6. \A p \in E!Pixel : E!IsEmpty(area) => ~Claimed(p)
    BY FrameCovers DEF EngineInv, area
  <1>7. ASSUME out.ok, hold.real
        PROVE  \A p \in E!Pixel : out.ram[engine.at][p] = canvas[p] /\ out.glass[p] = canvas[p]
    BY <1>1, <1>3, <1>5, <1>6, <1>7 DEF EngineInv, ClaimInv
  <1>8. EngineTypes'
    <2>1. IsFiniteSet({})
      BY FS_EmptySet
    <2> QED
      BY <1>1, <1>3, <1>4, <2>1 DEF EngineInv, EngineTypes, E!Nothing
  <1>9. ClaimInv'
    BY <1>1, <1>4, <1>7 DEF ClaimInv
  <1>10. ReportInv'
    BY <1>1, <1>4 DEF EngineInv, ReportInv
  <1>11. E!GlassFollowsClaims'
    <2>1. ASSUME out.drove PROVE out.glass = canvas
      BY <1>3, <1>7, <2>1 DEF EngineInv, EngineTypes
    <2> QED
      BY <1>1, <1>3, <1>4, <2>1 DEF EngineInv, E!GlassFollowsClaims
  <1> QED
    BY <1>8, <1>9, <1>10, <1>11 DEF EngineInv

LEMMA HoldKeeps ==
    ASSUME EngineInv, E!HoldPresent
    PROVE  EngineInv'
  <1> USE DEF EngineInv
  <1>1. CASE ~E!LooksDrawn(canvas)
    <2>1. hold.pc = "ready" /\ hold' = [hold EXCEPT !.pc = "failed"]
      BY <1>1 DEF E!HoldPresent
    <2>2. UNCHANGED <<canvas, claims, engine, ram, epBridge, epGlass, file, parent>>
      BY <1>1 DEF E!HoldPresent
    <2> QED
      BY <2>1, <2>2 DEF EngineTypes, ClaimInv, ReportInv, E!GlassFollowsClaims, E!Presenter
  <1>2. CASE E!LooksDrawn(canvas)
    <2> DEFINE out == E!Outcome(E!Whole, E!Waveform.UI, TRUE)
    <2>1. /\ hold.pc = "ready"
          /\ claims' = E!Nothing /\ ram' = out.ram /\ epGlass' = out.glass
          /\ hold' = [hold EXCEPT !.pc = IF out.ok THEN "readback" ELSE "failed",
                                  !.sent = canvas, !.shown = out.drove]
          /\ UNCHANGED <<canvas, engine, epBridge, file, parent, spent>>
      BY <1>2 DEF E!HoldPresent
    <2>2. Brings(out, E!Whole, TRUE)
      <3>1. E!Waveform.UI \in {0, 2, 3, 4}
        BY DEF E!Waveform
      <3> QED
        BY <3>1, Presenting
    <2> HIDE DEF out
    <2> USE <2>2 DEF Brings
    <2>3. /\ DOMAIN hold' = DOMAIN hold /\ hold'.real = hold.real
          /\ hold'.pc = (IF out.ok THEN "readback" ELSE "failed")
          /\ hold'.shown = out.drove /\ hold'.sent = canvas
          /\ hold'.match = hold.match /\ hold'.truth = hold.truth
      BY <2>1 DEF EngineTypes, E!Presenter
    <2>4. EngineTypes'
      <3>1. IsFiniteSet({})
        BY FS_EmptySet
      <3> QED
        BY <2>1, <2>3, <3>1 DEF EngineTypes, E!Nothing
    <2>5. ClaimInv'
      BY <2>3 DEF ClaimInv
    <2>6. ReportInv'
      <3>1. \E p \in E!Pixel : canvas[p] /= "paper"
        BY <1>2, DrawnIsNotPaper
      <3> QED
        BY <2>1, <2>3, <3>1 DEF ReportInv
    <2>7. E!GlassFollowsClaims'
      <3>1. ASSUME out.drove PROVE out.glass = canvas
        BY <3>1, WholeIsWhole DEF EngineTypes
      <3> QED
        BY <2>1, <2>3, <3>1 DEF E!GlassFollowsClaims
    <2> QED
      BY <2>4, <2>5, <2>6, <2>7
  <1> QED
    BY <1>1, <1>2

(* A plane that matches what was sent is the engine's image: the bridge's own *)
(* scratch is white.                                                          *)
LEMMA ReadKeeps ==
    ASSUME EngineInv, E!ReadPlanes
    PROVE  EngineInv'
  <1> USE DEF EngineInv
  <1> DEFINE matching == {plane \in {"front", "back", "aux"} : hold.sent \in E!Readback(plane)}
             true == hold.real /\ E!Picture(ram[engine.at]) = hold.sent
  <1>1. /\ hold.pc = "readback"
        /\ hold' = [hold EXCEPT !.pc = "holding", !.match = matching, !.truth = true]
        /\ UNCHANGED <<canvas, claims, engine, ram, epBridge, epGlass, file, parent, spent>>
    BY DEF E!ReadPlanes
  <1>2. ASSUME hold.real, matching /= {} PROVE true
    <2>1. PICK plane \in {"front", "back", "aux"} : hold.sent \in E!Readback(plane)
      BY <1>2
    <2>2. hold.sent /= E!Picture(E!White)
      <3>1. PICK p \in E!Pixel : hold.sent[p] /= "paper"
        BY <1>1 DEF ReportInv
      <3>2. E!Picture(E!White)[p] = "paper"
        BY WholeIsWhole DEF E!Picture, E!White
      <3> QED
        BY <3>1, <3>2
    <2>3. plane = "front" /\ E!Attached
      BY <1>2, <2>1, <2>2 DEF E!Readback
    <2> QED
      BY <1>2, <2>1, <2>3 DEF E!Readback, E!Attached
  <1> HIDE DEF matching, true
  <1>3. /\ DOMAIN hold' = DOMAIN hold /\ hold'.real = hold.real /\ hold'.shown = hold.shown
        /\ hold'.pc = "holding" /\ hold'.match = matching /\ hold'.truth = true
    BY <1>1 DEF EngineTypes, E!Presenter
  <1>4. EngineTypes' /\ ClaimInv'
    BY <1>1, <1>3 DEF EngineTypes, ClaimInv
  <1>5. ReportInv'
    BY <1>1, <1>2, <1>3 DEF ReportInv
  <1>6. E!GlassFollowsClaims'
    BY <1>1, <1>3 DEF E!GlassFollowsClaims
  <1> QED
    BY <1>4, <1>5, <1>6

LEMMA OpenKeeps ==
    ASSUME EngineInv, E!Open
    PROVE  EngineInv'
  <1> USE DEF EngineInv
  <1>1. hold.pc = "start" /\ UNCHANGED <<canvas, claims, ram, epGlass, file, parent, spent>>
    BY DEF E!Open
  <1>2. PICK pc \in {"ready", "failed"} : hold' = [hold EXCEPT !.pc = pc]
    BY DEF E!Open
  <1>3. /\ engine' \in [stride : {W, W + 1}, at : 1 .. 2, ours : BOOLEAN, stock : BOOLEAN,
                        table : BOOLEAN, surface : BOOLEAN]
        /\ epBridge' \in 0 .. 2
    <2>1. CASE ~hold.real
      BY <2>1 DEF E!Open, EngineTypes
    <2>2. CASE hold.real
      <3>1. engine' = [engine EXCEPT !.ours = E!Preflight /\ E!CheckLockFile]
        BY <2>2 DEF E!Open
      <3>2. epBridge' \in {0, engine.at}
        BY <2>2 DEF E!Open
      <3>3. \A b \in BOOLEAN : [engine EXCEPT !.ours = b] \in
              [stride : {W, W + 1}, at : 1 .. 2, ours : BOOLEAN, stock : BOOLEAN,
               table : BOOLEAN, surface : BOOLEAN]
        BY DEF EngineTypes
      <3>4. (E!Preflight /\ E!CheckLockFile) \in BOOLEAN
        BY DEF EngineTypes, E!Preflight, E!CheckLockFile
      <3>5. PICK b \in BOOLEAN : b = (E!Preflight /\ E!CheckLockFile)
        BY <3>4, Zenon
      <3>6. engine' = [engine EXCEPT !.ours = b]
        BY <3>1, <3>5, Zenon
      <3> QED
        BY <3>2, <3>3, <3>6 DEF EngineTypes
    <2> QED
      BY <2>1, <2>2 DEF EngineTypes
  <1>4. EngineTypes'
    BY <1>1, <1>2, <1>3 DEF EngineTypes, E!Presenter
  <1>5. ClaimInv'
    BY <1>1, <1>2 DEF ClaimInv, Claimed, EngineTypes, E!Presenter
  <1>6. ReportInv' /\ E!GlassFollowsClaims'
    BY <1>1, <1>2 DEF ReportInv, E!GlassFollowsClaims, EngineTypes, E!Presenter
  <1> QED
    BY <1>4, <1>5, <1>6

(* The image moves with its pixels. *)
LEMMA DetachKeeps ==
    ASSUME EngineInv, E!Detach
    PROVE  EngineInv'
  <1> USE DEF EngineInv
  <1>1. /\ engine.at = 1 /\ engine' = [engine EXCEPT !.at = 2] /\ ram' = [ram EXCEPT ![2] = ram[1]]
        /\ UNCHANGED <<canvas, claims, epBridge, epGlass, hold, file, parent>>
    BY DEF E!Detach
  <1>2. engine'.at = 2 /\ ram'[engine'.at] = ram[engine.at]
    BY <1>1 DEF EngineTypes
  <1>3. EngineTypes'
    BY <1>1 DEF EngineTypes
  <1>4. ClaimInv'
    BY <1>1, <1>2 DEF ClaimInv, Claimed
  <1>5. ReportInv' /\ E!GlassFollowsClaims'
    BY <1>1 DEF ReportInv, E!GlassFollowsClaims
  <1> QED
    BY <1>3, <1>4, <1>5

LEMMA ThrowKeeps ==
    ASSUME EngineInv, E!SwapThrows
    PROVE  EngineInv'
  <1> USE DEF EngineInv
  <1>1. /\ hold.pc = "ready" /\ ram' = E!Copied(E!Covering(claims)) /\ claims' = E!Nothing
        /\ hold' = [hold EXCEPT !.pc = "failed"]
        /\ UNCHANGED <<canvas, engine, epBridge, epGlass, file, parent>>
    BY DEF E!SwapThrows
  <1>2. ram' \in [1 .. 2 -> [E!Cell -> Shades]]
    BY <1>1, CopiedType
  <1>3. E!Nothing \in [full : BOOLEAN, regions : SUBSET Strokes] /\ IsFiniteSet(E!Nothing.regions)
    BY FS_EmptySet DEF E!Nothing
  <1>4. EngineTypes'
    BY <1>1, <1>2, <1>3 DEF EngineTypes, E!Presenter
  <1> QED
    BY <1>1, <1>4 DEF ClaimInv, ReportInv, E!GlassFollowsClaims, EngineTypes, E!Presenter

LEMMA ClearKeeps ==
    ASSUME EngineInv, E!Clear
    PROVE  EngineInv'
  <1> USE DEF EngineInv
  <1>1. /\ hold.pc \in {"held", "ready"} /\ ram' = E!Cleared.ram /\ epGlass' = E!Cleared.glass
        /\ UNCHANGED <<canvas, claims, engine, epBridge, file, parent>>
    BY DEF E!Clear
  <1>2. PICK pc \in {"failed", "report", "ran"} : hold' = [hold EXCEPT !.shown = FALSE, !.pc = pc]
    BY <1>1 DEF E!Clear
  <1>3. /\ E!White \in [E!Cell -> Shades]
        /\ [p \in E!Pixel |-> "paper"] \in [E!Pixel -> Shades \union {"stock"}]
    BY DEF E!White, Shades
  <1>4. \A a \in 0 .. 2 : [ram EXCEPT ![a] = E!White] \in [1 .. 2 -> [E!Cell -> Shades]]
    BY <1>3 DEF EngineTypes
  <1>5. E!Cleared.ram \in [1 .. 2 -> [E!Cell -> Shades]]
    BY <1>4 DEF E!Cleared, EngineTypes
  <1>6. E!Cleared.glass \in [E!Pixel -> Shades \union {"stock"}]
    BY <1>3 DEF E!Cleared, EngineTypes
  <1>7. EngineTypes'
    BY <1>1, <1>2, <1>5, <1>6 DEF EngineTypes, E!Presenter
  <1> QED
    BY <1>1, <1>2, <1>7 DEF ClaimInv, ReportInv, E!GlassFollowsClaims, EngineTypes, E!Presenter

(* The actions that only move the presenter, its record or its parent on.     *)
LEMMA RestKeeps ==
    ASSUME EngineInv,
           E!Sample \/ E!WriteRecord \/ E!Exit \/ E!Killed \/ E!ParentReads
    PROVE  EngineInv'
  <1> USE DEF EngineInv
  <1>1. CASE E!Sample
    BY <1>1 DEF E!Sample, EngineTypes, ClaimInv, ReportInv, E!GlassFollowsClaims, E!Presenter
  <1>2. CASE E!WriteRecord
    BY <1>2 DEF E!WriteRecord, E!Holding, EngineTypes, ClaimInv, ReportInv, E!GlassFollowsClaims,
        E!Presenter
  <1>3. ASSUME E!Gone, UNCHANGED <<canvas, claims, ram, epGlass, parent>>, parent = "waiting",
               file'.holds = "true" => file' = file
        PROVE  EngineInv'
    <2>1. /\ DOMAIN hold' = DOMAIN hold /\ hold'.real = hold.real /\ hold'.shown = FALSE
          /\ hold'.pc = "exited" /\ hold'.match = hold.match /\ hold'.truth = hold.truth
      BY <1>3 DEF E!Gone, EngineTypes, E!Presenter
    <2>2. engine' \in [stride : {W, W + 1}, at : 1 .. 2, ours : BOOLEAN, stock : BOOLEAN,
                       table : BOOLEAN, surface : BOOLEAN]
      BY <1>3 DEF E!Gone, EngineTypes
    <2>3. EngineTypes'
      BY <1>3, <2>1, <2>2 DEF E!Gone, EngineTypes
    <2> QED
      BY <1>3, <2>1, <2>3 DEF ClaimInv, ReportInv, E!GlassFollowsClaims
  <1>4. CASE E!Exit \/ E!Killed
    <2>1. E!Gone /\ UNCHANGED <<canvas, claims, ram, epGlass, parent>> /\ hold.pc /= "exited"
      BY <1>4 DEF E!Exit, E!Killed
    <2>2. parent = "waiting"
      BY <2>1 DEF ReportInv
    <2>3. file'.holds = "true" => file' = file
      BY <1>4 DEF E!Exit, E!Killed
    <2> QED
      BY <1>3, <2>1, <2>2, <2>3
  <1>5. CASE E!ParentReads
    BY <1>5 DEF E!ParentReads, E!Claim, E!Read, EngineTypes, ClaimInv, ReportInv, E!GlassFollowsClaims
  <1> QED
    BY <1>1, <1>2, <1>4, <1>5

LEMMA EngineStep ==
    ASSUME EngineInv, E!EngineNext
    PROVE  EngineInv'
  BY DrawKeeps, FrameKeeps, HoldKeeps, ReadKeeps, OpenKeeps, DetachKeeps, ThrowKeeps, ClearKeeps,
      RestKeeps DEF E!EngineNext

(* PanelTellsTheTruth: the glass shows the canvas after a frame, whatever was *)
(* drawn and claimed, and a record says the engine holds the frame only when  *)
(* the engine's own image was it (panel.rs, hold.rs, paperclip_ep.cpp).       *)
THEOREM PanelsTellTheTruth == Spec => []PanelTellsTheTruth
  <1>1. EngineInv /\ [Next]_vars => EngineInv'
    <2> SUFFICES ASSUME EngineInv, [Next]_vars PROVE EngineInv'
      OBVIOUS
    <2>1. CASE UNCHANGED panel
      BY <2>1 DEF panel, EngineInv, EngineTypes, ClaimInv, Claimed, ReportInv, E!GlassFollowsClaims
    <2>2. E!EngineNext \/ UNCHANGED panel
      BY DEF Next, vars
    <2> QED
      BY <2>1, <2>2, EngineStep
  <1>2. EngineInv => PanelTellsTheTruth
    BY DEF EngineInv, ReportInv, PanelTellsTheTruth, E!PanelTellsTheTruth, E!ClaimIsHonest
  <1> QED
    BY EngineInvInit, <1>1, <1>2, PTL DEF Spec

-----------------------------------------------------------------------------
(* Decoding.  In every frame a slot is idle, has a finger that landed, is     *)
(* held or is being lifted, and the stream of its contact says so.            *)

(* A slot, by the fingers the kernel sees, the slots this frame spoke of and  *)
(* the next contact id.                                                       *)
SlotRecords == [tracking : BOOLEAN, contact : Nat, down : BOOLEAN, dirty : BOOLEAN, lifted : BOOLEAN]
SlotFits(s, slot, fingers, said, limit) ==
    /\ slot \in SlotRecords /\ slot.contact < limit
    /\ slot.tracking \/ slot.down => slot.contact # 0
    /\ slot.contact # 0 => slot.tracking \/ slot.down \/ slot.dirty
    /\ slot.lifted <=> (slot.down /\ ~slot.tracking)
    /\ slot.dirty => s \in said
    /\ slot.tracking => s \in fingers /\ (slot.down \/ slot.dirty)
    /\ slot.lifted => s \notin fingers /\ slot.dirty
Fingers == {s \in TouchSlots : kernel.finger[s]}

Whereabouts == {"away", "near", "touching"}
KernelType ==
    /\ kernel = [finger |-> kernel.finger, slot |-> kernel.slot, said |-> kernel.said, pen |-> kernel.pen,
                 drops |-> kernel.drops, astray |-> kernel.astray]
    /\ kernel.finger \in [TouchSlots -> BOOLEAN] /\ kernel.drops \in Nat /\ kernel.astray \in BOOLEAN
Told == {"none", "hover", "down", "ended"}
DecoderTypes ==
    /\ kernel.slot \in TouchSlots /\ kernel.said \in SUBSET TouchSlots /\ kernel.pen \in Whereabouts
    /\ touch = [slot |-> touch.slot, current |-> touch.current]
    /\ touch.slot \in [TouchSlots -> SlotRecords] /\ touch.current = kernel.slot
    /\ pen \in [inRange : BOOLEAN, touching : BOOLEAN, down : BOOLEAN, dirty : BOOLEAN, contact : Nat]
    /\ nextId \in Nat /\ 0 < nextId /\ nextId <= MaxIds
    /\ stream \in [I!Ids -> Told]

SlotsInv ==
    /\ \A s \in TouchSlots : SlotFits(s, touch.slot[s], Fingers, kernel.said, nextId)
    /\ \A s \in TouchSlots : touch.slot[s].contact # 0 =>
          /\ stream[touch.slot[s].contact] = IF touch.slot[s].down THEN "down" ELSE "none"
          /\ touch.slot[s].contact # pen.contact
          /\ \A t \in TouchSlots : touch.slot[t].contact = touch.slot[s].contact => s = t
    /\ kernel.drops = 0 => \A s \in TouchSlots : touch.slot[s].tracking <=> s \in Fingers

PenInv ==
    /\ pen.contact < nextId /\ (pen.down => pen.contact # 0)
    /\ pen.contact # 0 => stream[pen.contact] = IF pen.down THEN "down" ELSE "hover"
    /\ pen.touching => kernel.pen = "touching"
    /\ ~pen.dirty => (pen.down => pen.touching)
    /\ kernel.drops = 0 => /\ pen.touching <=> kernel.pen = "touching"
                           /\ ~pen.dirty => (pen.down <=> pen.touching)

(* What is down is a contact of the decoders, and no id is ahead of them.     *)
StreamInv ==
    \A i \in I!Ids :
       /\ stream[i] = "down" => \/ pen.down /\ pen.contact = i
                                \/ \E s \in TouchSlots : touch.slot[s].down /\ touch.slot[s].contact = i
       /\ i >= nextId => stream[i] = "none"

Decoding == DecoderTypes /\ SlotsInv /\ PenInv /\ StreamInv

MouseInv ==
    /\ mouse \in [on : BOOLEAN, held : BOOLEAN, pressed : BOOLEAN, seen : BOOLEAN, id : Nat, next : Nat,
                  live : SUBSET Nat, over : SUBSET Nat, stale : BOOLEAN]
    /\ mouse.id < mouse.next /\ ~mouse.stale
    /\ mouse.live = IF mouse.id = 0 THEN {} ELSE {mouse.id}
    /\ mouse.id # 0 => mouse.seen /\ mouse.pressed /\ mouse.held
    /\ mouse.pressed => mouse.held
    /\ \A o \in mouse.over : o < mouse.next /\ o # mouse.id /\ o # 0

InputInv ==
    /\ KernelType /\ MouseInv
    /\ ~kernel.astray => Decoding

(* The frame told of one contact at most once.                                *)
LEMMA ICard == \A S0 : I!Cardinality(S0) = Cardinality(S0)
BY DEF I!Cardinality, Cardinality

LEMMA Telling ==
    ASSUME NEW said, I!Tell(said), \A a, b \in said : a.contact = b.contact => a = b
    PROVE  /\ DOMAIN stream' = I!Ids
           /\ \A i \in I!Ids : (\A a \in said : a.contact # i) => stream'[i] = stream[i]
           /\ \A a \in said : a.contact \in I!Ids =>
                 stream'[a.contact] = I!Told(stream[a.contact], a.phase)
<1>1. stream' = [i \in I!Ids |->
        LET mine == {a \in said : a.contact = i}
        IN  IF mine = {} THEN stream[i]
            ELSE IF I!Cardinality(mine) > 1 THEN "broken"
            ELSE I!Told(stream[i], (CHOOSE a \in mine : TRUE).phase)]
  BY DEF I!Tell
<1>2. ASSUME NEW i \in I!Ids, \A a \in said : a.contact # i PROVE stream'[i] = stream[i]
  <2>1. {a \in said : a.contact = i} = {}
    BY <1>2
  <2> QED
    BY <1>1, <2>1
<1>3. ASSUME NEW a \in said, a.contact \in I!Ids
      PROVE  stream'[a.contact] = I!Told(stream[a.contact], a.phase)
  <2> DEFINE mine == {b \in said : b.contact = a.contact}
  <2>1. mine = {a}
    OBVIOUS
  <2>2. Cardinality(mine) = 1 /\ ~(I!Cardinality(mine) > 1)
    BY <2>1, FS_Singleton, ICard
  <2>3. (CHOOSE b \in mine : TRUE) = a
    BY <2>1
  <2>4. mine # {}
    BY <2>1
  <2>5. stream'[a.contact] = IF mine = {} THEN stream[a.contact]
            ELSE IF I!Cardinality(mine) > 1 THEN "broken"
            ELSE I!Told(stream[a.contact], (CHOOSE b \in mine : TRUE).phase)
    BY <1>1, <1>3
  <2> HIDE DEF mine
  <2> QED
    BY <2>2, <2>3, <2>4, <2>5
<1> QED
  BY <1>1, <1>2, <1>3

LEMMA FitsLater ==
    ASSUME NEW s, NEW slot, NEW fingers, NEW said, NEW limit \in Nat,
           SlotFits(s, slot, fingers, said, limit),
           NEW seen, NEW told, NEW above \in Nat, limit <= above,
           s \in seen <=> s \in fingers, s \in told <=> s \in said
    PROVE  SlotFits(s, slot, seen, told, above)
BY DEF SlotFits, SlotRecords

(* One slot takes another shape: its contact is told of no differently, or    *)
(* is a new one.                                                              *)
Mentions(s, fingers) ==
    /\ KernelType' /\ kernel'.slot = s /\ kernel'.said = kernel.said \union {s}
    /\ kernel'.pen = kernel.pen /\ kernel'.drops = kernel.drops /\ kernel'.astray = kernel.astray
    /\ Fingers' = fingers /\ \A t \in TouchSlots \ {s} : t \in fingers <=> t \in Fingers
Reshapes(s, rec) ==
    /\ touch' = [slot |-> [touch.slot EXCEPT ![s] = rec], current |-> s]
    /\ \/ nextId' = nextId /\ rec.contact = touch.slot[s].contact /\ rec.down = touch.slot[s].down
       \/ /\ nextId' = nextId + 1 /\ nextId < MaxIds
          /\ ~touch.slot[s].down /\ rec.contact = nextId /\ ~rec.down
LEMMA SlotMoves ==
    ASSUME KernelType, Decoding, MaxIds \in Nat, NEW s \in TouchSlots, NEW rec, NEW fingers,
           Mentions(s, fingers), Reshapes(s, rec), SlotFits(s, rec, fingers, kernel'.said, nextId'),
           kernel.drops = 0 => (rec.tracking <=> s \in fingers),
           UNCHANGED <<pen, stream>>
    PROVE  KernelType' /\ Decoding' /\ kernel'.drops = kernel.drops /\ kernel'.astray = kernel.astray
<1>1. /\ nextId \in Nat /\ nextId' \in Nat /\ nextId <= nextId' /\ nextId' <= MaxIds /\ 0 < nextId
      /\ touch.slot \in [TouchSlots -> SlotRecords]
  BY DEF Decoding, DecoderTypes, Reshapes
<1>3. /\ rec \in SlotRecords /\ (rec.contact # 0 => rec.contact < nextId') /\ (rec.down => rec.contact # 0)
  BY DEF SlotFits
<1>4. /\ kernel'.slot = s /\ kernel'.said = kernel.said \union {s} /\ kernel'.pen = kernel.pen
      /\ kernel'.drops = kernel.drops /\ kernel'.astray = kernel.astray
      /\ Fingers' = fingers /\ \A t \in TouchSlots : t # s => (t \in fingers <=> t \in Fingers)
  BY DEF Mentions
<1>5. /\ touch'.slot = [touch.slot EXCEPT ![s] = rec] /\ touch'.current = s
      /\ touch' = [slot |-> touch'.slot, current |-> touch'.current]
      /\ touch'.slot \in [TouchSlots -> SlotRecords]
      /\ touch'.slot[s] = rec
      /\ \A t \in TouchSlots : t # s => touch'.slot[t] = touch.slot[t]
  BY <1>1, <1>3 DEF Reshapes
<1>6. KernelType'
  BY DEF Mentions
<1>7. DecoderTypes'
  BY <1>1, <1>4, <1>5 DEF Decoding, DecoderTypes
<1>8. ASSUME NEW t \in TouchSlots
      PROVE  SlotFits(t, touch'.slot[t], Fingers', kernel'.said, nextId')
  <2>1. CASE t = s
    BY <1>4, <1>5, <2>1
  <2>2. CASE t # s
    <3>1. t \in Fingers' <=> t \in Fingers
      BY <1>4, <2>2
    <3>2. t \in kernel'.said <=> t \in kernel.said
      BY <1>4, <2>2
    <3>3. SlotFits(t, touch.slot[t], Fingers, kernel.said, nextId)
      BY DEF Decoding, SlotsInv
    <3>4. SlotFits(t, touch.slot[t], Fingers', kernel'.said, nextId')
      BY <1>1, <3>1, <3>2, <3>3, FitsLater
    <3> QED
      BY <1>5, <2>2, <3>4
  <2> QED
    BY <2>1, <2>2
<1>9. ASSUME NEW t \in TouchSlots
      PROVE  touch.slot[t].contact # 0 => touch.slot[t].contact < nextId
  BY DEF Decoding, SlotsInv, SlotFits
<1>10. ASSUME NEW t \in TouchSlots, touch'.slot[t].contact # 0
       PROVE  /\ stream[touch'.slot[t].contact] = IF touch'.slot[t].down THEN "down" ELSE "none"
              /\ touch'.slot[t].contact # pen.contact
              /\ \A v \in TouchSlots : touch'.slot[v].contact = touch'.slot[t].contact => t = v
  <2>1. CASE nextId' = nextId /\ rec.contact = touch.slot[s].contact /\ rec.down = touch.slot[s].down
    <3>1. \A v \in TouchSlots : /\ touch'.slot[v].contact = touch.slot[v].contact
                                /\ touch'.slot[v].down = touch.slot[v].down
      BY <1>5, <2>1
    <3> QED
      BY <1>10, <3>1 DEF Decoding, SlotsInv
  <2>2. CASE /\ nextId' = nextId + 1 /\ nextId < MaxIds
             /\ ~touch.slot[s].down /\ rec.contact = nextId /\ ~rec.down
    <3>1. nextId \in I!Ids /\ stream[nextId] = "none" /\ pen.contact < nextId /\ pen.contact \in Nat
      <4>1. nextId \in I!Ids
        BY <1>1, <2>2 DEF I!Ids, Decoding, DecoderTypes
      <4>2. stream[nextId] = "none"
        BY <1>1, <4>1 DEF Decoding, StreamInv
      <4> QED
        BY <4>1, <4>2 DEF Decoding, PenInv, DecoderTypes
    <3>2. ~rec.down /\ rec.contact = nextId
      BY <2>2
    <3>3. CASE t = s
      <4>1. touch'.slot[t] = rec
        BY <1>5, <3>3
      <4>2. \A v \in TouchSlots : v # s => touch'.slot[v].contact # nextId
        BY <1>1, <1>5, <1>9
      <4> QED
        BY <1>1, <3>1, <3>2, <3>3, <4>1, <4>2
    <3>4. CASE t # s
      <4>1. touch'.slot[t] = touch.slot[t] /\ touch.slot[t].contact # 0 /\ touch.slot[t].contact # nextId
        BY <1>1, <1>5, <1>9, <1>10, <3>4
      <4>2. touch'.slot[s].contact = nextId
        BY <1>5, <3>2
      <4>3. \A v \in TouchSlots : touch'.slot[v].contact = touch.slot[t].contact => t = v
        BY <1>5, <4>1, <4>2 DEF Decoding, SlotsInv
      <4> QED
        BY <4>1, <4>3 DEF Decoding, SlotsInv
    <3> QED
      BY <3>3, <3>4
  <2> QED
    BY <2>1, <2>2 DEF Reshapes
<1>11. kernel'.drops = 0 => \A t \in TouchSlots : touch'.slot[t].tracking <=> t \in Fingers'
  BY <1>4, <1>5 DEF Decoding, SlotsInv
<1>12. SlotsInv'
  BY <1>8, <1>10, <1>11 DEF SlotsInv
<1>13. PenInv'
  <2>1. pen.contact \in Nat
    BY DEF Decoding, DecoderTypes
  <2> QED
    BY <1>1, <1>4, <2>1 DEF Decoding, PenInv
<1>14. StreamInv'
  <2>1. ASSUME NEW i \in I!Ids, stream[i] = "down"
        PROVE  \/ pen.down /\ pen.contact = i
               \/ \E t \in TouchSlots : touch'.slot[t].down /\ touch'.slot[t].contact = i
    <3>1. CASE pen.down /\ pen.contact = i
      BY <3>1
    <3>2. CASE \E t \in TouchSlots : touch.slot[t].down /\ touch.slot[t].contact = i
      <4>1. PICK t \in TouchSlots : touch.slot[t].down /\ touch.slot[t].contact = i
        BY <3>2
      <4>2. CASE t # s
        BY <1>5, <4>1, <4>2
      <4>3. CASE t = s
        <5>2. rec.down /\ rec.contact = i
          BY <4>1, <4>3 DEF Reshapes
        <5> QED
          BY <1>5, <5>2
      <4> QED
        BY <4>2, <4>3
    <3> QED
      BY <2>1, <3>1, <3>2 DEF Decoding, StreamInv
  <2>2. ASSUME NEW i \in I!Ids, i >= nextId' PROVE stream[i] = "none"
    BY <1>1, <2>2 DEF Decoding, StreamInv, I!Ids
  <2> QED
    BY <2>1, <2>2 DEF StreamInv
<1> QED
  BY <1>4, <1>6, <1>7, <1>12, <1>13, <1>14 DEF Decoding

(* The slot the kernel names is the slot it means.                            *)
LEMMA NamedSlot ==
    ASSUME KernelType, Decoding, NEW s \in TouchSlots
    PROVE  /\ I!Named(s) = s
           /\ SlotFits(s, touch.slot[s], Fingers, kernel.said, nextId)
           /\ s \in Fingers <=> kernel.finger[s]
<1>1. I!Named(s) = s
  BY DEF I!Named, Decoding, DecoderTypes
<1>2. SlotFits(s, touch.slot[s], Fingers, kernel.said, nextId)
  BY DEF Decoding, SlotsInv
<1>3. s \in Fingers <=> kernel.finger[s]
  BY DEF Fingers
<1> QED
  BY <1>1, <1>2, <1>3

(* What the kernel says of a slot is what it then sees there.                 *)
LEMMA Saying ==
    ASSUME KernelType, NEW s \in TouchSlots, NEW swap \in BOOLEAN, I!Says(s, swap)
    PROVE  /\ KernelType' /\ kernel'.astray = (kernel.astray \/ swap)
           /\ ~swap => Mentions(s, IF s \in Fingers THEN Fingers \ {s} ELSE Fingers \union {s})
<1>1. kernel' = [kernel EXCEPT !.slot = s, !.said = @ \union {s}, !.finger[s] = ~@, !.astray = @ \/ swap]
  BY DEF I!Says
<1> DEFINE f == [kernel.finger EXCEPT ![s] = ~kernel.finger[s]]
           wrong == kernel.astray \/ swap
<1>2. f \in [TouchSlots -> BOOLEAN] /\ wrong \in BOOLEAN /\ (~swap => wrong = kernel.astray)
  BY DEF KernelType
<1>3. kernel' = [finger |-> f, slot |-> s, said |-> kernel.said \union {s}, pen |-> kernel.pen,
                 drops |-> kernel.drops, astray |-> wrong]
  BY <1>1 DEF KernelType
<1>4. \A t \in TouchSlots : f[t] <=> (IF t = s THEN ~kernel.finger[t] ELSE kernel.finger[t])
  BY DEF KernelType
<1>5. kernel'.astray = (kernel.astray \/ swap)
  BY <1>3
<1> HIDE DEF f, wrong
<1>6. KernelType'
  BY <1>2, <1>3 DEF KernelType
<1>7. Fingers' = {t \in TouchSlots : f[t]}
  BY <1>3 DEF Fingers
<1>8. Fingers' = IF s \in Fingers THEN Fingers \ {s} ELSE Fingers \union {s}
  BY <1>4, <1>7 DEF Fingers
<1>9. ~swap => Mentions(s, IF s \in Fingers THEN Fingers \ {s} ELSE Fingers \union {s})
  BY <1>2, <1>3, <1>6, <1>8 DEF Mentions
<1> QED
  BY <1>5, <1>6, <1>9

(* Unless it takes the place of a finger lifted in the same frame.            *)
LEMMA FingerLandsKeeps ==
    ASSUME KernelType, Decoding, MaxIds \in Nat, I!FingerLands, ~kernel'.astray
    PROVE  Decoding'
<1>1. PICK s \in TouchSlots :
        /\ ~kernel.finger[s] /\ nextId < MaxIds
        /\ I!Says(s, touch.slot[I!Named(s)].lifted)
        /\ I!AtSlot(s, I!FingerLandsInSlot(touch.slot[I!Named(s)]))
        /\ nextId' = IF touch.slot[I!Named(s)].tracking THEN nextId ELSE nextId + 1
        /\ UNCHANGED <<pen, stream>>
  BY DEF I!FingerLands
<1> DEFINE slot == touch.slot[s]
           rec == I!FingerLandsInSlot(slot)
<1>2. /\ I!Named(s) = s /\ slot \in SlotRecords /\ s \notin Fingers
      /\ SlotFits(s, slot, Fingers, kernel.said, nextId)
  BY <1>1, NamedSlot DEF SlotFits
<1>3. nextId \in Nat /\ 0 < nextId
  BY DEF Decoding, DecoderTypes
<1>4. slot.lifted \in BOOLEAN /\ I!Says(s, slot.lifted)
  BY <1>1, <1>2 DEF SlotRecords
<1>5. ~slot.lifted /\ ~slot.tracking /\ ~slot.down
  <2>1. ~slot.lifted
    BY <1>4, Saying
  <2> HIDE DEF slot
  <2> QED
    BY <1>2, <2>1 DEF SlotFits
<1>6. /\ rec \in SlotRecords /\ rec.contact = nextId
      /\ rec.tracking /\ ~rec.down /\ rec.dirty /\ ~rec.lifted
  <2> HIDE DEF slot
  <2> QED
    BY <1>2, <1>3, <1>5 DEF I!FingerLandsInSlot, SlotRecords
<1>7. Reshapes(s, rec) /\ nextId' = nextId + 1
  <2>1. touch' = [slot |-> [touch.slot EXCEPT ![s] = rec], current |-> s]
    BY <1>1, <1>2 DEF I!AtSlot
  <2> HIDE DEF rec
  <2> QED
    BY <1>1, <1>2, <1>5, <1>6, <2>1 DEF Reshapes
<1>8. Mentions(s, Fingers \union {s}) /\ s \in kernel'.said
  BY <1>2, <1>4, <1>5, Saying DEF Mentions
<1> HIDE DEF rec, slot
<1>9. SlotFits(s, rec, Fingers \union {s}, kernel'.said, nextId')
  BY <1>3, <1>6, <1>7, <1>8 DEF SlotFits
<1> QED
  BY <1>1, <1>6, <1>7, <1>8, <1>9, SlotMoves

LEMMA FingerLiftsKeeps ==
    ASSUME KernelType, Decoding, MaxIds \in Nat, I!FingerLifts
    PROVE  KernelType' /\ Decoding' /\ kernel'.drops = kernel.drops /\ kernel'.astray = kernel.astray
<1>1. PICK s \in TouchSlots :
        /\ kernel.finger[s]
        /\ I!Says(s, FALSE)
        /\ I!AtSlot(s, I!LiftedSlot(touch.slot[I!Named(s)]))
        /\ UNCHANGED <<pen, nextId, stream>>
  BY DEF I!FingerLifts
<1> DEFINE slot == touch.slot[s]
           rec == I!LiftedSlot(slot)
<1>2. /\ I!Named(s) = s /\ slot \in SlotRecords /\ s \in Fingers
      /\ SlotFits(s, slot, Fingers, kernel.said, nextId) /\ ~slot.lifted
  BY <1>1, NamedSlot DEF SlotFits
<1>3. Mentions(s, Fingers \ {s}) /\ s \in kernel'.said
  BY <1>1, <1>2, Saying DEF Mentions
<1>4. /\ rec \in SlotRecords /\ rec.contact = slot.contact /\ rec.down = slot.down
      /\ ~rec.tracking /\ (rec.dirty <=> slot.dirty \/ slot.down) /\ (rec.lifted <=> slot.down)
  <2> HIDE DEF slot
  <2> QED
    BY <1>2 DEF I!LiftedSlot, SlotRecords
<1>5. Reshapes(s, rec)
  <2>1. touch' = [slot |-> [touch.slot EXCEPT ![s] = rec], current |-> s]
    BY <1>1, <1>2 DEF I!AtSlot
  <2> HIDE DEF rec
  <2> QED
    BY <1>1, <1>4, <2>1 DEF Reshapes
<1> HIDE DEF rec, slot
<1>6. SlotFits(s, rec, Fingers \ {s}, kernel'.said, nextId')
  BY <1>1, <1>2, <1>3, <1>4 DEF SlotFits, SlotRecords
<1> QED
  BY <1>1, <1>3, <1>4, <1>5, <1>6, SlotMoves

LEMMA FingerMovesKeeps ==
    ASSUME KernelType, Decoding, MaxIds \in Nat, I!FingerMoves
    PROVE  KernelType' /\ Decoding' /\ kernel'.drops = kernel.drops /\ kernel'.astray = kernel.astray
<1>1. PICK s \in TouchSlots :
        /\ kernel.finger[s]
        /\ kernel' = [kernel EXCEPT !.slot = s, !.said = @ \union {s}]
        /\ I!AtSlot(s, [touch.slot[I!Named(s)] EXCEPT !.dirty = TRUE])
        /\ UNCHANGED <<pen, nextId, stream>>
  BY DEF I!FingerMoves
<1> DEFINE slot == touch.slot[s]
           rec == [slot EXCEPT !.dirty = TRUE]
<1>2. /\ I!Named(s) = s /\ slot \in SlotRecords /\ s \in Fingers
      /\ SlotFits(s, slot, Fingers, kernel.said, nextId) /\ ~slot.lifted
  BY <1>1, NamedSlot DEF SlotFits
<1>3. Mentions(s, Fingers) /\ s \in kernel'.said
  <2>1. kernel' = [finger |-> kernel.finger, slot |-> s, said |-> kernel.said \union {s}, pen |-> kernel.pen,
                   drops |-> kernel.drops, astray |-> kernel.astray]
    BY <1>1 DEF KernelType
  <2>2. KernelType'
    BY <2>1 DEF KernelType
  <2>3. Fingers' = Fingers
    BY <2>1 DEF Fingers
  <2> QED
    BY <2>1, <2>2, <2>3 DEF Mentions
<1>4. /\ rec \in SlotRecords /\ rec.contact = slot.contact /\ rec.down = slot.down
      /\ rec.tracking = slot.tracking /\ rec.dirty /\ rec.lifted = slot.lifted
  <2> HIDE DEF slot
  <2> QED
    BY <1>2 DEF SlotRecords
<1>5. Reshapes(s, rec)
  <2>1. touch' = [slot |-> [touch.slot EXCEPT ![s] = rec], current |-> s]
    BY <1>1, <1>2 DEF I!AtSlot
  <2> HIDE DEF rec
  <2> QED
    BY <1>1, <1>4, <2>1 DEF Reshapes
<1>6. kernel.drops = 0 => (rec.tracking <=> s \in Fingers)
  BY <1>4 DEF Decoding, SlotsInv
<1> HIDE DEF rec, slot
<1>7. SlotFits(s, rec, Fingers, kernel'.said, nextId')
  BY <1>1, <1>2, <1>3, <1>4 DEF SlotFits, SlotRecords
<1> QED
  BY <1>1, <1>3, <1>5, <1>6, <1>7, SlotMoves

(* A slot at the end of a frame: the contact in it is down, or it is idle.    *)
Settled(s, slot, fingers, limit) ==
    /\ slot \in SlotRecords /\ slot.contact < limit
    /\ slot.contact # 0 <=> slot.down
    /\ slot.tracking <=> slot.down
    /\ ~slot.lifted /\ ~slot.dirty
    /\ slot.tracking => s \in fingers

LEMMA FlushedSlot ==
    ASSUME Decoding, NEW s \in TouchSlots
    PROVE  /\ Settled(s, I!Flushed(s), Fingers, nextId)
           /\ I!ContactOf(s) = touch.slot[s].contact /\ I!Unnumbered = {}
           /\ I!Flushed(s).contact # 0 => I!Flushed(s).contact = touch.slot[s].contact
           /\ I!Flushed(s).tracking <=> touch.slot[s].tracking
           /\ s \in I!Reporting <=> touch.slot[s].dirty /\ (touch.slot[s].tracking \/ touch.slot[s].down)
           /\ I!Flushed(s).contact # 0 <=> touch.slot[s].tracking
<1>1. \A v \in TouchSlots : SlotFits(v, touch.slot[v], Fingers, kernel.said, nextId)
  BY DEF Decoding, SlotsInv
<1>2. \A v \in TouchSlots :
        v \in I!Reporting <=> touch.slot[v].dirty /\ (touch.slot[v].tracking \/ touch.slot[v].down)
  BY <1>1 DEF I!Reporting, I!PhaseOf, SlotFits, SlotRecords
<1>3. I!Unnumbered = {}
  BY <1>1, <1>2 DEF I!Unnumbered, I!NoContact, I!Reporting, SlotFits
<1>4. I!ContactOf(s) = touch.slot[s].contact
  BY <1>3 DEF I!ContactOf
<1> DEFINE slot == touch.slot[s]
           new == I!Flushed(s)
<1>5. SlotFits(s, slot, Fingers, kernel.said, nextId) /\ nextId \in Nat /\ 0 < nextId
  BY <1>1 DEF Decoding, DecoderTypes
<1>6. CASE ~slot.dirty
  <2>1. new = slot
    BY <1>6 DEF I!Flushed
  <2> HIDE DEF new, slot
  <2>2. Settled(s, slot, Fingers, nextId) /\ ~slot.lifted
    BY <1>5, <1>6 DEF SlotFits, Settled, SlotRecords
  <2> QED
    BY <1>2, <1>3, <1>4, <1>6, <2>1, <2>2 DEF slot, new, Settled
<1>7. CASE slot.dirty /\ ~slot.tracking
  <2>1. new = I!EmptySlot
    BY <1>1, <1>2, <1>7 DEF I!Flushed, SlotFits
  <2>2. /\ new \in SlotRecords /\ new.contact = 0 /\ ~new.down /\ ~new.tracking /\ ~new.dirty /\ ~new.lifted
    BY <2>1 DEF I!EmptySlot, SlotRecords, I!NoContact
  <2> HIDE DEF new, slot
  <2>3. Settled(s, new, Fingers, nextId) /\ ~slot.tracking
    BY <1>5, <1>7, <2>2 DEF SlotFits, Settled, SlotRecords
  <2> QED
    BY <1>2, <1>3, <1>4, <1>7, <2>2, <2>3 DEF slot, new
<1>8. CASE slot.dirty /\ slot.tracking
  <2>1. new = [slot EXCEPT !.contact = I!ContactOf(s), !.dirty = FALSE, !.down = TRUE]
    BY <1>1, <1>2, <1>8 DEF I!Flushed, SlotFits
  <2>2. slot \in SlotRecords /\ I!ContactOf(s) = slot.contact
    BY <1>4, <1>5 DEF SlotFits
  <2> HIDE DEF new, slot
  <2>3. /\ new \in SlotRecords /\ new.contact = slot.contact /\ new.down /\ new.tracking = slot.tracking
        /\ ~new.dirty /\ new.lifted = slot.lifted
    BY <2>1, <2>2 DEF SlotRecords
  <2>4. Settled(s, new, Fingers, nextId)
    BY <1>5, <1>8, <2>3 DEF SlotFits, Settled, SlotRecords
  <2> QED
    BY <1>2, <1>3, <1>4, <1>8, <2>3, <2>4 DEF slot, new, Settled
<1> QED
  BY <1>5, <1>6, <1>7, <1>8 DEF SlotFits, SlotRecords

LEMMA Phases ==
    /\ I!Told("none", "down") = "down" /\ I!Told("hover", "down") = "down"
    /\ I!Told("none", "hover") = "hover" /\ I!Told("hover", "hover") = "hover"
    /\ I!Told("down", "moved") = "down"
    /\ I!Told("down", "up") = "ended" /\ I!Told("down", "cancelled") = "ended"
BY DEF I!Told

(* What the frame told: a finger that landed, one that moved, one that left.  *)
LEMMA FrameTells ==
    ASSUME Decoding, MaxIds \in Nat, I!TouchReport
    PROVE  /\ stream' \in [I!Ids -> Told]
           /\ \A i \in I!Ids : (\A s \in TouchSlots : s \in I!Reporting => touch.slot[s].contact # i)
                                => stream'[i] = stream[i]
           /\ \A s \in TouchSlots : s \in I!Reporting =>
                 stream'[touch.slot[s].contact] = IF touch.slot[s].lifted THEN "ended" ELSE "down"
<1> DEFINE told(s) == [contact |-> I!ContactOf(s), phase |-> I!PhaseOf(touch.slot[s])]
           said == {told(s) : s \in I!Reporting}
<1>1. I!Tell(said)
  BY DEF I!TouchReport
<1>2. \A s \in TouchSlots : /\ I!ContactOf(s) = touch.slot[s].contact
                            /\ s \in I!Reporting <=>
                                  touch.slot[s].dirty /\ (touch.slot[s].tracking \/ touch.slot[s].down)
                            /\ s \in I!Reporting => touch.slot[s].contact # 0
  BY FlushedSlot DEF Decoding, SlotsInv, SlotFits
<1>3. I!Reporting \subseteq TouchSlots
  BY DEF I!Reporting
<1>4. \A s \in I!Reporting : told(s).contact = touch.slot[s].contact /\ told(s).phase = I!PhaseOf(touch.slot[s])
  BY <1>2, <1>3
<1>5. \A a, b \in said : a.contact = b.contact => a = b
  <2>1. ASSUME NEW s \in I!Reporting, NEW t \in I!Reporting, told(s).contact = told(t).contact PROVE s = t
    BY <1>2, <1>3, <1>4, <2>1 DEF Decoding, SlotsInv
  <2> QED
    BY <2>1
<1> HIDE DEF told
<1>6. /\ DOMAIN stream' = I!Ids
      /\ \A i \in I!Ids : (\A a \in said : a.contact # i) => stream'[i] = stream[i]
      /\ \A a \in said : a.contact \in I!Ids => stream'[a.contact] = I!Told(stream[a.contact], a.phase)
  <2> HIDE DEF said
  <2> QED
    BY <1>1, <1>5, Telling
<1>7. ASSUME NEW s \in TouchSlots, s \in I!Reporting
      PROVE  /\ touch.slot[s].contact \in I!Ids
             /\ stream'[touch.slot[s].contact] = IF touch.slot[s].lifted THEN "ended" ELSE "down"
  <2> DEFINE slot == touch.slot[s]
  <2>1. /\ SlotFits(s, slot, Fingers, kernel.said, nextId) /\ slot.contact # 0
        /\ slot.tracking \/ slot.down
    BY <1>2, <1>7 DEF Decoding, SlotsInv
  <2>2. slot.contact \in I!Ids
    <3>1. slot.contact \in Nat /\ slot.contact < nextId /\ nextId \in Nat /\ nextId <= MaxIds
      BY <2>1 DEF SlotFits, SlotRecords, Decoding, DecoderTypes
    <3> QED
      BY <2>1, <3>1 DEF I!Ids
  <2>3. stream'[slot.contact] = I!Told(stream[slot.contact], I!PhaseOf(slot))
    BY <1>4, <1>6, <1>7, <2>2
  <2>4. stream[slot.contact] = IF slot.down THEN "down" ELSE "none"
    BY <2>1 DEF Decoding, SlotsInv
  <2> HIDE DEF slot
  <2>5. ASSUME slot.lifted PROVE stream'[slot.contact] = "ended"
    <3>1. slot.down /\ I!PhaseOf(slot) = "up"
      BY <2>1, <2>5 DEF I!PhaseOf, SlotFits
    <3> QED
      BY <2>3, <2>4, <3>1, Phases
  <2>6. ASSUME ~slot.lifted, slot.down PROVE stream'[slot.contact] = "down"
    <3>1. I!PhaseOf(slot) = "moved"
      BY <2>6 DEF I!PhaseOf
    <3> QED
      BY <2>3, <2>4, <2>6, <3>1, Phases
  <2>7. ASSUME ~slot.lifted, ~slot.down PROVE stream'[slot.contact] = "down"
    <3>1. I!PhaseOf(slot) = "down"
      BY <2>1, <2>7 DEF I!PhaseOf, SlotFits
    <3> QED
      BY <2>3, <2>4, <2>7, <3>1, Phases
  <2> QED
    BY <2>2, <2>5, <2>6, <2>7 DEF slot
<1>8. ASSUME NEW i \in I!Ids, \A s \in TouchSlots : s \in I!Reporting => touch.slot[s].contact # i
      PROVE  stream'[i] = stream[i]
  BY <1>3, <1>4, <1>6, <1>8
<1>9. ASSUME NEW i \in I!Ids PROVE stream'[i] \in Told
  <2>1. CASE \A s \in TouchSlots : s \in I!Reporting => touch.slot[s].contact # i
    BY <1>8, <2>1 DEF Decoding, DecoderTypes
  <2>2. CASE \E s \in TouchSlots : s \in I!Reporting /\ touch.slot[s].contact = i
    BY <1>7, <2>2 DEF Told
  <2> QED
    BY <2>1, <2>2
<1>10. stream' = [i \in I!Ids |-> stream'[i]]
  BY <1>1 DEF I!Tell
<1> QED
  BY <1>7, <1>8, <1>9, <1>10

LEMMA TouchReportKeeps ==
    ASSUME KernelType, Decoding, MaxIds \in Nat, I!TouchReport
    PROVE  KernelType' /\ Decoding' /\ kernel'.drops = kernel.drops /\ kernel'.astray = kernel.astray
<1>1. /\ kernel' = [finger |-> kernel.finger, slot |-> kernel.slot, said |-> {}, pen |-> kernel.pen,
                   drops |-> kernel.drops, astray |-> kernel.astray]
      /\ UNCHANGED pen
  BY DEF I!TouchReport, KernelType
<1>2. KernelType' /\ Fingers' = Fingers /\ kernel'.drops = kernel.drops /\ kernel'.astray = kernel.astray
  BY <1>1 DEF KernelType, Fingers
<1>3. touch' = [slot |-> [s \in TouchSlots |-> I!Flushed(s)], current |-> kernel.slot]
  BY DEF I!TouchReport, Decoding, DecoderTypes
<1>4. \A s \in TouchSlots :
        /\ Settled(s, touch'.slot[s], Fingers, nextId)
        /\ touch'.slot[s].contact # 0 => touch'.slot[s].contact = touch.slot[s].contact
        /\ touch'.slot[s].tracking <=> touch.slot[s].tracking
        /\ touch'.slot[s].contact # 0 <=> touch.slot[s].tracking
        /\ s \in I!Reporting <=> touch.slot[s].dirty /\ (touch.slot[s].tracking \/ touch.slot[s].down)
        /\ SlotFits(s, touch.slot[s], Fingers, kernel.said, nextId)
  BY <1>3, FlushedSlot DEF Decoding, SlotsInv
<1>5. nextId' = nextId /\ nextId \in Nat /\ nextId <= MaxIds
  <2>1. I!Cardinality({}) = 0
    BY ICard, FS_EmptySet
  <2>2. I!Unnumbered = {} \/ TouchSlots = {}
    BY FlushedSlot
  <2>3. I!Unnumbered = {}
    BY <2>2 DEF I!Unnumbered, I!Reporting
  <2> QED
    BY <2>1, <2>3 DEF I!TouchReport, Decoding, DecoderTypes
<1>6. /\ stream' \in [I!Ids -> Told]
      /\ \A i \in I!Ids : (\A s \in TouchSlots : s \in I!Reporting => touch.slot[s].contact # i)
                           => stream'[i] = stream[i]
      /\ \A s \in TouchSlots : s \in I!Reporting =>
            stream'[touch.slot[s].contact] = IF touch.slot[s].lifted THEN "ended" ELSE "down"
  BY FrameTells
<1>7. \A s \in TouchSlots : touch.slot[s].contact # 0 => touch.slot[s].contact \in I!Ids
  BY <1>4, <1>5 DEF SlotFits, SlotRecords, I!Ids
<1>8. \A s \in TouchSlots, t \in TouchSlots :
        touch.slot[s].contact # 0 /\ touch.slot[t].contact = touch.slot[s].contact => s = t
  BY DEF Decoding, SlotsInv
<1>9. DecoderTypes'
  <2>1. touch'.slot \in [TouchSlots -> SlotRecords]
    BY <1>3, <1>4 DEF Settled
  <2> QED
    BY <1>1, <1>3, <1>5, <1>6, <2>1 DEF Decoding, DecoderTypes
<1>10. ASSUME NEW s \in TouchSlots
       PROVE  SlotFits(s, touch'.slot[s], Fingers', kernel'.said, nextId')
  BY <1>1, <1>2, <1>4, <1>5 DEF SlotFits, Settled, SlotRecords
<1>11. ASSUME NEW s \in TouchSlots, touch'.slot[s].contact # 0
       PROVE  stream'[touch'.slot[s].contact] = "down"
  <2>1. CASE s \in I!Reporting
    BY <1>4, <1>6, <1>11, <2>1 DEF SlotFits
  <2>2. CASE s \notin I!Reporting
    <3>1. touch.slot[s].contact # 0 /\ touch'.slot[s].contact = touch.slot[s].contact /\ touch.slot[s].down
      BY <1>4, <1>11, <2>2 DEF SlotFits, SlotRecords
    <3>2. stream[touch.slot[s].contact] = "down"
      BY <3>1 DEF Decoding, SlotsInv
    <3>3. \A t \in TouchSlots : t \in I!Reporting => touch.slot[t].contact # touch.slot[s].contact
      BY <1>8, <2>2, <3>1
    <3> QED
      BY <1>6, <1>7, <3>1, <3>2, <3>3
  <2> QED
    BY <2>1, <2>2
<1>12. SlotsInv'
  <2>1. \A s \in TouchSlots : touch'.slot[s].contact # 0 =>
          /\ stream'[touch'.slot[s].contact] = IF touch'.slot[s].down THEN "down" ELSE "none"
          /\ touch'.slot[s].contact # pen'.contact
          /\ \A t \in TouchSlots : touch'.slot[t].contact = touch'.slot[s].contact => s = t
    <3>1. \A s \in TouchSlots : touch'.slot[s].contact # 0 => touch'.slot[s].down
      BY <1>4 DEF Settled
    <3>2. \A s \in TouchSlots : touch.slot[s].contact # 0 => touch.slot[s].contact # pen.contact
      BY DEF Decoding, SlotsInv
    <3> QED
      BY <1>1, <1>4, <1>8, <1>11, <3>1, <3>2
  <2>2. kernel'.drops = 0 => \A s \in TouchSlots : touch'.slot[s].tracking <=> s \in Fingers'
    BY <1>2, <1>4 DEF Decoding, SlotsInv
  <2> QED
    BY <1>10, <2>1, <2>2 DEF SlotsInv
<1>13. PenInv'
  <2>1. ASSUME pen.contact # 0 PROVE stream'[pen.contact] = stream[pen.contact]
    <3>1. \A s \in TouchSlots : s \in I!Reporting => touch.slot[s].contact # pen.contact
      BY <1>4 DEF Decoding, SlotsInv, SlotFits
    <3>2. pen.contact \in I!Ids
      BY <1>5, <2>1 DEF Decoding, DecoderTypes, PenInv, I!Ids
    <3> QED
      BY <1>6, <3>1, <3>2
  <2>2. pen' = pen /\ kernel'.drops = kernel.drops /\ kernel'.pen = kernel.pen /\ nextId' = nextId
    BY <1>1, <1>5
  <2> QED
    BY <2>1, <2>2 DEF Decoding, PenInv
<1>14. StreamInv'
  <2>1. ASSUME NEW i \in I!Ids, stream'[i] = "down"
        PROVE  \/ pen.down /\ pen.contact = i
               \/ \E s \in TouchSlots : touch'.slot[s].down /\ touch'.slot[s].contact = i
    <3>1. CASE \A s \in TouchSlots : s \in I!Reporting => touch.slot[s].contact # i
      <4>1. stream[i] = "down"
        BY <1>6, <2>1, <3>1
      <4>2. CASE pen.down /\ pen.contact = i
        BY <4>2
      <4>3. CASE \E s \in TouchSlots : touch.slot[s].down /\ touch.slot[s].contact = i
        <5>1. PICK s \in TouchSlots : touch.slot[s].down /\ touch.slot[s].contact = i
          BY <4>3
        <5>2. touch.slot[s].contact # 0 /\ ~touch.slot[s].dirty
          BY <1>4, <3>1, <5>1 DEF I!Ids
        <5>3. touch'.slot[s].contact # 0
          BY <1>4, <5>2 DEF SlotFits
        <5> QED
          BY <1>4, <5>1, <5>3 DEF Settled
      <4> QED
        BY <4>1, <4>2, <4>3 DEF Decoding, StreamInv
    <3>2. CASE \E s \in TouchSlots : s \in I!Reporting /\ touch.slot[s].contact = i
      <4>1. PICK s \in TouchSlots : s \in I!Reporting /\ touch.slot[s].contact = i
        BY <3>2
      <4>2. ~touch.slot[s].lifted
        BY <1>6, <2>1, <4>1
      <4>3. touch'.slot[s].contact # 0
        BY <1>4, <4>1, <4>2 DEF SlotFits
      <4> QED
        BY <1>4, <4>1, <4>3 DEF Settled
    <3> QED
      BY <3>1, <3>2
  <2>2. ASSUME NEW i \in I!Ids, i >= nextId PROVE stream'[i] = "none"
    <3>1. \A s \in TouchSlots : touch.slot[s].contact # i
      BY <1>4, <1>5, <2>2 DEF SlotFits, SlotRecords, I!Ids
    <3>2. stream[i] = "none"
      BY <2>2 DEF Decoding, StreamInv
    <3> QED
      BY <1>6, <3>1, <3>2
  <2> QED
    BY <1>1, <1>5, <2>1, <2>2 DEF StreamInv
<1> QED
  BY <1>2, <1>9, <1>12, <1>13, <1>14 DEF Decoding

(* A report of the touch panel was dropped: every contact that was down is    *)
(* cancelled and every slot is idle.                                          *)
LEMMA TouchDroppedKeeps ==
    ASSUME KernelType, Decoding, MaxIds \in Nat, 0 \in TouchSlots, I!TouchDropped
    PROVE  KernelType' /\ kernel'.drops # 0 /\ (~kernel'.astray => Decoding')
<1>1. PICK finger \in [TouchSlots -> BOOLEAN], slot \in TouchSlots :
        kernel' = [kernel EXCEPT !.finger = finger, !.slot = slot, !.said = {}, !.drops = @ + 1,
                                 !.astray = @ \/ slot # 0]
  BY DEF I!TouchDropped
<1>2. /\ kernel' = [finger |-> finger, slot |-> slot, said |-> {}, pen |-> kernel.pen,
                   drops |-> kernel.drops + 1, astray |-> (kernel.astray \/ slot # 0)]
  BY <1>1 DEF KernelType
<1>3. KernelType' /\ kernel'.drops # 0 /\ kernel'.slot = slot /\ kernel'.said = {} /\ kernel'.pen = kernel.pen
      /\ (~kernel'.astray => slot = 0)
  <2> DEFINE wrong == kernel.astray \/ slot # 0
  <2>1. wrong \in BOOLEAN /\ (~wrong => slot = 0)
    OBVIOUS
  <2>2. kernel' = [finger |-> finger, slot |-> slot, said |-> {}, pen |-> kernel.pen,
                   drops |-> kernel.drops + 1, astray |-> wrong]
    BY <1>2
  <2> HIDE DEF wrong
  <2> QED
    BY <2>1, <2>2 DEF KernelType
<1> SUFFICES ASSUME ~kernel'.astray PROVE Decoding'
  BY <1>3
<1>4. /\ touch' = [slot |-> [s \in TouchSlots |-> I!EmptySlot], current |-> 0] /\ UNCHANGED <<pen, nextId>>
  BY DEF I!TouchDropped, I!ResyncForgets
<1>5. /\ I!EmptySlot \in SlotRecords /\ I!EmptySlot.contact = 0 /\ ~I!EmptySlot.down /\ ~I!EmptySlot.tracking
      /\ ~I!EmptySlot.dirty /\ ~I!EmptySlot.lifted
  BY DEF I!EmptySlot, SlotRecords, I!NoContact
<1>6. nextId \in Nat /\ 0 < nextId /\ nextId <= MaxIds
  BY DEF Decoding, DecoderTypes
<1> DEFINE held == {t \in TouchSlots : touch.slot[t].down}
           said == {[contact |-> touch.slot[s].contact, phase |-> "cancelled"] : s \in held}
<1>7. I!Tell(said)
  BY DEF I!TouchDropped
<1>8. \A s \in TouchSlots : SlotFits(s, touch.slot[s], Fingers, kernel.said, nextId)
  BY DEF Decoding, SlotsInv
<1>9. \A s \in held : /\ touch.slot[s].contact \in I!Ids /\ stream[touch.slot[s].contact] = "down"
                       /\ touch.slot[s].contact # pen.contact
  <2> SUFFICES ASSUME NEW s \in TouchSlots, touch.slot[s].down
               PROVE  /\ touch.slot[s].contact \in I!Ids /\ stream[touch.slot[s].contact] = "down"
                      /\ touch.slot[s].contact # pen.contact
    OBVIOUS
  <2>1. touch.slot[s].contact # 0 /\ touch.slot[s].contact \in Nat /\ touch.slot[s].contact < nextId
    BY <1>8 DEF SlotFits, SlotRecords
  <2> QED
    BY <1>6, <2>1 DEF I!Ids, Decoding, SlotsInv
<1>10. \A a \in said : a.phase = "cancelled" /\ \E s \in held : a.contact = touch.slot[s].contact
  OBVIOUS
<1>11. \A s \in held : \E a \in said : a.contact = touch.slot[s].contact /\ a.phase = "cancelled"
  <2> TAKE s \in held
  <2> WITNESS [contact |-> touch.slot[s].contact, phase |-> "cancelled"] \in said
  <2> QED
    OBVIOUS
<1>12. \A a, b \in said : a.contact = b.contact => a = b
  OBVIOUS
<1> HIDE DEF said
<1>13. /\ DOMAIN stream' = I!Ids
       /\ \A i \in I!Ids : (\A a \in said : a.contact # i) => stream'[i] = stream[i]
       /\ \A a \in said : a.contact \in I!Ids => stream'[a.contact] = I!Told(stream[a.contact], a.phase)
  BY <1>7, <1>12, Telling
<1>14. \A s \in held : stream'[touch.slot[s].contact] = "ended"
  BY <1>9, <1>11, <1>13, Phases
<1>15. \A i \in I!Ids : (\A s \in held : touch.slot[s].contact # i) => stream'[i] = stream[i]
  BY <1>10, <1>13
<1>16. DecoderTypes'
  <2>1. touch'.slot \in [TouchSlots -> SlotRecords]
    BY <1>4, <1>5
  <2>2. \A i \in I!Ids : stream'[i] \in Told
    BY <1>14, <1>15 DEF Told, Decoding, DecoderTypes
  <2>3. stream' = [i \in I!Ids |-> stream'[i]]
    BY <1>7 DEF I!Tell
  <2> QED
    BY <1>3, <1>4, <2>1, <2>2, <2>3 DEF Decoding, DecoderTypes
<1>17. SlotsInv'
  BY <1>3, <1>4, <1>5, <1>6 DEF SlotsInv, SlotFits
<1>18. PenInv'
  <2>1. ASSUME pen.contact # 0 PROVE stream'[pen.contact] = stream[pen.contact]
    <3>1. pen.contact \in I!Ids
      BY <1>6, <2>1 DEF Decoding, DecoderTypes, PenInv, I!Ids
    <3> QED
      BY <1>9, <1>15, <3>1
  <2>2. pen' = pen /\ nextId' = nextId
    BY <1>4
  <2> QED
    BY <1>3, <2>1, <2>2 DEF Decoding, PenInv
<1>19. StreamInv'
  <2>1. ASSUME NEW i \in I!Ids, stream'[i] = "down" PROVE pen.down /\ pen.contact = i
    <3>1. \A s \in held : touch.slot[s].contact # i
      BY <1>14, <2>1
    <3>2. stream[i] = "down"
      BY <1>15, <2>1, <3>1
    <3> QED
      BY <3>1, <3>2 DEF Decoding, StreamInv
  <2>2. ASSUME NEW i \in I!Ids, i >= nextId PROVE stream'[i] = "none"
    <3>1. \A s \in held : touch.slot[s].contact # i
      BY <1>6, <1>8, <2>2 DEF SlotFits, SlotRecords, I!Ids
    <3> QED
      BY <1>15, <2>2, <3>1 DEF Decoding, StreamInv
  <2> QED
    BY <1>4, <2>1, <2>2 DEF StreamInv
<1> QED
  BY <1>16, <1>17, <1>18, <1>19 DEF Decoding

(* The pen speaks of one contact: its own, or the next one.                   *)
PenTypes == [inRange : BOOLEAN, touching : BOOLEAN, down : BOOLEAN, dirty : BOOLEAN, contact : Nat]
PenTold(c) ==
    /\ pen' \in PenTypes /\ pen.contact \in {0, c} /\ pen'.contact \in {0, c}
    /\ nextId' \in Nat /\ nextId <= nextId' /\ nextId' <= MaxIds
    /\ c = pen.contact \/ (c = nextId /\ nextId < nextId')
    /\ stream' \in [I!Ids -> Told]
    /\ \A i \in I!Ids : i # c => stream'[i] = stream[i]
    /\ c \in I!Ids => (stream'[c] = "down" => pen'.down /\ pen'.contact = c)
PenOnly ==
    /\ KernelType' /\ touch' = touch /\ kernel'.pen \in Whereabouts
    /\ kernel'.finger = kernel.finger /\ kernel'.slot = kernel.slot /\ kernel'.said = kernel.said
    /\ kernel'.astray = kernel.astray /\ (kernel'.drops = 0 => kernel.drops = 0)
LEMMA PenSpeaks ==
    ASSUME KernelType, Decoding, MaxIds \in Nat, NEW c, PenOnly, PenTold(c), PenInv'
    PROVE  Decoding'
<1>1. nextId \in Nat /\ 0 < nextId /\ nextId <= nextId' /\ nextId' \in Nat /\ pen.contact < nextId
      /\ Fingers' = Fingers /\ pen.contact \in Nat
  BY DEF Decoding, DecoderTypes, PenInv, PenTold, PenOnly, Fingers
<1>2. DecoderTypes'
  BY <1>1 DEF Decoding, DecoderTypes, PenTold, PenOnly, PenTypes
<1>3. \A s \in TouchSlots : SlotFits(s, touch.slot[s], Fingers, kernel.said, nextId)
  BY DEF Decoding, SlotsInv
<1>4. \A s \in TouchSlots : touch.slot[s].contact # 0 =>
         touch.slot[s].contact # c /\ touch.slot[s].contact \in I!Ids /\ touch.slot[s].contact # pen'.contact
  <2> SUFFICES ASSUME NEW s \in TouchSlots, touch.slot[s].contact # 0
               PROVE  touch.slot[s].contact # c /\ touch.slot[s].contact \in I!Ids
                      /\ touch.slot[s].contact # pen'.contact
    OBVIOUS
  <2>1. touch.slot[s].contact \in Nat /\ touch.slot[s].contact < nextId /\ nextId <= MaxIds
    BY <1>3 DEF SlotFits, SlotRecords, Decoding, DecoderTypes
  <2>2. touch.slot[s].contact # pen.contact
    BY DEF Decoding, SlotsInv
  <2>3. touch.slot[s].contact # c
    BY <2>1, <2>2 DEF PenTold
  <2> QED
    <3>1. touch.slot[s].contact \in I!Ids
      BY <1>1, <2>1 DEF I!Ids
    <3>2. touch.slot[s].contact # pen'.contact
      BY <2>3 DEF PenTold
    <3> QED
      BY <2>3, <3>1, <3>2
<1>5. SlotsInv'
  <2>1. \A s \in TouchSlots : SlotFits(s, touch.slot[s], Fingers, kernel.said, nextId')
    BY <1>1, <1>3, FitsLater
  <2>2. \A s \in TouchSlots : touch.slot[s].contact # 0 =>
          stream'[touch.slot[s].contact] = stream[touch.slot[s].contact]
    BY <1>4 DEF PenTold
  <2> QED
    BY <1>1, <1>4, <2>1, <2>2 DEF PenOnly, Decoding, SlotsInv
<1>6. StreamInv'
  <2>1. ASSUME NEW i \in I!Ids, stream'[i] = "down"
        PROVE  \/ pen'.down /\ pen'.contact = i
               \/ \E s \in TouchSlots : touch.slot[s].down /\ touch.slot[s].contact = i
    <3>1. CASE i = c
      BY <2>1, <3>1 DEF PenTold
    <3>2. CASE i # c
      <4>1. stream[i] = "down" /\ i # 0
        BY <2>1, <3>2 DEF PenTold, I!Ids
      <4>2. pen.contact # i
        BY <3>2, <4>1 DEF PenTold
      <4> QED
        BY <4>1, <4>2 DEF Decoding, StreamInv
    <3> QED
      BY <3>1, <3>2
  <2>2. ASSUME NEW i \in I!Ids, i >= nextId' PROVE stream'[i] = "none"
    <3>1. i \in Nat
      BY DEF I!Ids
    <3>2. i # c /\ i >= nextId
      BY <1>1, <2>2, <3>1 DEF PenTold
    <3> QED
      BY <3>2 DEF PenTold, Decoding, StreamInv
  <2> QED
    BY <2>1, <2>2 DEF StreamInv, PenOnly
<1> QED
  BY <1>2, <1>5, <1>6 DEF Decoding

LEMMA PenMovesKeeps ==
    ASSUME KernelType, Decoding, MaxIds \in Nat, I!PenMoves
    PROVE  KernelType' /\ Decoding' /\ kernel'.drops = kernel.drops /\ kernel'.astray = kernel.astray
<1>1. PICK where \in Whereabouts :
        /\ kernel' = [kernel EXCEPT !.pen = where]
        /\ pen' = [pen EXCEPT !.inRange = (where # "away"), !.touching = (where = "touching"), !.dirty = TRUE]
  BY DEF I!PenMoves, Whereabouts
<1>2. kernel' = [finger |-> kernel.finger, slot |-> kernel.slot, said |-> kernel.said, pen |-> where,
                 drops |-> kernel.drops, astray |-> kernel.astray]
  BY <1>1 DEF KernelType
<1>3. /\ pen' \in PenTypes /\ pen'.down = pen.down /\ pen'.contact = pen.contact /\ pen'.dirty
      /\ pen'.touching <=> where = "touching"
  BY <1>1 DEF Decoding, DecoderTypes, PenTypes
<1>4. UNCHANGED <<touch, nextId, stream>>
  BY DEF I!PenMoves
<1>5. PenOnly
  BY <1>2, <1>4 DEF PenOnly, KernelType
<1>6. PenInv'
  BY <1>2, <1>3, <1>4 DEF Decoding, PenInv
<1>7. PenTold(pen.contact)
  <2>1. pen.contact \in I!Ids => (stream[pen.contact] = "down" => pen.down)
    BY DEF Decoding, PenInv, I!Ids
  <2> QED
    BY <1>3, <1>4, <2>1 DEF PenTold, Decoding, DecoderTypes
<1> QED
  BY <1>2, <1>5, <1>6, <1>7, PenSpeaks DEF PenOnly

(* One phase of one contact.                                                  *)
LEMMA OneTold ==
    ASSUME NEW c \in I!Ids, NEW phase, I!Tell({[contact |-> c, phase |-> phase]})
    PROVE  /\ DOMAIN stream' = I!Ids /\ stream'[c] = I!Told(stream[c], phase)
           /\ \A i \in I!Ids : i # c => stream'[i] = stream[i]
           /\ stream' = [i \in I!Ids |-> stream'[i]]
<1> DEFINE said == {[contact |-> c, phase |-> phase]}
<1>1. \A a \in said : a.contact = c /\ a.phase = phase
  OBVIOUS
<1>2. \E a \in said : TRUE
  OBVIOUS
<1>3. \A a, b \in said : a.contact = b.contact => a = b
  OBVIOUS
<1>4. I!Tell(said) /\ stream' = [i \in I!Ids |-> stream'[i]]
  BY DEF I!Tell
<1> HIDE DEF said
<1>5. /\ DOMAIN stream' = I!Ids
      /\ \A i \in I!Ids : (\A a \in said : a.contact # i) => stream'[i] = stream[i]
      /\ \A a \in said : a.contact \in I!Ids => stream'[a.contact] = I!Told(stream[a.contact], a.phase)
  BY <1>3, <1>4, Telling
<1> QED
  BY <1>1, <1>2, <1>4, <1>5

LEMMA PenReportKeeps ==
    ASSUME KernelType, Decoding, MaxIds \in Nat, I!PenReport
    PROVE  KernelType' /\ Decoding' /\ kernel'.drops = kernel.drops /\ kernel'.astray = kernel.astray
<1>1. UNCHANGED <<kernel, touch>> /\ pen.dirty /\ nextId < MaxIds
  BY DEF I!PenReport
<1>2. PenOnly
  BY <1>1 DEF PenOnly, KernelType, Decoding, DecoderTypes
<1>3. /\ nextId \in Nat /\ 0 < nextId /\ pen \in PenTypes /\ stream \in [I!Ids -> Told]
      /\ pen.contact < nextId /\ (pen.down => pen.contact # 0)
      /\ (pen.contact # 0 => stream[pen.contact] = IF pen.down THEN "down" ELSE "hover")
  BY DEF Decoding, DecoderTypes, PenInv, PenTypes
<1>4. CASE I!PenPhase = "none"
  <2>1. ~pen.down /\ ~pen.touching
    BY <1>4 DEF I!PenPhase
  <2>2. pen' = [pen EXCEPT !.dirty = FALSE, !.contact = 0] /\ UNCHANGED <<nextId, stream>>
    BY <1>4 DEF I!PenReport, I!NoContact
  <2>3. pen' \in PenTypes /\ ~pen'.down /\ ~pen'.touching /\ pen'.contact = 0
    BY <1>3, <2>1, <2>2 DEF PenTypes
  <2>4. PenInv'
    BY <1>1, <1>3, <2>1, <2>2, <2>3 DEF Decoding, PenInv
  <2>5. PenTold(pen.contact)
    <3>1. pen.contact \in I!Ids => stream[pen.contact] # "down"
      BY <1>3, <2>1 DEF I!Ids
    <3> QED
      BY <1>1, <1>3, <2>2, <2>3, <3>1 DEF PenTold
  <2> QED
    BY <1>1, <1>2, <2>4, <2>5, PenSpeaks DEF PenOnly
<1>5. CASE I!PenPhase # "none"
  <2> DEFINE c == I!PenContact
             phase == I!PenPhase
  <2>1. /\ I!Tell({[contact |-> c, phase |-> phase]})
        /\ nextId' = IF pen.contact = 0 THEN nextId + 1 ELSE nextId
        /\ pen' = [pen EXCEPT !.dirty = FALSE, !.down = pen.touching,
                              !.contact = IF phase = "up" THEN 0 ELSE c]
    BY <1>5 DEF I!PenReport, I!NoContact
  <2>2. /\ c = IF pen.contact = 0 THEN nextId ELSE pen.contact
        /\ c \in I!Ids /\ c \in Nat /\ c # 0
    BY <1>1, <1>3 DEF I!PenContact, I!NoContact, I!Ids, PenTypes
  <2>3. stream[c] = IF pen.contact = 0 THEN "none" ELSE IF pen.down THEN "down" ELSE "hover"
    BY <1>3, <2>2 DEF Decoding, StreamInv
  <2>4. /\ pen' \in PenTypes /\ pen'.touching = pen.touching /\ pen'.down = pen.touching
        /\ pen'.contact = IF phase = "up" THEN 0 ELSE c
    <3> HIDE DEF c, phase
    <3> QED
      BY <1>3, <2>1, <2>2 DEF PenTypes
  <2>5. /\ phase = "down" => ~pen.down /\ pen.touching
        /\ phase = "moved" => pen.down /\ pen.touching
        /\ phase = "up" => pen.down /\ ~pen.touching
        /\ phase = "hover" => ~pen.down /\ ~pen.touching
        /\ phase \in {"down", "moved", "up", "hover"}
    BY <1>3, <1>5 DEF I!PenPhase, PenTypes
  <2> HIDE DEF c, phase
  <2>6. /\ stream'[c] = I!Told(stream[c], phase)
        /\ \A i \in I!Ids : i # c => stream'[i] = stream[i]
        /\ stream' = [i \in I!Ids |-> stream'[i]]
    BY <2>1, <2>2, OneTold
  <2>7. stream'[c] = IF phase = "up" THEN "ended" ELSE IF pen.touching THEN "down" ELSE "hover"
    <3>1. CASE phase = "down"
      BY <2>3, <2>5, <2>6, <3>1, Phases
    <3>2. CASE phase = "moved"
      BY <1>3, <2>3, <2>5, <2>6, <3>2, Phases
    <3>3. CASE phase = "up"
      BY <1>3, <2>3, <2>5, <2>6, <3>3, Phases
    <3>4. CASE phase = "hover"
      BY <2>3, <2>5, <2>6, <3>4, Phases
    <3> QED
      BY <2>5, <3>1, <3>2, <3>3, <3>4
  <2>8. stream' \in [I!Ids -> Told]
    <3>1. \A i \in I!Ids : stream'[i] \in Told
      BY <1>3, <2>6, <2>7 DEF Told
    <3> QED
      BY <2>6, <3>1
  <2>9. PenInv'
    BY <1>1, <1>3, <2>1, <2>2, <2>4, <2>5, <2>7 DEF Decoding, PenInv
  <2>10. PenTold(c)
    <3>1. stream'[c] = "down" => pen'.down /\ pen'.contact = c
      BY <2>4, <2>5, <2>7
    <3> QED
      BY <1>1, <1>3, <2>1, <2>2, <2>4, <2>6, <2>8, <3>1 DEF PenTold
  <2> QED
    BY <1>1, <1>2, <2>9, <2>10, PenSpeaks DEF PenOnly
<1> QED
  BY <1>4, <1>5

LEMMA PenDroppedKeeps ==
    ASSUME KernelType, Decoding, MaxIds \in Nat, I!PenDropped
    PROVE  KernelType' /\ Decoding' /\ kernel'.drops # 0 /\ kernel'.astray = kernel.astray
<1>1. PICK where \in Whereabouts : kernel' = [kernel EXCEPT !.pen = where, !.drops = @ + 1]
  BY DEF I!PenDropped, Whereabouts
<1>2. kernel' = [finger |-> kernel.finger, slot |-> kernel.slot, said |-> kernel.said, pen |-> where,
                 drops |-> kernel.drops + 1, astray |-> kernel.astray]
  BY <1>1 DEF KernelType
<1>3. UNCHANGED <<touch, nextId>>
  BY DEF I!PenDropped
<1>4. PenOnly /\ kernel'.drops # 0
  BY <1>2, <1>3 DEF PenOnly, KernelType
<1>5. /\ nextId \in Nat /\ 0 < nextId /\ nextId <= MaxIds /\ pen \in PenTypes /\ stream \in [I!Ids -> Told]
      /\ pen.contact < nextId /\ (pen.down => pen.contact # 0)
      /\ (pen.contact # 0 => stream[pen.contact] = IF pen.down THEN "down" ELSE "hover")
  BY DEF Decoding, DecoderTypes, PenInv, PenTypes
<1>6. pen' = [pen EXCEPT !.dirty = FALSE, !.touching = FALSE, !.down = FALSE, !.contact = 0]
  BY DEF I!PenDropped, I!NoContact
<1>7. pen' \in PenTypes /\ ~pen'.down /\ ~pen'.touching /\ pen'.contact = 0
  BY <1>5, <1>6 DEF PenTypes
<1>8. PenInv'
  BY <1>3, <1>4, <1>5, <1>7 DEF PenInv
<1> DEFINE c == pen.contact
<1>9. /\ stream' \in [I!Ids -> Told]
      /\ \A i \in I!Ids : i # c => stream'[i] = stream[i]
      /\ c \in I!Ids => stream'[c] # "down"
  <2>1. CASE pen.down
    <3>1. c \in I!Ids /\ stream[c] = "down"
      BY <1>5, <2>1 DEF I!Ids, PenTypes
    <3>2. I!Tell({[contact |-> c, phase |-> "cancelled"]})
      BY <2>1 DEF I!PenDropped
    <3> HIDE DEF c
    <3>3. /\ stream'[c] = I!Told(stream[c], "cancelled")
          /\ \A i \in I!Ids : i # c => stream'[i] = stream[i]
          /\ stream' = [i \in I!Ids |-> stream'[i]]
      BY <3>1, <3>2, OneTold
    <3>4. stream'[c] = "ended"
      BY <3>1, <3>3, Phases
    <3>5. \A i \in I!Ids : stream'[i] \in Told
      BY <1>5, <3>3, <3>4 DEF Told
    <3> QED
      BY <3>3, <3>4, <3>5
  <2>2. CASE ~pen.down
    <3>1. stream' = stream
      BY <2>2 DEF I!PenDropped
    <3> QED
      BY <1>5, <2>2, <3>1 DEF I!Ids
  <2> QED
    BY <2>1, <2>2
<1>10. PenTold(c)
  BY <1>3, <1>5, <1>7, <1>9 DEF PenTold
<1> QED
  BY <1>4, <1>8, <1>10, PenSpeaks DEF PenOnly

(* The mouse.  A contact it holds is live, and no id over is used again.      *)
MouseTypes == [on : BOOLEAN, held : BOOLEAN, pressed : BOOLEAN, seen : BOOLEAN, id : Nat, next : Nat,
               live : SUBSET Nat, over : SUBSET Nat, stale : BOOLEAN]
MouseFits(m) ==
    /\ m \in MouseTypes /\ m.id < m.next /\ ~m.stale
    /\ m.live = IF m.id = 0 THEN {} ELSE {m.id}
    /\ m.id # 0 => m.seen
    /\ \A o \in m.over : o < m.next /\ o # m.id /\ o # 0

LEMMA FreshOrHeld ==
    ASSUME NEW m, MouseFits(m)
    PROVE  LET n == I!Current(m)
           IN  /\ n \in MouseTypes /\ n.id < n.next /\ n.id # 0 /\ ~n.stale /\ n.live \subseteq {n.id}
               /\ \A o \in n.over : o < n.next /\ o # n.id /\ o # 0
               /\ n.held = m.held /\ n.pressed = m.pressed /\ n.seen = m.seen
<1> DEFINE n == I!Current(m)
<1>1. CASE m.id = 0
  <2>1. n = [m EXCEPT !.id = m.next, !.next = m.next + 1]
    BY <1>1 DEF I!Current, I!Begin, I!NoContact
  <2> HIDE DEF n
  <2>2. /\ n \in MouseTypes /\ n.id = m.next /\ n.next = m.next + 1 /\ n.live = m.live /\ n.over = m.over
        /\ n.stale = m.stale /\ n.held = m.held /\ n.pressed = m.pressed /\ n.seen = m.seen
    <3>1. m \in MouseTypes /\ m.next \in Nat
      BY DEF MouseFits, MouseTypes
    <3> DEFINE x == m.next
               y == m.next + 1
    <3>2. x \in Nat /\ y \in Nat /\ n = [m EXCEPT !.id = x, !.next = y]
      BY <2>1, <3>1
    <3> HIDE DEF x, y
    <3>3. n \in MouseTypes
      BY <3>1, <3>2 DEF MouseTypes
    <3>4. /\ n.id = x /\ n.next = y /\ n.live = m.live /\ n.over = m.over
          /\ n.stale = m.stale /\ n.held = m.held /\ n.pressed = m.pressed /\ n.seen = m.seen
      BY <3>1, <3>2 DEF MouseTypes
    <3> QED
      BY <3>3, <3>4 DEF x, y
  <2>3. m.live = {} /\ m.next \in Nat /\ m.next # 0 /\ m.over \in SUBSET Nat
    BY <1>1 DEF MouseFits, MouseTypes
  <2>4. \A o \in n.over : o < n.next /\ o # n.id /\ o # 0
    BY <2>2, <2>3 DEF MouseFits
  <2> QED
    BY <2>2, <2>3, <2>4 DEF MouseFits, n
<1>2. CASE m.id # 0
  <2>1. n = m
    BY <1>2 DEF I!Current, I!NoContact
  <2> QED
    BY <1>2, <2>1 DEF MouseFits
<1> QED
  BY <1>1, <1>2

LEMMA Resolved ==
    ASSUME NEW m, MouseFits(m), NEW onCanvas \in BOOLEAN,
           NEW phase \in {"down", "up", "moved", "cancelled"}, phase = "down" => m.id = 0
    PROVE  LET t == I!Resolve(m, onCanvas, phase)
           IN  /\ MouseFits(t) /\ t.held = m.held /\ t.pressed = m.pressed
               /\ phase \in {"up", "cancelled"} => t.id = 0
<1> DEFINE n == I!Current(m)
           t == I!Resolve(m, onCanvas, phase)
<1>1. /\ n \in MouseTypes /\ n.id < n.next /\ n.id # 0 /\ ~n.stale /\ n.live \subseteq {n.id}
      /\ \A o \in n.over : o < n.next /\ o # n.id /\ o # 0
      /\ n.held = m.held /\ n.pressed = m.pressed /\ n.seen = m.seen
  BY FreshOrHeld
<1>2. /\ phase = "down" => I!Begin(m) = n
  BY DEF I!Current, I!NoContact
<1>3. CASE onCanvas /\ phase \in {"down", "moved"}
  <2>1. t = [[n EXCEPT !.stale = n.stale \/ n.id \in n.over, !.live = n.live \union {n.id}, !.over = n.over]
               EXCEPT !.seen = TRUE]
    <3> HIDE DEF n
    <3> QED
      BY <1>2, <1>3 DEF I!Resolve, I!MouseTell, n
  <2>2. (n.stale \/ n.id \in n.over) = FALSE /\ n.live \union {n.id} = {n.id}
    BY <1>1
  <2>3. t = [[n EXCEPT !.stale = FALSE, !.live = {n.id}, !.over = n.over] EXCEPT !.seen = TRUE]
    BY <2>1, <2>2
  <2> HIDE DEF n, t
  <2>4. /\ t \in MouseTypes /\ t.id = n.id /\ t.next = n.next /\ ~t.stale /\ t.live = {n.id} /\ t.over = n.over
        /\ t.seen /\ t.held = n.held /\ t.pressed = n.pressed
    BY <1>1, <2>3 DEF MouseTypes
  <2>5. MouseFits(t)
    BY <1>1, <2>4 DEF MouseFits
  <2> QED
    BY <1>1, <1>3, <2>4, <2>5 DEF t
<1>4. CASE (onCanvas /\ phase \in {"up", "cancelled"}) \/ (~onCanvas /\ phase # "down" /\ m.seen)
  <2>1. t = [[n EXCEPT !.stale = n.stale \/ n.id \in n.over, !.live = n.live \ {n.id}, !.over = n.over \union {n.id}]
               EXCEPT !.seen = FALSE, !.id = 0]
    <3>1. CASE onCanvas /\ phase \in {"up", "cancelled"}
      BY <3>1 DEF I!Resolve, I!MouseTell, I!NoContact
    <3>2. CASE ~onCanvas /\ phase # "down" /\ m.seen
      BY <3>2 DEF I!Resolve, I!MouseTell, I!NoContact
    <3> QED
      BY <1>4, <3>1, <3>2
  <2>2. (n.stale \/ n.id \in n.over) = FALSE /\ n.live \ {n.id} = {}
    BY <1>1
  <2>3. t = [[n EXCEPT !.stale = FALSE, !.live = {}, !.over = n.over \union {n.id}] EXCEPT !.seen = FALSE, !.id = 0]
    BY <2>1, <2>2
  <2> HIDE DEF n, t
  <2>4. /\ t \in MouseTypes /\ t.id = 0 /\ t.next = n.next /\ ~t.stale /\ t.live = {} /\ t.over = n.over \union {n.id}
        /\ t.held = n.held /\ t.pressed = n.pressed
    BY <1>1, <2>3 DEF MouseTypes
  <2>5. MouseFits(t)
    <3>1. n.next \in Nat /\ n.id \in Nat /\ 0 < n.next
      BY <1>1 DEF MouseTypes
    <3> QED
      BY <1>1, <2>4, <3>1 DEF MouseFits
  <2> QED
    BY <1>1, <2>4, <2>5 DEF t
<1>5. CASE ~onCanvas /\ (phase = "down" \/ ~m.seen)
  <2>1. t = m
    BY <1>5 DEF I!Resolve
  <2>2. m.id = 0
    BY <1>5 DEF MouseFits
  <2> QED
    BY <2>1, <2>2
<1> QED
  BY <1>3, <1>4, <1>5

LEMMA MouseEventKeeps ==
    ASSUME MouseInv, I!MouseEvent
    PROVE  MouseInv'
<1>1. MouseFits(mouse) /\ mouse \in MouseTypes
  BY DEF MouseInv, MouseFits, MouseTypes
<1>2. PICK onCanvas \in BOOLEAN :
          \/ /\ ~mouse.held
             /\ mouse' = I!Resolve([mouse EXCEPT !.held = TRUE, !.pressed = TRUE], onCanvas, "down")
          \/ /\ mouse.held
             /\ mouse' = I!Resolve([mouse EXCEPT !.held = FALSE, !.pressed = FALSE], onCanvas, "up")
          \/ mouse.pressed /\ mouse' = I!Resolve(mouse, onCanvas, "moved")
          \/ /\ mouse.pressed
             /\ mouse' = I!Resolve([mouse EXCEPT !.pressed = FALSE], onCanvas, "cancelled")
  BY DEF I!MouseEvent
<1>3. /\ mouse.id # 0 => mouse.seen /\ mouse.pressed /\ mouse.held
      /\ mouse.pressed => mouse.held
  BY DEF MouseInv
<1>4. /\ MouseFits(mouse') /\ (mouse'.pressed => mouse'.held) /\ (mouse'.id # 0 => mouse'.pressed /\ mouse'.held)
  <2>1. CASE /\ ~mouse.held
             /\ mouse' = I!Resolve([mouse EXCEPT !.held = TRUE, !.pressed = TRUE], onCanvas, "down")
    <3> DEFINE m == [mouse EXCEPT !.held = TRUE, !.pressed = TRUE]
    <3>1. MouseFits(m) /\ m.held /\ m.pressed /\ m.id = 0
      BY <1>1, <1>3, <2>1 DEF MouseFits, MouseTypes
    <3> HIDE DEF m
    <3>2. MouseFits(mouse') /\ mouse'.held = m.held /\ mouse'.pressed = m.pressed
      BY <2>1, <3>1, Resolved DEF m
    <3> QED
      BY <3>1, <3>2
  <2>2. CASE /\ mouse.held
             /\ mouse' = I!Resolve([mouse EXCEPT !.held = FALSE, !.pressed = FALSE], onCanvas, "up")
    <3> DEFINE m == [mouse EXCEPT !.held = FALSE, !.pressed = FALSE]
    <3>1. MouseFits(m) /\ ~m.held /\ ~m.pressed
      BY <1>1 DEF MouseFits, MouseTypes
    <3> HIDE DEF m
    <3>2. MouseFits(mouse') /\ mouse'.pressed = m.pressed /\ mouse'.id = 0
      BY <2>2, <3>1, Resolved DEF m
    <3> QED
      BY <3>1, <3>2
  <2>3. CASE mouse.pressed /\ mouse' = I!Resolve(mouse, onCanvas, "moved")
    <3>1. MouseFits(mouse') /\ mouse'.held = mouse.held /\ mouse'.pressed = mouse.pressed
      BY <1>1, <2>3, Resolved
    <3> QED
      BY <1>3, <2>3, <3>1
  <2>4. CASE /\ mouse.pressed
             /\ mouse' = I!Resolve([mouse EXCEPT !.pressed = FALSE], onCanvas, "cancelled")
    <3> DEFINE m == [mouse EXCEPT !.pressed = FALSE]
    <3>1. MouseFits(m) /\ ~m.pressed
      BY <1>1 DEF MouseFits, MouseTypes
    <3> HIDE DEF m
    <3>2. MouseFits(mouse') /\ mouse'.pressed = m.pressed /\ mouse'.id = 0
      BY <2>4, <3>1, Resolved DEF m
    <3> QED
      BY <3>1, <3>2
  <2> QED
    BY <1>2, <2>1, <2>2, <2>3, <2>4
<1> QED
  BY <1>4 DEF MouseInv, MouseFits, MouseTypes

LEMMA InputStarts == Init => InputInv
<1> SUFFICES ASSUME I!InputInit PROVE InputInv
  BY DEF Init
<1>1. /\ kernel = [finger |-> [s \in TouchSlots |-> FALSE], slot |-> 0, said |-> {}, pen |-> "away",
                  drops |-> 0, astray |-> FALSE]
      /\ touch = [slot |-> [s \in TouchSlots |-> I!EmptySlot], current |-> 0]
      /\ pen = [inRange |-> FALSE, touching |-> FALSE, down |-> FALSE, dirty |-> FALSE, contact |-> 0]
      /\ nextId = 1 /\ stream = [i \in I!Ids |-> "none"]
      /\ MaxIds \in Nat /\ 0 < MaxIds /\ 0 \in TouchSlots
  BY InputAssumption DEF I!InputInit, I!NoContact
<1>2. /\ I!EmptySlot \in SlotRecords /\ I!EmptySlot.contact = 0 /\ ~I!EmptySlot.down /\ ~I!EmptySlot.tracking
      /\ ~I!EmptySlot.dirty /\ ~I!EmptySlot.lifted
  BY DEF I!EmptySlot, SlotRecords, I!NoContact
<1>3. KernelType /\ Fingers = {}
  BY <1>1 DEF KernelType, Fingers
<1>4. DecoderTypes
  BY <1>1, <1>2 DEF DecoderTypes, Whereabouts, Told
<1>5. SlotsInv
  BY <1>1, <1>2, <1>3 DEF SlotsInv, SlotFits
<1>6. PenInv
  BY <1>1 DEF PenInv
<1>7. StreamInv
  BY <1>1 DEF StreamInv
<1>8. MouseInv
  <2>1. PICK desktop \in BOOLEAN :
          mouse = [on |-> desktop, held |-> FALSE, pressed |-> FALSE, seen |-> FALSE, id |-> 0, next |-> 1,
                   live |-> {}, over |-> {}, stale |-> FALSE]
    BY DEF I!InputInit, I!NoContact
  <2> QED
    BY <2>1 DEF MouseInv
<1> QED
  BY <1>1, <1>3, <1>4, <1>5, <1>6, <1>7, <1>8 DEF InputInv, Decoding

(* What the kernel does to its own state, whether or not resync guessed right. *)
LEMMA KernelKeeps ==
    ASSUME KernelType,
           \/ I!FingerLands \/ I!FingerLifts \/ I!FingerMoves \/ I!TouchReport \/ I!TouchDropped
           \/ I!PenMoves \/ I!PenReport \/ I!PenDropped
    PROVE  /\ KernelType' /\ (kernel.astray => kernel'.astray)
           /\ UNCHANGED mouse
<1>1. ASSUME NEW s \in TouchSlots, NEW swap, I!Says(s, swap)
      PROVE  KernelType' /\ (kernel.astray => kernel'.astray)
  <2> DEFINE f == [kernel.finger EXCEPT ![s] = ~kernel.finger[s]]
             wrong == kernel.astray \/ swap
  <2>1. f \in [TouchSlots -> BOOLEAN] /\ wrong \in BOOLEAN /\ (kernel.astray => wrong)
    BY DEF KernelType
  <2>2. kernel' = [finger |-> f, slot |-> s, said |-> kernel.said \union {s}, pen |-> kernel.pen,
                   drops |-> kernel.drops, astray |-> wrong]
    BY <1>1 DEF KernelType, I!Says
  <2> HIDE DEF f, wrong
  <2> QED
    BY <2>1, <2>2 DEF KernelType
<1>2. CASE I!FingerLands \/ I!FingerLifts
  BY <1>1, <1>2 DEF I!FingerLands, I!FingerLifts
<1>3. CASE I!FingerMoves
  <2>1. PICK s \in TouchSlots : kernel' = [kernel EXCEPT !.slot = s, !.said = @ \union {s}]
    BY <1>3 DEF I!FingerMoves
  <2>2. kernel' = [finger |-> kernel.finger, slot |-> s, said |-> kernel.said \union {s}, pen |-> kernel.pen,
                   drops |-> kernel.drops, astray |-> kernel.astray]
    BY <2>1 DEF KernelType
  <2> QED
    BY <1>3, <2>2 DEF KernelType, I!FingerMoves
<1>4. CASE I!TouchReport
  <2>1. kernel' = [finger |-> kernel.finger, slot |-> kernel.slot, said |-> {}, pen |-> kernel.pen,
                   drops |-> kernel.drops, astray |-> kernel.astray]
    BY <1>4 DEF I!TouchReport, KernelType
  <2> QED
    BY <1>4, <2>1 DEF KernelType, I!TouchReport
<1>5. CASE I!TouchDropped
  <2>1. PICK finger \in [TouchSlots -> BOOLEAN], slot \in TouchSlots :
          kernel' = [kernel EXCEPT !.finger = finger, !.slot = slot, !.said = {}, !.drops = @ + 1,
                                   !.astray = @ \/ slot # 0]
    BY <1>5 DEF I!TouchDropped
  <2> DEFINE wrong == kernel.astray \/ slot # 0
  <2>2. wrong \in BOOLEAN /\ (kernel.astray => wrong)
    OBVIOUS
  <2>3. kernel' = [finger |-> finger, slot |-> slot, said |-> {}, pen |-> kernel.pen,
                   drops |-> kernel.drops + 1, astray |-> wrong]
    BY <2>1 DEF KernelType
  <2> HIDE DEF wrong
  <2>4. KernelType' /\ kernel'.drops # 0
    BY <2>2, <2>3 DEF KernelType
  <2>5. kernel.astray => kernel'.astray
    BY <2>2, <2>3
  <2> QED
    BY <1>5, <2>4, <2>5 DEF I!TouchDropped
<1>6. CASE I!PenMoves
  <2>1. PICK where \in Whereabouts : kernel' = [kernel EXCEPT !.pen = where]
    BY <1>6 DEF I!PenMoves, Whereabouts
  <2>2. kernel' = [finger |-> kernel.finger, slot |-> kernel.slot, said |-> kernel.said, pen |-> where,
                   drops |-> kernel.drops, astray |-> kernel.astray]
    BY <2>1 DEF KernelType
  <2> QED
    BY <1>6, <2>2 DEF KernelType, I!PenMoves
<1>7. CASE I!PenReport
  BY <1>7 DEF I!PenReport, KernelType
<1>8. CASE I!PenDropped
  <2>1. PICK where \in Whereabouts : kernel' = [kernel EXCEPT !.pen = where, !.drops = @ + 1]
    BY <1>8 DEF I!PenDropped, Whereabouts
  <2>2. kernel' = [finger |-> kernel.finger, slot |-> kernel.slot, said |-> kernel.said, pen |-> where,
                   drops |-> kernel.drops + 1, astray |-> kernel.astray]
    BY <2>1 DEF KernelType
  <2>3. KernelType' /\ kernel'.drops # 0 /\ kernel'.astray = kernel.astray
    BY <2>2 DEF KernelType
  <2> QED
    BY <1>8, <2>3 DEF I!PenDropped
<1> QED
  BY <1>2, <1>3, <1>4, <1>5, <1>6, <1>7, <1>8

LEMMA DecodersRest ==
    ASSUME UNCHANGED <<kernel, touch, pen, nextId, stream>>
    PROVE  (KernelType <=> KernelType') /\ (Decoding <=> Decoding')
<1>1. KernelType <=> KernelType'
  BY DEF KernelType
<1>2. Fingers' = Fingers
  BY DEF Fingers
<1>3. DecoderTypes <=> DecoderTypes'
  BY DEF DecoderTypes
<1>4. SlotsInv <=> SlotsInv'
  BY <1>2 DEF SlotsInv
<1>5. PenInv <=> PenInv'
  BY DEF PenInv
<1>6. StreamInv <=> StreamInv'
  BY DEF StreamInv
<1> QED
  BY <1>1, <1>3, <1>4, <1>5, <1>6 DEF Decoding

LEMMA InputStep ==
    ASSUME InputInv, I!InputNext
    PROVE  InputInv'
<1>1. KernelType /\ MouseInv /\ MaxIds \in Nat /\ 0 \in TouchSlots
  BY InputAssumption DEF InputInv
<1>2. CASE I!MouseEvent
  <2>1. UNCHANGED <<kernel, touch, pen, nextId, stream>>
    BY <1>2 DEF I!MouseEvent
  <2>2. KernelType' /\ (~kernel'.astray => Decoding')
    BY <2>1, DecodersRest DEF InputInv
  <2>3. MouseInv'
    BY <1>1, <1>2, MouseEventKeeps
  <2> QED
    BY <2>2, <2>3 DEF InputInv
<1>3. CASE \/ I!FingerLands \/ I!FingerLifts \/ I!FingerMoves \/ I!TouchReport \/ I!TouchDropped
           \/ I!PenMoves \/ I!PenReport \/ I!PenDropped
  <2>1. KernelType' /\ (kernel.astray => kernel'.astray) /\ UNCHANGED mouse
    BY <1>1, <1>3, KernelKeeps
  <2>2. MouseInv'
    BY <1>1, <2>1 DEF MouseInv
  <2>3. CASE kernel.astray
    BY <1>1, <2>1, <2>2, <2>3 DEF InputInv
  <2>4. CASE ~kernel.astray
    <3>1. Decoding
      BY <2>4 DEF InputInv
    <3>2. ~kernel'.astray => Decoding'
      BY <1>1, <1>3, <2>4, <3>1, FingerLandsKeeps, FingerLiftsKeeps, FingerMovesKeeps, TouchReportKeeps,
         TouchDroppedKeeps, PenMovesKeeps, PenReportKeeps, PenDroppedKeeps
    <3> QED
      BY <2>1, <2>2, <3>2 DEF InputInv
  <2> QED
    BY <2>3, <2>4
<1> QED
  BY <1>2, <1>3 DEF I!InputNext

(* While nothing was dropped and a frame is complete, the contacts that are   *)
(* down are one per finger on the glass, and the pen's.                       *)
LEMMA OneEach == ASSUME Decoding PROVE I!FingersAreContacts
<1> SUFFICES ASSUME kernel.drops = 0, kernel.said = {}, ~pen.dirty
             PROVE  I!Cardinality({i \in I!Ids : stream[i] = "down"})
                      = I!Cardinality({s \in TouchSlots : kernel.finger[s]})
                        + (IF kernel.pen = "touching" THEN 1 ELSE 0)
  BY DEF I!FingersAreContacts, I!Held, I!Complete
<1>1. Decoding /\ MaxIds \in Nat /\ nextId \in Nat /\ nextId <= MaxIds
  BY InputAssumption DEF Decoding, DecoderTypes
<1> DEFINE at == [s \in Fingers |-> touch.slot[s].contact]
           held == {at[s] : s \in Fingers}
           all == {i \in I!Ids : stream[i] = "down"}
<1>2. \A s \in TouchSlots :
        /\ s \in Fingers <=> touch.slot[s].down
        /\ touch.slot[s].contact # 0 <=> touch.slot[s].down
        /\ touch.slot[s].contact # 0 => touch.slot[s].contact \in I!Ids /\ stream[touch.slot[s].contact] = "down"
  <2> SUFFICES ASSUME NEW s \in TouchSlots
               PROVE  /\ s \in Fingers <=> touch.slot[s].down
                      /\ touch.slot[s].contact # 0 <=> touch.slot[s].down
                      /\ touch.slot[s].contact # 0 =>
                            touch.slot[s].contact \in I!Ids /\ stream[touch.slot[s].contact] = "down"
    OBVIOUS
  <2>1. SlotFits(s, touch.slot[s], Fingers, kernel.said, nextId) /\ (touch.slot[s].tracking <=> s \in Fingers)
    BY <1>1 DEF Decoding, SlotsInv
  <2>2. (touch.slot[s].tracking <=> touch.slot[s].down) /\ (touch.slot[s].contact # 0 <=> touch.slot[s].down)
    BY <2>1 DEF SlotFits, SlotRecords
  <2>3. touch.slot[s].contact \in Nat /\ touch.slot[s].contact < nextId
    BY <2>1 DEF SlotFits, SlotRecords
  <2>4. touch.slot[s].contact # 0 => touch.slot[s].contact \in I!Ids
    BY <1>1, <2>3 DEF I!Ids
  <2>5. touch.slot[s].contact # 0 => stream[touch.slot[s].contact] = "down"
    BY <1>1, <2>2 DEF Decoding, SlotsInv
  <2> QED
    BY <2>1, <2>2, <2>4, <2>5
<1>3. Fingers \subseteq TouchSlots /\ IsFiniteSet(Fingers)
  BY FS_Subset, InputAssumption DEF Fingers
<1>4. IsFiniteSet(held) /\ Cardinality(held) = Cardinality(Fingers)
  <2>1. at \in Bijection(Fingers, held)
    <3>1. \A s, t \in Fingers : at[s] = at[t] => s = t
      BY <1>1, <1>2, <1>3 DEF Decoding, SlotsInv
    <3> QED
      BY <3>1 DEF Bijection, Injection, Surjection, IsInjective
  <2>2. ExistsBijection(Fingers, held)
    BY <2>1 DEF ExistsBijection
  <2> QED
    BY <1>3, <2>2, FS_Bijection
<1>5. pen.down <=> kernel.pen = "touching"
  BY <1>1 DEF Decoding, PenInv
<1>6. pen.down => pen.contact \in I!Ids /\ stream[pen.contact] = "down" /\ pen.contact \notin held
  <2> SUFFICES ASSUME pen.down
               PROVE  pen.contact \in I!Ids /\ stream[pen.contact] = "down" /\ pen.contact \notin held
    OBVIOUS
  <2>1. pen.contact # 0 /\ pen.contact \in Nat /\ pen.contact < nextId /\ stream[pen.contact] = "down"
    BY <1>1 DEF Decoding, PenInv, DecoderTypes
  <2>2. pen.contact \in I!Ids
    BY <1>1, <2>1 DEF I!Ids
  <2>3. \A s \in Fingers : at[s] # pen.contact
    BY <1>1, <1>2, <1>3 DEF Decoding, SlotsInv
  <2> QED
    BY <2>1, <2>2, <2>3
<1>7. all = IF pen.down THEN held \union {pen.contact} ELSE held
  <2>1. \A s \in Fingers : at[s] \in I!Ids /\ stream[at[s]] = "down"
    BY <1>2, <1>3
  <2>2. \A i \in all : (pen.down /\ pen.contact = i) \/ i \in held
    <3> SUFFICES ASSUME NEW i \in I!Ids, stream[i] = "down"
                 PROVE  (pen.down /\ pen.contact = i) \/ i \in held
      OBVIOUS
    <3>1. CASE pen.down /\ pen.contact = i
      BY <3>1
    <3>2. CASE \E s \in TouchSlots : touch.slot[s].down /\ touch.slot[s].contact = i
      BY <1>2, <3>2
    <3> QED
      BY <1>1, <3>1, <3>2 DEF Decoding, StreamInv
  <2> QED
    BY <1>6, <2>1, <2>2
<1> HIDE DEF at, held, all
<1>8. Cardinality(all) = Cardinality(Fingers) + (IF pen.down THEN 1 ELSE 0)
  <2>1. CASE pen.down
    <3>1. Cardinality(held \union {pen.contact}) = Cardinality(held) + 1
      BY <1>4, <1>6, <2>1, FS_AddElement
    <3> QED
      BY <1>4, <1>7, <2>1, <3>1
  <2>2. CASE ~pen.down
    BY <1>3, <1>4, <1>7, <2>2, FS_CardinalityType
  <2> QED
    BY <2>1, <2>2
<1> QED
  BY <1>5, <1>8, ICard DEF all, Fingers

(* Whatever was dropped, a decoder holds what is held, for a finger or a pen  *)
(* that is on the glass.                                                      *)
LEMMA NothingLeftHeld == ASSUME InputInv PROVE I!NoContactLeftHeld
<1> SUFFICES ASSUME ~kernel.astray PROVE I!NoContactLeftHeld
  BY DEF I!NoContactLeftHeld
<1>1. Decoding
  BY DEF InputInv
<1>2. ASSUME I!Complete, NEW i \in I!Held
      PROVE  \/ pen.down /\ pen.contact = i /\ kernel.pen = "touching"
             \/ \E s \in TouchSlots : /\ touch.slot[s].down /\ touch.slot[s].contact = i
                                       /\ kernel.finger[s]
  <2>1. kernel.said = {} /\ ~pen.dirty /\ i \in I!Ids /\ stream[i] = "down"
    BY <1>2 DEF I!Complete, I!Held
  <2>2. CASE pen.down /\ pen.contact = i
    BY <1>1, <2>1, <2>2 DEF Decoding, PenInv
  <2>3. CASE \E s \in TouchSlots : touch.slot[s].down /\ touch.slot[s].contact = i
    <3>1. PICK s \in TouchSlots : touch.slot[s].down /\ touch.slot[s].contact = i
      BY <2>3
    <3>2. SlotFits(s, touch.slot[s], Fingers, kernel.said, nextId)
      BY <1>1 DEF Decoding, SlotsInv
    <3>3. s \in Fingers
      BY <2>1, <3>1, <3>2 DEF SlotFits
    <3> QED
      BY <3>1, <3>3 DEF Fingers
  <2> QED
    BY <1>1, <2>1, <2>2, <2>3 DEF Decoding, StreamInv
<1> QED
  BY <1>1, <1>2, OneEach DEF I!NoContactLeftHeld

(* InputIsSound: an app hears of every contact in order and once, as long as  *)
(* resync guesses the kernel's slot and no frame puts another finger in the   *)
(* slot of a contact it lifts; until then whatever is held is held for a      *)
(* finger or a pen on the glass, one each while nothing was dropped; and the  *)
(* preview's mouse ends its contacts (evdev.rs, desktop.rs).                  *)
THEOREM InputsAreSound == Spec => []InputIsSound
<1>1. InputInv /\ [Next]_vars => InputInv'
  <2> SUFFICES ASSUME InputInv, [Next]_vars PROVE InputInv'
    OBVIOUS
  <2>1. CASE UNCHANGED input
    <3>1. UNCHANGED <<kernel, touch, pen, nextId, stream>> /\ UNCHANGED mouse
      BY <2>1 DEF input
    <3>2. MouseInv'
      BY <3>1 DEF InputInv, MouseInv
    <3> QED
      BY <3>1, <3>2, DecodersRest DEF InputInv
  <2>2. I!InputNext \/ UNCHANGED input
    BY DEF Next, vars
  <2> QED
    BY <2>1, <2>2, InputStep
<1>2. InputInv => InputIsSound
  <2> SUFFICES ASSUME InputInv PROVE InputIsSound
    OBVIOUS
  <2>1. I!StreamWellFormed
    BY DEF InputInv, Decoding, DecoderTypes, I!StreamWellFormed, Told
  <2>2. I!MouseContactEnds
    BY DEF InputInv, MouseInv, I!MouseContactEnds
  <2> QED
    BY <2>1, <2>2, NothingLeftHeld DEF InputIsSound
<1> QED
  BY InputStarts, <1>1, <1>2, PTL DEF Spec
=============================================================================
