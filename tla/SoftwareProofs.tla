--------------------------- MODULE SoftwareProofs ---------------------------
(***************************************************************************)
(* How software reaches a device and how the operator looks at it, proved  *)
(* for any versions, keys, contents, commands and tablets and any number   *)
(* of kills, failing writes and dropped connections: the platform root     *)
(* (updater layout.rs and remove.rs, paperctl upgrade.rs), the catalog     *)
(* (publish.rs, catalog.rs), the release train (release.yml,               *)
(* release_sign.rs), the platform bundle (bundle.rs, manifest.rs), the     *)
(* run log and detached runs (run_log.rs, remote.rs), and doctor and       *)
(* deploy (doctor.rs, deploy.rs).                                          *)
(***************************************************************************)
EXTENDS MCSoftware, FiniteSetTheorems, WellFoundedInduction, SequenceTheorems, TLAPS

---------------------------------------------------------------------------
(* Induction over finite sets and numbers without a theorem that takes an    *)
(* operator: the property is a set, and what has it is a member of it.        *)

(* Induction over the subsets of a finite set, for a property given by the    *)
(* set of the subsets that have it.                                           *)
LEMMA SubsetInduction ==
    ASSUME NEW whole, IsFiniteSet(whole), NEW Good,
           \A s \in SUBSET whole : (\A x \in s : s \ {x} \in Good) => s \in Good
    PROVE  \A s \in SUBSET whole : s \in Good
  <1> DEFINE Bad == {s \in SUBSET whole : s \notin Good}
  <1>1. SUFFICES ASSUME Bad /= {} PROVE FALSE
    OBVIOUS
  <1>2. Bad \subseteq FiniteSubsetsOf(whole)
    BY FS_Subset DEF FiniteSubsetsOf
  <1>3. PICK s \in Bad : \A t \in Bad : <<t, s>> \notin StrictSubsetOrdering(whole)
    <2> HIDE DEF Bad
    <2> QED
      BY <1>1, <1>2, FS_StrictSubsetOrderingWellFounded, WFMin
  <1>4. \A x \in s : s \ {x} \notin Bad
    <2> SUFFICES ASSUME NEW x \in s, s \ {x} \in Bad PROVE FALSE
      OBVIOUS
    <2>1. s \ {x} \in SUBSET whole /\ s \in SUBSET whole /\ s \ {x} /= s
      OBVIOUS
    <2>2. <<s \ {x}, s>> \in StrictSubsetOrdering(whole)
      BY <2>1 DEF StrictSubsetOrdering
    <2> QED
      BY <1>3, <2>2
  <1> QED
    BY <1>3, <1>4

(* Induction over the natural numbers, for a property given the same way. *)
LEMMA NumberInduction ==
    ASSUME NEW Good, 0 \in Good, \A n \in Nat : n \in Good => n + 1 \in Good
    PROVE  \A n \in Nat : n \in Good
  <1> DEFINE Bad == {n \in Nat : n \notin Good}
  <1>1. SUFFICES ASSUME Bad /= {} PROVE FALSE
    OBVIOUS
  <1>2. PICK n \in Bad : \A m \in Bad : <<m, n>> \notin OpToRel(<, Nat)
    <2>1. Bad \subseteq Nat
      OBVIOUS
    <2> HIDE DEF Bad
    <2> QED
      BY <1>1, <2>1, NatLessThanWellFounded, WFMin
  <1>3. n \in Nat /\ n /= 0 /\ n \notin Good
    OBVIOUS
  <1>4. n - 1 \in Nat /\ n - 1 < n /\ (n - 1) + 1 = n
    BY <1>3
  <1>5. <<n - 1, n>> \in OpToRel(<, Nat)
    BY <1>3, <1>4 DEF OpToRel
  <1>6. n - 1 \in Good
    BY <1>2, <1>4, <1>5
  <1> QED
    BY <1>3, <1>4, <1>6

(* A choice of one element of every subset, and the functions that fold op    *)
(* over every subset, taking that element first.                              *)
Choices(whole) == {c \in [(SUBSET whole) \ {{}} -> whole] : \A s \in (SUBSET whole) \ {{}} : c[s] \in s}
FoldsOf(whole, V, base, op, c) ==
    {g \in [SUBSET whole -> V] :
       /\ g[{}] = base
       /\ \A s \in (SUBSET whole) \ {{}} : g[s] = op[<<c[s], g[s \ {c[s]}]>>]}

(* Folding over a finite set is well defined. *)
LEMMA FoldExists ==
    ASSUME NEW whole, IsFiniteSet(whole), NEW V, NEW base \in V, NEW op \in [whole \X V -> V],
           NEW c \in Choices(whole)
    PROVE  FoldsOf(whole, V, base, op, c) /= {}
  <1> DEFINE Step(g, s) == IF s = {} THEN base ELSE op[<<c[s], g[s \ {c[s]}]>>]
             Upto(n) == {s \in SUBSET whole : Cardinality(s) <= n}
             Good == {n \in Nat : \E g \in [SUBSET whole -> V] : \A s \in Upto(n) : g[s] = Step(g, s)}
  <1>1. \A s \in SUBSET whole : IsFiniteSet(s) /\ Cardinality(s) \in Nat
    BY FS_Subset, FS_CardinalityType
  <1>2. \A s \in SUBSET whole : s /= {} => c[s] \in s
    BY DEF Choices
  <1>3. \A s \in SUBSET whole : s /= {} => /\ s \ {c[s]} \in SUBSET whole
                                       /\ Cardinality(s \ {c[s]}) = Cardinality(s) - 1
    BY <1>1, <1>2, FS_RemoveElement
  <1>4. 0 \in Good
    <2> DEFINE g == [s \in SUBSET whole |-> base]
    <2>1. \A s \in Upto(0) : s = {}
      <3> SUFFICES ASSUME NEW s \in SUBSET whole, Cardinality(s) <= 0 PROVE s = {}
        OBVIOUS
      <3> QED
        BY <1>1, FS_EmptySet
    <2>2. g \in [SUBSET whole -> V] /\ \A s \in Upto(0) : g[s] = Step(g, s)
      BY <2>1
    <2> QED
      BY <2>2
  <1>5. ASSUME NEW n \in Nat, n \in Good PROVE n + 1 \in Good
    <2>1. PICK g \in [SUBSET whole -> V] : \A s \in Upto(n) : g[s] = Step(g, s)
      BY <1>5
    <2> DEFINE f == [s \in SUBSET whole |-> Step(g, s)]
    <2>2. f \in [SUBSET whole -> V]
      <3> SUFFICES ASSUME NEW s \in SUBSET whole PROVE Step(g, s) \in V
        OBVIOUS
      <3> QED
        BY <1>2, <1>3
    <2>3. ASSUME NEW s \in Upto(n + 1) PROVE f[s] = Step(f, s)
      <3>1. CASE s = {}
        BY <3>1
      <3>2. CASE s /= {}
        <4>1. s \ {c[s]} \in Upto(n)
          BY <1>1, <1>3, <3>2
        <4>2. f[s \ {c[s]}] = g[s \ {c[s]}]
          BY <2>1, <4>1
        <4> QED
          BY <3>2, <4>2
      <3> QED
        BY <3>1, <3>2
    <2>4. \E k \in [SUBSET whole -> V] : \A s \in Upto(n + 1) : k[s] = Step(k, s)
      <3> HIDE DEF f, Upto, Step
      <3> WITNESS f \in [SUBSET whole -> V]
      <3> QED
        BY <2>3
    <2>5. n + 1 \in Nat
      OBVIOUS
    <2> HIDE DEF f, Upto, Step
    <2> QED
      BY <2>4, <2>5
  <1>6. Cardinality(whole) \in Good
    <2> HIDE DEF Good
    <2> QED
      BY <1>4, <1>5, NumberInduction, FS_CardinalityType
  <1>7. PICK g \in [SUBSET whole -> V] : \A s \in Upto(Cardinality(whole)) : g[s] = Step(g, s)
    BY <1>6
  <1>8. \A s \in SUBSET whole : s \in Upto(Cardinality(whole))
    BY FS_Subset
  <1>9. g[{}] = base /\ \A s \in (SUBSET whole) \ {{}} : g[s] = op[<<c[s], g[s \ {c[s]}]>>]
    BY <1>7, <1>8
  <1> QED
    BY <1>9 DEF FoldsOf

(* The functions that sum the weights of every subset, whichever element they *)
(* take first.                                                                *)
SumsOver(whole, w) ==
    {g \in [SUBSET whole -> Nat] :
       /\ g[{}] = 0
       /\ \A s \in (SUBSET whole) \ {{}} : \E x \in s : g[s] = w[x] + g[s \ {x}]}

(* A sum does not depend on what it takes first. *)
LEMMA SumTakesAny ==
    ASSUME NEW whole, IsFiniteSet(whole), NEW w \in [whole -> Nat], NEW g \in SumsOver(whole, w)
    PROVE  \A s \in SUBSET whole : \A x \in s : g[s] = w[x] + g[s \ {x}]
  <1> DEFINE Good == {s \in SUBSET whole : \A x \in s : g[s] = w[x] + g[s \ {x}]}
  <1>1. ASSUME NEW s \in SUBSET whole, \A x \in s : s \ {x} \in Good, NEW x \in s
        PROVE  g[s] = w[x] + g[s \ {x}]
    <2>1. PICK y \in s : g[s] = w[y] + g[s \ {y}]
      BY DEF SumsOver
    <2>2. CASE x = y
      BY <2>1, <2>2
    <2>3. CASE x /= y
      <3>1. x \in s \ {y} /\ y \in s \ {x} /\ (s \ {y}) \ {x} = (s \ {x}) \ {y}
        BY <2>3
      <3>2. g[s \ {y}] = w[x] + g[(s \ {y}) \ {x}]
        BY <1>1, <3>1
      <3>3. g[s \ {x}] = w[y] + g[(s \ {y}) \ {x}]
        BY <1>1, <3>1
      <3>4. /\ w[x] \in Nat /\ w[y] \in Nat /\ (s \ {y}) \ {x} \in SUBSET whole
            /\ g[(s \ {y}) \ {x}] \in Nat
        BY DEF SumsOver
      <3> QED
        BY <2>1, <3>2, <3>3, <3>4
    <2> QED
      BY <2>2, <2>3
  <1>2. \A s \in SUBSET whole : s \in Good
    <2>1. \A s \in SUBSET whole : (\A x \in s : s \ {x} \in Good) => s \in Good
      BY <1>1
    <2> HIDE DEF Good
    <2> QED
      BY <2>1, SubsetInduction
  <1> QED
    BY <1>2

(* Two sums of the same weights are the same. *)
LEMMA SumsAgree ==
    ASSUME NEW whole, IsFiniteSet(whole), NEW w \in [whole -> Nat], NEW g \in SumsOver(whole, w),
           NEW half, IsFiniteSet(half), NEW v \in [half -> Nat], NEW k \in SumsOver(half, v),
           \A x \in whole \cap half : w[x] = v[x]
    PROVE  \A s \in SUBSET (whole \cap half) : g[s] = k[s]
  <1> DEFINE Both == whole \cap half
             Good == {s \in SUBSET Both : g[s] = k[s]}
  <1>1. ASSUME NEW s \in SUBSET Both, \A x \in s : s \ {x} \in Good
        PROVE  s \in Good
    <2>1. CASE s = {}
      BY <2>1 DEF SumsOver
    <2>2. CASE s /= {}
      <3>1. PICK x \in s : TRUE
        BY <2>2
      <3>2. s \in SUBSET whole /\ s \in SUBSET half
        OBVIOUS
      <3>3. g[s] = w[x] + g[s \ {x}]
        BY <3>2, SumTakesAny
      <3>4. k[s] = v[x] + k[s \ {x}]
        BY <3>2, SumTakesAny
      <3> QED
        BY <1>1, <3>3, <3>4
    <2> QED
      BY <2>1, <2>2
  <1>2. IsFiniteSet(Both)
    BY FS_Intersection
  <1>3. \A s \in SUBSET Both : s \in Good
    <2> HIDE DEF Good, Both
    <2> QED
      BY <1>1, <1>2, SubsetInduction
  <1> QED
    BY <1>3

LEMMA TailFacts ==
    ASSUME NEW S, NEW s \in Seq(S), s # <<>>
    PROVE  /\ Len(s) \in Nat \ {0} /\ Head(s) = s[1] /\ Head(s) \in S
           /\ Tail(s) \in Seq(S) /\ Len(Tail(s)) = Len(s) - 1
           /\ \A i \in 1..(Len(s) - 1) : Tail(s)[i] = s[i + 1]
<1>1. Len(s) \in Nat \ {0}
  BY EmptySeq, LenProperties
<1>2. Head(s) = s[1] /\ Tail(s) \in Seq(S) /\ Len(Tail(s)) = Len(s) - 1
  BY HeadTailProperties
<1>3. \A i \in 1..(Len(s) - 1) : Tail(s)[i] = s[i + 1]
  BY <1>2, HeadTailProperties
<1>4. Head(s) \in S
  BY <1>1, <1>2, ElementOfSeq
<1> QED
  BY <1>1, <1>2, <1>3, <1>4

LEMMA ConcatFacts ==
    ASSUME NEW S, NEW p \in Seq(S), NEW q \in Seq(S)
    PROVE  /\ Len(p) \in Nat /\ Len(q) \in Nat
           /\ p \o q \in Seq(S) /\ Len(p \o q) = Len(p) + Len(q)
           /\ \A i \in 1..Len(p) : (p \o q)[i] = p[i]
           /\ \A i \in 1..Len(q) : (p \o q)[Len(p) + i] = q[i]
<1>1. Len(p) \in Nat /\ Len(q) \in Nat
  BY LenProperties
<1>2. /\ p \o q \in Seq(S) /\ Len(p \o q) = Len(p) + Len(q)
      /\ \A i \in 1..(Len(p) + Len(q)) : (p \o q)[i] = IF i <= Len(p) THEN p[i] ELSE q[i - Len(p)]
  BY ConcatProperties
<1>3. ASSUME NEW i \in 1..Len(q) PROVE (p \o q)[Len(p) + i] = q[i]
  <2>1. /\ Len(p) + i \in 1..(Len(p) + Len(q)) /\ ~(Len(p) + i <= Len(p))
        /\ Len(p) + i - Len(p) = i
    BY <1>1
  <2> QED
    BY <1>2, <2>1
<1> QED
  BY <1>1, <1>2, <1>3

(* The same of a concatenation that has a name.                              *)
Joins(S, p, q, w) ==
    /\ w \in Seq(S) /\ Len(w) = Len(p) + Len(q)
    /\ \A i \in 1..Len(p) : w[i] = p[i]
    /\ \A i \in 1..Len(q) : w[Len(p) + i] = q[i]
LEMMA Joining ==
    ASSUME NEW S, NEW p \in Seq(S), NEW q \in Seq(S)
    PROVE  Joins(S, p, q, p \o q)
BY ConcatFacts DEF Joins

-----------------------------------------------------------------------------
(* The platform root.  What is left of a command is what makes it safe to    *)
(* stop it: one that makes puts the marker before what the marker is for,    *)
(* and one that removes takes the marker last.                               *)

Making == {"make", "mark", "copy", "write", "chmod", "stage", "fallback", "activate"}
Guarded == {"write", "chmod", "stage"}
Removing ==
    {"releases", "current", "previous", "staging", "state", "keys", "bin", "packages",
     "data", "unmark"}

Names == {"none", "setup", "bootstrap", "upgrade", "remove"}
Commands ==
    [name : Names, steps : Seq(Making \union Removing), version : Versions \union {0, 1}]
Programs == [is : {"absent", "new"}, runs : BOOLEAN]
Roots ==
    [marker : BOOLEAN, made : SUBSET R!Directories, releases : SUBSET (Versions \union {0, 1}),
     current : Versions \union {0, 1}, previous : Versions \union {0, 1},
     live : Programs, kept : Programs]
Stores == [packages : BOOLEAN, data : BOOLEAN, inside : BOOLEAN]
Budgets == [commands : Int, faults : Int, removed : BOOLEAN, asked : BOOLEAN]

RootTypes == root \in Roots /\ apps \in Stores /\ cmd \in Commands /\ rootSpent \in Budgets

(* No release and no program is in the root.                                 *)
NoRelease(r) == r.releases = {}
NoProgram(r) == r.live = R!Absent /\ r.kept = R!Absent

(* What is left of a command that makes: the marker is there, or is written  *)
(* before the first thing it is for.                                         *)
MakesInOrder(r, c) ==
    /\ \A i \in 1..Len(c.steps) : c.steps[i] \in Making
    /\ \A i \in 1..Len(c.steps) :
          c.steps[i] \in Guarded => r.marker \/ \E j \in 1..(i - 1) : c.steps[j] = "mark"

(* What is left of a removal: the marker goes last, and what it is for is    *)
(* gone or goes before it.                                                   *)
RemovesInOrder(r, c) ==
    /\ \A i \in 1..Len(c.steps) : c.steps[i] \in Removing
    /\ \A i \in 1..Len(c.steps) : c.steps[i] = "unmark" => i = Len(c.steps)
    /\ NoRelease(r) \/ \E i \in 1..Len(c.steps) : c.steps[i] = "releases"
    /\ NoProgram(r) \/ \E i \in 1..Len(c.steps) : c.steps[i] = "bin"

InOrder(r, c) ==
    IF c.name = "remove" THEN RemovesInOrder(r, c) ELSE MakesInOrder(r, c)

RootInv ==
    /\ RootTypes
    /\ InOrder(root, cmd)
    /\ cmd.name = "remove" => ~apps.inside
    /\ R!RemovalCanBeFinished
    /\ R!DataIsKept

LEMMA NoCommandInOrder ==
    R!NoCommand \in Commands /\ \A r : InOrder(r, R!NoCommand)
<1>1. Len(R!NoCommand.steps) = 0 /\ R!NoCommand.name = "none"
  BY EmptySeq DEF R!NoCommand
<1>2. R!NoCommand \in Commands
  BY EmptySeq DEF R!NoCommand, Commands, Names
<1> QED
  BY <1>1, <1>2 DEF InOrder, MakesInOrder

(* One step done leaves the rest in order, when the step did to the root     *)
(* what its place in the command promises.                                   *)
LEMMA OnwardInOrder ==
    ASSUME cmd \in Commands, cmd.steps # <<>>, R!Onward, InOrder(root, cmd),
           cmd.name # "remove" => (root.marker \/ Head(cmd.steps) = "mark" => root'.marker),
           cmd.name = "remove" =>
              (NoRelease(root) \/ Head(cmd.steps) = "releases" => NoRelease(root')),
           cmd.name = "remove" =>
              (NoProgram(root) \/ Head(cmd.steps) = "bin" => NoProgram(root'))
    PROVE  /\ cmd' \in Commands /\ InOrder(root', cmd')
           /\ cmd'.name = "remove" => cmd.name = "remove"
<1>1. /\ Len(cmd.steps) \in Nat \ {0} /\ Head(cmd.steps) = cmd.steps[1]
      /\ Tail(cmd.steps) \in Seq(Making \union Removing)
      /\ Len(Tail(cmd.steps)) = Len(cmd.steps) - 1
      /\ \A i \in 1..(Len(cmd.steps) - 1) : Tail(cmd.steps)[i] = cmd.steps[i + 1]
  BY TailFacts DEF Commands
<1>2. CASE Len(cmd.steps) = 1
  <2>1. cmd' = R!NoCommand
    BY <1>2 DEF R!Onward
  <2>2. cmd'.name # "remove"
    BY <2>1 DEF R!NoCommand
  <2> QED
    BY <2>1, <2>2, NoCommandInOrder
<1>3. CASE Len(cmd.steps) # 1
  <2>1. cmd' = [cmd EXCEPT !.steps = Tail(cmd.steps)]
    BY <1>3 DEF R!Onward
  <2>2. cmd' \in Commands
    BY <1>1, <2>1 DEF Commands
  <2>3. cmd'.name = cmd.name /\ cmd'.steps = Tail(cmd.steps)
    BY <2>1 DEF Commands
  <2> DEFINE s == cmd.steps
             t == cmd'.steps
  <2>4. Len(t) = Len(s) - 1 /\ Len(s) \in Nat \ {0} /\ \A i \in 1..Len(t) : t[i] = s[i + 1]
    BY <1>1, <2>3
  <2>5. CASE cmd.name = "remove"
    <3>1. RemovesInOrder(root, cmd)
      BY <2>5 DEF InOrder
    <3>2. \A i \in 1..Len(t) : t[i] \in Removing /\ (t[i] = "unmark" => i = Len(t))
      BY <2>4, <3>1 DEF RemovesInOrder
    <3>3. NoRelease(root') \/ \E i \in 1..Len(t) : t[i] = "releases"
      <4>1. CASE NoRelease(root)
        BY <4>1, <2>5
      <4>2. CASE \E i \in 1..Len(s) : s[i] = "releases"
        <5>1. PICK i \in 1..Len(s) : s[i] = "releases"
          BY <4>2
        <5>2. CASE i = 1
          BY <5>1, <5>2, <1>1, <2>5
        <5>3. CASE i # 1
          <6>1. i - 1 \in 1..Len(t) /\ t[i - 1] = s[i]
            BY <5>3, <2>4
          <6> QED
            BY <6>1, <5>1
        <5> QED
          BY <5>2, <5>3
      <4> QED
        BY <4>1, <4>2, <3>1 DEF RemovesInOrder
    <3>4. NoProgram(root') \/ \E i \in 1..Len(t) : t[i] = "bin"
      <4>1. CASE NoProgram(root)
        BY <4>1, <2>5
      <4>2. CASE \E i \in 1..Len(s) : s[i] = "bin"
        <5>1. PICK i \in 1..Len(s) : s[i] = "bin"
          BY <4>2
        <5>2. CASE i = 1
          BY <5>1, <5>2, <1>1, <2>5
        <5>3. CASE i # 1
          <6>1. i - 1 \in 1..Len(t) /\ t[i - 1] = s[i]
            BY <5>3, <2>4
          <6> QED
            BY <6>1, <5>1
        <5> QED
          BY <5>2, <5>3
      <4> QED
        BY <4>1, <4>2, <3>1 DEF RemovesInOrder
    <3> QED
      BY <2>2, <2>3, <2>5, <3>2, <3>3, <3>4 DEF InOrder, RemovesInOrder
  <2>6. CASE cmd.name # "remove"
    <3>1. MakesInOrder(root, cmd)
      BY <2>6 DEF InOrder
    <3>2. \A i \in 1..Len(t) : t[i] \in Making
      BY <2>4, <3>1 DEF MakesInOrder
    <3>3. ASSUME NEW i \in 1..Len(t), t[i] \in Guarded
          PROVE  root'.marker \/ \E j \in 1..(i - 1) : t[j] = "mark"
      <4>1. i + 1 \in 1..Len(s) /\ s[i + 1] \in Guarded
        BY <2>4, <3>3
      <4>2. CASE root.marker
        BY <4>2, <2>6
      <4>3. CASE \E j \in 1..i : s[j] = "mark"
        <5>1. PICK j \in 1..i : s[j] = "mark"
          BY <4>3
        <5>2. CASE j = 1
          BY <5>1, <5>2, <1>1, <2>6
        <5>3. CASE j # 1
          <6>1. j - 1 \in 1..(i - 1) /\ t[j - 1] = s[j]
            BY <5>3, <2>4
          <6> QED
            BY <6>1, <5>1
        <5> QED
          BY <5>2, <5>3
      <4>4. root.marker \/ \E j \in 1..(i + 1 - 1) : s[j] = "mark"
        BY <4>1, <3>1 DEF MakesInOrder
      <4>5. i + 1 - 1 = i
        BY <2>4
      <4> QED
        BY <4>2, <4>3, <4>4, <4>5
    <3> QED
      BY <2>2, <2>3, <2>6, <3>2, <3>3 DEF InOrder, MakesInOrder
  <2> QED
    BY <2>5, <2>6
<1> QED
  BY <1>2, <1>3

(* The commands as they are started.                                         *)
LEMMA MakingPlans ==
    ASSUME NEW r, NEW c, c.name # "remove",
           c.steps \in {R!Ensure, R!Bootstrap, R!Ensure \o <<"stage", "fallback", "activate">>}
    PROVE  c.steps \in Seq(Making \union Removing) /\ MakesInOrder(r, c)
<1> DEFINE s == c.steps
<1>1. CASE s = R!Ensure
  <2>1. Len(s) = 2 /\ s[1] = "make" /\ s[2] = "mark" /\ s \in Seq(Making \union Removing)
    BY <1>1 DEF R!Ensure, Making
  <2> QED
    BY <2>1 DEF MakesInOrder, Making, Guarded
<1>2. ASSUME NEW a \in Making, NEW b \in Making, NEW d \in Making, s = R!Ensure \o <<a, b, d>>
      PROVE  s \in Seq(Making \union Removing) /\ MakesInOrder(r, c)
  <2>1. /\ Len(s) = 5 /\ s[1] = "make" /\ s[2] = "mark" /\ s[3] = a /\ s[4] = b /\ s[5] = d
        /\ s \in Seq(Making \union Removing)
    <3>1. R!Ensure \in Seq(Making \union Removing) /\ <<a, b, d>> \in Seq(Making \union Removing)
      BY <1>2 DEF R!Ensure, Making
    <3>2. Len(R!Ensure) = 2 /\ R!Ensure[1] = "make" /\ R!Ensure[2] = "mark"
      BY DEF R!Ensure
    <3> DEFINE e == <<a, b, d>>
    <3>3. Len(e) = 3 /\ e[1] = a /\ e[2] = b /\ e[3] = d /\ e \in Seq(Making \union Removing)
      BY <3>1
    <3>4. s = R!Ensure \o e
      BY <1>2
    <3> HIDE DEF e
    <3>5. /\ s \in Seq(Making \union Removing) /\ Len(s) = 5
          /\ \A i \in 1..2 : s[i] = R!Ensure[i]
          /\ \A i \in 1..3 : s[2 + i] = e[i]
      <4> DEFINE w == R!Ensure \o e
      <4>1. /\ w \in Seq(Making \union Removing) /\ Len(w) = Len(R!Ensure) + Len(e)
            /\ \A i \in 1..Len(R!Ensure) : w[i] = R!Ensure[i]
            /\ \A i \in 1..Len(e) : w[Len(R!Ensure) + i] = e[i]
        <5>1. R!Ensure \in Seq(Making \union Removing) /\ e \in Seq(Making \union Removing)
          BY <3>1, <3>3
        <5> QED
          BY <5>1, ConcatFacts
      <4> HIDE DEF w
      <4> QED
        BY <3>2, <3>3, <3>4, <4>1 DEF w
    <3>6. s[1] = R!Ensure[1] /\ s[2] = R!Ensure[2]
      BY <3>5
    <3>7. s[2 + 1] = e[1] /\ s[2 + 2] = e[2] /\ s[2 + 3] = e[3]
      BY <3>5
    <3>8. 2 + 1 = 3 /\ 2 + 2 = 4 /\ 2 + 3 = 5
      OBVIOUS
    <3> QED
      BY <3>2, <3>3, <3>5, <3>6, <3>7, <3>8
  <2>2. \A i \in 1..Len(s) : s[i] \in Making
    <3>1. \A i \in 1..5 : i = 1 \/ i = 2 \/ i = 3 \/ i = 4 \/ i = 5
      OBVIOUS
    <3> QED
      BY <2>1, <3>1 DEF Making
  <2>3. \A i \in 1..Len(s) : s[i] \in Guarded => 2 \in 1..(i - 1)
    <3>1. \A i \in 1..Len(s) : i = 1 \/ i = 2 \/ 2 \in 1..(i - 1)
      BY <2>1
    <3> QED
      BY <2>1, <3>1 DEF Guarded
  <2> QED
    BY <2>1, <2>2, <2>3 DEF MakesInOrder
<1> QED
  BY <1>1, <1>2 DEF R!Bootstrap, Making

LEMMA RemovingPlan ==
    ASSUME NEW data \in BOOLEAN, NEW r, NEW c, c.steps = R!Plan(data)
    PROVE  c.steps \in Seq(Making \union Removing) /\ RemovesInOrder(r, c)
<1> DEFINE p == <<"releases", "current", "previous", "staging", "state", "keys", "bin", "packages">>
           d == IF data THEN <<"data">> ELSE <<>>
           u == <<"unmark">>
           q == p \o d
           s == c.steps
           Some == Making \union Removing
<1>1. Len(p) = 8 /\ p[1] = "releases" /\ p[7] = "bin" /\ p \in Seq(Removing \ {"unmark"})
  BY DEF Removing
<1>2. Len(d) \in {0, 1} /\ d \in Seq(Removing \ {"unmark"})
  <2>1. CASE data
    BY <2>1 DEF Removing
  <2>2. CASE ~data
    BY <2>2, EmptySeq
  <2> QED
    BY <2>1, <2>2
<1>3. Len(u) = 1 /\ u[1] = "unmark" /\ u \in Seq(Removing)
  BY DEF Removing
<1>4. s = q \o u
  BY DEF R!Plan
<1> HIDE DEF p, d, u
<1>5. /\ q \in Seq(Removing \ {"unmark"}) /\ Len(q) = 8 + Len(d)
      /\ \A i \in 1..8 : q[i] = p[i]
  <2>1. /\ q \in Seq(Removing \ {"unmark"}) /\ Len(q) = Len(p) + Len(d)
        /\ \A i \in 1..Len(p) : q[i] = p[i]
    <3>1. p \in Seq(Removing \ {"unmark"}) /\ d \in Seq(Removing \ {"unmark"})
      BY <1>1, <1>2
    <3>2. Joins(Removing \ {"unmark"}, p, d, p \o d)
      BY <3>1, Joining
    <3> QED
      BY <3>2 DEF Joins
  <2> QED
    BY <1>1, <2>1
<1> HIDE DEF q
<1>6. /\ Len(s) = Len(q) + 1 /\ \A i \in 1..Len(q) : s[i] = q[i]
      /\ s[Len(q) + 1] = "unmark" /\ s \in Seq(Removing)
  <2>1. q \in Seq(Removing) /\ Len(q) \in Nat
    BY <1>5, <1>2
  <2>2. /\ s \in Seq(Removing) /\ Len(s) = Len(q) + Len(u)
        /\ \A i \in 1..Len(q) : s[i] = q[i]
        /\ \A i \in 1..Len(u) : s[Len(q) + i] = u[i]
    <3> DEFINE w == q \o u
    <3>1. /\ w \in Seq(Removing) /\ Len(w) = Len(q) + Len(u)
          /\ \A i \in 1..Len(q) : w[i] = q[i]
          /\ \A i \in 1..Len(u) : w[Len(q) + i] = u[i]
      <4>1. q \in Seq(Removing) /\ u \in Seq(Removing)
        BY <1>3, <2>1
      <4>2. Joins(Removing, q, u, q \o u)
        BY <4>1, Joining
      <4> QED
        BY <4>2 DEF Joins
    <3> QED
      BY <1>4, <3>1
  <2> QED
    BY <1>3, <2>1, <2>2
<1>7. \A i \in 1..Len(s) : s[i] \in Removing /\ (s[i] = "unmark" => i = Len(s))
  <2>1. \A i \in 1..Len(s) : i \in 1..Len(q) \/ i = Len(q) + 1
    BY <1>2, <1>5, <1>6
  <2>2. \A i \in 1..Len(q) : q[i] \in Removing /\ q[i] # "unmark"
    BY <1>5
  <2> QED
    BY <1>6, <2>1, <2>2 DEF Removing
<1>8. 1 \in 1..Len(s) /\ 7 \in 1..Len(s) /\ s[1] = "releases" /\ s[7] = "bin"
  BY <1>1, <1>2, <1>5, <1>6
<1>9. s \in Seq(Making \union Removing)
  BY <1>6, SeqMonotonic
<1> QED
  BY <1>7, <1>8, <1>9 DEF RemovesInOrder

LEMMA StartKeeps ==
    ASSUME RootInv, NEW name \in Names, NEW steps, NEW version \in Versions \union {0, 1},
           R!Run(name, steps, version),
           \A c : c.name = name /\ c.steps = steps =>
               steps \in Seq(Making \union Removing) /\ InOrder(root, c),
           name = "remove" => ~apps.inside
    PROVE  RootInv'
<1>1. cmd' = [name |-> name, steps |-> steps, version |-> version]
  BY DEF R!Run
<1>2. cmd'.name = name /\ cmd'.steps = steps
  BY <1>1
<1>3. steps \in Seq(Making \union Removing) /\ InOrder(root, cmd')
  BY <1>2
<1>4. cmd' \in Commands
  BY <1>1, <1>3 DEF Commands
<1>5. root' = root /\ apps' = apps
  BY DEF R!Run
<1>6. rootSpent' = [rootSpent EXCEPT !.commands = rootSpent.commands + 1, !.removed = FALSE]
  BY DEF R!Run
<1>7. rootSpent \in Budgets
  BY DEF RootInv, RootTypes
<1>8. rootSpent' \in Budgets
  <2>1. rootSpent.commands + 1 \in Int
    BY <1>7 DEF Budgets
  <2>2. \A n \in Int : [rootSpent EXCEPT !.commands = n, !.removed = FALSE] \in Budgets
    BY <1>7, Zenon DEF Budgets
  <2> QED
    BY <1>6, <2>1, <2>2
<1>9. rootSpent'.asked = rootSpent.asked
  BY <1>6, <1>7 DEF Budgets
<1> QED
  BY <1>2, <1>3, <1>4, <1>5, <1>8, <1>9
  DEF RootInv, RootTypes, R!RemovalCanBeFinished, R!DataIsKept

LEMMA StartsKeep ==
    ASSUME RootInv,
           \/ R!StartEnsure \/ R!StartBootstrap
           \/ \E v \in Versions : R!StartUpgrade(v)
           \/ \E data \in BOOLEAN : R!StartRemove(data)
    PROVE  RootInv'
<1>1. ASSUME NEW name \in Names \ {"remove"}, NEW version \in Versions \union {0, 1},
             NEW steps \in {R!Ensure, R!Bootstrap, R!Ensure \o <<"stage", "fallback", "activate">>},
             R!Run(name, steps, version)
      PROVE  RootInv'
  <2>1. \A c : c.name = name /\ c.steps = steps =>
            steps \in Seq(Making \union Removing) /\ InOrder(root, c)
    BY <1>1, MakingPlans DEF InOrder
  <2> QED
    BY <1>1, <2>1, StartKeeps
<1>2. ASSUME NEW data \in BOOLEAN, R!StartRemove(data)
      PROVE  RootInv'
  <2>1. R!Run("remove", R!Plan(data), IF data THEN 1 ELSE 0) /\ ~apps.inside
    BY <1>2 DEF R!StartRemove, R!SeparateFrom
  <2>2. \A c : c.name = "remove" /\ c.steps = R!Plan(data) =>
            R!Plan(data) \in Seq(Making \union Removing) /\ InOrder(root, c)
    BY RemovingPlan DEF InOrder
  <2>3. (IF data THEN 1 ELSE 0) \in Versions \union {0, 1}
    OBVIOUS
  <2> QED
    BY <2>1, <2>2, <2>3, StartKeeps DEF Names
<1> QED
  BY <1>1, <1>2 DEF R!StartEnsure, R!StartBootstrap, R!StartUpgrade, Names

(* What the next step of a command says of the command and the root.         *)
LEMMA HeadFacts ==
    ASSUME RootInv, NEW step, R!Doing(step)
    PROVE  /\ cmd.steps # <<>> /\ Head(cmd.steps) = step
           /\ step \in Making => cmd.name # "remove"
           /\ step \in Removing => cmd.name = "remove" /\ ~apps.inside
           /\ step \in Guarded => root.marker
           /\ step = "unmark" => NoRelease(root) /\ NoProgram(root)
<1>1. cmd.steps # <<>> /\ Head(cmd.steps) = step
  BY DEF R!Doing
<1>2. cmd \in Commands /\ InOrder(root, cmd)
  BY DEF RootInv, RootTypes
<1>3. cmd.steps \in Seq(Making \union Removing)
  BY <1>2 DEF Commands
<1>4. Len(cmd.steps) \in Nat \ {0} /\ cmd.steps[1] = step /\ 1 \in 1..Len(cmd.steps)
  BY <1>1, <1>3, TailFacts
<1>5. CASE cmd.name = "remove"
  <2>1. RemovesInOrder(root, cmd)
    BY <1>2, <1>5 DEF InOrder
  <2>2. step \in Removing
    BY <1>4, <2>1 DEF RemovesInOrder
  <2>3. step = "unmark" => NoRelease(root) /\ NoProgram(root)
    <3>1. ASSUME step = "unmark" PROVE Len(cmd.steps) = 1
      BY <1>4, <2>1, <3>1 DEF RemovesInOrder
    <3> QED
      BY <1>4, <2>1, <3>1 DEF RemovesInOrder
  <2>4. step \notin Making
    BY <2>2 DEF Removing, Making
  <2> QED
    BY <1>1, <1>5, <2>2, <2>3, <2>4 DEF RootInv, Guarded, Making
<1>6. CASE cmd.name # "remove"
  <2>1. MakesInOrder(root, cmd)
    BY <1>2, <1>6 DEF InOrder
  <2>2. step \in Making /\ (step \in Guarded => root.marker)
    BY <1>4, <2>1 DEF MakesInOrder
  <2>3. step \notin Removing
    BY <2>2 DEF Removing, Making
  <2> QED
    BY <1>1, <1>6, <2>2, <2>3 DEF Removing
<1> QED
  BY <1>5, <1>6

LEMMA StepKeeps ==
    ASSUME RootInv, NEW step, R!Doing(step), R!Onward,
           root' \in Roots, apps' \in Stores, rootSpent' \in Budgets,
           apps'.inside = apps.inside, R!DataIsKept', R!RemovalCanBeFinished',
           step \in Making => (root.marker \/ step = "mark" => root'.marker),
           step \in Removing => (NoRelease(root) \/ step = "releases" => NoRelease(root')),
           step \in Removing => (NoProgram(root) \/ step = "bin" => NoProgram(root'))
    PROVE  RootInv'
<1>1. /\ cmd.steps # <<>> /\ Head(cmd.steps) = step
      /\ step \in Making => cmd.name # "remove"
      /\ step \in Removing => cmd.name = "remove" /\ ~apps.inside
  BY HeadFacts
<1>2. cmd \in Commands /\ InOrder(root, cmd)
  BY DEF RootInv, RootTypes
<1>3. step \in Making \union Removing
  <2>1. cmd.steps \in Seq(Making \union Removing)
    BY <1>2 DEF Commands
  <2> QED
    BY <1>1, <2>1, TailFacts
<1>4. /\ cmd' \in Commands /\ InOrder(root', cmd')
      /\ cmd'.name = "remove" => cmd.name = "remove"
  <2>1. cmd.name # "remove" => (root.marker \/ Head(cmd.steps) = "mark" => root'.marker)
    BY <1>1, <1>3
  <2>2. cmd.name = "remove" =>
           (NoRelease(root) \/ Head(cmd.steps) = "releases" => NoRelease(root'))
    BY <1>1, <1>3
  <2>3. cmd.name = "remove" =>
           (NoProgram(root) \/ Head(cmd.steps) = "bin" => NoProgram(root'))
    BY <1>1, <1>3
  <2> QED
    BY <1>1, <1>2, <2>1, <2>2, <2>3, OnwardInOrder
<1> QED
  BY <1>4 DEF RootInv, RootTypes

(* A step that changes the root only.                                        *)
LEMMA WriteKeeps ==
    ASSUME RootInv, NEW step, R!Doing(step), NEW next \in Roots, R!Write(next),
           next.marker,
           step \in Removing => (NoRelease(root) \/ step = "releases" => NoRelease(next)),
           step \in Removing => (NoProgram(root) \/ step = "bin" => NoProgram(next))
    PROVE  RootInv'
<1>1. root' = next /\ R!Onward /\ apps' = apps /\ rootSpent' = rootSpent
  BY DEF R!Write
<1>2. R!RemovalCanBeFinished'
  BY <1>1 DEF R!RemovalCanBeFinished
<1>3. R!DataIsKept'
  BY <1>1 DEF R!DataIsKept, RootInv
<1>4. apps' \in Stores /\ rootSpent' \in Budgets
  BY <1>1 DEF RootInv, RootTypes
<1> QED
  BY <1>1, <1>2, <1>3, <1>4, StepKeeps

(* A step of which no release and no program is left needs no marker.        *)
LEMMA EmptyKeeps ==
    ASSUME RootInv, NEW step, R!Doing(step), NEW next \in Roots, R!Write(next),
           root.marker \/ step = "mark" => next.marker,
           next.releases # {} => root.releases # {},
           NoProgram(root) => NoProgram(next),
           step = "releases" => NoRelease(next),
           step = "bin" => NoProgram(next)
    PROVE  RootInv'
<1>1. root' = next /\ R!Onward /\ apps' = apps /\ rootSpent' = rootSpent
  BY DEF R!Write
<1>2. R!RemovalCanBeFinished'
  BY <1>1 DEF R!RemovalCanBeFinished, RootInv, NoProgram
<1>3. R!DataIsKept'
  BY <1>1 DEF R!DataIsKept, RootInv
<1>4. apps' \in Stores /\ rootSpent' \in Budgets
  BY <1>1 DEF RootInv, RootTypes
<1> QED
  BY <1>1, <1>2, <1>3, <1>4, StepKeeps DEF NoRelease

LEMMA MakeStepKeeps ==
    ASSUME RootInv,
           \/ R!MakeDirectories \/ R!Mark \/ R!CopyAside \/ R!SelectCurrent
           \/ R!WriteLive \/ R!MakeExecutable \/ R!StageRelease
    PROVE  RootInv'
<1>0. root \in Roots /\ cmd \in Commands
  BY DEF RootInv, RootTypes
<1>1. CASE R!MakeDirectories
  <2> DEFINE next == [root EXCEPT !.made = R!Directories]
  <2>1. R!Doing("make") /\ R!Write(next)
    BY <1>1 DEF R!MakeDirectories
  <2>2. /\ next \in Roots /\ (root.marker => next.marker) /\ next.releases = root.releases
        /\ NoProgram(root) => NoProgram(next)
    BY <1>0 DEF Roots, NoProgram
  <2> HIDE DEF next
  <2> QED
    BY <2>1, <2>2, EmptyKeeps
<1>2. CASE R!Mark
  <2> DEFINE next == [root EXCEPT !.marker = TRUE]
  <2>1. R!Doing("mark") /\ R!Write(next)
    BY <1>2 DEF R!Mark
  <2>2. /\ next \in Roots /\ next.marker /\ next.releases = root.releases
        /\ NoProgram(root) => NoProgram(next)
    BY <1>0 DEF Roots, NoProgram
  <2> HIDE DEF next
  <2> QED
    BY <2>1, <2>2, EmptyKeeps
<1>3. CASE R!CopyAside
  <2> DEFINE next == IF root.live = R!Absent THEN root ELSE R!Aside
  <2>1. R!Doing("copy") /\ R!Write(next)
    BY <1>3 DEF R!CopyAside
  <2>2. /\ next \in Roots /\ (root.marker => next.marker) /\ next.releases = root.releases
        /\ NoProgram(root) => NoProgram(next)
    BY <1>0 DEF Roots, NoProgram, R!Aside
  <2> HIDE DEF next
  <2> QED
    BY <2>1, <2>2, EmptyKeeps
<1>4. CASE R!SelectCurrent
  <2> DEFINE next == [root EXCEPT !.current = cmd.version]
  <2>1. R!Doing("activate") /\ R!Write(next)
    BY <1>4 DEF R!SelectCurrent
  <2>2. /\ next \in Roots /\ (root.marker => next.marker) /\ next.releases = root.releases
        /\ NoProgram(root) => NoProgram(next)
    BY <1>0 DEF Roots, Commands, NoProgram
  <2> HIDE DEF next
  <2> QED
    BY <2>1, <2>2, EmptyKeeps
<1>5. CASE R!WriteLive
  <2> DEFINE next == [root EXCEPT !.live = R!Binary("new")]
  <2>1. R!Doing("write") /\ R!Write(next)
    BY <1>5 DEF R!WriteLive
  <2>2. root.marker
    BY <2>1, HeadFacts DEF Guarded
  <2>3. next \in Roots /\ next.marker
    BY <1>0, <2>2 DEF Roots, R!Binary, Programs
  <2> HIDE DEF next
  <2> QED
    BY <2>1, <2>3, WriteKeeps DEF Removing
<1>6. CASE R!MakeExecutable
  <2> DEFINE next == [root EXCEPT !.live.runs = TRUE]
  <2>1. R!Doing("chmod") /\ R!Write(next)
    BY <1>6 DEF R!MakeExecutable
  <2>2. root.marker
    BY <2>1, HeadFacts DEF Guarded
  <2>3. next \in Roots /\ next.marker
    BY <1>0, <2>2 DEF Roots, Programs
  <2> HIDE DEF next
  <2> QED
    BY <2>1, <2>3, WriteKeeps DEF Removing
<1>7. CASE R!StageRelease
  <2> DEFINE next == [root EXCEPT !.releases = root.releases \cup {cmd.version}]
  <2>1. R!Doing("stage") /\ R!Write(next)
    BY <1>7 DEF R!StageRelease
  <2>2. root.marker
    BY <2>1, HeadFacts DEF Guarded
  <2>3. next \in Roots /\ next.marker
    BY <1>0, <2>2 DEF Roots, Commands
  <2> HIDE DEF next
  <2> QED
    BY <2>1, <2>3, WriteKeeps DEF Removing
<1> QED
  BY <1>1, <1>2, <1>3, <1>4, <1>5, <1>6, <1>7

LEMMA GivingUpKeeps ==
    ASSUME RootInv, R!GivesUp, root' = root, apps' = apps,
           rootSpent' \in Budgets, rootSpent'.asked = rootSpent.asked
    PROVE  RootInv'
<1>1. cmd' \in Commands /\ InOrder(root', cmd') /\ cmd'.name # "remove"
  BY NoCommandInOrder DEF R!GivesUp, R!NoCommand
<1>2. R!RemovalCanBeFinished' /\ R!DataIsKept'
  BY DEF RootInv, R!RemovalCanBeFinished, R!DataIsKept
<1> QED
  BY <1>1, <1>2 DEF RootInv, RootTypes

LEMMA FallbackKeeps ==
    ASSUME RootInv, R!SelectFallback
    PROVE  RootInv'
<1>0. root \in Roots /\ rootSpent \in Budgets
  BY DEF RootInv, RootTypes
<1>1. R!Doing("fallback")
  BY DEF R!SelectFallback
<1>2. ASSUME NEW version \in Versions \union {0, 1},
             R!Write([root EXCEPT !.previous = version])
      PROVE  RootInv'
  <2> DEFINE next == [root EXCEPT !.previous = version]
  <2>1. R!Write(next)
    BY <1>2
  <2>2. /\ next \in Roots /\ (root.marker => next.marker) /\ next.releases = root.releases
        /\ NoProgram(root) => NoProgram(next)
    BY <1>0 DEF Roots, NoProgram
  <2> HIDE DEF next
  <2> QED
    BY <1>1, <2>1, <2>2, EmptyKeeps
<1>3. root.current \in Versions \union {0, 1}
  BY <1>0 DEF Roots
<1>4. CASE R!GivesUp /\ UNCHANGED <<root, apps, rootSpent>>
  BY <1>0, <1>4, GivingUpKeeps
<1> QED
  BY <1>2, <1>3, <1>4 DEF R!SelectFallback, R!NoLink

LEMMA RemoveStepKeeps ==
    ASSUME RootInv,
           \/ R!RemoveReleases \/ R!RemoveCurrent \/ R!RemovePrevious \/ R!RemoveBin
           \/ R!RemoveFromStore \/ R!Unmark \/ \E dir \in R!Directories : R!RemoveDirectory(dir)
    PROVE  RootInv'
<1>0. root \in Roots /\ apps \in Stores /\ rootSpent \in Budgets
  BY DEF RootInv, RootTypes
<1>1. CASE R!RemoveReleases
  <2> DEFINE next == [root EXCEPT !.releases = {}, !.made = root.made \ {"releases"}]
  <2>1. R!Doing("releases") /\ R!Write(next)
    BY <1>1 DEF R!RemoveReleases
  <2>2. /\ next \in Roots /\ (root.marker => next.marker) /\ next.releases = {}
        /\ NoProgram(root) => NoProgram(next)
    BY <1>0 DEF Roots, NoProgram
  <2> HIDE DEF next
  <2> QED
    BY <2>1, <2>2, EmptyKeeps DEF NoRelease
<1>2. CASE R!RemoveCurrent
  <2> DEFINE next ==
        [root EXCEPT !.current = IF R!Exists(root.current) THEN R!NoLink ELSE root.current]
  <2>1. R!Doing("current") /\ R!Write(next)
    BY <1>2 DEF R!RemoveCurrent
  <2>2. /\ next \in Roots /\ (root.marker => next.marker) /\ next.releases = root.releases
        /\ NoProgram(root) => NoProgram(next)
    BY <1>0 DEF Roots, NoProgram, R!NoLink
  <2> HIDE DEF next
  <2> QED
    BY <2>1, <2>2, EmptyKeeps
<1>3. CASE R!RemovePrevious
  <2> DEFINE next ==
        [root EXCEPT !.previous = IF R!Exists(root.previous) THEN R!NoLink ELSE root.previous]
  <2>1. R!Doing("previous") /\ R!Write(next)
    BY <1>3 DEF R!RemovePrevious
  <2>2. /\ next \in Roots /\ (root.marker => next.marker) /\ next.releases = root.releases
        /\ NoProgram(root) => NoProgram(next)
    BY <1>0 DEF Roots, NoProgram, R!NoLink
  <2> HIDE DEF next
  <2> QED
    BY <2>1, <2>2, EmptyKeeps
<1>4. CASE R!RemoveBin
  <2> DEFINE next ==
        [root EXCEPT !.made = root.made \ {"bin"}, !.live = R!Absent, !.kept = R!Absent]
  <2>1. R!Doing("bin") /\ R!Write(next)
    BY <1>4 DEF R!RemoveBin
  <2>2. /\ next \in Roots /\ (root.marker => next.marker) /\ next.releases = root.releases
        /\ NoProgram(next)
    BY <1>0 DEF Roots, NoProgram, R!Absent, Programs
  <2> HIDE DEF next
  <2> QED
    BY <2>1, <2>2, EmptyKeeps
<1>5. CASE R!RemoveFromStore
  <2>1. PICK step \in {"packages", "data"} :
           R!Doing(step) /\ apps' \in {[apps EXCEPT !.packages = FALSE], [apps EXCEPT !.data = FALSE]}
             /\ (step = "packages" => apps' = [apps EXCEPT !.packages = FALSE])
    BY <1>5 DEF R!RemoveFromStore
  <2>2. root' = root /\ R!Onward
    BY <1>5 DEF R!RemoveFromStore
  <2>3. apps' \in Stores /\ apps'.inside = apps.inside
    BY <1>0, <2>1 DEF Stores
  <2> DEFINE told == R!Doing("data")
  <2>4. rootSpent' = [rootSpent EXCEPT !.asked = rootSpent.asked \/ told]
    BY <1>5 DEF R!RemoveFromStore
  <2>5. told \in BOOLEAN
    BY DEF R!Doing
  <2>6. step = "data" => told
    BY <2>1
  <2> HIDE DEF told
  <2>7. rootSpent' \in Budgets /\ (rootSpent.asked \/ told => rootSpent'.asked)
    <3>1. ASSUME NEW b \in BOOLEAN
          PROVE  [rootSpent EXCEPT !.asked = b] \in Budgets /\ [rootSpent EXCEPT !.asked = b].asked = b
      BY <1>0 DEF Budgets
    <3>2. (rootSpent.asked \/ told) \in BOOLEAN
      BY <1>0, <2>5 DEF Budgets
    <3> QED
      BY <2>4, <3>1, <3>2
  <2>8. step = "packages" => apps'.data = apps.data
    BY <1>0, <2>1 DEF Stores
  <2>9. R!DataIsKept'
    BY <2>1, <2>6, <2>7, <2>8 DEF R!DataIsKept, RootInv
  <2>10. R!RemovalCanBeFinished'
    BY <2>2 DEF R!RemovalCanBeFinished, RootInv
  <2> QED
    BY <1>0, <2>1, <2>2, <2>3, <2>7, <2>9, <2>10, StepKeeps
<1>6. CASE R!Unmark
  <2>1. R!Doing("unmark") /\ R!Onward /\ apps' = apps /\ root' = [root EXCEPT !.marker = FALSE]
    BY <1>6 DEF R!Unmark
  <2>2. NoRelease(root) /\ NoProgram(root)
    BY <2>1, HeadFacts
  <2>3. root' \in Roots /\ NoRelease(root') /\ NoProgram(root')
    BY <1>0, <2>1, <2>2 DEF Roots, NoRelease, NoProgram
  <2> DEFINE last == Len(cmd.steps) = 1
  <2>4. rootSpent' = [rootSpent EXCEPT !.removed = last]
    BY <1>6 DEF R!Unmark
  <2>5. last \in BOOLEAN
    OBVIOUS
  <2> HIDE DEF last
  <2>6. rootSpent' \in Budgets
    BY <1>0, <2>4, <2>5 DEF Budgets
  <2>7. rootSpent'.asked = rootSpent.asked
    BY <1>0, <2>4 DEF Budgets
  <2>8. R!DataIsKept' /\ R!RemovalCanBeFinished'
    BY <2>1, <2>3, <2>7
    DEF R!DataIsKept, R!RemovalCanBeFinished, RootInv, NoRelease, NoProgram
  <2> QED
    BY <1>0, <2>1, <2>3, <2>6, <2>8, StepKeeps DEF Making
<1>7. ASSUME NEW dir \in R!Directories, R!RemoveDirectory(dir)
      PROVE  RootInv'
  <2>1. /\ dir \in {"staging", "state", "keys"} /\ R!Doing(dir) /\ R!Onward
        /\ root' = [root EXCEPT !.made = root.made \ {dir}] /\ rootSpent' = rootSpent
    BY <1>7 DEF R!RemoveDirectory
  <2>2. apps' = apps
    <3>1. ~apps.inside
      BY <2>1, HeadFacts DEF Removing
    <3> QED
      BY <1>7, <3>1 DEF R!RemoveDirectory
  <2>3. /\ root' \in Roots /\ root'.marker = root.marker /\ root'.releases = root.releases
        /\ root'.live = root.live /\ root'.kept = root.kept
    BY <1>0, <2>1 DEF Roots
  <2>4. R!DataIsKept' /\ R!RemovalCanBeFinished'
    BY <2>1, <2>2, <2>3 DEF R!DataIsKept, R!RemovalCanBeFinished, RootInv
  <2> QED
    BY <1>0, <2>1, <2>2, <2>3, <2>4, StepKeeps DEF Making, NoRelease, NoProgram
<1> QED
  BY <1>1, <1>2, <1>3, <1>4, <1>5, <1>6, <1>7

LEMMA RootStep ==
    ASSUME RootInv, R!RootNext
    PROVE  RootInv'
<1>1. CASE R!Stopped
  <2>1. rootSpent \in Budgets /\ rootSpent' = [rootSpent EXCEPT !.faults = rootSpent.faults + 1]
    BY <1>1 DEF R!Stopped, RootInv, RootTypes
  <2>2. rootSpent' \in Budgets /\ rootSpent'.asked = rootSpent.asked
    <3>1. rootSpent.faults + 1 \in Int
      BY <2>1 DEF Budgets
    <3> QED
      BY <2>1, <3>1 DEF Budgets
  <2> QED
    BY <1>1, <2>2, GivingUpKeeps DEF R!Stopped
<1> QED
  BY <1>1, StartsKeep, MakeStepKeeps, FallbackKeeps, RemoveStepKeeps DEF R!RootNext

(* Only a removal takes paperctl away.                                       *)
LEMMA PaperctlStays ==
    ASSUME RootInv, R!RootNext, cmd.name # "remove", root.live # R!Absent
    PROVE  root'.live # R!Absent
<1>0. root \in Roots
  BY DEF RootInv, RootTypes
<1>1. CASE R!RemoveBin
  BY <1>1, HeadFacts DEF R!RemoveBin, Removing
<1>2. CASE R!MakeExecutable
  <2>1. root'.live.runs = TRUE
    BY <1>0, <1>2 DEF R!MakeExecutable, R!Write, Roots, Programs
  <2> QED
    BY <2>1 DEF R!Absent
<1>3. CASE R!WriteLive
  <2>1. root'.live.is = "new"
    BY <1>0, <1>3 DEF R!WriteLive, R!Write, Roots, R!Binary
  <2> QED
    BY <2>1 DEF R!Absent
<1>4. CASE root'.live = root.live
  BY <1>4
<1>5. \/ R!RemoveBin \/ R!MakeExecutable \/ R!WriteLive \/ root'.live = root.live
  <2>1. \A data : ~R!StartRemove(data) \/ root' = root
    BY DEF R!StartRemove, R!Run
  <2>2. \A v : ~R!StartUpgrade(v) \/ root' = root
    BY DEF R!StartUpgrade, R!Run
  <2>3. R!StartEnsure \/ R!StartBootstrap \/ R!Stopped \/ R!RemoveFromStore => root' = root
    BY DEF R!StartEnsure, R!StartBootstrap, R!Run, R!Stopped, R!RemoveFromStore
  <2>4. R!SelectFallback => root'.live = root.live
    BY <1>0 DEF R!SelectFallback, R!Write, Roots
  <2>5. R!CopyAside => root'.live = root.live
    BY <1>0 DEF R!CopyAside, R!Write, R!Aside, Roots
  <2>6. R!MakeDirectories \/ R!Mark \/ R!StageRelease \/ R!SelectCurrent => root'.live = root.live
    BY <1>0 DEF R!MakeDirectories, R!Mark, R!StageRelease, R!SelectCurrent, R!Write, Roots
  <2>7. R!RemoveReleases \/ R!RemoveCurrent \/ R!RemovePrevious \/ R!Unmark =>
            root'.live = root.live
    BY <1>0 DEF R!RemoveReleases, R!RemoveCurrent, R!RemovePrevious, R!Unmark, R!Write, Roots
  <2>8. \A dir : R!RemoveDirectory(dir) => root'.live = root.live
    BY <1>0 DEF R!RemoveDirectory, Roots
  <2> QED
    BY <2>1, <2>2, <2>3, <2>4, <2>5, <2>6, <2>7, <2>8 DEF R!RootNext
<1> QED
  BY <1>1, <1>2, <1>3, <1>4, <1>5

LEMMA RootInit ==
    ASSUME R!RootInit
    PROVE  RootInv
<1>1. cmd = R!NoCommand
  BY DEF R!RootInit
<1>2. cmd \in Commands /\ InOrder(root, cmd) /\ cmd.name # "remove"
  BY <1>1, NoCommandInOrder DEF R!NoCommand
<1>3. root \in Roots
  BY DEF R!RootInit, Roots, Programs, R!Absent, R!NoLink
<1>4. apps \in Stores
  BY DEF R!RootInit, Stores
<1>5. rootSpent \in Budgets
  BY DEF R!RootInit, Budgets
<1>6. R!RemovalCanBeFinished /\ R!DataIsKept
  BY DEF R!RootInit, R!RemovalCanBeFinished, R!DataIsKept
<1> QED
  BY <1>2, <1>3, <1>4, <1>5, <1>6 DEF RootInv, RootTypes

LEMMA RootUnmoved ==
    ASSUME RootInv, UNCHANGED platform
    PROVE  RootInv'
BY DEF platform, RootInv, RootTypes, R!RemovalCanBeFinished, R!DataIsKept

(* For any versions, commands, kills and failing writes: app data goes only  *)
(* when its removal was asked for, a removal cut short can be asked for      *)
(* again, and paperctl is never absent in between (remove.rs plan and        *)
(* execute, paperctl upgrade.rs bootstrap).                                  *)
THEOREM RootsAreSound == Spec => RootIsSound
<1>1. Init => RootInv
  BY RootInit DEF Init
<1>2. RootInv /\ [Next]_vars => RootInv'
  BY RootStep, RootUnmoved DEF Next, vars
<1>3. RootInv => (which = "platform" => R!DataIsKept /\ R!RemovalCanBeFinished)
  BY DEF RootInv
<1>4. ASSUME RootInv, [Next]_vars
      PROVE  [cmd.name # "remove" /\ root.live # R!Absent => root'.live # R!Absent]_(R!rvars)
  <2>1. CASE R!RootNext
    BY <1>4, <2>1, PaperctlStays
  <2>2. CASE UNCHANGED platform
    BY <2>2 DEF platform, R!rvars
  <2> QED
    BY <1>4, <2>1, <2>2 DEF Next, vars
<1> QED
  BY <1>1, <1>2, <1>3, <1>4, PTL DEF Spec, RootIsSound, R!PaperctlNeverAbsent

-----------------------------------------------------------------------------
(* The catalog.  A descriptor and its signature never change once written,   *)
(* and the archive beside them is the one described; on the device, what is  *)
(* cached is at or above everything shown as fresh.                          *)

Archives == {D!None} \union [kind : {"file"}, content : Contents]
Descriptors == [kind : {"release"}, version : Versions, digest : Contents]
Indexes == [kind : {"catalog"}, serial : Nat, entries : SUBSET Versions]
Signatures ==
    [kind : {"sig"}, key : Keys, domain : {"release", "catalog"}, over : Descriptors \union Indexes]

Catalogs ==
    [archive : [Versions -> Archives], release : [Versions -> {D!None} \union Descriptors],
     sig : [Versions -> {D!None} \union Signatures],
     index : {D!None} \union Indexes, indexSig : {D!None} \union Signatures]
Publishing ==
    [pc : {"archive", "release", "sig", "index", "indexSig"},
     version : Versions, content : Contents, key : Keys]
Viewing ==
    [pc : {"fetchSig", "accept", "cacheDoc", "cacheSig", "viewed"},
     doc : Indexes, sig : {D!None} \union Signatures, stale : BOOLEAN]
Fetching ==
    [pc : {"release"}, version : Versions]
        \union [pc : {"archive"}, version : Versions, digest : Contents]

CatalogTypes ==
    /\ served \in Catalogs
    /\ past \in SUBSET [doc : Indexes, sig : Signatures]
    /\ pub \in {D!Idle} \union Publishing
    /\ cache \in [doc : {D!None} \union Indexes, sig : {D!None} \union Signatures]
    /\ reader \in {D!Idle} \union Viewing \union Fetching
    /\ got \in SUBSET [version : Versions, content : Contents]
    /\ seen \in SUBSET Indexes

(* A descriptor describes the archive beside it, and a signature is over a   *)
(* descriptor.                                                               *)
DescribedInv ==
    /\ \A v \in Versions :
          served.release[v] # D!None => served.archive[v].content = served.release[v].digest
    /\ \A v \in Versions : served.sig[v] # D!None => served.release[v] # D!None
    /\ served.indexSig # D!None => served.index # D!None

(* Where the publisher stands, by what it has written.                       *)
PublisherInv ==
    /\ pub.pc \in {"archive", "release"} => served.release[pub.version] = D!None
    /\ pub.pc = "release" =>
          served.archive[pub.version] # D!None /\ served.archive[pub.version].content = pub.content
    /\ pub.pc = "sig" =>
          served.release[pub.version] # D!None /\ served.sig[pub.version] = D!None
    /\ pub.pc = "indexSig" =>
          /\ served.index # D!None
          /\ \A v \in served.index.entries : D!ReadRelease({pub.key}, v)

(* A version and content somebody trusted stands for.                        *)
Vouched(v, c) ==
    /\ served.release[v] # D!None /\ served.release[v].digest = c
    /\ served.sig[v] # D!None /\ served.sig[v].key \in Trusted

VouchedInv ==
    /\ reader.pc = "archive" => Vouched(reader.version, reader.digest)
    /\ \A a \in got : Vouched(a.version, a.content)

(* An index at or above all that was shown as fresh.                         *)
AtOrAbove(doc) ==
    \A d \in seen : d.serial <= doc.serial /\ (d.serial = doc.serial => d = doc)

CachedInv ==
    /\ cache.doc # D!None => AtOrAbove(cache.doc)
    /\ seen # {} => D!Cached
    /\ reader.pc \in {"cacheDoc", "cacheSig"} => AtOrAbove(reader.doc) /\ reader.sig # D!None
    /\ reader.pc = "cacheSig" => cache.doc = reader.doc

CatalogInv ==
    /\ CatalogTypes
    /\ DescribedInv /\ PublisherInv /\ D!ListedIsComplete
    /\ VouchedInv
    /\ CachedInv

LEMMA KindsDiffer ==
    /\ \A d \in Descriptors : d # D!None /\ d.kind = "release"
    /\ \A d \in Indexes : d # D!None /\ d.kind = "catalog"
    /\ \A s \in Signatures : s # D!None /\ s.kind = "sig"
    /\ \A f \in [kind : {"file"}, content : Contents] : f # D!None
    /\ \A p \in Publishing : p # D!Idle /\ p.pc # "idle"
    /\ \A r \in Viewing \union Fetching : r # D!Idle /\ r.pc # "idle"
    /\ D!None.kind = "none" /\ D!Idle.pc = "idle"
<1>1. D!None.kind = "none" /\ D!Idle.pc = "idle"
  BY DEF D!None, D!Idle
<1>2. \A d \in Descriptors : d.kind = "release"
  BY DEF Descriptors
<1>3. \A d \in Indexes : d.kind = "catalog"
  BY DEF Indexes
<1>4. \A s \in Signatures : s.kind = "sig"
  BY DEF Signatures
<1>5. \A f \in [kind : {"file"}, content : Contents] : f.kind = "file"
  OBVIOUS
<1>6. \A p \in Publishing : p.pc # "idle"
  BY DEF Publishing
<1>7. \A r \in Viewing \union Fetching : r.pc # "idle"
  BY DEF Viewing, Fetching
<1> QED
  BY <1>1, <1>2, <1>3, <1>4, <1>5, <1>6, <1>7

LEMMA Documents ==
    /\ \A v \in Versions, c \in Contents :
          D!ReleaseDoc(v, c) \in Descriptors /\ D!ReleaseDoc(v, c).digest = c
    /\ \A n \in Nat, e \in SUBSET Versions :
          /\ D!IndexDoc(n, e) \in Indexes
          /\ D!IndexDoc(n, e).serial = n /\ D!IndexDoc(n, e).entries = e
    /\ \A k \in Keys, d \in Descriptors \union Indexes :
          /\ D!Sign(k, d) \in Signatures
          /\ D!Sign(k, d).key = k /\ D!Sign(k, d).over = d /\ D!Sign(k, d).domain = d.kind
<1>1. \A v \in Versions, c \in Contents :
         D!ReleaseDoc(v, c) \in Descriptors /\ D!ReleaseDoc(v, c).digest = c
  BY DEF D!ReleaseDoc, Descriptors
<1>2. \A n \in Nat, e \in SUBSET Versions :
         /\ D!IndexDoc(n, e) \in Indexes
         /\ D!IndexDoc(n, e).serial = n /\ D!IndexDoc(n, e).entries = e
  BY DEF D!IndexDoc, Indexes
<1>3. ASSUME NEW k \in Keys, NEW d \in Descriptors \union Indexes
      PROVE  /\ D!Sign(k, d) \in Signatures
             /\ D!Sign(k, d).key = k /\ D!Sign(k, d).over = d /\ D!Sign(k, d).domain = d.kind
  <2>1. d.kind \in {"release", "catalog"}
    BY KindsDiffer
  <2> QED
    BY <2>1 DEF D!Sign, Signatures
<1> QED
  BY <1>1, <1>2, <1>3

LEMMA ServedFacts ==
    ASSUME CatalogTypes
    PROVE  /\ served.archive \in [Versions -> Archives]
           /\ served.release \in [Versions -> {D!None} \union Descriptors]
           /\ served.sig \in [Versions -> {D!None} \union Signatures]
           /\ served.index \in {D!None} \union Indexes
           /\ served.indexSig \in {D!None} \union Signatures
BY DEF CatalogTypes, Catalogs

LEMMA AtWork ==
    ASSUME CatalogTypes, pub.pc # "idle"
    PROVE  /\ pub \in Publishing /\ pub.version \in Versions
           /\ pub.content \in Contents /\ pub.key \in Keys
<1>1. pub \in Publishing
  BY KindsDiffer DEF CatalogTypes
<1> QED
  BY <1>1 DEF Publishing

LEMMA PublishingAgain ==
    ASSUME NEW p \in Publishing, NEW pc \in {"archive", "release", "sig", "index", "indexSig"}
    PROVE  /\ [p EXCEPT !.pc = pc] \in Publishing
           /\ [p EXCEPT !.pc = pc].pc = pc
           /\ [p EXCEPT !.pc = pc].version = p.version
           /\ [p EXCEPT !.pc = pc].content = p.content
           /\ [p EXCEPT !.pc = pc].key = p.key
BY DEF Publishing

(* Nothing that was written about a version changes.                         *)
Stays ==
    \A v \in Versions :
        /\ served.release[v] # D!None => served'.release[v] = served.release[v]
        /\ served.sig[v] # D!None => served'.sig[v] = served.sig[v]

PublishedInv == DescribedInv /\ PublisherInv /\ D!ListedIsComplete
Published == pub' \in {D!Idle} \union Publishing /\ served' \in Catalogs /\ PublishedInv' /\ Stays

(* A verified version is written down.                                       *)
LEMMA ReadMeansWritten ==
    ASSUME CatalogTypes, DescribedInv, NEW keys, NEW v \in Versions,
           D!Verify(keys, "release", served.release[v], served.sig[v])
    PROVE  served.release[v] # D!None /\ served.sig[v] # D!None /\ served.sig[v].key \in keys
BY KindsDiffer DEF D!Verify, DescribedInv

LEMMA ListedStays ==
    ASSUME CatalogTypes, PublishedInv, Stays,
           served'.index = served.index, served'.indexSig = served.indexSig,
           \A v \in Versions : served.release[v] # D!None => served'.archive[v] = served.archive[v]
    PROVE  D!ListedIsComplete'
<1> SUFFICES ASSUME served.indexSig # D!None, served.indexSig.over = served.index,
                    NEW v \in served.index.entries
             PROVE  /\ D!Verify({served.indexSig.key}, "release", served'.release[v], served'.sig[v])
                    /\ served'.archive[v].content = served'.release[v].digest
  BY DEF D!ListedIsComplete
<1>1. served.index \in Indexes
  BY ServedFacts DEF PublishedInv, DescribedInv
<1>2. v \in Versions
  BY <1>1 DEF Indexes
<1>3. /\ D!Verify({served.indexSig.key}, "release", served.release[v], served.sig[v])
      /\ served.archive[v].content = served.release[v].digest
  BY DEF PublishedInv, D!ListedIsComplete
<1>4. served.release[v] # D!None /\ served.sig[v] # D!None
  BY <1>2, <1>3, ReadMeansWritten DEF PublishedInv
<1> QED
  BY <1>2, <1>3, <1>4 DEF Stays

(* A publish begins where its version stands.                                *)
LEMMA BeginsKeeps ==
    ASSUME CatalogTypes, PublishedInv, NEW v \in Versions, NEW c \in Contents, NEW k \in Keys,
           D!PublishBegins(v, c, k)
    PROVE  Published
<1>1. served' = served
  BY DEF D!PublishBegins
<1>2. \/ /\ served.release[v] = D!None
         /\ pub' = [pc |-> "archive", version |-> v, content |-> c, key |-> k]
      \/ pub' = [pc |-> "index", version |-> v, content |-> c, key |-> k]
  BY DEF D!PublishBegins
<1>3. /\ pub' \in Publishing /\ pub'.pc \in {"archive", "index"}
      /\ pub'.pc = "archive" => served.release[pub'.version] = D!None
  BY <1>2 DEF Publishing
<1>4. DescribedInv' /\ D!ListedIsComplete' /\ Stays /\ served' \in Catalogs
  BY <1>1 DEF PublishedInv, DescribedInv, D!ListedIsComplete, D!Verify, Stays, CatalogTypes
<1>5. PublisherInv'
  BY <1>1, <1>3 DEF PublisherInv
<1> QED
  BY <1>3, <1>4, <1>5 DEF Published, PublishedInv

LEMMA ArchiveKeeps ==
    ASSUME CatalogTypes, PublishedInv, D!WriteArchive
    PROVE  Published
<1> DEFINE written == [kind |-> "file", content |-> pub.content]
           v0 == pub.version
<1>1. pub.pc = "archive" /\ pub \in Publishing /\ v0 \in Versions /\ pub.content \in Contents
  BY AtWork DEF D!WriteArchive
<1>2. written \in Archives /\ written # D!None /\ written.content = pub.content
  <2>1. written \in [kind : {"file"}, content : Contents] /\ written.content = pub.content
    BY <1>1
  <2> QED
    BY <2>1, KindsDiffer DEF Archives
<1>3. served' = [served EXCEPT !.archive = [served.archive EXCEPT ![v0] = written]]
  BY DEF D!WriteArchive
<1>4. served.release[v0] = D!None
  BY <1>1 DEF PublishedInv, PublisherInv
<1> HIDE DEF written
<1>5. /\ served' \in Catalogs
      /\ served'.archive = [served.archive EXCEPT ![v0] = written]
      /\ served'.release = served.release /\ served'.sig = served.sig
      /\ served'.index = served.index /\ served'.indexSig = served.indexSig
  <2>1. [served.archive EXCEPT ![v0] = written] \in [Versions -> Archives]
    BY <1>2, ServedFacts
  <2> QED
    BY <1>3, <2>1 DEF CatalogTypes, Catalogs
<1>6. \A v \in Versions : served'.archive[v] = IF v = v0 THEN written ELSE served.archive[v]
  BY <1>5, ServedFacts
<1>7. /\ pub' \in Publishing /\ pub'.pc = "release" /\ pub'.version = v0
      /\ pub'.content = pub.content
  BY <1>1, PublishingAgain DEF D!WriteArchive
<1>8. DescribedInv'
  BY <1>4, <1>5, <1>6 DEF PublishedInv, DescribedInv
<1>9. PublisherInv'
  BY <1>1, <1>2, <1>4, <1>5, <1>6, <1>7 DEF PublisherInv
<1>10. Stays
  BY <1>5 DEF Stays
<1>11. D!ListedIsComplete'
  BY <1>4, <1>5, <1>6, <1>10, ListedStays
<1> QED
  BY <1>5, <1>7, <1>8, <1>9, <1>10, <1>11 DEF Published, PublishedInv

LEMMA DescriptorKeeps ==
    ASSUME CatalogTypes, PublishedInv, D!WriteRelease
    PROVE  Published
<1> DEFINE v0 == pub.version
           doc == D!ReleaseDoc(v0, pub.content)
<1>1. pub.pc = "release" /\ pub \in Publishing /\ v0 \in Versions /\ pub.content \in Contents
  BY AtWork DEF D!WriteRelease
<1>2. doc \in Descriptors /\ doc # D!None /\ doc.digest = pub.content
  BY <1>1, Documents, KindsDiffer
<1>3. served' = [served EXCEPT !.release = [served.release EXCEPT ![v0] = doc]]
  BY DEF D!WriteRelease
<1>4. served.release[v0] = D!None /\ served.archive[v0].content = pub.content
  BY <1>1 DEF PublishedInv, PublisherInv
<1>5. served.sig[v0] = D!None
  BY <1>1, <1>4 DEF PublishedInv, DescribedInv
<1> HIDE DEF doc
<1>6. /\ served' \in Catalogs
      /\ served'.release = [served.release EXCEPT ![v0] = doc]
      /\ served'.archive = served.archive /\ served'.sig = served.sig
      /\ served'.index = served.index /\ served'.indexSig = served.indexSig
  <2>1. [served.release EXCEPT ![v0] = doc] \in [Versions -> {D!None} \union Descriptors]
    BY <1>2, ServedFacts
  <2> QED
    BY <1>3, <2>1 DEF CatalogTypes, Catalogs
<1>7. \A v \in Versions : served'.release[v] = IF v = v0 THEN doc ELSE served.release[v]
  BY <1>6, ServedFacts
<1>8. pub' \in Publishing /\ pub'.pc = "sig" /\ pub'.version = v0
  BY <1>1, PublishingAgain DEF D!WriteRelease
<1>9. DescribedInv'
  BY <1>2, <1>4, <1>6, <1>7 DEF PublishedInv, DescribedInv
<1>10. PublisherInv'
  BY <1>1, <1>2, <1>5, <1>6, <1>7, <1>8 DEF PublisherInv
<1>11. Stays
  BY <1>4, <1>6, <1>7 DEF Stays
<1>12. D!ListedIsComplete'
  BY <1>6, <1>11, ListedStays
<1> QED
  BY <1>6, <1>8, <1>9, <1>10, <1>11, <1>12 DEF Published, PublishedInv

LEMMA SignatureKeeps ==
    ASSUME CatalogTypes, PublishedInv, D!WriteReleaseSig
    PROVE  Published
<1> DEFINE v0 == pub.version
           sig == D!Sign(pub.key, served.release[v0])
<1>1. pub.pc = "sig" /\ pub \in Publishing /\ v0 \in Versions /\ pub.key \in Keys
  BY AtWork DEF D!WriteReleaseSig
<1>2. served.release[v0] # D!None /\ served.sig[v0] = D!None
  BY <1>1 DEF PublishedInv, PublisherInv
<1>3. sig \in Signatures
  <2>1. served.release[v0] \in Descriptors
    BY <1>1, <1>2, ServedFacts
  <2> QED
    BY <1>1, <2>1, Documents
<1>4. served' = [served EXCEPT !.sig = [served.sig EXCEPT ![v0] = sig]]
  BY DEF D!WriteReleaseSig
<1> HIDE DEF sig
<1>5. /\ served' \in Catalogs
      /\ served'.sig = [served.sig EXCEPT ![v0] = sig]
      /\ served'.archive = served.archive /\ served'.release = served.release
      /\ served'.index = served.index /\ served'.indexSig = served.indexSig
  <2>1. [served.sig EXCEPT ![v0] = sig] \in [Versions -> {D!None} \union Signatures]
    BY <1>3, ServedFacts
  <2> QED
    BY <1>4, <2>1 DEF CatalogTypes, Catalogs
<1>6. \A v \in Versions : served'.sig[v] = IF v = v0 THEN sig ELSE served.sig[v]
  BY <1>5, ServedFacts
<1>7. pub' \in Publishing /\ pub'.pc = "index"
  BY <1>1, PublishingAgain DEF D!WriteReleaseSig
<1>8. DescribedInv'
  BY <1>2, <1>5, <1>6 DEF PublishedInv, DescribedInv
<1>9. PublisherInv'
  BY <1>7 DEF PublisherInv
<1>10. Stays
  BY <1>2, <1>5, <1>6 DEF Stays
<1>11. D!ListedIsComplete'
  BY <1>5, <1>10, ListedStays
<1> QED
  BY <1>5, <1>7, <1>8, <1>9, <1>10, <1>11 DEF Published, PublishedInv

(* The publisher ends, or is stopped: what it wrote stays as it is.          *)
LEMMA EndKeeps ==
    ASSUME CatalogTypes, PublishedInv, pub' = D!Idle, served' = served
    PROVE  Published
<1>1. PublisherInv'
  BY KindsDiffer DEF PublisherInv
<1>2. DescribedInv' /\ D!ListedIsComplete' /\ Stays /\ served' \in Catalogs
  BY DEF PublishedInv, DescribedInv, D!ListedIsComplete, D!Verify, Stays, CatalogTypes
<1> QED
  BY <1>1, <1>2 DEF Published, PublishedInv

(* The index is replaced under a higher serial, which no signature beside it *)
(* is over until its own is written.                                         *)
LEMMA IndexKeeps ==
    ASSUME CatalogTypes, PublishedInv, D!RewriteIndex
    PROVE  Published
<1>1. CASE pub' = D!Idle /\ served' = served
  BY <1>1, EndKeeps
<1>2. CASE /\ D!MayRewriteIndex
           /\ served' = [served EXCEPT !.index = D!IndexDoc(D!NextSerial, D!Listed)]
           /\ pub' = [pub EXCEPT !.pc = "indexSig"]
  <2> DEFINE doc == D!IndexDoc(D!NextSerial, D!Listed)
  <2>1. pub \in Publishing
    BY AtWork DEF D!RewriteIndex
  <2>2. D!NextSerial \in Nat /\ D!Listed \in SUBSET Versions
    <3>1. D!ReadableIndex => served.index.serial \in Nat
      BY ServedFacts DEF D!ReadableIndex, Indexes
    <3> QED
      BY <3>1 DEF D!NextSerial, D!Listed
  <2>3. doc \in Indexes /\ doc.serial = D!NextSerial /\ doc.entries = D!Listed /\ doc # D!None
    BY <2>2, Documents, KindsDiffer
  <2> HIDE DEF doc
  <2>4. /\ served' \in Catalogs /\ served'.index = doc
        /\ served'.archive = served.archive /\ served'.release = served.release
        /\ served'.sig = served.sig /\ served'.indexSig = served.indexSig
    BY <1>2, <2>3 DEF CatalogTypes, Catalogs, doc
  <2>5. pub' \in Publishing /\ pub'.pc = "indexSig" /\ pub'.key = pub.key
    BY <1>2, <2>1, PublishingAgain
  <2>6. DescribedInv'
    BY <2>3, <2>4 DEF PublishedInv, DescribedInv
  <2>7. \A v \in doc.entries : D!ReadRelease({pub.key}, v)
    BY <1>2, <2>3 DEF D!MayRewriteIndex
  <2>8. PublisherInv'
    BY <2>3, <2>4, <2>5, <2>7 DEF PublisherInv, D!ReadRelease, D!Verify
  <2>9. Stays
    BY <2>4 DEF Stays
  <2>10. D!ListedIsComplete'
    <3>1. ASSUME served.indexSig # D!None PROVE served.indexSig.over # doc
      <4>1. D!ReadableIndex
        BY <3>1 DEF D!ReadableIndex, PublishedInv, DescribedInv
      <4>2. served.indexSig.over = served.index
        BY <1>2, <4>1 DEF D!MayRewriteIndex, D!Verify
      <4>3. served.index.serial \in Nat /\ doc.serial = served.index.serial + 1
        BY <2>3, <4>1, ServedFacts DEF D!ReadableIndex, Indexes, D!NextSerial
      <4> QED
        BY <4>2, <4>3
    <3> QED
      BY <2>4, <3>1 DEF D!ListedIsComplete
  <2> QED
    BY <2>4, <2>5, <2>6, <2>8, <2>9, <2>10 DEF Published, PublishedInv
<1> QED
  BY <1>1, <1>2 DEF D!RewriteIndex

LEMMA IndexSignatureKeeps ==
    ASSUME CatalogTypes, PublishedInv, D!WriteIndexSig
    PROVE  /\ Published
           /\ past' \in SUBSET [doc : Indexes, sig : Signatures]
<1> DEFINE sig == D!Sign(pub.key, served.index)
<1>1. pub.pc = "indexSig" /\ pub \in Publishing /\ pub.key \in Keys
  BY AtWork DEF D!WriteIndexSig
<1>2. served.index \in Indexes /\ \A v \in served.index.entries : D!ReadRelease({pub.key}, v)
  BY <1>1, ServedFacts DEF PublishedInv, PublisherInv
<1>3. sig \in Signatures /\ sig.key = pub.key
  BY <1>1, <1>2, Documents
<1>4. /\ served' = [served EXCEPT !.indexSig = sig] /\ pub' = D!Idle
      /\ past' = past \union {[doc |-> served.index, sig |-> sig]}
  BY DEF D!WriteIndexSig
<1> HIDE DEF sig
<1>5. /\ served' \in Catalogs /\ served'.indexSig = sig /\ served'.index = served.index
      /\ served'.archive = served.archive /\ served'.release = served.release
      /\ served'.sig = served.sig
  BY <1>3, <1>4 DEF CatalogTypes, Catalogs
<1>6. DescribedInv'
  BY <1>2, <1>5, KindsDiffer DEF PublishedInv, DescribedInv
<1>7. PublisherInv'
  BY <1>4, KindsDiffer DEF PublisherInv
<1>8. Stays
  BY <1>5 DEF Stays
<1>9. D!ListedIsComplete'
  <2>1. ASSUME NEW v \in served.index.entries
        PROVE  /\ D!Verify({pub.key}, "release", served.release[v], served.sig[v])
               /\ served.archive[v].content = served.release[v].digest
    <3>1. D!Verify({pub.key}, "release", served.release[v], served.sig[v])
      BY <1>2 DEF D!ReadRelease
    <3>2. v \in Versions
      BY <1>2 DEF Indexes
    <3> QED
      BY <3>1, <3>2, ReadMeansWritten DEF PublishedInv, DescribedInv
  <2> QED
    BY <1>3, <1>5, <2>1 DEF D!ListedIsComplete
<1>10. past' \in SUBSET [doc : Indexes, sig : Signatures]
  BY <1>2, <1>3, <1>4 DEF CatalogTypes
<1> QED
  BY <1>4, <1>5, <1>6, <1>7, <1>8, <1>9, <1>10 DEF Published, PublishedInv

(* The reader.                                                               *)
LEMMA Reading ==
    ASSUME CatalogTypes
    PROVE  /\ reader.pc \in {"fetchSig", "accept", "cacheDoc", "cacheSig", "viewed"} =>
                 /\ reader \in Viewing /\ reader.doc \in Indexes
                 /\ reader.sig \in {D!None} \union Signatures
           /\ reader.pc \in {"release", "archive"} => reader.version \in Versions
           /\ reader.pc = "archive" => reader.digest \in Contents
<1>1. reader.pc = "idle" \/ reader \in Viewing \/ reader \in Fetching
  BY KindsDiffer DEF CatalogTypes
<1> QED
  BY <1>1 DEF Viewing, Fetching

LEMMA ViewingAgain ==
    ASSUME NEW r \in Viewing, NEW pc \in {"fetchSig", "accept", "cacheDoc", "cacheSig", "viewed"},
           NEW sig \in {D!None} \union Signatures
    PROVE  /\ [r EXCEPT !.pc = pc] \in Viewing /\ [r EXCEPT !.pc = pc].pc = pc
           /\ [r EXCEPT !.pc = pc].doc = r.doc /\ [r EXCEPT !.pc = pc].sig = r.sig
           /\ [r EXCEPT !.pc = pc, !.sig = sig] \in Viewing
           /\ [r EXCEPT !.pc = pc, !.sig = sig].pc = pc
BY DEF Viewing

ReadTypes ==
    /\ cache \in [doc : {D!None} \union Indexes, sig : {D!None} \union Signatures]
    /\ reader \in {D!Idle} \union Viewing \union Fetching
    /\ got \in SUBSET [version : Versions, content : Contents]
    /\ seen \in SUBSET Indexes

Read == ReadTypes' /\ VouchedInv' /\ CachedInv'

(* A step that vouches for nothing new and caches and shows nothing.         *)
LEMMA QuietRead ==
    ASSUME CatalogTypes, VouchedInv, CachedInv,
           reader' \in {D!Idle} \union Viewing \union Fetching,
           reader'.pc \notin {"archive", "cacheDoc", "cacheSig"},
           UNCHANGED <<served, cache, got, seen>>
    PROVE  Read
<1>1. ReadTypes'
  BY DEF CatalogTypes, ReadTypes
<1>2. VouchedInv'
  BY DEF VouchedInv, Vouched
<1>3. CachedInv'
  BY DEF CachedInv, AtOrAbove, D!Cached
<1> QED
  BY <1>1, <1>2, <1>3 DEF Read

LEMMA FetchKeeps ==
    ASSUME CatalogTypes, VouchedInv, CachedInv,
           \/ D!FetchIndex \/ D!FetchIndexSig \/ D!FetchFromMirror
           \/ D!CachedView \/ D!Choose \/ D!ReaderStops
    PROVE  Read
<1>1. CASE D!FetchIndex
  <2>1. served.index \in Indexes
    BY <1>1, ServedFacts DEF D!FetchIndex
  <2>2. reader' \in Viewing /\ reader'.pc = "fetchSig"
    BY <1>1, <2>1 DEF D!FetchIndex, Viewing
  <2> QED
    BY <1>1, <2>2, QuietRead DEF D!FetchIndex, D!ReadFrame
<1>2. CASE D!FetchIndexSig
  <2>1. reader \in Viewing /\ served.indexSig \in {D!None} \union Signatures
    BY <1>2, Reading, ServedFacts DEF D!FetchIndexSig
  <2>2. reader' \in Viewing /\ reader'.pc = "accept"
    <3> DEFINE sig == served.indexSig
    <3>1. reader' = [reader EXCEPT !.pc = "accept", !.sig = sig]
      BY <1>2 DEF D!FetchIndexSig
    <3> HIDE DEF sig
    <3>2. sig \in {D!None} \union Signatures
      BY <2>1 DEF sig
    <3>3. /\ [reader EXCEPT !.pc = "accept", !.sig = sig] \in Viewing
          /\ [reader EXCEPT !.pc = "accept", !.sig = sig].pc = "accept"
      BY <2>1, <3>2 DEF Viewing
    <3> QED
      BY <3>1, <3>3
  <2> QED
    BY <1>2, <2>2, QuietRead DEF D!FetchIndexSig, D!ReadFrame
<1>3. CASE D!FetchFromMirror
  <2>1. PICK pair \in past :
           reader' = [pc |-> "accept", doc |-> pair.doc, sig |-> pair.sig, stale |-> FALSE]
    BY <1>3 DEF D!FetchFromMirror
  <2>2. pair.doc \in Indexes /\ pair.sig \in Signatures
    BY DEF CatalogTypes
  <2>3. reader' \in Viewing /\ reader'.pc = "accept"
    BY <2>1, <2>2 DEF Viewing
  <2> QED
    BY <1>3, <2>3, QuietRead DEF D!FetchFromMirror, D!ReadFrame
<1>4. CASE D!CachedView
  <2>1. \/ reader' = D!Idle
        \/ /\ cache.doc # D!None
           /\ reader' = [pc |-> "viewed", doc |-> cache.doc, sig |-> cache.sig, stale |-> TRUE]
    BY <1>4 DEF D!CachedView, D!Cached
  <2>2. cache.doc \in {D!None} \union Indexes /\ cache.sig \in {D!None} \union Signatures
    BY DEF CatalogTypes
  <2>3. reader' \in {D!Idle} \union Viewing /\ reader'.pc \in {"idle", "viewed"}
    <3>1. CASE reader' = D!Idle
      BY <3>1, KindsDiffer
    <3>2. CASE reader' # D!Idle
      <4>1. cache.doc \in Indexes
        BY <2>1, <2>2, <3>2
      <4> DEFINE doc == cache.doc
                 sig == cache.sig
      <4>2. reader' = [pc |-> "viewed", doc |-> doc, sig |-> sig, stale |-> TRUE]
        BY <2>1, <3>2
      <4>3. doc \in Indexes /\ sig \in {D!None} \union Signatures
        BY <2>2, <4>1
      <4> HIDE DEF doc, sig
      <4>4. reader' \in Viewing /\ reader'.pc = "viewed"
        BY <4>2, <4>3 DEF Viewing
      <4> QED
        BY <4>4
    <3> QED
      BY <3>1, <3>2
  <2> QED
    BY <1>4, <2>3, QuietRead DEF D!CachedView, D!ReadFrame
<1>5. CASE D!Choose
  <2>1. reader.doc \in Indexes
    BY <1>5, Reading DEF D!Choose
  <2>2. \/ reader' = D!Idle
        \/ \E v \in reader.doc.entries : reader' = [pc |-> "release", version |-> v]
    BY <1>5 DEF D!Choose
  <2>3. reader' \in {D!Idle} \union Fetching /\ reader'.pc \in {"idle", "release"}
    BY <2>1, <2>2, KindsDiffer DEF Fetching, Indexes
  <2> QED
    BY <1>5, <2>3, QuietRead DEF D!Choose, D!ReadFrame
<1>6. CASE D!ReaderStops
  <2>1. reader' = D!Idle
    BY <1>6 DEF D!ReaderStops
  <2> QED
    BY <1>6, <2>1, QuietRead, KindsDiffer DEF D!ReaderStops, D!ReadFrame
<1> QED
  BY <1>1, <1>2, <1>3, <1>4, <1>5, <1>6

(* An accepted index is at or above the cached one, which is at or above all *)
(* that was shown.                                                           *)
LEMMA AcceptKeeps ==
    ASSUME CatalogTypes, VouchedInv, CachedInv, D!Accept
    PROVE  Read
<1>1. CASE reader' = D!Idle
  BY <1>1, QuietRead, KindsDiffer DEF D!Accept, D!ReadFrame
<1>2. CASE /\ D!VerifyIndex(reader.doc, reader.sig) /\ D!MayReplace(reader.doc)
           /\ reader' = [reader EXCEPT !.pc = "cacheDoc"]
  <2>1. reader \in Viewing /\ reader.doc \in Indexes
    BY Reading DEF D!Accept
  <2>2. reader' \in Viewing /\ reader'.pc = "cacheDoc" /\ reader'.doc = reader.doc
        /\ reader'.sig = reader.sig
    BY <1>2, <2>1, ViewingAgain
  <2>3. reader.sig # D!None
    BY <1>2, KindsDiffer DEF D!VerifyIndex, D!Verify
  <2>4. cache' = cache /\ got' = got /\ seen' = seen /\ served' = served
    BY DEF D!Accept, D!ReadFrame
  <2>5. AtOrAbove(reader.doc)
    <3> SUFFICES ASSUME NEW d \in seen
                 PROVE  /\ d.serial <= reader.doc.serial
                        /\ d.serial = reader.doc.serial => d = reader.doc
      BY DEF AtOrAbove
    <3>1. D!Cached /\ cache.doc # D!None
      BY DEF CachedInv, D!Cached
    <3>2. /\ reader.doc.serial >= cache.doc.serial
          /\ reader.doc.serial = cache.doc.serial => reader.doc = cache.doc
      BY <1>2, <3>1 DEF D!MayReplace
    <3>3. d.serial <= cache.doc.serial /\ (d.serial = cache.doc.serial => d = cache.doc)
      BY <3>1 DEF CachedInv, AtOrAbove
    <3>4. d.serial \in Nat /\ cache.doc.serial \in Nat /\ reader.doc.serial \in Nat
      BY <2>1, <3>1 DEF CatalogTypes, Indexes
    <3> QED
      BY <3>2, <3>3, <3>4
  <2>6. ReadTypes'
    BY <2>2, <2>4 DEF CatalogTypes, ReadTypes
  <2>7. VouchedInv'
    BY <2>2, <2>4 DEF VouchedInv, Vouched
  <2>8. CachedInv'
    BY <2>2, <2>3, <2>4, <2>5 DEF CachedInv, AtOrAbove, D!Cached
  <2> QED
    BY <2>6, <2>7, <2>8 DEF Read
<1> QED
  BY <1>1, <1>2 DEF D!Accept

LEMMA CacheKeeps ==
    ASSUME CatalogTypes, VouchedInv, CachedInv, D!CacheDoc \/ D!CacheSig
    PROVE  Read
<1>0. /\ reader \in Viewing /\ reader.doc \in Indexes
      /\ reader.sig \in {D!None} \union Signatures
      /\ AtOrAbove(reader.doc) /\ reader.sig # D!None /\ reader.doc # D!None
  BY Reading, KindsDiffer DEF D!CacheDoc, D!CacheSig, CachedInv
<1>1. CASE D!CacheDoc
  <2>1. /\ cache' = [cache EXCEPT !.doc = reader.doc]
        /\ reader' = [reader EXCEPT !.pc = "cacheSig"]
        /\ got' = got /\ seen' = seen /\ served' = served
    BY <1>1 DEF D!CacheDoc, D!ReadFrame
  <2>2. /\ cache' \in [doc : {D!None} \union Indexes, sig : {D!None} \union Signatures]
        /\ cache'.doc = reader.doc /\ cache'.sig = cache.sig
    BY <1>0, <2>1 DEF CatalogTypes
  <2>3. /\ reader' \in Viewing /\ reader'.pc = "cacheSig" /\ reader'.doc = reader.doc
        /\ reader'.sig = reader.sig
    BY <1>0, <2>1, ViewingAgain
  <2>4. ReadTypes'
    BY <2>1, <2>2, <2>3 DEF CatalogTypes, ReadTypes
  <2>5. VouchedInv'
    BY <2>1, <2>3 DEF VouchedInv, Vouched
  <2>6. CachedInv'
    BY <1>0, <2>1, <2>2, <2>3 DEF CachedInv, AtOrAbove, D!Cached
  <2> QED
    BY <2>4, <2>5, <2>6 DEF Read
<1>2. CASE D!CacheSig
  <2>1. /\ cache' = [cache EXCEPT !.sig = reader.sig]
        /\ reader' = [reader EXCEPT !.pc = "viewed"]
        /\ got' = got /\ seen' = seen \union {reader.doc} /\ served' = served
    BY <1>2 DEF D!CacheSig, D!ReadFrame
  <2>2. cache.doc = reader.doc
    BY <1>2 DEF D!CacheSig, CachedInv
  <2>3. /\ cache' \in [doc : {D!None} \union Indexes, sig : {D!None} \union Signatures]
        /\ cache'.doc = reader.doc /\ cache'.sig = reader.sig
    BY <1>0, <2>1, <2>2 DEF CatalogTypes
  <2>4. reader' \in Viewing /\ reader'.pc = "viewed"
    BY <1>0, <2>1, ViewingAgain
  <2>5. ReadTypes'
    BY <1>0, <2>1, <2>3, <2>4 DEF CatalogTypes, ReadTypes
  <2>6. VouchedInv'
    BY <2>1, <2>4 DEF VouchedInv, Vouched
  <2>7. \A d \in seen' :
           d.serial <= reader.doc.serial /\ (d.serial = reader.doc.serial => d = reader.doc)
    <3>1. reader.doc.serial \in Nat
      BY <1>0 DEF Indexes
    <3> QED
      BY <1>0, <2>1, <3>1 DEF AtOrAbove
  <2>8. CachedInv'
    BY <1>0, <2>3, <2>4, <2>7 DEF CachedInv, AtOrAbove, D!Cached
  <2> QED
    BY <2>5, <2>6, <2>8 DEF Read
<1> QED
  BY <1>1, <1>2

LEMMA ReleaseKeeps ==
    ASSUME CatalogTypes, DescribedInv, VouchedInv, CachedInv, D!FetchRelease
    PROVE  Read
<1> DEFINE v == reader.version
           doc == served.release[v]
<1>1. v \in Versions
  BY Reading DEF D!FetchRelease
<1>2. CASE reader' = D!Idle
  BY <1>2, QuietRead, KindsDiffer DEF D!FetchRelease, D!ReadFrame
<1>3. CASE /\ doc # D!None
           /\ D!Verify(Trusted, "release", doc, served.sig[v])
           /\ reader' = [pc |-> "archive", version |-> v, digest |-> doc.digest]
  <2>1. doc \in Descriptors /\ doc.digest \in Contents
    BY <1>1, <1>3, ServedFacts DEF Descriptors
  <2>2. /\ reader' \in Fetching /\ reader'.pc = "archive" /\ reader'.version = v
        /\ reader'.digest = doc.digest
    BY <1>1, <1>3, <2>1 DEF Fetching
  <2>3. Vouched(v, doc.digest)
    BY <1>1, <1>3, ReadMeansWritten DEF Vouched
  <2>4. cache' = cache /\ got' = got /\ seen' = seen /\ served' = served
    BY DEF D!FetchRelease, D!ReadFrame
  <2>5. ReadTypes'
    BY <2>2, <2>4 DEF CatalogTypes, ReadTypes
  <2>6. VouchedInv'
    BY <2>2, <2>3, <2>4 DEF VouchedInv, Vouched
  <2>7. CachedInv'
    BY <2>2, <2>4 DEF CachedInv, AtOrAbove, D!Cached
  <2> QED
    BY <2>5, <2>6, <2>7 DEF Read
<1> QED
  BY <1>2, <1>3 DEF D!FetchRelease

LEMMA ArchiveReadKeeps ==
    ASSUME CatalogTypes, VouchedInv, CachedInv, D!FetchArchive
    PROVE  Read
<1> DEFINE v == reader.version
<1>1. v \in Versions /\ reader.digest \in Contents /\ Vouched(v, reader.digest)
  BY Reading DEF D!FetchArchive, VouchedInv
<1>2. got' \in {got, got \union {[version |-> v, content |-> reader.digest]}}
  BY DEF D!FetchArchive
<1>3. cache' = cache /\ seen' = seen /\ served' = served /\ reader' = D!Idle
  BY DEF D!FetchArchive
<1>4. \A a \in got' : a \in got \/ a = [version |-> v, content |-> reader.digest]
  BY <1>2
<1>5. \A a \in got' : Vouched(a.version, a.content)
  BY <1>1, <1>4 DEF VouchedInv
<1>6. ReadTypes'
  BY <1>1, <1>2, <1>3 DEF CatalogTypes, ReadTypes
<1>7. VouchedInv'
  BY <1>3, <1>5, KindsDiffer DEF VouchedInv, Vouched
<1>8. CachedInv'
  BY <1>3, KindsDiffer DEF CachedInv, AtOrAbove, D!Cached
<1> QED
  BY <1>6, <1>7, <1>8 DEF Read

LEMMA CatalogStep ==
    ASSUME CatalogInv, D!DistNext
    PROVE  CatalogInv'
<1>0. CatalogTypes /\ DescribedInv /\ PublishedInv /\ VouchedInv /\ CachedInv
  BY DEF CatalogInv, PublishedInv
<1>1. CASE D!ReaderNext
  <2>1. Read
    BY <1>0, <1>1, FetchKeeps, AcceptKeeps, CacheKeeps, ReleaseKeeps, ArchiveReadKeeps
    DEF D!ReaderNext
  <2>2. served' = served /\ pub' = pub /\ past' = past
    BY <1>1 DEF D!ReaderNext, D!FetchIndex, D!FetchIndexSig, D!FetchFromMirror, D!Accept,
       D!CacheDoc, D!CacheSig, D!CachedView, D!Choose, D!FetchRelease, D!FetchArchive,
       D!ReaderStops, D!ReadFrame
  <2>3. DescribedInv' /\ PublisherInv' /\ D!ListedIsComplete'
    BY <1>0, <2>2
    DEF PublishedInv, DescribedInv, PublisherInv, D!ListedIsComplete, D!Verify, D!ReadRelease
  <2>4. CatalogTypes'
    BY <1>0, <2>1, <2>2 DEF CatalogTypes, Read, ReadTypes
  <2> QED
    BY <2>1, <2>3, <2>4 DEF CatalogInv, Read
<1>2. CASE D!PublisherNext
  <2>1. /\ Published
        /\ past' \in SUBSET [doc : Indexes, sig : Signatures]
        /\ UNCHANGED <<cache, reader, got, seen>>
    <3>1. past \in SUBSET [doc : Indexes, sig : Signatures]
      BY <1>0 DEF CatalogTypes
    <3>2. ASSUME NEW v \in Versions, NEW c \in Contents, NEW key \in Keys,
                 D!PublishBegins(v, c, key)
          PROVE  Published /\ past' = past /\ UNCHANGED <<cache, reader, got, seen>>
      BY <1>0, <3>2, BeginsKeeps DEF D!PublishBegins, D!PubFrame
    <3>3. CASE D!WriteArchive
      BY <1>0, <3>1, <3>3, ArchiveKeeps DEF D!WriteArchive, D!PubFrame
    <3>4. CASE D!WriteRelease
      BY <1>0, <3>1, <3>4, DescriptorKeeps DEF D!WriteRelease, D!PubFrame
    <3>5. CASE D!WriteReleaseSig
      BY <1>0, <3>1, <3>5, SignatureKeeps DEF D!WriteReleaseSig, D!PubFrame
    <3>6. CASE D!RewriteIndex
      BY <1>0, <3>1, <3>6, IndexKeeps DEF D!RewriteIndex, D!PubFrame
    <3>7. CASE D!WriteIndexSig
      BY <1>0, <3>7, IndexSignatureKeeps DEF D!WriteIndexSig
    <3>8. CASE D!PublisherStops
      BY <1>0, <3>1, <3>8, EndKeeps DEF D!PublisherStops
    <3> QED
      BY <1>2, <3>1, <3>2, <3>3, <3>4, <3>5, <3>6, <3>7, <3>8 DEF D!PublisherNext
  <2>2. CatalogTypes'
    BY <1>0, <2>1 DEF CatalogTypes, Published
  <2>3. \A v \in Versions : \A c : Vouched(v, c) => Vouched(v, c)'
    BY <2>1 DEF Published, Stays, Vouched
  <2>4. VouchedInv'
    <3>1. reader.pc = "archive" => Vouched(reader.version, reader.digest)'
      BY <1>0, <2>1, <2>3, Reading DEF VouchedInv
    <3>2. \A a \in got : a.version \in Versions
      BY <1>0 DEF CatalogTypes
    <3> QED
      BY <1>0, <2>1, <2>3, <3>1, <3>2 DEF VouchedInv
  <2>5. CachedInv'
    BY <1>0, <2>1 DEF CachedInv, AtOrAbove, D!Cached
  <2> QED
    BY <2>1, <2>2, <2>4, <2>5 DEF CatalogInv, Published, PublishedInv
<1> QED
  BY <1>1, <1>2 DEF D!DistNext

LEMMA CatalogInit ==
    ASSUME D!DistInit
    PROVE  CatalogInv
<1>1. /\ served.archive = [v \in Versions |-> D!None]
      /\ served.release = [v \in Versions |-> D!None]
      /\ served.sig = [v \in Versions |-> D!None]
      /\ served.index = D!None /\ served.indexSig = D!None
  BY DEF D!DistInit
<1>2. served \in Catalogs
  BY DEF D!DistInit, Catalogs, Archives
<1>3. /\ past = {} /\ pub = D!Idle /\ reader = D!Idle /\ got = {} /\ seen = {}
      /\ cache \in [doc : {D!None} \union Indexes, sig : {D!None} \union Signatures]
      /\ cache.doc = D!None
  BY DEF D!DistInit
<1>4. CatalogTypes
  BY <1>2, <1>3 DEF CatalogTypes
<1>5. DescribedInv /\ D!ListedIsComplete
  BY <1>1 DEF DescribedInv, D!ListedIsComplete
<1>6. PublisherInv /\ VouchedInv /\ CachedInv
  BY <1>3, KindsDiffer DEF PublisherInv, VouchedInv, CachedInv
<1> QED
  BY <1>4, <1>5, <1>6 DEF CatalogInv

LEMMA CatalogUnmoved ==
    ASSUME CatalogInv, UNCHANGED catalog
    PROVE  CatalogInv'
<1>1. UNCHANGED <<served, past, pub, cache, reader, got, seen>>
  BY DEF catalog
<1>2. CatalogTypes' /\ DescribedInv' /\ PublisherInv'
  BY <1>1
  DEF CatalogInv, CatalogTypes, DescribedInv, PublisherInv, D!ReadRelease, D!Verify
<1>3. D!ListedIsComplete' /\ VouchedInv' /\ CachedInv'
  BY <1>1
  DEF CatalogInv, D!ListedIsComplete, D!Verify, VouchedInv, Vouched, CachedInv, AtOrAbove, D!Cached
<1> QED
  BY <1>2, <1>3 DEF CatalogInv

(* An index shown as fresh is above every other that was.                    *)
LEMMA ShownMovesForward ==
    ASSUME CatalogInv, D!DistNext
    PROVE  \A doc \in seen' \ seen : \A older \in seen : doc.serial > older.serial
<1>1. CASE D!CacheSig
  <2>1. AtOrAbove(reader.doc) /\ seen' = seen \union {reader.doc} /\ reader.doc \in Indexes
    BY <1>1, Reading DEF CatalogInv, CachedInv, D!CacheSig
  <2>2. \A d \in seen \union {reader.doc} : d.serial \in Nat
    BY <2>1 DEF CatalogInv, CatalogTypes, Indexes
  <2> QED
    BY <2>1, <2>2 DEF AtOrAbove
<1>2. CASE ~D!CacheSig
  <2>1. seen' = seen
    BY <1>2 DEF D!DistNext, D!ReaderNext, D!FetchIndex, D!FetchIndexSig, D!FetchFromMirror,
       D!Accept, D!CacheDoc, D!CachedView, D!Choose, D!FetchRelease, D!FetchArchive,
       D!ReaderStops, D!PublisherNext, D!PublishBegins, D!WriteArchive, D!WriteRelease,
       D!WriteReleaseSig, D!RewriteIndex, D!WriteIndexSig, D!PublisherStops, D!PubFrame
  <2> QED
    BY <2>1
<1> QED
  BY <1>1, <1>2

(* For any versions, keys, contents and number of stops on either side, and  *)
(* whatever a mirror serves of what was once served: a published version     *)
(* never changes, what an index lists is complete, nothing untrusted reaches *)
(* the installer and the index shown as fresh never goes back (publish.rs    *)
(* publish and rewrite_index, catalog.rs view, accept and release).          *)
THEOREM CatalogsAreSound == Spec => CatalogIsSound
<1>1. Init => CatalogInv
  BY CatalogInit DEF Init
<1>2. CatalogInv /\ [Next]_vars => CatalogInv'
  BY CatalogStep, CatalogUnmoved DEF Next, vars
<1>3. CatalogInv =>
         (which = "catalog" => D!VersionIsImmutable /\ D!ListedIsComplete /\ D!OnlyTrustedContent)
  BY DEF CatalogInv, VouchedInv, Vouched, D!VersionIsImmutable, D!OnlyTrustedContent
<1>4. ASSUME CatalogInv, [Next]_vars
      PROVE  [\A doc \in seen' \ seen : \A older \in seen : doc.serial > older.serial]_(D!dvars)
  <2>1. CASE D!DistNext
    BY <1>4, <2>1, ShownMovesForward
  <2>2. CASE UNCHANGED catalog
    BY <2>2 DEF catalog, D!dvars
  <2> QED
    BY <1>4, <2>1, <2>2 DEF Next, vars
<1> QED
  BY <1>1, <1>2, <1>3, <1>4, PTL DEF Spec, CatalogIsSound, D!FreshMovesForward

-----------------------------------------------------------------------------
(* The release train.  An archive never changes under its tag, so what was   *)
(* compared with it when a signature was made still is when the signature    *)
(* arrives.                                                                  *)

Declared == [version : 1..MaxVersion, text : Nat, code : Nat]
Trees == [T!Units -> Declared]
Builds == [code : Nat, text : Nat, linker : {"gcc", "zig"}]
Digests == [version : 1..MaxVersion, text : Nat]
Documented == [is : {"document"}, archive : Builds, source : Declared, vouch : {"rebuild", "trust"}]
Released ==
    [is : {"release"}, digest : Digests, archive : Builds, parts : {Compiled},
     doc : {T!NoDocument} \union Documented, sig : {T!NoDocument} \union Documented]
Workflows ==
    [at : {"waiting", "planned"}, commit : Trees,
     step : [T!Units -> {"none", "publish", "sign", "done", "failed"}]]
Uploads == [tag : T!Tags, doc : Documented, left : SUBSET {"doc", "sig"}]

TrainTypes ==
    /\ tree \in Trees
    /\ hub \in [T!Tags -> {T!NoRelease} \union Released]
    /\ run \in [Runs -> Workflows]
    /\ uploads \in SUBSET Uploads

(* A document that stands for an archive.                                    *)
StandsFor(doc, built) ==
    /\ doc.archive = built
    /\ doc.vouch = "rebuild" => doc.source.code = built.code

(* What a release holds goes together.                                       *)
HoldsTogether(release) ==
    release # T!NoRelease =>
        /\ release.archive.text = release.digest.text
        /\ release.doc # T!NoDocument => StandsFor(release.doc, release.archive)

TrainInv ==
    /\ TrainTypes
    /\ \A t \in T!Tags : HoldsTogether(hub[t])
    /\ \A job \in uploads :
          hub[job.tag] # T!NoRelease /\ StandsFor(job.doc, hub[job.tag].archive)

LEMMA ReleaseKinds ==
    /\ \A r \in Released : r # T!NoRelease
    /\ \A d \in Documented : d # T!NoDocument
<1>1. T!NoRelease.is = "none" /\ T!NoDocument.is = "none"
  BY DEF T!NoRelease, T!NoDocument
<1>2. \A r \in Released : r.is = "release"
  BY DEF Released
<1>3. \A d \in Documented : d.is = "document"
  BY DEF Documented
<1> QED
  BY <1>1, <1>2, <1>3

(* A step that leaves the releases and what is being uploaded to them alone. *)
LEMMA HubUntouched ==
    ASSUME TrainInv, tree' \in Trees, run' \in [Runs -> Workflows],
           hub' = hub, uploads' \in SUBSET uploads
    PROVE  TrainInv'
BY DEF TrainInv, TrainTypes, HoldsTogether, StandsFor

LEMMA CommitKeeps ==
    ASSUME TrainInv, NEW u \in T!Units,
           T!Bump(u) \/ T!EditManifest(u) \/ T!EditCode(u)
    PROVE  TrainInv'
<1>0. tree \in Trees /\ tree[u] \in Declared /\ run \in [Runs -> Workflows]
  BY DEF TrainInv, TrainTypes, Trees
<1>1. ASSUME NEW d \in Declared, T!Commit(u, d) PROVE TrainInv'
  <2>1. tree' = [tree EXCEPT ![u] = d] /\ UNCHANGED <<hub, run, uploads>>
    BY <1>1 DEF T!Commit
  <2>2. tree' \in Trees
    BY <1>0, <2>1 DEF Trees
  <2> QED
    BY <1>0, <2>1, <2>2, HubUntouched
<1>2. /\ tree[u].version \in Nat /\ tree[u].version >= 1 /\ tree[u].text \in Nat
      /\ tree[u].code \in Nat /\ tree[u].text + 1 \in Nat /\ tree[u].code + 1 \in Nat
  BY <1>0 DEF Declared
<1>3. CASE T!Bump(u)
  <2>1. tree[u].version < MaxVersion
    BY <1>3 DEF T!Bump
  <2>2. tree[u].version + 1 \in 1..MaxVersion
    BY <1>2, <2>1, VersionsAssumption
  <2>3. [tree[u] EXCEPT !.version = tree[u].version + 1, !.text = tree[u].text + 1] \in Declared
    BY <1>0, <1>2, <2>2 DEF Declared
  <2> QED
    BY <1>1, <1>3, <2>3 DEF T!Bump
<1>4. CASE T!EditManifest(u)
  <2>1. [tree[u] EXCEPT !.text = tree[u].text + 1] \in Declared
    BY <1>0, <1>2 DEF Declared
  <2> QED
    BY <1>1, <1>4, <2>1 DEF T!EditManifest
<1>5. CASE T!EditCode(u)
  <2>1. [tree[u] EXCEPT !.code = tree[u].code + 1] \in Declared
    BY <1>0, <1>2 DEF Declared
  <2> QED
    BY <1>1, <1>5, <2>1 DEF T!EditCode
<1> QED
  BY <1>3, <1>4, <1>5

LEMMA PlanKeeps ==
    ASSUME TrainInv, NEW r \in Runs, T!Plan(r) \/ T!PlanFails(r)
    PROVE  TrainInv'
<1>0. tree \in Trees /\ run \in [Runs -> Workflows] /\ run[r] \in Workflows
  BY DEF TrainInv, TrainTypes
<1>1. UNCHANGED <<tree, hub, uploads>>
  BY DEF T!Plan, T!PlanFails
<1>2. ASSUME NEW w \in Workflows, run' = [run EXCEPT ![r] = w] PROVE TrainInv'
  <2>1. run' \in [Runs -> Workflows]
    BY <1>0, <1>2
  <2> QED
    BY <1>0, <1>1, <2>1, HubUntouched
<1>3. CASE T!Plan(r)
  <2> DEFINE wanted == {u \in T!Units : T!Classify(u, tree[u]) = "publish"}
             step == [u \in T!Units |-> IF u \in wanted THEN "publish" ELSE "none"]
  <2>1. run' = [run EXCEPT ![r] = [at |-> "planned", commit |-> tree, step |-> step]]
    BY <1>3 DEF T!Plan
  <2> HIDE DEF wanted
  <2>2. step \in [T!Units -> {"none", "publish", "sign", "done", "failed"}]
    OBVIOUS
  <2> HIDE DEF step
  <2>3. [at |-> "planned", commit |-> tree, step |-> step] \in Workflows
    BY <1>0, <2>2 DEF Workflows
  <2> QED
    BY <1>2, <2>1, <2>3
<1>4. CASE T!PlanFails(r)
  <2>1. run' = [run EXCEPT ![r] = [run[r] EXCEPT !.at = "planned"]]
    BY <1>4 DEF T!PlanFails
  <2>2. [run[r] EXCEPT !.at = "planned"] \in Workflows
    BY <1>0 DEF Workflows
  <2> QED
    BY <1>2, <2>1, <2>2
<1> QED
  BY <1>3, <1>4

(* A job's step.                                                             *)
LEMMA JobMoves ==
    ASSUME NEW r \in Runs, NEW u \in T!Units, run \in [Runs -> Workflows],
           NEW step \in {"none", "publish", "sign", "done", "failed"}
    PROVE  [run EXCEPT ![r].step[u] = step] \in [Runs -> Workflows]
<1> DEFINE steps == [run[r].step EXCEPT ![u] = step]
           w == [run[r] EXCEPT !.step = steps]
<1>1. run[r] \in Workflows
  OBVIOUS
<1>2. steps \in [T!Units -> {"none", "publish", "sign", "done", "failed"}]
  BY <1>1 DEF Workflows
<1>3. [run EXCEPT ![r].step[u] = step] = [run EXCEPT ![r] = w]
  OBVIOUS
<1> HIDE DEF steps
<1>4. w \in Workflows
  BY <1>1, <1>2 DEF Workflows
<1> HIDE DEF w
<1>5. [run EXCEPT ![r] = w] \in [Runs -> Workflows]
  BY <1>4
<1> QED
  BY <1>3, <1>5

LEMMA PublishKeeps ==
    ASSUME TrainInv, NEW r \in Runs, NEW u \in T!Units, T!Publish(r, u) \/ T!JobFails(r, u)
    PROVE  TrainInv'
<1>0. /\ tree \in Trees /\ run \in [Runs -> Workflows] /\ uploads \in SUBSET Uploads
      /\ hub \in [T!Tags -> {T!NoRelease} \union Released]
  BY DEF TrainInv, TrainTypes
<1>1. UNCHANGED <<tree, uploads>>
  BY DEF T!Publish, T!JobFails
<1>2. CASE hub' = hub /\ run' = [run EXCEPT ![r].step[u] = "failed"]
  BY <1>0, <1>1, <1>2, JobMoves, HubUntouched
<1>3. CASE T!Publish(r, u) /\ hub[T!Tag(u, run[r].commit[u])] = T!NoRelease
  <2> DEFINE declared == run[r].commit[u]
             tag == T!Tag(u, declared)
             release == [is |-> "release", digest |-> T!ContentDigest(declared),
                         archive |-> T!BuildOf(declared, "gcc"), parts |-> Compiled,
                         doc |-> T!NoDocument, sig |-> T!NoDocument]
  <2>1. declared \in Declared
    BY <1>0 DEF Workflows, Trees
  <2>2. hub' = [hub EXCEPT ![tag] = release] /\ run' = [run EXCEPT ![r].step[u] = "sign"]
    BY <1>3 DEF T!Publish, T!Checkout
  <2>3. hub[tag] = T!NoRelease
    BY <1>3
  <2>4. release \in Released /\ HoldsTogether(release)
    <3> DEFINE built == T!BuildOf(declared, "gcc")
               digest == T!ContentDigest(declared)
    <3>1. built \in Builds /\ digest \in Digests /\ built.text = digest.text
      BY <2>1 DEF Declared, T!BuildOf, T!ContentDigest, Builds, Digests
    <3>2. release.doc = T!NoDocument /\ release.archive = built /\ release.digest = digest
      OBVIOUS
    <3>3. release \in Released
      BY <3>1 DEF Released
    <3> QED
      BY <3>1, <3>2, <3>3 DEF HoldsTogether
  <2> HIDE DEF release, tag, declared
  <2>5. hub' \in [T!Tags -> {T!NoRelease} \union Released]
    BY <1>0, <2>2, <2>4
  <2>6. \A t \in T!Tags : hub'[t] = IF t = tag THEN release ELSE hub[t]
    BY <1>0, <2>2
  <2>7. run' \in [Runs -> Workflows]
    BY <1>0, <2>2, JobMoves
  <2>8. \A t \in T!Tags : HoldsTogether(hub'[t])
    BY <2>4, <2>6 DEF TrainInv
  <2>9. \A job \in uploads : hub'[job.tag] = hub[job.tag]
    <3>1. \A job \in uploads : job.tag \in T!Tags /\ hub[job.tag] # T!NoRelease
      BY <1>0 DEF TrainInv, Uploads
    <3> QED
      BY <2>3, <2>6, <3>1
  <2> QED
    BY <1>0, <1>1, <2>5, <2>7, <2>8, <2>9 DEF TrainInv, TrainTypes
<1> QED
  BY <1>2, <1>3 DEF T!Publish, T!JobFails

(* What is signed is what the tag holds, and a rebuild gave exactly that.    *)
LEMMA SigningKeeps ==
    ASSUME TrainInv, NEW tag \in T!Tags, NEW checkout \in Trees, NEW linker,
           NEW vouch \in {"rebuild", "trust"},
           T!MaySign(tag, checkout, linker, vouch), T!BeginUpload(tag, checkout, vouch),
           tree' \in Trees, run' \in [Runs -> Workflows], hub' = hub
    PROVE  TrainInv'
<1> DEFINE doc == T!Document(tag, checkout, vouch)
           left == IF tag[1] = "platform" THEN {"doc"} ELSE {"doc", "sig"}
           job == [tag |-> tag, doc |-> doc, left |-> left]
<1>1. hub[tag] \in Released /\ hub[tag] # T!NoRelease
  BY DEF TrainInv, TrainTypes, T!MaySign
<1>2. tag[1] \in T!Units
  BY DEF T!Tags
<1>3. checkout[tag[1]] \in Declared /\ hub[tag].archive \in Builds
  BY <1>1, <1>2 DEF Trees, Released
<1>4. doc \in Documented
  BY <1>3 DEF T!Document, Documented
<1>5. StandsFor(doc, hub[tag].archive)
  <2>1. doc.archive = hub[tag].archive /\ doc.source = checkout[tag[1]]
    BY DEF T!Document
  <2>2. ASSUME doc.vouch = "rebuild" PROVE checkout[tag[1]].code = hub[tag].archive.code
    <3>1. tag[1] # "platform" /\ vouch = "rebuild"
      BY <2>2 DEF T!Document
    <3>2. T!BuildOf(checkout[tag[1]], linker) = hub[tag].archive
      BY <3>1 DEF T!MaySign, T!SignApp, T!RebuildAndCompare
    <3>3. T!BuildOf(checkout[tag[1]], linker).code = checkout[tag[1]].code
      BY DEF T!BuildOf
    <3> QED
      BY <3>2, <3>3
  <2> QED
    BY <2>1, <2>2 DEF StandsFor
<1> HIDE DEF doc
<1>6. job \in Uploads
  BY <1>4 DEF Uploads
<1>7. job.tag = tag /\ job.doc = doc
  OBVIOUS
<1>8. uploads' = uploads \union {job}
  BY DEF T!BeginUpload, doc
<1> HIDE DEF job
<1>9. TrainTypes'
  BY <1>6, <1>8 DEF TrainInv, TrainTypes
<1>10. \A j \in uploads' : hub[j.tag] # T!NoRelease /\ StandsFor(j.doc, hub[j.tag].archive)
  BY <1>1, <1>5, <1>7, <1>8 DEF TrainInv
<1> QED
  BY <1>9, <1>10 DEF TrainInv

LEMMA SignKeeps ==
    ASSUME TrainInv,
           \/ \E r \in Runs, u \in T!Units : T!SignInWorkflow(r, u)
           \/ \E tag \in T!Tags, linker \in {"gcc", "zig"}, vouch \in {"rebuild", "trust"} :
                 T!SignByHand(tag, linker, vouch)
    PROVE  TrainInv'
<1>0. tree \in Trees /\ run \in [Runs -> Workflows]
  BY DEF TrainInv, TrainTypes
<1>1. ASSUME NEW r \in Runs, NEW u \in T!Units, T!SignInWorkflow(r, u) PROVE TrainInv'
  <2> DEFINE checkout == run[r].commit
             tag == T!Tag(u, checkout[u])
             may == T!MaySign(tag, checkout, "gcc", "rebuild")
             step == IF may THEN "done" ELSE "failed"
  <2>1. checkout \in Trees
    BY <1>0 DEF Workflows
  <2>2. tag \in T!Tags
    BY <2>1 DEF Trees, Declared, T!Tag, T!Tags
  <2>3. run' = [run EXCEPT ![r].step[u] = step] /\ UNCHANGED <<tree, hub>>
    BY <1>1 DEF T!SignInWorkflow
  <2>4. IF may THEN T!BeginUpload(tag, checkout, "rebuild") ELSE uploads' = uploads
    BY <1>1 DEF T!SignInWorkflow
  <2> HIDE DEF checkout, tag, may
  <2>5. run' \in [Runs -> Workflows]
    BY <1>0, <2>3, JobMoves
  <2>6. CASE may /\ T!BeginUpload(tag, checkout, "rebuild")
    BY <1>0, <2>1, <2>2, <2>3, <2>5, <2>6, SigningKeeps DEF may
  <2>7. CASE uploads' = uploads
    BY <1>0, <2>3, <2>5, <2>7, HubUntouched
  <2> QED
    BY <2>4, <2>6, <2>7
<1>2. ASSUME NEW tag \in T!Tags, NEW linker, NEW vouch \in {"rebuild", "trust"},
             T!SignByHand(tag, linker, vouch)
      PROVE  TrainInv'
  BY <1>0, <1>2, SigningKeeps DEF T!SignByHand
<1> QED
  BY <1>1, <1>2

(* An upload lands under the tag whose archive it stands for.                *)
LEMMA UploadKeeps ==
    ASSUME TrainInv, NEW job \in uploads, T!Upload(job) \/ T!UploadFails(job)
    PROVE  TrainInv'
<1>0. /\ tree \in Trees /\ run \in [Runs -> Workflows] /\ uploads \in SUBSET Uploads
      /\ hub \in [T!Tags -> {T!NoRelease} \union Released]
  BY DEF TrainInv, TrainTypes
<1>1. CASE T!UploadFails(job)
  BY <1>0, <1>1, HubUntouched DEF T!UploadFails
<1>2. CASE T!Upload(job)
  <2> DEFINE tag == job.tag
             old == hub[tag]
             new == IF "doc" \in job.left THEN [old EXCEPT !.doc = job.doc]
                                          ELSE [old EXCEPT !.sig = job.doc]
             rest == [job EXCEPT !.left = {"sig"}]
  <2>1. tag \in T!Tags /\ job.doc \in Documented /\ job \in Uploads
    BY <1>0 DEF Uploads
  <2>2. old \in Released /\ StandsFor(job.doc, old.archive) /\ HoldsTogether(old)
    BY <1>0, <2>1 DEF TrainInv
  <2>3. hub' = [hub EXCEPT ![tag] = new] /\ tree' = tree /\ run' = run
    BY <1>2 DEF T!Upload
  <2>4. /\ new \in Released /\ new.archive = old.archive /\ new.digest = old.digest
        /\ new.doc \in {old.doc, job.doc}
    <3>1. CASE "doc" \in job.left
      BY <2>1, <2>2, <3>1 DEF Released
    <3>2. CASE "doc" \notin job.left
      BY <2>1, <2>2, <3>2 DEF Released
    <3> QED
      BY <3>1, <3>2
  <2>5. rest \in Uploads /\ rest.tag = tag /\ rest.doc = job.doc
    BY <2>1 DEF Uploads
  <2>6. uploads' \in SUBSET (uploads \union {rest})
    BY <1>2 DEF T!Upload
  <2> HIDE DEF new, rest
  <2>7. HoldsTogether(new) /\ new # T!NoRelease
    BY <2>2, <2>4, ReleaseKinds DEF HoldsTogether
  <2>8. hub' \in [T!Tags -> {T!NoRelease} \union Released]
    BY <1>0, <2>3, <2>4
  <2>9. \A t \in T!Tags : hub'[t] = IF t = tag THEN new ELSE hub[t]
    BY <1>0, <2>3
  <2>10. \A t \in T!Tags : HoldsTogether(hub'[t])
    BY <2>7, <2>9 DEF TrainInv
  <2>11. \A t \in T!Tags : hub[t] # T!NoRelease =>
            hub'[t] # T!NoRelease /\ hub'[t].archive = hub[t].archive
    BY <2>4, <2>7, <2>9
  <2>12. \A j \in uploads \union {rest} :
            j.tag \in T!Tags /\ hub[j.tag] # T!NoRelease /\ StandsFor(j.doc, hub[j.tag].archive)
    <3>1. \A j \in uploads : j.tag \in T!Tags
      BY <1>0 DEF Uploads
    <3> QED
      BY <2>1, <2>2, <2>5, <3>1, ReleaseKinds DEF TrainInv
  <2>13. \A j \in uploads' : hub'[j.tag] # T!NoRelease /\ StandsFor(j.doc, hub'[j.tag].archive)
    BY <2>6, <2>11, <2>12
  <2>14. TrainTypes'
    BY <1>0, <2>3, <2>5, <2>6, <2>8 DEF TrainTypes
  <2> QED
    BY <2>10, <2>13, <2>14 DEF TrainInv
<1> QED
  BY <1>1, <1>2

LEMMA TrainStep ==
    ASSUME TrainInv, T!RelNext
    PROVE  TrainInv'
BY CommitKeeps, PlanKeeps, PublishKeeps, SignKeeps, UploadKeeps DEF T!RelNext

LEMMA TrainInit ==
    ASSUME T!RelInit
    PROVE  TrainInv
<1> DEFINE first == [version |-> 1, text |-> 0, code |-> 0]
           idle == [u \in T!Units |-> "none"]
<1>1. first \in Declared
  BY VersionsAssumption DEF Declared
<1>2. tree = [u \in T!Units |-> first]
  BY DEF T!RelInit
<1> HIDE DEF first
<1>3. tree \in Trees
  BY <1>1, <1>2 DEF Trees
<1>4. idle \in [T!Units -> {"none", "publish", "sign", "done", "failed"}]
  OBVIOUS
<1>5. run = [r \in Runs |-> [at |-> "waiting", commit |-> tree, step |-> idle]]
  BY DEF T!RelInit
<1> HIDE DEF idle
<1>6. run \in [Runs -> Workflows]
  <2>1. [at |-> "waiting", commit |-> tree, step |-> idle] \in Workflows
    BY <1>3, <1>4 DEF Workflows
  <2> QED
    BY <1>5, <2>1
<1>7. hub = [t \in T!Tags |-> T!NoRelease] /\ uploads = {}
  BY DEF T!RelInit
<1> QED
  BY <1>3, <1>6, <1>7 DEF TrainInv, TrainTypes, HoldsTogether

LEMMA TrainUnmoved ==
    ASSUME TrainInv, UNCHANGED train
    PROVE  TrainInv'
<1>1. UNCHANGED <<tree, hub, run, uploads>>
  BY DEF train
<1> QED
  BY <1>1 DEF TrainInv, TrainTypes, HoldsTogether, StandsFor

LEMMA TrainTellsTheTruth ==
    ASSUME TrainInv
    PROVE  T!DigestNamesTheArchive /\ T!SignedIsWhatWasBuilt
BY DEF TrainInv, HoldsTogether, StandsFor, T!DigestNamesTheArchive, T!SignedIsWhatWasBuilt

-----------------------------------------------------------------------------
(* The platform bundle.  While nobody builds into the directory, what was    *)
(* measured and what was packed are both what is there.                      *)

PartFiles == [rev : Nat, machine : {"aarch64", "x86_64"}]
Measured == [name : B!Files, digest : PartFiles]
Packed == [name : B!Files, bytes : PartFiles, mode : {755, 644}]
Notes == {"plain", "quoted", "newline"}
Backs == STATE_VERSION..(STATE_VERSION + 1)
Packagings ==
    [at : {"measure", "pack"}, todo : Seq(B!Files) \union Seq(Measured),
     components : Seq(Measured), notes : Notes, writes : {STATE_VERSION}, back : Backs,
     key : Keys, disturbed : BOOLEAN]
Manifests ==
    [components : Seq(Measured), writes : {STATE_VERSION}, back : Backs, notes : Notes,
     toml : {"parses", "does not parse"}]
Bundles ==
    [is : {"bundle"}, document : Manifests, key : Keys, held : Seq(Packed),
     whole : BOOLEAN, undisturbed : BOOLEAN]

BundleTypes ==
    /\ parts \in [B!Files -> PartFiles]
    /\ pkg \in {B!Idle} \union Packagings
    /\ pkg.at = "measure" => pkg.todo \in Seq(B!Files)
    /\ pkg.at = "pack" => pkg.todo \in Seq(Measured)
    /\ file \in {B!NoFile} \union Bundles
    /\ device \in {B!NoFile} \union Bundles

(* What is named in the manifest is in the bundle, or on its way there.      *)
CoveredBy(components, held, todo) ==
    \A i \in 1..Len(components) :
        \/ \E j \in 1..Len(held) : held[j].name = components[i].name
        \/ \E j \in 1..Len(todo) : todo[j].name = components[i].name

(* Two lists say the same of a directory.                                    *)
MeasuredIn(components, dir) ==
    \A i \in 1..Len(components) : components[i].digest = dir[components[i].name]
PackedFrom(held, dir) == \A j \in 1..Len(held) : held[j].bytes = dir[held[j].name]
Agree(components, held) ==
    \A i \in 1..Len(components), j \in 1..Len(held) :
        held[j].name = components[i].name => held[j].bytes = components[i].digest

BundleInv ==
    /\ BundleTypes
    /\ file # B!NoFile => file.document.toml = B!Escape(file.document.notes)
    /\ pkg.at = "measure" /\ ~pkg.disturbed => MeasuredIn(pkg.components, parts)
    /\ pkg.at = "pack" =>
          /\ file # B!NoFile /\ ~file.whole /\ B!Check(file.document)
          /\ CoveredBy(file.document.components, file.held, pkg.todo)
          /\ ~pkg.disturbed =>
                MeasuredIn(file.document.components, parts) /\ PackedFrom(file.held, parts)
    /\ file # B!NoFile /\ file.whole /\ file.undisturbed =>
          /\ B!Check(file.document)
          /\ CoveredBy(file.document.components, file.held, <<>>)
          /\ Agree(file.document.components, file.held)
    /\ B!AcceptedIsSigned

LEMMA BundleKinds ==
    /\ \A b \in Bundles : b # B!NoFile
    /\ B!Idle.at = "idle"
    /\ \A p \in Packagings : p # B!Idle /\ p.at # "idle"
<1>1. B!NoFile.is = "none" /\ B!Idle.at = "idle"
  BY DEF B!NoFile, B!Idle
<1>2. \A b \in Bundles : b.is = "bundle"
  BY DEF Bundles
<1>3. \A p \in Packagings : p.at # "idle"
  BY DEF Packagings
<1> QED
  BY <1>1, <1>2, <1>3

LEMMA AtPackaging ==
    ASSUME BundleInv
    PROVE  /\ pkg.at \in {"measure", "pack"} <=> pkg # B!Idle
           /\ pkg # B!Idle => pkg \in Packagings
           /\ file # B!NoFile => file \in Bundles
BY BundleKinds DEF BundleInv, BundleTypes, Packagings

LEMMA BundleFacts ==
    ASSUME NEW b \in Bundles
    PROVE  /\ b.document \in Manifests /\ b.document.components \in Seq(Measured)
           /\ b.held \in Seq(Packed) /\ b.whole \in BOOLEAN /\ b.undisturbed \in BOOLEAN
           /\ DOMAIN b.document.components = 1..Len(b.document.components)
           /\ DOMAIN b.held = 1..Len(b.held)
<1>1. b.document \in Manifests /\ b.held \in Seq(Packed) /\ b.whole \in BOOLEAN /\ b.undisturbed \in BOOLEAN
  BY DEF Bundles
<1>2. b.document.components \in Seq(Measured)
  BY <1>1 DEF Manifests
<1> QED
  BY <1>1, <1>2, LenProperties

(* Someone builds into the directory.                                        *)
LEMMA BuildKeeps ==
    ASSUME BundleInv, NEW f \in B!Files, NEW machine \in {"aarch64", "x86_64"},
           B!Build(f, machine)
    PROVE  BundleInv'
<1>1. UNCHANGED <<file, device>>
  BY DEF B!Build
<1>2. parts' \in [B!Files -> PartFiles]
  <2>1. parts[f] \in PartFiles /\ parts[f].rev + 1 \in Nat
    BY DEF BundleInv, BundleTypes, PartFiles
  <2>2. [rev |-> parts[f].rev + 1, machine |-> machine] \in PartFiles
    BY <2>1 DEF PartFiles
  <2>3. parts' = [parts EXCEPT ![f] = [rev |-> parts[f].rev + 1, machine |-> machine]]
    BY DEF B!Build
  <2> QED
    BY <2>2, <2>3 DEF BundleInv, BundleTypes
<1>3. CASE pkg = B!Idle
  <2>1. pkg' = B!Idle
    BY <1>3 DEF B!Build
  <2> QED
    BY <1>1, <1>2, <2>1, BundleKinds
    DEF BundleInv, BundleTypes, B!AcceptedIsSigned, B!Check, B!CheckNames, B!Names
<1>4. CASE pkg # B!Idle
  <2>1. pkg' = [pkg EXCEPT !.disturbed = TRUE]
    BY <1>4 DEF B!Build
  <2>2. pkg \in Packagings
    BY <1>4, AtPackaging
  <2>3. /\ pkg' \in Packagings /\ pkg'.disturbed = TRUE /\ pkg'.at = pkg.at
        /\ pkg'.todo = pkg.todo /\ pkg'.components = pkg.components
    BY <2>1, <2>2 DEF Packagings
  <2> QED
    BY <1>1, <1>2, <2>3
    DEF BundleInv, BundleTypes, B!AcceptedIsSigned, B!Check, B!CheckNames, B!Names
<1> QED
  BY <1>3, <1>4

LEMMA PackageKeeps ==
    ASSUME BundleInv,
           NEW notes \in Notes, NEW include \in Includes, NEW back \in Backs, NEW key \in Keys,
           B!Package(notes, include, back, key)
    PROVE  BundleInv'
<1> DEFINE todo == Components \o include
<1>1. todo \in Seq(B!Files)
  <2>1. Components \in Seq(STRING) /\ include \in Seq(STRING)
    BY ListsAssumption
  <2>2. \A i \in 1..Len(Components) : Components[i] \in B!Files
    <3>1. DOMAIN Components = 1..Len(Components)
      BY <2>1
    <3> QED
      BY <3>1 DEF B!Files, B!Required
  <2>3. \A i \in 1..Len(include) : include[i] \in B!Files
    <3>1. DOMAIN include = 1..Len(include)
      BY <2>1
    <3>2. {include[i] : i \in DOMAIN include} \in {{list[i] : i \in DOMAIN list} : list \in Includes}
      OBVIOUS
    <3> QED
      BY <3>1, <3>2 DEF B!Files
  <2>4. Components \in Seq(B!Files)
    BY <2>1, <2>2, LenProperties, IsASeq
  <2>5. include \in Seq(B!Files)
    BY <2>1, <2>3, LenProperties, IsASeq
  <2> QED
    BY <2>4, <2>5, ConcatFacts
<1>2. pkg' = [at |-> "measure", todo |-> todo, components |-> <<>>, notes |-> notes,
              writes |-> STATE_VERSION, back |-> back, key |-> key, disturbed |-> FALSE]
  BY DEF B!Package
<1> HIDE DEF todo
<1>3. /\ pkg' \in Packagings /\ pkg'.at = "measure" /\ pkg'.todo = todo
      /\ pkg'.components = <<>>
  <2>1. <<>> \in Seq(Measured)
    BY EmptySeq
  <2> QED
    BY <1>1, <1>2, <2>1 DEF Packagings
<1>4. MeasuredIn(pkg'.components, parts)
  BY <1>3, EmptySeq DEF MeasuredIn
<1>5. UNCHANGED <<parts, file, device>>
  BY DEF B!Package
<1> QED
  BY <1>1, <1>3, <1>4, <1>5
  DEF BundleInv, BundleTypes, B!AcceptedIsSigned, B!Check, B!CheckNames, B!Names

LEMMA MeasureKeeps ==
    ASSUME BundleInv, B!Measure
    PROVE  BundleInv'
<1>1. pkg.at = "measure" /\ pkg \in Packagings /\ pkg.todo \in Seq(B!Files) /\ pkg.todo # <<>>
  BY AtPackaging DEF B!Measure, BundleInv, BundleTypes
<1> DEFINE f == Head(pkg.todo)
           entry == [name |-> f, digest |-> parts[f]]
           longer == Append(pkg.components, entry)
           rest == Tail(pkg.todo)
<1>2. f \in B!Files /\ rest \in Seq(B!Files)
  BY <1>1, TailFacts
<1>3. entry \in Measured /\ entry.digest = parts[entry.name]
  BY <1>2 DEF Measured, BundleInv, BundleTypes
<1>4. pkg' = [pkg EXCEPT !.todo = rest, !.components = longer] /\ UNCHANGED <<parts, file, device>>
  BY DEF B!Measure
<1>5. pkg.components \in Seq(Measured)
  BY <1>1 DEF Packagings
<1> HIDE DEF entry, rest
<1>6. /\ longer \in Seq(Measured) /\ Len(longer) = Len(pkg.components) + 1
      /\ \A i \in 1..Len(pkg.components) : longer[i] = pkg.components[i]
      /\ longer[Len(pkg.components) + 1] = entry
  BY <1>3, <1>5, AppendProperties
<1> HIDE DEF longer
<1>7. /\ pkg' \in Packagings /\ pkg'.at = "measure" /\ pkg'.todo = rest
      /\ pkg'.components = longer /\ pkg'.disturbed = pkg.disturbed
  BY <1>1, <1>2, <1>4, <1>6 DEF Packagings
<1>8. MeasuredIn(pkg.components, parts) => MeasuredIn(longer, parts)
  <2>1. Len(pkg.components) \in Nat
    BY <1>5, LenProperties
  <2>2. \A i \in 1..Len(longer) : i \in 1..Len(pkg.components) \/ i = Len(pkg.components) + 1
    BY <1>6, <2>1
  <2> QED
    BY <1>3, <1>6, <2>2 DEF MeasuredIn
<1> QED
  BY <1>1, <1>2, <1>4, <1>7, <1>8
  DEF BundleInv, BundleTypes, B!AcceptedIsSigned, B!Check, B!CheckNames, B!Names

LEMMA SignManifestKeeps ==
    ASSUME BundleInv, B!Sign
    PROVE  BundleInv'
<1>1. pkg.at = "measure" /\ pkg \in Packagings
  BY AtPackaging DEF B!Sign
<1>2. UNCHANGED <<parts, device>>
  BY DEF B!Sign
<1>3. CASE ~B!Check(pkg)
  <2>1. pkg' = B!Idle /\ file' = file
    BY <1>3 DEF B!Sign
  <2> QED
    BY <1>2, <2>1, BundleKinds
    DEF BundleInv, BundleTypes, B!AcceptedIsSigned, B!Check, B!CheckNames, B!Names
<1>4. CASE B!Check(pkg)
  <2> DEFINE doc == B!ToDocument(pkg)
             b == [is |-> "bundle", document |-> doc, key |-> pkg.key,
                   held |-> <<>>, whole |-> FALSE, undisturbed |-> FALSE]
             c == pkg.components
  <2>1. c \in Seq(Measured) /\ pkg.key \in Keys
    BY <1>1 DEF Packagings
  <2>2. /\ doc \in Manifests /\ doc.components = c /\ doc.writes = pkg.writes
        /\ doc.back = pkg.back /\ doc.toml = B!Escape(doc.notes)
    <3>1. B!Escape(pkg.notes) \in {"parses", "does not parse"}
      BY DEF B!Escape
    <3> QED
      BY <1>1, <3>1 DEF B!ToDocument, Manifests, Packagings
  <2>3. B!Check(doc)
    BY <1>4, <2>2 DEF B!Check, B!CheckNames, B!Names
  <2>4. file' = b /\ pkg' = [pkg EXCEPT !.at = "pack", !.todo = c]
    BY <1>4 DEF B!Sign
  <2> HIDE DEF doc
  <2>5. /\ b \in Bundles /\ b.document = doc /\ b.held = <<>> /\ ~b.whole
    <3>1. <<>> \in Seq(Packed)
      BY EmptySeq
    <3> QED
      BY <2>1, <2>2, <3>1 DEF Bundles
  <2> HIDE DEF b
  <2>6. /\ pkg' \in Packagings /\ pkg'.at = "pack" /\ pkg'.todo = c
        /\ pkg'.disturbed = pkg.disturbed
    BY <1>1, <2>1, <2>4 DEF Packagings
  <2>7. CoveredBy(c, <<>>, c)
    BY DEF CoveredBy
  <2>8. PackedFrom(<<>>, parts)
    BY EmptySeq DEF PackedFrom
  <2>9. BundleTypes'
    BY <1>2, <2>1, <2>4, <2>5, <2>6 DEF BundleInv, BundleTypes
  <2>10. ~pkg.disturbed => MeasuredIn(c, parts)
    BY <1>1 DEF BundleInv
  <2>11. B!AcceptedIsSigned'
    BY <1>2 DEF BundleInv, B!AcceptedIsSigned, B!Names
  <2>12. /\ file' # B!NoFile /\ file'.document.toml = B!Escape(file'.document.notes)
         /\ ~file'.whole /\ B!Check(file'.document)
         /\ CoveredBy(file'.document.components, file'.held, pkg'.todo)
    BY <2>2, <2>3, <2>4, <2>5, <2>6, <2>7, BundleKinds
  <2>13. ~pkg'.disturbed =>
            MeasuredIn(file'.document.components, parts') /\ PackedFrom(file'.held, parts')
    BY <1>2, <2>2, <2>4, <2>5, <2>6, <2>8, <2>10
  <2>14. (file # B!NoFile => file.document.toml = B!Escape(file.document.notes))'
    BY <2>12
  <2>15. B!Check(file.document)'
    BY <2>12 DEF B!Check, B!CheckNames, B!Names
  <2> QED
    BY <2>6, <2>9, <2>11, <2>12, <2>13, <2>14, <2>15 DEF BundleInv
<1> QED
  BY <1>3, <1>4

(* One more component is read and packed.                                    *)
LEMMA PackedOneMore ==
    ASSUME NEW held \in Seq(Packed), NEW entry \in Packed, NEW dir,
           NEW todo \in Seq(Measured), todo # <<>>, entry.name = Head(todo).name,
           NEW components \in Seq(Measured)
    PROVE  /\ Append(held, entry) \in Seq(Packed)
           /\ CoveredBy(components, held, todo) =>
                 CoveredBy(components, Append(held, entry), Tail(todo))
           /\ PackedFrom(held, dir) /\ entry.bytes = dir[entry.name] =>
                 PackedFrom(Append(held, entry), dir)
<1> DEFINE longer == Append(held, entry)
           rest == Tail(todo)
<1>1. /\ longer \in Seq(Packed) /\ Len(longer) = Len(held) + 1 /\ Len(held) \in Nat
      /\ \A i \in 1..Len(held) : longer[i] = held[i]
      /\ longer[Len(held) + 1] = entry
  BY AppendProperties, LenProperties
<1>2. /\ Len(todo) \in Nat \ {0} /\ Head(todo) = todo[1] /\ Len(rest) = Len(todo) - 1
      /\ \A i \in 1..(Len(todo) - 1) : rest[i] = todo[i + 1]
  BY TailFacts
<1> HIDE DEF longer, rest
<1>3. ASSUME CoveredBy(components, held, todo) PROVE CoveredBy(components, longer, rest)
  <2> SUFFICES ASSUME NEW i \in 1..Len(components)
               PROVE  \/ \E j \in 1..Len(longer) : longer[j].name = components[i].name
                      \/ \E j \in 1..Len(rest) : rest[j].name = components[i].name
    BY DEF CoveredBy
  <2>1. CASE \E j \in 1..Len(held) : held[j].name = components[i].name
    <3>1. PICK j \in 1..Len(held) : held[j].name = components[i].name
      BY <2>1
    <3>2. j \in 1..Len(longer) /\ longer[j] = held[j]
      BY <1>1
    <3> QED
      BY <3>1, <3>2
  <2>2. CASE \E j \in 1..Len(todo) : todo[j].name = components[i].name
    <3>1. PICK j \in 1..Len(todo) : todo[j].name = components[i].name
      BY <2>2
    <3>2. CASE j = 1
      <4>1. Len(held) + 1 \in 1..Len(longer)
        BY <1>1
      <4> QED
        BY <1>1, <1>2, <3>1, <3>2, <4>1
    <3>3. CASE j # 1
      <4>1. j - 1 \in 1..Len(rest) /\ rest[j - 1] = todo[j]
        BY <1>2, <3>3
      <4> QED
        BY <3>1, <4>1
    <3> QED
      BY <3>2, <3>3
  <2> QED
    BY <1>3, <2>1, <2>2 DEF CoveredBy
<1>4. ASSUME PackedFrom(held, dir), entry.bytes = dir[entry.name] PROVE PackedFrom(longer, dir)
  <2>1. \A j \in 1..Len(longer) : j \in 1..Len(held) \/ j = Len(held) + 1
    BY <1>1
  <2> QED
    BY <1>1, <1>4, <2>1 DEF PackedFrom
<1> QED
  BY <1>1, <1>3, <1>4 DEF longer, rest

LEMMA AppendKeeps ==
    ASSUME BundleInv, B!AppendComponent
    PROVE  BundleInv'
<1>1. /\ pkg.at = "pack" /\ pkg \in Packagings /\ pkg.todo \in Seq(Measured) /\ pkg.todo # <<>>
      /\ file # B!NoFile /\ file \in Bundles
  BY AtPackaging DEF B!AppendComponent, BundleInv, BundleTypes
<1> DEFINE name == Head(pkg.todo).name
           entry == [name |-> name, bytes |-> parts[name],
                     mode |-> IF B!InBin(name) THEN 755 ELSE 644]
           longer == Append(file.held, entry)
           rest == Tail(pkg.todo)
           c == file.document.components
<1>2. name \in B!Files /\ rest \in Seq(Measured)
  <2>1. Head(pkg.todo) \in Measured /\ Tail(pkg.todo) \in Seq(Measured)
    BY <1>1, TailFacts
  <2> QED
    BY <2>1 DEF Measured
<1>3. entry \in Packed /\ entry.name = name /\ entry.bytes = parts[name]
  <2>1. parts[name] \in PartFiles
    BY <1>2 DEF BundleInv, BundleTypes
  <2> QED
    BY <1>2, <2>1 DEF Packed
<1>4. /\ file' = [file EXCEPT !.held = longer] /\ pkg' = [pkg EXCEPT !.todo = rest]
      /\ UNCHANGED <<parts, device>>
  BY DEF B!AppendComponent
<1>5. c \in Seq(Measured) /\ file.held \in Seq(Packed)
  BY <1>1, BundleFacts
<1> HIDE DEF entry
<1>6. /\ longer \in Seq(Packed)
      /\ CoveredBy(c, file.held, pkg.todo) => CoveredBy(c, longer, rest)
      /\ PackedFrom(file.held, parts) => PackedFrom(longer, parts)
  BY <1>1, <1>3, <1>5, PackedOneMore
<1> HIDE DEF longer, rest
<1>7. /\ pkg' \in Packagings /\ pkg'.at = "pack" /\ pkg'.todo = rest
      /\ pkg'.disturbed = pkg.disturbed
  BY <1>1, <1>2, <1>4 DEF Packagings
<1>8. /\ file' \in Bundles /\ file'.document = file.document /\ file'.held = longer
      /\ file'.whole = file.whole /\ file' # B!NoFile
  BY <1>1, <1>4, <1>6, BundleKinds DEF Bundles
<1>9. BundleTypes'
  BY <1>2, <1>4, <1>7, <1>8 DEF BundleInv, BundleTypes
<1>10. B!AcceptedIsSigned'
  BY <1>4 DEF BundleInv, B!AcceptedIsSigned, B!Names
<1>11. /\ ~file.whole /\ B!Check(file.document)
       /\ CoveredBy(c, file.held, pkg.todo)
       /\ file.document.toml = B!Escape(file.document.notes)
       /\ ~pkg.disturbed => MeasuredIn(c, parts) /\ PackedFrom(file.held, parts)
  BY <1>1 DEF BundleInv
<1>12. B!Check(file.document)'
  BY <1>8, <1>11 DEF B!Check, B!CheckNames, B!Names
<1>13. /\ CoveredBy(file'.document.components, file'.held, pkg'.todo) /\ ~file'.whole
       /\ file'.document.toml = B!Escape(file'.document.notes)
  BY <1>6, <1>7, <1>8, <1>11
<1>14. ~pkg'.disturbed =>
          MeasuredIn(file'.document.components, parts') /\ PackedFrom(file'.held, parts')
  BY <1>4, <1>6, <1>7, <1>8, <1>11
<1>15. (file # B!NoFile => file.document.toml = B!Escape(file.document.notes))'
  BY <1>13
<1> QED
  BY <1>7, <1>8, <1>9, <1>10, <1>12, <1>13, <1>14, <1>15 DEF BundleInv

(* The command ends, with the bundle whole or cut short.                     *)
LEMMA PackageEnds ==
    ASSUME BundleInv, B!Finish \/ B!PackageFails
    PROVE  BundleInv'
<1>1. pkg' = B!Idle /\ UNCHANGED <<parts, device>>
  BY DEF B!Finish, B!PackageFails
<1>2. B!AcceptedIsSigned'
  BY <1>1 DEF BundleInv, B!AcceptedIsSigned, B!Names
<1>3. CASE file' = file
  BY <1>1, <1>2, <1>3, BundleKinds
  DEF BundleInv, BundleTypes, B!Check, B!CheckNames, B!Names
<1>4. CASE B!Finish
  <2>1. /\ pkg.at = "pack" /\ pkg.todo = <<>> /\ pkg \in Packagings
        /\ file # B!NoFile /\ file \in Bundles
    BY <1>4, AtPackaging DEF B!Finish, BundleInv
  <2> DEFINE calm == ~pkg.disturbed
             c == file.document.components
  <2>2. file' = [file EXCEPT !.whole = TRUE, !.undisturbed = calm]
    BY <1>4 DEF B!Finish
  <2>3. calm \in BOOLEAN
    BY <2>1 DEF Packagings
  <2> HIDE DEF calm
  <2>4. /\ file' \in Bundles /\ file'.document = file.document /\ file'.held = file.held
        /\ file' # B!NoFile
    BY <2>1, <2>2, <2>3, BundleKinds DEF Bundles
  <2>5. file'.undisturbed => calm
    BY <2>1, <2>2 DEF Bundles
  <2>6. BundleTypes'
    BY <1>1, <2>4, BundleKinds DEF BundleInv, BundleTypes
  <2>7. /\ B!Check(file.document) /\ CoveredBy(c, file.held, <<>>)
        /\ file.document.toml = B!Escape(file.document.notes)
        /\ calm => MeasuredIn(c, parts) /\ PackedFrom(file.held, parts)
    BY <2>1 DEF BundleInv, calm
  <2>8. calm => Agree(c, file.held)
    BY <2>7 DEF MeasuredIn, PackedFrom, Agree
  <2>9. B!Check(file.document)'
    BY <2>4, <2>7 DEF B!Check, B!CheckNames, B!Names
  <2>10. /\ CoveredBy(file'.document.components, file'.held, <<>>)
         /\ file'.undisturbed => Agree(file'.document.components, file'.held)
         /\ file'.document.toml = B!Escape(file'.document.notes)
    BY <2>4, <2>5, <2>7, <2>8
  <2>11. (file # B!NoFile => file.document.toml = B!Escape(file.document.notes))'
    BY <2>10
  <2> QED
    BY <1>1, <1>2, <2>6, <2>9, <2>10, <2>11, BundleKinds DEF BundleInv
<1> QED
  BY <1>3, <1>4 DEF B!PackageFails

(* What the device takes was checked component by component.                 *)
LEMMA TakeKeeps ==
    ASSUME BundleInv, B!Take
    PROVE  BundleInv'
<1>1. /\ file \in Bundles /\ file # B!NoFile /\ device' = file /\ UNCHANGED <<parts, pkg, file>>
      /\ B!ReadRelease(file) /\ B!VerifyPayload(file) /\ B!ListedOnly(file)
  BY AtPackaging DEF B!Take
<1> DEFINE c == file.document.components
           h == file.held
<1>2. /\ c \in Seq(Measured) /\ h \in Seq(Packed)
      /\ DOMAIN c = 1..Len(c) /\ DOMAIN h = 1..Len(h)
  BY <1>1, BundleFacts
<1>3. file.key \in Trusted /\ B!Required \subseteq B!Names(file.document)
  BY <1>1 DEF B!ReadRelease, B!Check, B!CheckNames
<1>4. ASSUME NEW i \in DOMAIN h
      PROVE  \E j \in DOMAIN c : /\ c[j] = [name |-> h[i].name, digest |-> h[i].bytes]
                                 /\ B!InBin(h[i].name) => h[i].bytes.machine = "aarch64"
  <2>1. h[i].name \in B!Names(file.document)
    BY <1>1 DEF B!ListedOnly
  <2>2. PICK j \in DOMAIN c : c[j].name = h[i].name
    BY <2>1 DEF B!Names
  <2>3. h[i].bytes \in B!Held(file, c[j].name)
    BY <2>2 DEF B!Held
  <2>4. B!Held(file, c[j].name) = {c[j].digest} /\ (B!InBin(c[j].name) => c[j].digest.machine = "aarch64")
    BY <1>1, <2>2 DEF B!VerifyPayload
  <2>5. c[j].digest = h[i].bytes
    BY <2>3, <2>4
  <2>6. c[j] \in Measured
    BY <1>2
  <2>7. c[j] = [name |-> c[j].name, digest |-> c[j].digest]
    BY <2>6 DEF Measured
  <2> QED
    BY <2>2, <2>4, <2>5, <2>7
<1>5. B!AcceptedIsSigned'
  <2>1. /\ device'.key \in Trusted /\ B!Required \subseteq B!Names(device'.document)
        /\ device'.held = h /\ device'.document.components = c
    BY <1>1, <1>3
  <2> QED
    BY <1>4, <2>1 DEF B!AcceptedIsSigned, B!Names, B!InBin
<1>6. BundleTypes'
  BY <1>1 DEF BundleInv, BundleTypes
<1> QED
  BY <1>1, <1>5, <1>6 DEF BundleInv, B!Check, B!CheckNames, B!Names

LEMMA BundleStep ==
    ASSUME BundleInv, B!BundleNext
    PROVE  BundleInv'
BY BuildKeeps, PackageKeeps, MeasureKeeps, SignManifestKeeps, AppendKeeps, PackageEnds, TakeKeeps
DEF B!BundleNext, Notes, Backs

LEMMA BundleInit ==
    ASSUME B!BundleInit
    PROVE  BundleInv
<1>1. pkg = B!Idle /\ file = B!NoFile /\ device = B!NoFile /\ pkg.at = "idle"
  BY BundleKinds DEF B!BundleInit
<1>2. parts \in [B!Files -> PartFiles]
  <2>1. [rev |-> 0, machine |-> "aarch64"] \in PartFiles
    BY DEF PartFiles
  <2> QED
    BY <2>1 DEF B!BundleInit
<1> QED
  BY <1>1, <1>2 DEF BundleInv, BundleTypes, B!AcceptedIsSigned

LEMMA BundleUnmoved ==
    ASSUME BundleInv, UNCHANGED bundle
    PROVE  BundleInv'
<1>1. UNCHANGED <<parts, pkg, file, device>>
  BY DEF bundle
<1> QED
  BY <1>1 DEF BundleInv, BundleTypes, B!AcceptedIsSigned, B!Check, B!CheckNames, B!Names

LEMMA BundleInstalls ==
    ASSUME BundleInv
    PROVE  B!UndisturbedBundleInstalls
<1> SUFFICES ASSUME file # B!NoFile, file.whole, file.undisturbed, file.key \in Trusted,
                    file.document.notes # "newline",
                    \A i \in DOMAIN file.document.components :
                       B!InBin(file.document.components[i].name) =>
                          file.document.components[i].digest.machine = "aarch64"
             PROVE  B!ReadRelease(file) /\ B!VerifyPayload(file)
  BY DEF B!UndisturbedBundleInstalls
<1> DEFINE c == file.document.components
           h == file.held
<1>1. /\ B!Check(file.document) /\ CoveredBy(c, h, <<>>) /\ Agree(c, h)
      /\ file.document.toml = B!Escape(file.document.notes)
  BY DEF BundleInv
<1>2. B!ReadRelease(file)
  BY <1>1 DEF B!ReadRelease, B!Escape
<1>3. DOMAIN c = 1..Len(c) /\ DOMAIN h = 1..Len(h)
  BY AtPackaging, BundleFacts
<1>4. ASSUME NEW i \in DOMAIN c PROVE B!Held(file, c[i].name) = {c[i].digest}
  <2>1. \A b \in B!Held(file, c[i].name) : b = c[i].digest
    BY <1>1, <1>3 DEF B!Held, Agree
  <2>2. c[i].digest \in B!Held(file, c[i].name)
    <3>1. PICK j \in 1..Len(h) : h[j].name = c[i].name
      BY <1>1, <1>3, EmptySeq DEF CoveredBy
    <3>2. h[j].bytes \in B!Held(file, c[i].name)
      BY <1>3, <3>1 DEF B!Held
    <3> QED
      BY <2>1, <3>2
  <2> QED
    BY <2>1, <2>2
<1> QED
  BY <1>2, <1>4 DEF B!VerifyPayload

(* For any apps, components, versions, workflow runs, signers and commits: a *)
(* published digest names the archive beside it, what is signed is what was  *)
(* built, a device accepts only what a trusted key signed and a bundle       *)
(* nobody disturbed installs (release.yml, release_sign.rs, upgrade.rs       *)
(* package, bundle.rs and manifest.rs).                                      *)
THEOREM ShippingIsSound == Spec => []ShippedIsWhatWasBuilt
<1>1. Init => TrainInv /\ BundleInv
  BY TrainInit, BundleInit DEF Init
<1>2. TrainInv /\ BundleInv /\ [Next]_vars => TrainInv' /\ BundleInv'
  BY TrainStep, TrainUnmoved, BundleStep, BundleUnmoved DEF Next, vars
<1>3. TrainInv /\ BundleInv => ShippedIsWhatWasBuilt
  BY TrainTellsTheTruth, BundleInstalls DEF ShippedIsWhatWasBuilt, BundleInv
<1> QED
  BY <1>1, <1>2, <1>3, PTL DEF Spec
-----------------------------------------------------------------------------
(* The operator's desk.  Whoever closes last prunes: until then some process *)
(* is at the run log, and while none was killed every record that is not     *)
(* whole belongs to a process that is still writing it.                      *)

Stages == {"loaded", "resolved", "polling", "closing", "recording", "pruning"}
AtTheLog == {"recording", "pruning"}
Configs == [pinned : Hosts \union {O!None}, cache : Hosts \union {O!None}]
Processes ==
    [at : Stages, verb : {"blocking", "open", "pin"}, flag : Hosts \union {O!None},
     copy : Configs, id : O!Ids, pid : Pids, host : Hosts \union {O!None}, polls : Int,
     saw : {0} \union O!Ids]
Jobs == [id : O!Ids, host : Hosts, pid : Pids, log : Pids, at : {"forked", "running", "ended"}]
Logs == [owner : {0} \union O!Ids, exit : BOOLEAN]
Records == [id : O!Ids, time : Nat, whole : BOOLEAN]

Quiet == \A s \in Shells : shell[s] = O!Idle \/ shell[s].at \notin AtTheLog
Claimed(r) == \E s \in Shells : shell[s] # O!Idle /\ shell[s].at = "recording" /\ shell[s].id = r.id

DeskTypes ==
    /\ config \in Configs /\ up \in SUBSET Hosts
    /\ shell \in [Shells -> {O!Idle} \union Processes]
    /\ jobs \in SUBSET Jobs
    /\ logs \in [Hosts -> [Pids -> Logs]]
    /\ record \in SUBSET Records /\ IsFiniteSet(record)
    /\ deskSpent \in [runs : Nat, moves : Int, closed : Nat, kills : Nat]

(* A log was written by a run that had its pid on its tablet, and an exit    *)
(* was read from such a log.                                                 *)
Ran(id, h, pid) == \E j \in jobs : j.id = id /\ j.host = h /\ j.pid = pid
Knows(p) == p.saw # 0 => p.at \notin {"loaded", "resolved"} /\ Ran(p.saw, p.host, p.pid)

OwnersInv ==
    /\ \A j \in jobs : j.log = j.pid
    /\ \A h \in Hosts, pid \in Pids : logs[h][pid].owner # 0 => Ran(logs[h][pid].owner, h, pid)
    /\ \A s \in Shells : shell[s] # O!Idle => Knows(shell[s])

RecordInv ==
    /\ \A r \in record : r.time < deskSpent.closed
    /\ \A q, r \in record : q.time = r.time => q = r
    /\ deskSpent.kills = 0 => \A r \in record : r.whole \/ Claimed(r)
    /\ deskSpent.kills = 0 /\ Quiet => Cardinality(record) <= RETAIN

DeskInv == DeskTypes /\ OwnersInv /\ RecordInv

LEMMA DeskAssumptions == RETAIN \in Nat /\ MaxRuns \in Nat
  BY DeskAssumption

(* Operator's and Doctor's cardinality is the library's.                     *)
LEMMA SameCardinality == \A S : O!Cardinality(S) = Cardinality(S) /\ X!Cardinality(S) = Cardinality(S)
BY DEF O!Cardinality, X!Cardinality, Cardinality

(* Each of the youngest RETAIN records is older than fewer than RETAIN, and  *)
(* the oldest of them sees all the others.                                   *)
LEMMA YoungestAreFew ==
    ASSUME NEW S \in SUBSET Records, IsFiniteSet(S), \A q, r \in S : q.time = r.time => q = r
    PROVE  LET Younger(r) == {q \in S : q.time > r.time}
               Few == {r \in S : ~(Cardinality(Younger(r)) >= RETAIN)}
           IN  IsFiniteSet(Few) /\ Cardinality(Few) <= RETAIN
<1> DEFINE Younger(r) == {q \in S : q.time > r.time}
           Few == {r \in S : ~(Cardinality(Younger(r)) >= RETAIN)}
           Times == {r.time : r \in Few}
<1>0. Few \in SUBSET S /\ IsFiniteSet(Few)
  <2>1. Few \in SUBSET S
    OBVIOUS
  <2> HIDE DEF Few
  <2> QED
    BY <2>1, FS_Subset
<1>1. CASE Few = {}
  <2>1. Cardinality(Few) = 0
    <3> HIDE DEF Few
    <3> QED
      BY <1>1, FS_EmptySet
  <2>2. Cardinality(Few) <= RETAIN
    BY <2>1, DeskAssumptions
  <2> QED
    BY <1>0, <2>2
<1>2. CASE Few # {}
  <2>1. Times \subseteq Nat /\ Times # {}
    BY <1>2 DEF Records
  <2>2. PICK t \in Times : \A u \in Times : <<u, t>> \notin OpToRel(<, Nat)
    <3> HIDE DEF Times
    <3> QED
      BY <2>1, NatLessThanWellFounded, WFMin
  <2>3. PICK m \in Few : m.time = t
    OBVIOUS
  <2>4. ASSUME NEW r \in Few PROVE ~(r.time < m.time)
    <3>1. r.time \in Times /\ r.time \in Nat /\ m.time \in Nat
      BY <2>1, <2>3
    <3>2. <<r.time, m.time>> \notin OpToRel(<, Nat)
      BY <2>2, <2>3, <3>1
    <3> QED
      BY <3>1, <3>2 DEF OpToRel
  <2>5. Few \subseteq Younger(m) \union {m}
    <3> SUFFICES ASSUME NEW r \in Few, r # m PROVE r.time > m.time
      OBVIOUS
    <3>1. r.time \in Nat /\ m.time \in Nat /\ r.time # m.time
      BY DEF Records
    <3> QED
      BY <3>1, <2>4
  <2>6. IsFiniteSet(Younger(m)) /\ Cardinality(Younger(m)) \in Nat
    BY FS_Subset, FS_CardinalityType
  <2>7. Cardinality(Younger(m)) < RETAIN
    BY <2>6, DeskAssumptions
  <2>8. /\ IsFiniteSet(Younger(m) \union {m})
        /\ Cardinality(Younger(m) \union {m}) <= Cardinality(Younger(m)) + 1
    <3> DEFINE Y == Younger(m)
    <3> HIDE DEF Y
    <3>1. /\ IsFiniteSet(Y \union {m})
          /\ Cardinality(Y \union {m}) = IF m \in Y THEN Cardinality(Y) ELSE Cardinality(Y) + 1
      BY <2>6, FS_AddElement DEF Y
    <3>2. Cardinality(Y) \in Nat
      BY <2>6 DEF Y
    <3>3. Cardinality(Y \union {m}) <= Cardinality(Y) + 1
      BY <3>1, <3>2
    <3> QED
      BY <3>1, <3>3 DEF Y
  <2>9. Cardinality(Few) <= Cardinality(Younger(m) \union {m})
    <3> HIDE DEF Younger, Few
    <3> QED
      BY <2>5, <2>8, FS_Subset
  <2>10. Cardinality(Few) \in Nat /\ Cardinality(Younger(m) \union {m}) \in Nat
    BY <1>0, <2>8, FS_CardinalityType
  <2> QED
    BY <1>0, <2>6, <2>7, <2>8, <2>9, <2>10, DeskAssumptions
<1> QED
  BY <1>1, <1>2

(* A step of one process that is away from the run log before and after.     *)
LEMMA AwayFromTheLog ==
    ASSUME DeskInv, NEW s \in Shells, NEW p \in {O!Idle} \union Processes,
           shell[s] = O!Idle \/ shell[s].at \notin AtTheLog,
           p = O!Idle \/ p.at \notin AtTheLog,
           shell' = [shell EXCEPT ![s] = p],
           UNCHANGED <<record, deskSpent.closed, deskSpent.kills>>
    PROVE  RecordInv'
<1>1. \A t \in Shells : t # s => shell'[t] = shell[t]
  BY DEF DeskInv, DeskTypes
<1>2. shell'[s] = p
  BY DEF DeskInv, DeskTypes
<1>3. Quiet' => Quiet
  BY <1>1 DEF Quiet
<1>4. ASSUME NEW r \in record, Claimed(r) PROVE Claimed(r)'
  <2>1. PICK t \in Shells : shell[t] # O!Idle /\ shell[t].at = "recording" /\ shell[t].id = r.id
    BY <1>4 DEF Claimed
  <2>2. t # s
    BY <2>1 DEF AtTheLog
  <2> QED
    BY <1>1, <2>1, <2>2 DEF Claimed
<1> QED
  BY <1>3, <1>4 DEF DeskInv, RecordInv

LEMMA MoveKeeps ==
    ASSUME DeskInv, NEW h \in Hosts, O!Move(h)
    PROVE  DeskInv'
<1>1. /\ up' \in SUBSET Hosts
      /\ deskSpent' = [deskSpent EXCEPT !.moves = @ + 1]
      /\ UNCHANGED <<config, shell, jobs, logs, record>>
  BY DEF DeskInv, DeskTypes, O!Move
<1>2. /\ deskSpent' \in [runs : Nat, moves : Int, closed : Nat, kills : Nat]
      /\ UNCHANGED <<deskSpent.closed, deskSpent.kills>>
  BY <1>1 DEF DeskInv, DeskTypes
<1>3. DeskTypes'
  BY <1>1, <1>2 DEF DeskInv, DeskTypes
<1>4. OwnersInv'
  BY <1>1 DEF DeskInv, OwnersInv, Knows, Ran
<1>5. RecordInv'
  BY <1>1, <1>2 DEF DeskInv, RecordInv, Claimed, Quiet
<1> QED
  BY <1>3, <1>4, <1>5 DEF DeskInv

LEMMA LoadKeeps ==
    ASSUME DeskInv, NEW s \in Shells, NEW verb \in {"blocking", "open", "pin"},
           NEW flag \in Hosts \union {O!None}, O!Load(s, verb, flag)
    PROVE  DeskInv'
<1>0. PICK pid \in Pids :
         shell' = [shell EXCEPT ![s] = [at |-> "loaded", verb |-> verb, flag |-> flag,
                                        copy |-> config, id |-> deskSpent.runs + 1, pid |-> pid,
                                        host |-> O!None, polls |-> 0, saw |-> 0]]
  BY DEF O!Load
<1> DEFINE p == [at |-> "loaded", verb |-> verb, flag |-> flag, copy |-> config,
                 id |-> deskSpent.runs + 1, pid |-> pid, host |-> O!None, polls |-> 0, saw |-> 0]
<1>1. /\ shell[s] = O!Idle /\ deskSpent.runs < MaxRuns /\ shell' = [shell EXCEPT ![s] = p]
      /\ deskSpent' = [deskSpent EXCEPT !.runs = @ + 1]
      /\ UNCHANGED <<config, up, jobs, logs, record>>
  BY <1>0 DEF O!Load
<1>2. /\ deskSpent' \in [runs : Nat, moves : Int, closed : Nat, kills : Nat]
      /\ UNCHANGED <<deskSpent.closed, deskSpent.kills>> /\ deskSpent.runs \in Nat
  BY <1>1 DEF DeskInv, DeskTypes
<1>3. deskSpent.runs + 1 \in O!Ids
  BY <1>1, <1>2, DeskAssumptions DEF O!Ids
<1>4. p \in Processes /\ p.at = "loaded" /\ p.saw = 0
  BY <1>3 DEF Processes, Stages, DeskInv, DeskTypes
<1> HIDE DEF p
<1>5. DeskTypes'
  BY <1>1, <1>2, <1>4 DEF DeskInv, DeskTypes
<1>6. OwnersInv'
  BY <1>1, <1>4 DEF DeskInv, DeskTypes, OwnersInv, Knows, Ran
<1>7. RecordInv'
  BY <1>1, <1>2, <1>4, AwayFromTheLog DEF AtTheLog
<1> QED
  BY <1>5, <1>6, <1>7 DEF DeskInv

(* A process at a stage away from the run log goes to another one.           *)
LEMMA GoesOn ==
    ASSUME DeskInv, NEW s \in Shells, NEW p \in Processes,
           shell[s] # O!Idle, shell[s].at \notin AtTheLog,
           p.at \notin AtTheLog, Knows(p),
           shell' = [shell EXCEPT ![s] = p],
           config' \in Configs, UNCHANGED <<up, logs, record, deskSpent>>,
           jobs' \in SUBSET Jobs, jobs \subseteq jobs', \A j \in jobs' : j.log = j.pid
    PROVE  DeskInv'
<1>1. DeskTypes'
  BY DEF DeskInv, DeskTypes
<1>2. OwnersInv'
  <2>1. ASSUME NEW id, NEW h, NEW pid, Ran(id, h, pid) PROVE Ran(id, h, pid)'
    BY <2>1 DEF Ran
  <2>2. ASSUME NEW t \in Shells, shell'[t] # O!Idle PROVE Knows(shell[t])'
    <3>1. CASE t = s
      <4>1. shell'[t] = p
        BY <3>1 DEF DeskInv, DeskTypes
      <4> QED
        BY <2>1, <4>1 DEF Knows
    <3>2. CASE t # s
      <4>1. shell'[t] = shell[t] /\ Knows(shell[t])
        BY <2>2, <3>2 DEF DeskInv, DeskTypes, OwnersInv
      <4> QED
        BY <2>1, <4>1 DEF Knows
    <3> QED
      BY <3>1, <3>2
  <2>3. ASSUME NEW h \in Hosts, NEW pid \in Pids, logs'[h][pid].owner # 0
        PROVE  Ran(logs[h][pid].owner, h, pid)'
    <3>1. Ran(logs[h][pid].owner, h, pid)
      BY <2>3 DEF DeskInv, OwnersInv
    <3>2. PICK j \in jobs : j.id = logs[h][pid].owner /\ j.host = h /\ j.pid = pid
      BY <3>1 DEF Ran
    <3> QED
      BY <3>2 DEF Ran
  <2> QED
    BY <2>2, <2>3 DEF OwnersInv
<1>3. RecordInv'
  BY AwayFromTheLog
<1> QED
  BY <1>1, <1>2, <1>3 DEF DeskInv

LEMMA PinKeeps ==
    ASSUME DeskInv, NEW s \in Shells, NEW h \in Hosts \union {O!None}, O!Pin(s, h)
    PROVE  DeskInv'
<1> DEFINE p == [shell[s] EXCEPT !.at = "closing"]
<1>1. /\ shell[s] # O!Idle /\ shell[s].at = "loaded" /\ shell[s] \in Processes
      /\ config' = [shell[s].copy EXCEPT !.pinned = h]
      /\ shell' = [shell EXCEPT ![s] = p]
      /\ UNCHANGED <<up, jobs, logs, record, deskSpent>>
  BY DEF O!Pin, DeskInv, DeskTypes
<1>2. config' \in Configs
  BY <1>1 DEF Processes, Configs
<1>3. p \in Processes /\ p.at = "closing" /\ p.saw = shell[s].saw
  BY <1>1 DEF Processes, Stages
<1>4. Knows(p)
  BY <1>1, <1>3 DEF DeskInv, OwnersInv, Knows
<1>5. jobs' \in SUBSET Jobs /\ jobs \subseteq jobs' /\ \A j \in jobs' : j.log = j.pid
  BY <1>1 DEF DeskInv, DeskTypes, OwnersInv
<1> HIDE DEF p
<1> QED
  BY <1>1, <1>2, <1>3, <1>4, <1>5, GoesOn DEF AtTheLog

LEMMA ResolveKeeps ==
    ASSUME DeskInv, NEW s \in Shells, O!ResolveAndAnnounce(s)
    PROVE  DeskInv'
<1> DEFINE was == shell[s]
<1>1. /\ was # O!Idle /\ was.at = "loaded" /\ was \in Processes
      /\ UNCHANGED <<up, jobs, logs, record, deskSpent>>
  BY DEF O!ResolveAndAnnounce, DeskInv, DeskTypes
<1>2. was.saw = 0
  BY <1>1 DEF DeskInv, OwnersInv, Knows
<1>3. jobs' \in SUBSET Jobs /\ jobs \subseteq jobs' /\ \A j \in jobs' : j.log = j.pid
  BY <1>1 DEF DeskInv, DeskTypes, OwnersInv
<1>4. CASE \E found \in O!Resolved(was.flag, was.copy) :
              /\ config' = O!Remember(s, found)
              /\ shell' = [shell EXCEPT ![s] = [was EXCEPT !.at = "resolved", !.host = found.host]]
  <2>1. PICK found \in O!Resolved(was.flag, was.copy) :
              /\ config' = O!Remember(s, found)
              /\ shell' = [shell EXCEPT ![s] = [was EXCEPT !.at = "resolved", !.host = found.host]]
    BY <1>4
  <2>2. found.host \in Hosts \union {O!None}
    <3>1. CASE was.flag # O!None
      BY <1>1, <3>1 DEF O!Resolved, Processes
    <3>2. CASE was.flag = O!None /\ was.copy.pinned # O!None
      BY <1>1, <3>2 DEF O!Resolved, Processes, Configs
    <3>3. CASE was.flag = O!None /\ was.copy.pinned = O!None
      <4>1. up \subseteq Hosts
        BY DEF DeskInv, DeskTypes
      <4>2. found.host \in up
        BY <3>3, <2>1 DEF O!Resolved
      <4> QED
        BY <4>1, <4>2
    <3> QED
      BY <3>1, <3>2, <3>3
  <2>3. config' \in Configs
    <3>1. was.copy \in Configs /\ config \in Configs
      BY <1>1 DEF Processes, DeskInv, DeskTypes
    <3>2. [was.copy EXCEPT !.cache = found.host] \in Configs
      BY <3>1, <2>2 DEF Configs
    <3> QED
      BY <2>1, <3>1, <3>2 DEF O!Remember
  <2> DEFINE p == [was EXCEPT !.at = "resolved", !.host = found.host]
  <2>4. p \in Processes /\ p.at = "resolved" /\ Knows(p)
    BY <1>1, <1>2, <2>2 DEF Processes, Stages, Knows
  <2>5. shell' = [shell EXCEPT ![s] = p]
    BY <2>1
  <2> HIDE DEF p
  <2> QED
    BY <1>1, <1>3, <2>3, <2>4, <2>5, GoesOn DEF AtTheLog
<1>5. CASE shell' = [shell EXCEPT ![s] = [was EXCEPT !.at = "closing"]] /\ UNCHANGED config
  <2> DEFINE p == [was EXCEPT !.at = "closing"]
  <2>1. p \in Processes /\ p.at = "closing" /\ Knows(p)
    BY <1>1, <1>2 DEF Processes, Stages, Knows
  <2>2. config' \in Configs
    BY <1>5 DEF DeskInv, DeskTypes
  <2>3. shell' = [shell EXCEPT ![s] = p]
    BY <1>5
  <2> HIDE DEF p
  <2> QED
    BY <1>1, <1>3, <2>1, <2>2, <2>3, GoesOn DEF AtTheLog
<1> QED
  BY <1>4, <1>5 DEF O!ResolveAndAnnounce

LEMMA RunBlockingKeeps ==
    ASSUME DeskInv, NEW s \in Shells, O!RunBlocking(s)
    PROVE  DeskInv'
<1> DEFINE p == [shell[s] EXCEPT !.at = "closing"]
<1>1. /\ shell[s] # O!Idle /\ shell[s].at = "resolved" /\ shell[s] \in Processes
      /\ shell' = [shell EXCEPT ![s] = p]
      /\ UNCHANGED <<config, up, jobs, logs, record, deskSpent>>
  BY DEF O!RunBlocking, DeskInv, DeskTypes
<1>2. p \in Processes /\ p.at = "closing" /\ p.saw = shell[s].saw
  BY <1>1 DEF Processes, Stages
<1>3. Knows(p)
  BY <1>1, <1>2 DEF DeskInv, OwnersInv, Knows
<1>4. /\ config' \in Configs /\ jobs' \in SUBSET Jobs /\ jobs \subseteq jobs'
      /\ \A j \in jobs' : j.log = j.pid
  BY <1>1 DEF DeskInv, DeskTypes, OwnersInv
<1> HIDE DEF p
<1> QED
  BY <1>1, <1>2, <1>3, <1>4, GoesOn DEF AtTheLog

LEMMA StartDetachedKeeps ==
    ASSUME DeskInv, NEW s \in Shells, O!StartDetached(s)
    PROVE  DeskInv'
<1> DEFINE was == shell[s]
           job == O!Job(was.id, was.host, was.pid)
<1>1. /\ was # O!Idle /\ was.at = "resolved" /\ was \in Processes
      /\ UNCHANGED <<config, up, logs, record, deskSpent>>
  BY DEF O!StartDetached, DeskInv, DeskTypes
<1>2. was.saw = 0
  BY <1>1 DEF DeskInv, OwnersInv, Knows
<1>3. config' \in Configs
  BY <1>1 DEF DeskInv, DeskTypes
<1>4. PICK stage \in {"polling", "closing"} :
         /\ shell' = [shell EXCEPT ![s] = [was EXCEPT !.at = stage]]
         /\ jobs' = jobs \/ (was.host \in Hosts /\ jobs' = jobs \union {job})
  BY DEF O!StartDetached, DeskInv, DeskTypes
<1>5. was.host \in Hosts => job \in Jobs /\ job.log = job.pid
  BY <1>1 DEF Jobs, Processes, O!Job, O!LogPath
<1>6. jobs' \in SUBSET Jobs /\ jobs \subseteq jobs' /\ \A j \in jobs' : j.log = j.pid
  <2> HIDE DEF job
  <2> QED
    BY <1>4, <1>5 DEF DeskInv, DeskTypes, OwnersInv
<1> DEFINE p == [was EXCEPT !.at = stage]
<1>7. p \in Processes /\ p.at = stage /\ Knows(p)
  BY <1>1, <1>2 DEF Processes, Stages, Knows
<1>8. shell' = [shell EXCEPT ![s] = p]
  BY <1>4
<1> HIDE DEF p
<1> QED
  BY <1>1, <1>3, <1>6, <1>7, <1>8, GoesOn DEF AtTheLog

LEMMA StartElsewhereKeeps ==
    ASSUME DeskInv, NEW h \in Hosts, NEW pid \in Pids, O!StartElsewhere(h, pid)
    PROVE  DeskInv'
<1> DEFINE job == O!Job(deskSpent.runs + 1, h, pid)
<1>1. /\ deskSpent.runs < MaxRuns /\ jobs' = jobs \union {job}
      /\ deskSpent' = [deskSpent EXCEPT !.runs = @ + 1]
      /\ UNCHANGED <<config, up, shell, logs, record>>
  BY DEF O!StartElsewhere
<1>2. /\ deskSpent' \in [runs : Nat, moves : Int, closed : Nat, kills : Nat]
      /\ UNCHANGED <<deskSpent.closed, deskSpent.kills>> /\ deskSpent.runs \in Nat
  BY <1>1 DEF DeskInv, DeskTypes
<1>3. job \in Jobs /\ job.log = job.pid
  BY <1>1, <1>2, DeskAssumptions DEF Jobs, O!Ids, O!Job, O!LogPath
<1> HIDE DEF job
<1>4. DeskTypes'
  BY <1>1, <1>2, <1>3 DEF DeskInv, DeskTypes
<1>5. \A id, at, of : Ran(id, at, of) => Ran(id, at, of)'
  BY <1>1 DEF Ran
<1>6. OwnersInv'
  <2>1. ASSUME NEW t \in Shells, shell'[t] # O!Idle PROVE Knows(shell[t])'
    <3>1. Knows(shell[t]) /\ shell'[t] = shell[t]
      BY <1>1, <2>1 DEF DeskInv, OwnersInv
    <3> QED
      BY <1>5, <3>1 DEF Knows
  <2>2. ASSUME NEW g \in Hosts, NEW p \in Pids, logs'[g][p].owner # 0
        PROVE  Ran(logs[g][p].owner, g, p)'
    <3>1. Ran(logs[g][p].owner, g, p)
      BY <1>1, <2>2 DEF DeskInv, OwnersInv
    <3>2. PICK j \in jobs : j.id = logs[g][p].owner /\ j.host = g /\ j.pid = p
      BY <3>1 DEF Ran
    <3> QED
      BY <1>1, <3>2 DEF Ran
  <2> QED
    BY <1>1, <1>3, <2>1, <2>2 DEF DeskInv, OwnersInv
<1>7. RecordInv'
  BY <1>1, <1>2 DEF DeskInv, RecordInv, Claimed, Quiet
<1> QED
  BY <1>4, <1>6, <1>7 DEF DeskInv

LEMMA PollKeeps ==
    ASSUME DeskInv, NEW s \in Shells, O!PollDetached(s)
    PROVE  DeskInv'
<1> DEFINE was == shell[s]
           log == logs[was.host][was.pid]
<1>1. /\ was # O!Idle /\ was.at = "polling" /\ was \in Processes
      /\ UNCHANGED <<config, up, jobs, logs, record, deskSpent>>
  BY DEF O!PollDetached, DeskInv, DeskTypes
<1>2. Knows(was) /\ was.pid \in Pids /\ was.polls \in Int
  BY <1>1 DEF DeskInv, OwnersInv, Processes
<1>3. /\ config' \in Configs /\ jobs' \in SUBSET Jobs /\ jobs \subseteq jobs'
      /\ \A j \in jobs' : j.log = j.pid
  BY <1>1 DEF DeskInv, DeskTypes, OwnersInv
<1>4. CASE was.host \in up /\ shell' = [shell EXCEPT ![s] = [was EXCEPT !.at = "closing", !.saw = log.owner]]
  <2> DEFINE p == [was EXCEPT !.at = "closing", !.saw = log.owner]
  <2>0. was.host \in Hosts
    BY <1>4 DEF DeskInv, DeskTypes
  <2>1. /\ log.owner # 0 => Ran(log.owner, was.host, was.pid)
        /\ log.owner \in {0} \union O!Ids
    BY <1>2, <2>0 DEF DeskInv, DeskTypes, OwnersInv, Logs
  <2>2. /\ p \in Processes /\ p.at = "closing" /\ p.saw = log.owner
        /\ p.host = was.host /\ p.pid = was.pid
    <3> HIDE DEF log
    <3> QED
      BY <1>1, <2>1 DEF Processes, Stages
  <2>3. shell' = [shell EXCEPT ![s] = p]
    BY <1>4
  <2> HIDE DEF p, log
  <2>4. Knows(p)
    BY <2>1, <2>2 DEF Knows
  <2> QED
    BY <1>1, <1>3, <2>2, <2>3, <2>4, GoesOn DEF AtTheLog
<1>5. CASE shell' = [shell EXCEPT ![s] = [was EXCEPT !.polls = @ + 1]]
  <2> DEFINE p == [was EXCEPT !.polls = @ + 1]
  <2>1. p \in Processes /\ p.at = "polling" /\ Knows(p)
    BY <1>1, <1>2 DEF Processes, Stages, Knows
  <2>2. shell' = [shell EXCEPT ![s] = p]
    BY <1>5
  <2> HIDE DEF p, log
  <2> QED
    BY <1>1, <1>3, <2>1, <2>2, GoesOn DEF AtTheLog
<1>6. CASE shell' = [shell EXCEPT ![s] = [was EXCEPT !.at = "closing"]]
  <2> DEFINE p == [was EXCEPT !.at = "closing"]
  <2>1. p \in Processes /\ p.at = "closing" /\ Knows(p)
    BY <1>1, <1>2 DEF Processes, Stages, Knows
  <2>2. shell' = [shell EXCEPT ![s] = p]
    BY <1>6
  <2> HIDE DEF p, log
  <2> QED
    BY <1>1, <1>3, <2>1, <2>2, GoesOn DEF AtTheLog
<1> QED
  BY <1>4, <1>5, <1>6 DEF O!PollDetached, O!LogPath

LEMMA JobBeginsKeeps ==
    ASSUME DeskInv, NEW j \in jobs, O!JobBegins(j) \/ O!JobEnds(j)
    PROVE  DeskInv'
<1>1. PICK exit \in BOOLEAN, stage \in {"running", "ended"} :
         /\ logs' = [logs EXCEPT ![j.host][j.log] = [owner |-> j.id, exit |-> exit]]
         /\ jobs' = (jobs \ {j}) \union {[j EXCEPT !.at = stage]}
         /\ UNCHANGED <<config, up, shell, record, deskSpent>>
  BY DEF O!JobBegins, O!JobEnds
<1>2. j \in Jobs /\ j.log = j.pid /\ j.id \in O!Ids /\ j.host \in Hosts /\ j.pid \in Pids
  BY DEF DeskInv, DeskTypes, OwnersInv, Jobs
<1> DEFINE k == [j EXCEPT !.at = stage]
           entry == [owner |-> j.id, exit |-> exit]
<1>3. k \in Jobs /\ k.log = k.pid /\ k.id = j.id /\ k.host = j.host /\ k.pid = j.pid
  BY <1>2 DEF Jobs
<1>4. entry \in Logs /\ entry.owner = j.id
  BY <1>2 DEF Logs
<1>5. logs \in [Hosts -> [Pids -> Logs]]
  BY DEF DeskInv, DeskTypes
<1> HIDE DEF k, entry
<1>6. jobs' \in SUBSET Jobs /\ \A i \in jobs' : i.log = i.pid
  BY <1>1, <1>3 DEF DeskInv, DeskTypes, OwnersInv, k
<1>7. logs' = [logs EXCEPT ![j.host][j.log] = entry]
  BY <1>1 DEF entry
<1>8. logs' \in [Hosts -> [Pids -> Logs]]
  BY <1>4, <1>5, <1>7
<1>9. \A h \in Hosts, p \in Pids :
         logs'[h][p] = logs[h][p] \/ (h = j.host /\ p = j.pid /\ logs'[h][p] = entry)
  BY <1>2, <1>5, <1>7
<1>10. ASSUME NEW id, NEW h, NEW pid, Ran(id, h, pid) PROVE Ran(id, h, pid)'
  <2>1. PICK i \in jobs : i.id = id /\ i.host = h /\ i.pid = pid
    BY <1>10 DEF Ran
  <2>2. k \in jobs' /\ (i # j => i \in jobs')
    BY <1>1 DEF k
  <2> QED
    BY <1>3, <2>1, <2>2 DEF Ran
<1>11. OwnersInv'
  <2>1. ASSUME NEW t \in Shells, shell'[t] # O!Idle PROVE Knows(shell[t])'
    <3>1. Knows(shell[t]) /\ shell'[t] = shell[t]
      BY <1>1, <2>1 DEF DeskInv, OwnersInv
    <3> QED
      BY <1>10, <3>1 DEF Knows
  <2>2. ASSUME NEW h \in Hosts, NEW pid \in Pids, logs'[h][pid].owner # 0
        PROVE  Ran(logs[h][pid].owner, h, pid)'
    <3>1. Ran(logs'[h][pid].owner, h, pid)
      <4>1. CASE logs'[h][pid] = logs[h][pid]
        BY <2>2, <4>1 DEF DeskInv, OwnersInv
      <4>2. CASE h = j.host /\ pid = j.pid /\ logs'[h][pid] = entry
        BY <1>4, <4>2 DEF Ran
      <4> QED
        BY <1>9, <4>1, <4>2
    <3>2. \A id : Ran(id, h, pid) => Ran(id, h, pid)'
      BY <1>10
    <3>3. PICK i \in jobs : i.id = logs'[h][pid].owner /\ i.host = h /\ i.pid = pid
      BY <3>1 DEF Ran
    <3>4. k \in jobs' /\ (i # j => i \in jobs')
      BY <1>1 DEF k
    <3> QED
      BY <1>3, <3>3, <3>4 DEF Ran
  <2> QED
    BY <1>6, <2>1, <2>2 DEF OwnersInv
<1>12. DeskTypes'
  BY <1>1, <1>6, <1>8 DEF DeskInv, DeskTypes
<1>13. RecordInv'
  BY <1>1 DEF DeskInv, RecordInv, Claimed, Quiet
<1> QED
  BY <1>11, <1>12, <1>13 DEF DeskInv

LEMMA WriteRecordKeeps ==
    ASSUME DeskInv, NEW s \in Shells, O!WriteRecord(s)
    PROVE  DeskInv'
<1> DEFINE p == [shell[s] EXCEPT !.at = "recording"]
           new == [id |-> shell[s].id, time |-> deskSpent.closed, whole |-> FALSE]
<1>1. /\ shell[s] # O!Idle /\ shell[s].at = "closing" /\ shell[s] \in Processes
      /\ shell' = [shell EXCEPT ![s] = p]
      /\ record' = record \union {new}
      /\ deskSpent' = [deskSpent EXCEPT !.closed = @ + 1]
      /\ UNCHANGED <<config, up, jobs, logs>>
  BY DEF O!WriteRecord, DeskInv, DeskTypes
<1>2. /\ p \in Processes /\ p.at = "recording" /\ p.id = shell[s].id /\ p.saw = shell[s].saw
      /\ p.host = shell[s].host /\ p.pid = shell[s].pid
  BY <1>1 DEF Processes, Stages
<1>3. /\ deskSpent' \in [runs : Nat, moves : Int, closed : Nat, kills : Nat]
      /\ deskSpent'.closed = deskSpent.closed + 1 /\ deskSpent.closed \in Nat
      /\ deskSpent'.kills = deskSpent.kills
  BY <1>1 DEF DeskInv, DeskTypes
<1>4. new \in Records /\ new.id = p.id /\ new.time = deskSpent.closed
  BY <1>1, <1>2, <1>3 DEF Records, Processes
<1> HIDE DEF p, new
<1>5. p # O!Idle
  BY <1>2 DEF O!Idle
<1>6. shell'[s] = p /\ \A t \in Shells : t # s => shell'[t] = shell[t]
  BY <1>1 DEF DeskInv, DeskTypes
<1>7. DeskTypes'
  <2>1. IsFiniteSet(record')
    BY <1>1, FS_AddElement DEF DeskInv, DeskTypes
  <2> QED
    BY <1>1, <1>2, <1>3, <1>4, <2>1 DEF DeskInv, DeskTypes
<1>8. OwnersInv'
  <2>1. ASSUME NEW t \in Shells, shell'[t] # O!Idle PROVE Knows(shell[t])'
    <3>1. CASE t = s
      BY <1>1, <1>2, <1>6, <3>1 DEF DeskInv, OwnersInv, Knows, Ran
    <3>2. CASE t # s
      BY <1>1, <1>6, <2>1, <3>2 DEF DeskInv, OwnersInv, Knows, Ran
    <3> QED
      BY <3>1, <3>2
  <2> QED
    BY <1>1, <2>1 DEF DeskInv, OwnersInv, Ran
<1>9. RecordInv'
  <2>1. \A r \in record : r.time \in Nat /\ r.time < deskSpent.closed
    BY DEF DeskInv, DeskTypes, RecordInv, Records
  <2>2. \A r \in record' : r.time < deskSpent'.closed
    BY <1>1, <1>3, <1>4, <2>1
  <2>3. \A q, r \in record' : q.time = r.time => q = r
    BY <1>1, <1>3, <1>4, <2>1 DEF DeskInv, RecordInv
  <2>4. ASSUME deskSpent'.kills = 0, NEW r \in record' PROVE r.whole \/ Claimed(r)'
    <3>1. CASE r = new
      BY <1>2, <1>4, <1>5, <1>6, <3>1 DEF Claimed
    <3>2. CASE r # new
      <4>1. r \in record /\ (r.whole \/ Claimed(r))
        BY <1>1, <1>3, <2>4, <3>2 DEF DeskInv, RecordInv
      <4>2. CASE Claimed(r)
        <5>1. PICK t \in Shells : shell[t] # O!Idle /\ shell[t].at = "recording" /\ shell[t].id = r.id
          BY <4>2 DEF Claimed
        <5>2. t # s
          BY <1>1, <5>1
        <5> QED
          BY <1>6, <5>1, <5>2 DEF Claimed
      <4> QED
        BY <4>1, <4>2
    <3> QED
      BY <3>1, <3>2
  <2>5. ~Quiet'
    BY <1>2, <1>5, <1>6 DEF Quiet, AtTheLog
  <2> QED
    BY <2>2, <2>3, <2>4, <2>5 DEF RecordInv
<1> QED
  BY <1>7, <1>8, <1>9 DEF DeskInv

LEMMA FinishRecordKeeps ==
    ASSUME DeskInv, NEW s \in Shells, O!FinishRecord(s)
    PROVE  DeskInv'
<1> DEFINE p == [shell[s] EXCEPT !.at = "pruning"]
           Filled(r) == IF r.id = shell[s].id THEN [r EXCEPT !.whole = TRUE] ELSE r
           fill == [r \in record |-> Filled(r)]
<1>1. /\ shell[s] # O!Idle /\ shell[s].at = "recording" /\ shell[s] \in Processes
      /\ shell' = [shell EXCEPT ![s] = p]
      /\ record' = {Filled(r) : r \in record}
      /\ UNCHANGED <<config, up, jobs, logs, deskSpent>>
  BY DEF O!FinishRecord, DeskInv, DeskTypes
<1>2. /\ p \in Processes /\ p.at = "pruning" /\ p.id = shell[s].id /\ p.saw = shell[s].saw
      /\ p.host = shell[s].host /\ p.pid = shell[s].pid
  BY <1>1 DEF Processes, Stages
<1>3. ASSUME NEW r \in record
      PROVE  /\ Filled(r) \in Records /\ Filled(r).time = r.time /\ Filled(r).id = r.id
             /\ r.whole => Filled(r).whole
             /\ r.id = shell[s].id => Filled(r).whole
  <2>1. r \in Records
    BY DEF DeskInv, DeskTypes
  <2> QED
    BY <2>1 DEF Records
<1> HIDE DEF p
<1>4. p # O!Idle
  BY <1>2 DEF O!Idle
<1>5. shell'[s] = p /\ \A t \in Shells : t # s => shell'[t] = shell[t]
  BY <1>1 DEF DeskInv, DeskTypes
<1>6. IsFiniteSet(record')
  <2>1. fill \in Surjection(record, record')
    BY <1>1 DEF Surjection
  <2>2. IsFiniteSet(record)
    BY DEF DeskInv, DeskTypes
  <2> HIDE DEF fill
  <2> QED
    BY <2>1, <2>2, FS_Surjection
<1> HIDE DEF Filled
<1>7. DeskTypes'
  BY <1>1, <1>2, <1>3, <1>6 DEF DeskInv, DeskTypes
<1>8. OwnersInv'
  <2>1. ASSUME NEW t \in Shells, shell'[t] # O!Idle PROVE Knows(shell[t])'
    <3>1. CASE t = s
      BY <1>1, <1>2, <1>5, <3>1 DEF DeskInv, OwnersInv, Knows, Ran
    <3>2. CASE t # s
      BY <1>1, <1>5, <2>1, <3>2 DEF DeskInv, OwnersInv, Knows, Ran
    <3> QED
      BY <3>1, <3>2
  <2> QED
    BY <1>1, <2>1 DEF DeskInv, OwnersInv, Ran
<1>9. RecordInv'
  <2>1. \A r \in record' : r.time < deskSpent'.closed
    BY <1>1, <1>3 DEF DeskInv, RecordInv
  <2>2. ASSUME NEW q \in record', NEW r \in record', q.time = r.time PROVE q = r
    <3>1. PICK x \in record, y \in record : q = Filled(x) /\ r = Filled(y)
      BY <1>1
    <3>2. x = y
      BY <1>3, <2>2, <3>1 DEF DeskInv, RecordInv
    <3> QED
      BY <3>1, <3>2
  <2>3. ASSUME deskSpent'.kills = 0, NEW r \in record' PROVE r.whole \/ Claimed(r)'
    <3>1. PICK x \in record : r = Filled(x)
      BY <1>1
    <3>2. x.whole \/ Claimed(x)
      BY <1>1, <2>3 DEF DeskInv, RecordInv
    <3>3. CASE x.whole \/ x.id = shell[s].id
      BY <1>3, <3>1, <3>3
    <3>4. CASE Claimed(x) /\ x.id # shell[s].id
      <4>1. PICK t \in Shells : shell[t] # O!Idle /\ shell[t].at = "recording" /\ shell[t].id = x.id
        BY <3>4 DEF Claimed
      <4>2. t # s /\ r.id = x.id
        BY <1>3, <3>1, <3>4, <4>1
      <4> QED
        BY <1>5, <4>1, <4>2 DEF Claimed
    <3> QED
      BY <3>2, <3>3, <3>4
  <2>4. ~Quiet'
    BY <1>2, <1>4, <1>5 DEF Quiet, AtTheLog
  <2> QED
    BY <2>1, <2>2, <2>3, <2>4 DEF RecordInv
<1> QED
  BY <1>7, <1>8, <1>9 DEF DeskInv

LEMMA PruneKeeps ==
    ASSUME DeskInv, NEW s \in Shells, O!Prune(s)
    PROVE  DeskInv'
<1>1. /\ shell[s] # O!Idle /\ shell[s].at = "pruning"
      /\ shell' = [shell EXCEPT ![s] = O!Idle]
      /\ record' = IF O!Listable THEN record \ O!Stale ELSE record
      /\ UNCHANGED <<config, up, jobs, logs, deskSpent>>
  BY DEF O!Prune
<1>2. shell'[s] = O!Idle /\ \A t \in Shells : t # s => shell'[t] = shell[t]
  BY <1>1 DEF DeskInv, DeskTypes
<1>3. record' \in SUBSET record /\ IsFiniteSet(record')
  <2>1. record' \in SUBSET record
    BY <1>1
  <2> QED
    BY <2>1, FS_Subset DEF DeskInv, DeskTypes
<1>4. DeskTypes'
  BY <1>1, <1>3 DEF DeskInv, DeskTypes
<1>5. OwnersInv'
  BY <1>1, <1>2 DEF DeskInv, DeskTypes, OwnersInv, Knows, Ran
<1>6. ASSUME NEW r \in record, Claimed(r) PROVE Claimed(r)'
  <2>1. PICK t \in Shells : shell[t] # O!Idle /\ shell[t].at = "recording" /\ shell[t].id = r.id
    BY <1>6 DEF Claimed
  <2>2. t # s
    BY <1>1, <2>1
  <2> QED
    BY <1>2, <2>1, <2>2 DEF Claimed
<1>7. ASSUME deskSpent'.kills = 0, Quiet' PROVE Cardinality(record') <= RETAIN
  <2>1. \A t \in Shells : t # s => shell[t] = O!Idle \/ shell[t].at \notin AtTheLog
    BY <1>2, <1>7 DEF Quiet
  <2>2. ASSUME NEW r \in record PROVE r.whole
    <3>1. ~Claimed(r)
      BY <1>1, <2>1 DEF Claimed, AtTheLog
    <3> QED
      BY <1>1, <1>7, <3>1 DEF DeskInv, RecordInv
  <2>3. record' = {r \in record : ~(Cardinality({q \in record : q.time > r.time}) >= RETAIN)}
    <3>1. record' = record \ O!Stale
      BY <1>1, <2>2 DEF O!Listable
    <3>2. record' = {r \in record : ~(O!Older(r) >= RETAIN)}
      BY <3>1 DEF O!Stale
    <3> QED
      BY <3>2, SameCardinality DEF O!Older
  <2>4. record \in SUBSET Records /\ IsFiniteSet(record) /\ \A q, r \in record : q.time = r.time => q = r
    BY DEF DeskInv, DeskTypes, RecordInv
  <2> QED
    BY <2>3, <2>4, YoungestAreFew
<1>8. RecordInv'
  BY <1>1, <1>3, <1>6, <1>7 DEF DeskInv, RecordInv
<1> QED
  BY <1>4, <1>5, <1>8 DEF DeskInv

LEMMA KillKeeps ==
    ASSUME DeskInv, NEW s \in Shells, O!Kill(s)
    PROVE  DeskInv'
<1>1. /\ shell' = [shell EXCEPT ![s] = O!Idle]
      /\ deskSpent' = [deskSpent EXCEPT !.kills = @ + 1]
      /\ UNCHANGED <<config, up, jobs, logs, record>>
  BY DEF O!Kill
<1>2. /\ deskSpent' \in [runs : Nat, moves : Int, closed : Nat, kills : Nat]
      /\ deskSpent'.kills # 0 /\ UNCHANGED deskSpent.closed
  BY <1>1 DEF DeskInv, DeskTypes
<1>3. DeskTypes'
  BY <1>1, <1>2 DEF DeskInv, DeskTypes
<1>4. OwnersInv'
  BY <1>1 DEF DeskInv, DeskTypes, OwnersInv, Knows, Ran
<1>5. RecordInv'
  BY <1>1, <1>2 DEF DeskInv, RecordInv
<1> QED
  BY <1>3, <1>4, <1>5 DEF DeskInv

LEMMA DeskStep ==
    ASSUME DeskInv, O!OperatorNext
    PROVE  DeskInv'
<1>1. ASSUME NEW s \in Shells, NEW verb \in {"blocking", "open"},
             NEW flag \in {O!None} \cup (Hosts \ {USB_HOST}), O!Load(s, verb, flag)
      PROVE  DeskInv'
  BY <1>1, LoadKeeps
<1>2. ASSUME NEW s \in Shells, O!Load(s, "pin", O!None)
      PROVE  DeskInv'
  BY <1>2, LoadKeeps
<1>3. ASSUME NEW s \in Shells, NEW h \in Hosts \cup {O!None}, O!Pin(s, h)
      PROVE  DeskInv'
  BY <1>3, PinKeeps
<1> QED
  BY <1>1, <1>2, <1>3, KillKeeps, MoveKeeps, ResolveKeeps, RunBlockingKeeps, StartDetachedKeeps,
     StartElsewhereKeeps, PollKeeps, JobBeginsKeeps, WriteRecordKeeps, FinishRecordKeeps, PruneKeeps DEF O!OperatorNext

LEMMA DeskInit ==
    ASSUME O!OperatorInit
    PROVE  DeskInv
<1>1. DeskTypes
  <2>1. O!NoLog \in Logs /\ [pinned |-> O!None, cache |-> O!None] \in Configs
    BY DEF O!NoLog, Logs, Configs
  <2>2. IsFiniteSet(record)
    BY FS_EmptySet DEF O!OperatorInit
  <2> QED
    BY <2>1, <2>2 DEF O!OperatorInit, DeskTypes
<1>2. OwnersInv
  BY DEF O!OperatorInit, OwnersInv, O!NoLog, Knows
<1>3. RecordInv
  <2>1. record = {} /\ Cardinality(record) = 0
    BY FS_EmptySet DEF O!OperatorInit
  <2> QED
    BY <2>1, DeskAssumptions DEF RecordInv
<1> QED
  BY <1>1, <1>2, <1>3 DEF DeskInv

LEMMA DeskUnmoved ==
    ASSUME DeskInv, UNCHANGED desk
    PROVE  DeskInv'
<1>1. UNCHANGED <<config, up, shell, jobs, logs, record, deskSpent>>
  BY DEF desk
<1> QED
  BY <1>1 DEF DeskInv, DeskTypes, OwnersInv, Knows, Ran, RecordInv, Claimed, Quiet

LEMMA DeskReports ==
    ASSUME DeskInv
    PROVE  O!ReportedExitIsItsOwn /\ O!QuietLogIsBounded
<1>1. O!ReportedExitIsItsOwn
  BY DEF DeskInv, OwnersInv, Knows, Ran, O!ReportedExitIsItsOwn, O!Reported, O!Namesake
<1>2. Quiet <=> \A s \in Shells : shell[s] = O!Idle \/ shell[s].at \notin {"recording", "pruning"}
  BY DEF Quiet, AtTheLog
<1>3. O!QuietLogIsBounded
  <2> SUFFICES ASSUME deskSpent.kills = 0,
                      \A s \in Shells : shell[s] = O!Idle \/ shell[s].at \notin {"recording", "pruning"}
               PROVE  Cardinality(record) <= RETAIN
    BY SameCardinality DEF O!QuietLogIsBounded
  <2>1. Quiet
    BY <1>2
  <2> QED
    BY <2>1 DEF DeskInv, RecordInv
<1> QED
  BY <1>1, <1>3

-----------------------------------------------------------------------------
(* The tablet under examination.  A report is calm as long as nothing it     *)
(* asked about changed, and a deploy that is alone writes a file no path     *)
(* but the staged one names.                                                 *)

Tablets == [pid : Nat, restarts : Nat, lock : Nat, pids : Nat, root : BOOLEAN, ready : BOOLEAN]
Questions == {"xochitl", "lock", "binary"}
Reports ==
    [at : Questions \union {"verdict", "done"}, calm : BOOLEAN, answers : SUBSET Questions,
     restarts : Nat, main : Nat, held : BOOLEAN, stock : BOOLEAN, foreign : BOOLEAN,
     present : BOOLEAN, older : BOOLEAN, verdict : {"none", "unreachable", "degraded", "healthy"}]
Binaries == [version : Int, parts : Int, runs : BOOLEAN]
Copies == [id : Int, fd : Nat, at : {"cat", "chmod", "mv"}]
Examinations == [events : Int, drops : Nat, commands : Int, overlap : BOOLEAN]

ExaminedTypes ==
    /\ tablet \in Tablets /\ tablet.pid <= tablet.pids /\ tablet.lock <= tablet.pids
    /\ doctor = [at |-> "none"] \/ doctor \in Reports
    /\ deploys \in SUBSET Copies
    /\ spent \in Examinations

(* A path names a file, the staged one another than the live one.            *)
FilesOf(f, n) ==
    /\ f \in [inode : [1 .. n -> Binaries], live : 1 .. n, staged : 0 .. n]
    /\ f.staged # f.live
    /\ \A d \in deploys : d.fd \in 1 .. n
FilesInv == \E n \in Nat : FilesOf(files, n)

Asked(question) ==
    \/ question = "xochitl" /\ doctor.at \in {"lock", "binary", "verdict", "done"}
    \/ question = "lock" /\ doctor.at \in {"binary", "verdict", "done"}
    \/ question = "binary" /\ doctor.at \in {"verdict", "done"}

(* What a calm report says is so.                                            *)
AnswersInv ==
    doctor \in Reports /\ doctor.calm =>
        /\ \A question \in Questions :
              Asked(question) => question \in doctor.answers \/ spent.drops > 0
        /\ "xochitl" \in doctor.answers => doctor.restarts = tablet.restarts /\ doctor.main = tablet.pid
        /\ "lock" \in doctor.answers =>
              /\ doctor.held <=> tablet.lock # 0
              /\ doctor.stock <=> X!Stock(tablet.lock, doctor.main)
        /\ "binary" \in doctor.answers =>
              /\ doctor.present <=> (X!LiveFile.runs /\ X!LiveFile.parts = Parts)
              /\ doctor.older <=> X!LiveFile.version < Here

(* What was answered was asked, the display is not another's under the number xochitl had when it was     *)
(* asked for, and a holder that is not xochitl was not taken for stock.      *)
HolderInv ==
    doctor \in Reports =>
        /\ \A question \in doctor.answers : Asked(question)
        /\ doctor.main <= tablet.pids
        /\ doctor.main # 0 => doctor.main = tablet.pid \/ doctor.main # tablet.lock
        /\ doctor.foreign => doctor.held /\ ~doctor.stock
        /\ doctor.at = "done" => doctor.verdict = X!Verdict

LiveInv ==
    spent.drops = 0 /\ ~spent.overlap =>
        /\ X!LiveFile.parts = Parts /\ X!LiveFile.runs
        /\ \A d, e \in deploys : d = e
        /\ \A d \in deploys :
              /\ d.fd = files.staged
              /\ d.at \in {"chmod", "mv"} => files.inode[d.fd].parts = Parts
              /\ d.at = "mv" => files.inode[d.fd].runs

ExaminedInv == ExaminedTypes /\ FilesInv /\ AnswersInv /\ HolderInv /\ LiveInv

LEMMA ParametersOfTheDesk == Parts \in Nat /\ Here \in Int
  BY DeskAssumption, VersionsAssumption

LEMMA LiveIsAFile ==
    ASSUME NEW n \in Nat, FilesOf(files, n)
    PROVE  /\ X!LiveFile \in Binaries /\ files.live \in 1 .. n /\ files.staged \in 0 .. n
           /\ files.inode \in [1 .. n -> Binaries]
BY DEF FilesOf, X!LiveFile

(* Whatever changes under a report leaves it less than calm and otherwise    *)
(* as it is.                                                                 *)
LEMMA DisturbedReport ==
    ASSUME ExaminedTypes, doctor' = X!Disturbed
    PROVE  /\ doctor' = [at |-> "none"] \/ doctor' \in Reports
           /\ doctor' \in Reports =>
                /\ doctor \in Reports /\ ~doctor'.calm
                /\ doctor'.at = doctor.at /\ doctor'.main = doctor.main
                /\ doctor'.answers = doctor.answers
                /\ doctor'.foreign => doctor.foreign
                /\ doctor.held => doctor'.held
                /\ doctor'.stock => doctor.stock
                /\ doctor'.verdict = doctor.verdict
                /\ X!Verdict' = X!Verdict
<1>1. CASE doctor = [at |-> "none"]
  BY <1>1 DEF X!Disturbed, Reports, Questions
<1>2. CASE doctor \in Reports
  <2> DEFINE d == [doctor EXCEPT !.calm = FALSE]
  <2>1. doctor' = d
    BY <1>2 DEF X!Disturbed, Reports, Questions
  <2>2. d \in Reports /\ ~d.calm
    BY <1>2 DEF Reports
  <2>3. /\ d.at = doctor.at /\ d.main = doctor.main /\ d.foreign = doctor.foreign /\ d.held = doctor.held
        /\ d.stock = doctor.stock /\ d.verdict = doctor.verdict /\ d.answers = doctor.answers
        /\ d.restarts = doctor.restarts /\ d.present = doctor.present /\ d.older = doctor.older
    BY <1>2 DEF Reports
  <2> HIDE DEF d
  <2>4. X!Verdict' = X!Verdict
    BY <2>1, <2>3 DEF X!Verdict
  <2> QED
    BY <1>2, <2>1, <2>2, <2>3, <2>4
<1> QED
  BY <1>1, <1>2 DEF ExaminedTypes

(* A tablet a moment later: who comes new has a number of its own, and a     *)
(* xochitl that is gone took the display with it.                            *)
Later(new) ==
    /\ new.pids = tablet.pids \/ new.pids = tablet.pids + 1
    /\ new.pid # 0 /\ new.pid # tablet.pid => new.pid = tablet.pids + 1 /\ new.pids = tablet.pids + 1
    /\ new.lock # 0 /\ new.lock # tablet.lock => new.lock = tablet.pids + 1 /\ new.pids = tablet.pids + 1
    /\ new.pid # tablet.pid => tablet.pid = 0 \/ new.lock # tablet.pid

(* The tablet changes under the report.                                      *)
LEMMA EventKeeps ==
    ASSUME ExaminedInv, NEW new \in Tablets, X!Event(new), Later(new)
    PROVE  ExaminedInv'
<1>1. /\ tablet' = new /\ doctor' = X!Disturbed /\ spent' = [spent EXCEPT !.events = @ + 1]
      /\ UNCHANGED <<files, deploys>>
  BY DEF X!Event
<1>2. tablet \in Tablets /\ tablet.pid <= tablet.pids /\ tablet.lock <= tablet.pids
  BY DEF ExaminedInv, ExaminedTypes
<1>3. /\ tablet.pid \in Nat /\ tablet.lock \in Nat /\ tablet.pids \in Nat
      /\ new.pid <= new.pids /\ new.lock <= new.pids
  BY <1>2 DEF Tablets, Later
<1>4. spent' \in Examinations /\ spent'.drops = spent.drops /\ spent'.overlap = spent.overlap
  BY <1>1 DEF ExaminedInv, ExaminedTypes, Examinations
<1>5. ExaminedTypes'
  BY <1>1, <1>3, <1>4, DisturbedReport DEF ExaminedInv, ExaminedTypes
<1>6. FilesInv'
  BY <1>1 DEF ExaminedInv, FilesInv, FilesOf
<1>7. AnswersInv'
  BY <1>1, DisturbedReport DEF ExaminedInv, AnswersInv
<1>8. HolderInv'
  <2> SUFFICES ASSUME doctor' \in Reports
               PROVE  /\ \A question \in doctor'.answers : Asked(question)'
                      /\ doctor'.main <= tablet'.pids
                      /\ doctor'.main # 0 => doctor'.main = tablet'.pid \/ doctor'.main # tablet'.lock
                      /\ doctor'.foreign => doctor'.held /\ ~doctor'.stock
                      /\ doctor'.at = "done" => doctor'.verdict = X!Verdict'
    BY DEF HolderInv
  <2>1. /\ doctor \in Reports /\ doctor'.main = doctor.main /\ doctor.main \in Nat
        /\ doctor.main <= tablet.pids
        /\ doctor.main # 0 => doctor.main = tablet.pid \/ doctor.main # tablet.lock
    BY <1>1, DisturbedReport DEF ExaminedInv, HolderInv, Reports
  <2>2. doctor'.main <= tablet'.pids
    BY <1>1, <1>3, <2>1 DEF Later
  <2>3. doctor'.main # 0 => doctor'.main = tablet'.pid \/ doctor'.main # tablet'.lock
    BY <1>1, <1>3, <2>1 DEF Later
  <2>4. doctor'.foreign => doctor'.held /\ ~doctor'.stock
    BY <1>1, <2>1, DisturbedReport DEF ExaminedInv, HolderInv
  <2>5. doctor'.at = "done" => doctor'.verdict = X!Verdict'
    BY <1>1, <2>1, DisturbedReport DEF ExaminedInv, HolderInv
  <2>6. \A question \in doctor'.answers : Asked(question)'
    BY <1>1, <2>1, DisturbedReport DEF ExaminedInv, HolderInv, Asked
  <2> QED
    BY <2>2, <2>3, <2>4, <2>5, <2>6
<1>9. LiveInv'
  BY <1>1, <1>4 DEF ExaminedInv, LiveInv, X!LiveFile
<1> QED
  BY <1>5, <1>6, <1>7, <1>8, <1>9 DEF ExaminedInv

LEMMA TabletKeeps ==
    ASSUME ExaminedInv,
           \/ X!XochitlStops \/ X!TakeDisplay \/ X!LeaveDisplay
           \/ \E n \in {0, tablet.restarts + 1} : X!XochitlStarts(n)
    PROVE  ExaminedInv'
<1>1. /\ tablet \in Tablets /\ tablet.pid <= tablet.pids /\ tablet.lock <= tablet.pids
      /\ tablet.pid \in Nat /\ tablet.lock \in Nat /\ tablet.pids \in Nat /\ tablet.restarts \in Nat
  BY DEF ExaminedInv, ExaminedTypes, Tablets
<1> DEFINE next == tablet.pids + 1
<1>0. next \in Nat
  BY <1>1
<1> HIDE DEF next
<1>2. CASE X!XochitlStops
  <2> DEFINE left == IF tablet.lock = tablet.pid THEN 0 ELSE tablet.lock
             new == [tablet EXCEPT !.pid = 0, !.lock = left]
  <2>1. tablet.pid # 0 /\ X!Event(new)
    BY <1>2 DEF X!XochitlStops
  <2>2. left \in {0, tablet.lock} /\ left \in Nat /\ left # tablet.pid
    BY <1>1, <2>1
  <2> HIDE DEF left
  <2>3. new \in Tablets
    BY <1>1, <2>2 DEF Tablets
  <2>4. new.pid = 0 /\ new.pids = tablet.pids /\ new.lock = left
    BY <1>1 DEF Tablets
  <2> HIDE DEF new
  <2>5. Later(new)
    BY <2>2, <2>4 DEF Later
  <2> QED
    BY <2>1, <2>3, <2>5, EventKeeps
<1>3. CASE X!TakeDisplay
  <2> DEFINE new == [tablet EXCEPT !.lock = next, !.pids = next]
  <2>1. X!Event(new)
    BY <1>3 DEF X!TakeDisplay, next
  <2>2. new \in Tablets
    BY <1>0, <1>1 DEF Tablets
  <2>3. new.pid = tablet.pid /\ new.pids = next /\ new.lock = next
    BY <1>1 DEF Tablets
  <2> HIDE DEF new
  <2>4. Later(new)
    BY <2>3 DEF Later, next
  <2> QED
    BY <2>1, <2>2, <2>4, EventKeeps
<1>4. CASE X!LeaveDisplay
  <2> DEFINE new == [tablet EXCEPT !.lock = 0]
  <2>1. X!Event(new)
    BY <1>4 DEF X!LeaveDisplay
  <2>2. new \in Tablets
    BY <1>1 DEF Tablets
  <2>3. new.pid = tablet.pid /\ new.pids = tablet.pids /\ new.lock = 0
    BY <1>1 DEF Tablets
  <2> HIDE DEF new
  <2>4. Later(new)
    BY <2>3 DEF Later
  <2> QED
    BY <2>1, <2>2, <2>4, EventKeeps
<1>5. ASSUME NEW n \in {0, tablet.restarts + 1}, X!XochitlStarts(n) PROVE ExaminedInv'
  <2> DEFINE held == IF tablet.lock = 0 THEN next ELSE tablet.lock
             new == [tablet EXCEPT !.pid = next, !.pids = next, !.restarts = n, !.lock = held]
  <2>1. tablet.pid = 0 /\ X!Event(new)
    BY <1>5 DEF X!XochitlStarts, next
  <2>2. n \in Nat
    BY <1>1
  <2>3. held \in {tablet.lock, next} /\ held \in Nat
    BY <1>0, <1>1
  <2> HIDE DEF held
  <2>4. new \in Tablets
    BY <1>0, <1>1, <2>2, <2>3 DEF Tablets
  <2>5. new.pid = next /\ new.pids = next /\ new.lock = held
    BY <1>1 DEF Tablets
  <2> HIDE DEF new
  <2>6. Later(new)
    BY <2>1, <2>3, <2>5 DEF Later, next
  <2> QED
    BY <2>1, <2>4, <2>6, EventKeeps
<1> QED
  BY <1>2, <1>3, <1>4, <1>5

(* A step of doctor's own.                                                   *)
LEMMA ReportStep ==
    ASSUME ExaminedInv, doctor' \in Reports, UNCHANGED <<tablet, files, deploys>>,
           spent' \in Examinations, spent'.drops = 0 => spent.drops = 0, ~spent'.overlap => ~spent.overlap,
           AnswersInv', HolderInv'
    PROVE  ExaminedInv'
<1>1. ExaminedTypes'
  BY DEF ExaminedInv, ExaminedTypes
<1>2. FilesInv'
  BY DEF ExaminedInv, FilesInv, FilesOf
<1>3. LiveInv'
  BY DEF ExaminedInv, LiveInv, X!LiveFile
<1> QED
  BY <1>1, <1>2, <1>3 DEF ExaminedInv

LEMMA AskKeeps ==
    ASSUME ExaminedInv, X!Ask
    PROVE  ExaminedInv'
<1> DEFINE d == [at |-> "xochitl", calm |-> TRUE, answers |-> {}, restarts |-> 0, main |-> 0,
                 held |-> FALSE, stock |-> FALSE, foreign |-> FALSE, present |-> FALSE, older |-> FALSE,
                 verdict |-> "none"]
<1>1. /\ doctor' = d /\ spent' = [spent EXCEPT !.commands = @ + 1]
      /\ UNCHANGED <<tablet, files, deploys>>
  BY DEF X!Ask, X!Start, X!Spend
<1>2. d \in Reports /\ d.at = "xochitl" /\ d.answers = {} /\ d.main = 0 /\ ~d.foreign
  BY DEF Reports, Questions
<1> HIDE DEF d
<1>3. spent' \in Examinations /\ spent'.drops = spent.drops /\ spent'.overlap = spent.overlap
  BY <1>1 DEF ExaminedInv, ExaminedTypes, Examinations
<1>4. tablet.pids \in Nat
  BY DEF ExaminedInv, ExaminedTypes, Tablets
<1>5. HolderInv'
  BY <1>1, <1>2, <1>4 DEF HolderInv, Asked
<1>6. AnswersInv'
  BY <1>1, <1>2 DEF AnswersInv, Asked
<1> QED
  BY <1>1, <1>2, <1>3, <1>5, <1>6, ReportStep

LEMMA UnansweredKeeps ==
    ASSUME ExaminedInv, NEW question \in Questions, NEW next \in Questions \union {"verdict"},
           \/ question = "xochitl" /\ next = "lock"
           \/ question = "lock" /\ next = "binary"
           \/ question = "binary" /\ next = "verdict",
           X!Unanswered(question, next)
    PROVE  ExaminedInv'
<1> DEFINE d == [doctor EXCEPT !.at = next, !.answers = @ \union ({} \intersect {question})]
<1>1. /\ doctor.at = question /\ doctor' = d /\ spent' = [spent EXCEPT !.drops = @ + 1]
      /\ UNCHANGED <<tablet, files, deploys>>
  BY DEF X!Unanswered, X!Spend, X!AnswersOfAFailedCall
<1>2. doctor \in Reports
  BY <1>1 DEF ExaminedInv, ExaminedTypes, Questions
<1>3. d \in Reports
  BY <1>2 DEF Reports
<1>4. /\ d.at = next /\ d.answers = doctor.answers /\ d.calm = doctor.calm /\ d.restarts = doctor.restarts
      /\ d.main = doctor.main /\ d.held = doctor.held /\ d.stock = doctor.stock /\ d.foreign = doctor.foreign
      /\ d.present = doctor.present /\ d.older = doctor.older
  BY <1>2 DEF Reports
<1> HIDE DEF d
<1>5. /\ spent' \in Examinations /\ spent'.drops > 0 /\ spent'.drops # 0
      /\ spent'.overlap = spent.overlap
  BY <1>1 DEF ExaminedInv, ExaminedTypes, Examinations
<1>6. HolderInv'
  BY <1>1, <1>2, <1>4 DEF ExaminedInv, HolderInv, Asked, Questions
<1>7. AnswersInv'
  BY <1>1, <1>2, <1>4, <1>5 DEF ExaminedInv, AnswersInv, X!LiveFile, X!Stock
<1> QED
  BY <1>1, <1>3, <1>5, <1>6, <1>7, ReportStep

LEMMA QueryXochitlKeeps ==
    ASSUME ExaminedInv, X!QueryXochitl
    PROVE  ExaminedInv'
<1> DEFINE d == [doctor EXCEPT !.at = "lock", !.answers = @ \union {"xochitl"},
                               !.restarts = tablet.restarts, !.main = tablet.pid]
<1>1. doctor.at = "xochitl" /\ doctor' = d /\ UNCHANGED <<tablet, files, deploys, spent>>
  BY DEF X!QueryXochitl
<1>2. doctor \in Reports
  BY <1>1 DEF ExaminedInv, ExaminedTypes
<1>3. /\ tablet.restarts \in Nat /\ tablet.pid \in Nat /\ tablet.pid <= tablet.pids
      /\ spent \in Examinations
  BY DEF ExaminedInv, ExaminedTypes, Tablets
<1>4. d \in Reports
  BY <1>2, <1>3 DEF Reports, Questions
<1>5. /\ d.at = "lock" /\ d.answers = doctor.answers \union {"xochitl"} /\ d.calm = doctor.calm
      /\ d.restarts = tablet.restarts /\ d.main = tablet.pid
      /\ d.held = doctor.held /\ d.stock = doctor.stock /\ d.foreign = doctor.foreign
      /\ d.present = doctor.present /\ d.older = doctor.older
  BY <1>2 DEF Reports
<1> HIDE DEF d
<1>6. HolderInv'
  BY <1>1, <1>2, <1>3, <1>5 DEF ExaminedInv, HolderInv, Asked
<1>7. AnswersInv'
  BY <1>1, <1>2, <1>5 DEF ExaminedInv, AnswersInv, HolderInv, Asked, X!LiveFile, X!Stock
<1> QED
  BY <1>1, <1>3, <1>4, <1>6, <1>7, ReportStep

LEMMA QueryLockKeeps ==
    ASSUME ExaminedInv, X!QueryLock
    PROVE  ExaminedInv'
<1>1. /\ doctor.at = "lock" /\ UNCHANGED <<tablet, files, deploys, spent>>
      /\ doctor' = [doctor EXCEPT !.at = "binary", !.answers = @ \cup {"lock"}, !.held = tablet.lock # 0,
                                  !.stock = X!Stock(tablet.lock, doctor.main),
                                  !.foreign = tablet.lock \notin {0, tablet.pid}]
  BY DEF X!QueryLock
<1>2. PICK held \in BOOLEAN, stock \in BOOLEAN, foreign \in BOOLEAN :
        /\ held <=> tablet.lock # 0
        /\ stock <=> X!Stock(tablet.lock, doctor.main)
        /\ foreign <=> tablet.lock \notin {0, tablet.pid}
        /\ doctor' = [doctor EXCEPT !.at = "binary", !.answers = @ \cup {"lock"}, !.held = held,
                                    !.stock = stock, !.foreign = foreign]
  <2>1. (tablet.lock # 0) \in BOOLEAN /\ X!Stock(tablet.lock, doctor.main) \in BOOLEAN
    BY DEF X!Stock
  <2> QED
    BY <1>1, <2>1, Zenon
<1> DEFINE d == [doctor EXCEPT !.at = "binary", !.answers = @ \cup {"lock"}, !.held = held,
                               !.stock = stock, !.foreign = foreign]
<1>3. doctor \in Reports /\ spent \in Examinations /\ doctor' = d
  BY <1>1, <1>2 DEF ExaminedInv, ExaminedTypes
<1>4. d \in Reports
  BY <1>3 DEF Reports, Questions
<1>5. /\ d.at = "binary" /\ d.answers = doctor.answers \union {"lock"} /\ d.calm = doctor.calm
      /\ d.restarts = doctor.restarts /\ d.main = doctor.main
      /\ d.held = held /\ d.stock = stock /\ d.foreign = foreign
      /\ d.present = doctor.present /\ d.older = doctor.older
  BY <1>3 DEF Reports
<1> HIDE DEF d
<1>6. HolderInv'
  <2>1. foreign => held /\ ~stock
    BY <1>2, <1>3 DEF ExaminedInv, HolderInv, X!Stock
  <2> QED
    BY <1>1, <1>3, <1>5, <2>1 DEF ExaminedInv, HolderInv, Asked
<1>7. AnswersInv'
  BY <1>1, <1>2, <1>3, <1>5 DEF ExaminedInv, AnswersInv, Asked, X!LiveFile, X!Stock
<1> QED
  BY <1>1, <1>3, <1>4, <1>6, <1>7, ReportStep

LEMMA QueryBinaryKeeps ==
    ASSUME ExaminedInv, X!QueryBinary
    PROVE  ExaminedInv'
<1>1. /\ doctor.at = "binary" /\ UNCHANGED <<tablet, files, deploys, spent>>
      /\ doctor' = [doctor EXCEPT !.at = "verdict", !.answers = @ \cup {"binary"},
                                  !.present = (X!LiveFile.runs /\ X!LiveFile.parts = Parts),
                                  !.older = (X!LiveFile.version < Here)]
  BY DEF X!QueryBinary
<1>2. PICK present \in BOOLEAN, older \in BOOLEAN :
        /\ present <=> (X!LiveFile.runs /\ X!LiveFile.parts = Parts)
        /\ older <=> X!LiveFile.version < Here
        /\ doctor' = [doctor EXCEPT !.at = "verdict", !.answers = @ \cup {"binary"},
                                    !.present = present, !.older = older]
  <2>1. X!LiveFile.version \in Int /\ X!LiveFile.runs \in BOOLEAN
    BY LiveIsAFile DEF ExaminedInv, FilesInv, Binaries
  <2>2. (X!LiveFile.version < Here) \in BOOLEAN
    BY <2>1, ParametersOfTheDesk
  <2> QED
    BY <1>1, <2>2, Zenon
<1> DEFINE d == [doctor EXCEPT !.at = "verdict", !.answers = @ \cup {"binary"},
                               !.present = present, !.older = older]
<1>3. doctor \in Reports /\ spent \in Examinations /\ doctor' = d
  BY <1>1, <1>2 DEF ExaminedInv, ExaminedTypes
<1>4. d \in Reports
  BY <1>3 DEF Reports, Questions
<1>5. /\ d.at = "verdict" /\ d.answers = doctor.answers \union {"binary"} /\ d.calm = doctor.calm
      /\ d.restarts = doctor.restarts /\ d.main = doctor.main
      /\ d.held = doctor.held /\ d.stock = doctor.stock /\ d.foreign = doctor.foreign
      /\ d.present = present /\ d.older = older
  BY <1>3 DEF Reports
<1> HIDE DEF d
<1>6. HolderInv'
  BY <1>1, <1>3, <1>5 DEF ExaminedInv, HolderInv, Asked
<1>7. X!LiveFile' = X!LiveFile
  BY <1>1 DEF X!LiveFile
<1>8. AnswersInv'
  BY <1>1, <1>2, <1>3, <1>5, <1>7 DEF ExaminedInv, AnswersInv, Asked, X!Stock
<1> QED
  BY <1>1, <1>3, <1>4, <1>6, <1>8, ReportStep

LEMMA ReportKeeps ==
    ASSUME ExaminedInv, X!Report
    PROVE  ExaminedInv'
<1> DEFINE d == [doctor EXCEPT !.at = "done", !.verdict = X!Verdict]
<1>1. doctor.at = "verdict" /\ doctor' = d /\ UNCHANGED <<tablet, files, deploys, spent>>
  BY DEF X!Report
<1>2. doctor \in Reports /\ spent \in Examinations
  BY <1>1 DEF ExaminedInv, ExaminedTypes
<1>3. X!Verdict \in {"none", "unreachable", "degraded", "healthy"}
  BY DEF X!Verdict
<1>4. d \in Reports
  BY <1>2, <1>3 DEF Reports
<1>5. /\ d.at = "done" /\ d.answers = doctor.answers /\ d.calm = doctor.calm /\ d.restarts = doctor.restarts
      /\ d.main = doctor.main /\ d.held = doctor.held /\ d.stock = doctor.stock /\ d.foreign = doctor.foreign
      /\ d.present = doctor.present /\ d.older = doctor.older /\ d.verdict = X!Verdict
  BY <1>2 DEF Reports
<1> HIDE DEF d
<1>6. X!Verdict' = X!Verdict
  BY <1>1, <1>5 DEF X!Verdict
<1>7. HolderInv'
  BY <1>1, <1>2, <1>5, <1>6 DEF ExaminedInv, HolderInv, Asked
<1>8. AnswersInv'
  BY <1>1, <1>2, <1>5 DEF ExaminedInv, AnswersInv, Asked, X!LiveFile, X!Stock
<1> QED
  BY <1>1, <1>2, <1>4, <1>7, <1>8, ReportStep

(* A report under which a file changed, or none.                             *)
LEMMA TouchedReport ==
    ASSUME ExaminedInv, doctor' = X!Disturbed, UNCHANGED tablet
    PROVE  AnswersInv' /\ HolderInv'
<1>1. AnswersInv'
  BY DisturbedReport DEF ExaminedInv, AnswersInv
<1>2. HolderInv'
  BY DisturbedReport DEF ExaminedInv, HolderInv, Asked
<1> QED
  BY <1>1, <1>2

LEMMA OneMoreDeploy ==
    ASSUME NEW x \in Examinations, NEW b \in BOOLEAN
    PROVE  /\ [x EXCEPT !.commands = @ + 1, !.overlap = b] \in Examinations
           /\ [x EXCEPT !.commands = @ + 1, !.overlap = b].drops = x.drops
           /\ [x EXCEPT !.commands = @ + 1, !.overlap = b].overlap <=> b
<1> DEFINE y == [x EXCEPT !.commands = @ + 1]
<1>1. y \in Examinations /\ y.drops = x.drops
  BY DEF Examinations
<1> DEFINE z == [y EXCEPT !.overlap = b]
<1>2. z = [x EXCEPT !.commands = @ + 1, !.overlap = b]
  BY DEF Examinations
<1> HIDE DEF y
<1>3. z \in Examinations /\ z.drops = y.drops /\ (z.overlap <=> b)
  BY <1>1 DEF Examinations
<1> QED
  BY <1>1, <1>2, <1>3

(* The files under a deploy: n of them before, and another when the staged   *)
(* path names none.                                                          *)
LEMMA DeployKeeps ==
    ASSUME ExaminedInv, X!Deploy
    PROVE  ExaminedInv'
<1>1. PICK n \in Nat : FilesOf(files, n)
  BY DEF ExaminedInv, FilesInv
<1> DEFINE fd == IF files.staged = 0 THEN n + 1 ELSE files.staged
           m == IF files.staged = 0 THEN n + 1 ELSE n
           empty == [version |-> Here, parts |-> 0, runs |-> FALSE]
           written == [i \in 1 .. m |-> IF i = fd THEN empty ELSE files.inode[i]]
           d == [id |-> spent.commands, fd |-> fd, at |-> "cat"]
<1>2. /\ files.inode \in [1 .. n -> Binaries] /\ files.live \in 1 .. n /\ files.staged \in 0 .. n
      /\ files.staged # files.live /\ DOMAIN files.inode = 1 .. n
      /\ \A e \in deploys : e.fd \in 1 .. n
  BY <1>1 DEF FilesOf
<1>3. X!Cardinality(DOMAIN files.inode) = n
  BY <1>2, SameCardinality, FS_Interval
<1>4. m \in Nat /\ n <= m /\ fd \in 1 .. m /\ fd # files.live /\ fd # 0
  BY <1>2
<1>5. 1 .. m = 1 .. n \union {fd}
  BY <1>2
<1>6. /\ files' = [inode |-> written, live |-> files.live, staged |-> fd]
      /\ doctor' = X!Disturbed
      /\ deploys' = deploys \union {d}
      /\ spent' = [spent EXCEPT !.commands = @ + 1, !.overlap = @ \/ deploys # {}]
      /\ UNCHANGED tablet
  <2>1. fd = IF files.staged = X!NoFile THEN X!Cardinality(DOMAIN files.inode) + 1 ELSE files.staged
    BY <1>3 DEF X!NoFile
  <2>2. written = [i \in DOMAIN files.inode \union {fd} |->
                      IF i = fd THEN X!File(Here, 0, FALSE) ELSE files.inode[i]]
    BY <1>2, <1>5 DEF X!File
  <2> HIDE DEF fd, written
  <2> QED
    BY <2>1, <2>2 DEF X!Deploy, X!Touch
<1>7. empty \in Binaries
  BY ParametersOfTheDesk DEF Binaries
<1> HIDE DEF empty
<1>8. written \in [1 .. m -> Binaries] /\ written[fd] = empty /\ written[files.live] = files.inode[files.live]
  BY <1>2, <1>4, <1>5, <1>7
<1>9. spent.commands \in Int /\ spent \in Examinations /\ fd \in Nat
  BY <1>4 DEF ExaminedInv, ExaminedTypes, Examinations
<1>10. d \in Copies /\ d.fd = fd /\ d.at = "cat"
  BY <1>9 DEF Copies
<1> HIDE DEF fd, m, written, d
<1>11. /\ spent' \in Examinations /\ spent'.drops = spent.drops
       /\ ~spent'.overlap => ~spent.overlap /\ deploys = {}
  <2> DEFINE overlap == spent.overlap \/ deploys # {}
  <2>1. overlap \in BOOLEAN /\ (overlap <=> spent.overlap \/ deploys # {})
    OBVIOUS
  <2>2. spent' = [spent EXCEPT !.commands = @ + 1, !.overlap = overlap]
    BY <1>6
  <2> HIDE DEF overlap
  <2> QED
    BY <1>9, <2>1, <2>2, OneMoreDeploy
<1>12. /\ files'.inode = written /\ files'.live = files.live /\ files'.staged = fd
       /\ X!LiveFile' = X!LiveFile
  BY <1>6, <1>8 DEF X!LiveFile
<1>13. ExaminedTypes'
  BY <1>6, <1>10, <1>11, DisturbedReport DEF ExaminedInv, ExaminedTypes
<1>14. FilesInv'
  <2>1. files' \in [inode : [1 .. m -> Binaries], live : 1 .. m, staged : 0 .. m]
    BY <1>2, <1>4, <1>6, <1>8
  <2>2. \A e \in deploys' : e.fd \in 1 .. m
    BY <1>2, <1>4, <1>6, <1>10
  <2> QED
    BY <1>4, <1>12, <2>1, <2>2 DEF FilesInv, FilesOf
<1>15. AnswersInv' /\ HolderInv'
  BY <1>6, TouchedReport DEF ExaminedInv
<1>16. LiveInv'
  <2> SUFFICES ASSUME spent'.drops = 0, ~spent'.overlap
               PROVE  /\ X!LiveFile'.parts = Parts /\ X!LiveFile'.runs
                      /\ \A e, f \in deploys' : e = f
                      /\ \A e \in deploys' :
                            /\ e.fd = files'.staged
                            /\ e.at \in {"chmod", "mv"} => files'.inode[e.fd].parts = Parts
                            /\ e.at = "mv" => files'.inode[e.fd].runs
    BY DEF LiveInv
  <2>1. deploys' = {d} /\ spent.drops = 0 /\ ~spent.overlap
    BY <1>6, <1>11
  <2>2. X!LiveFile.parts = Parts /\ X!LiveFile.runs
    BY <2>1 DEF ExaminedInv, LiveInv
  <2> QED
    BY <1>10, <1>12, <2>1, <2>2
<1> QED
  BY <1>13, <1>14, <1>15, <1>16 DEF ExaminedInv

(* A deploy at work on its copy: bytes arrive, cat ends with all of them or  *)
(* because the connection dropped, chmod and mv act on the path.             *)
LEMMA SendKeeps ==
    ASSUME ExaminedInv, NEW d \in deploys, X!Send(d)
    PROVE  ExaminedInv'
<1>1. PICK n \in Nat : FilesOf(files, n)
  BY DEF ExaminedInv, FilesInv
<1> DEFINE old == files.inode[d.fd]
           new == [old EXCEPT !.parts = @ + 1]
<1>2. /\ d.at = "cat" /\ files' = [files EXCEPT !.inode[d.fd].parts = @ + 1] /\ doctor' = X!Disturbed
      /\ UNCHANGED <<tablet, deploys, spent>>
  BY DEF X!Send, X!Touch
<1>3. /\ files.inode \in [1 .. n -> Binaries] /\ files.live \in 1 .. n /\ d.fd \in 1 .. n
      /\ files \in [inode : [1 .. n -> Binaries], live : 1 .. n, staged : 0 .. n]
      /\ files.staged # files.live
  BY <1>1 DEF FilesOf
<1>4. old \in Binaries
  BY <1>3
<1>5. new \in Binaries
  <2> HIDE DEF old
  <2> QED
    BY <1>4 DEF Binaries
<1> DEFINE written == [files.inode EXCEPT ![d.fd] = new]
<1>6. files' = [files EXCEPT !.inode = written]
  BY <1>2, <1>3
<1> HIDE DEF old, new
<1>7. /\ written \in [1 .. n -> Binaries]
      /\ \A i \in 1 .. n : i # d.fd => written[i] = files.inode[i]
  BY <1>3, <1>5
<1> HIDE DEF written
<1>8. files' \in [inode : [1 .. n -> Binaries], live : 1 .. n, staged : 0 .. n]
  BY <1>3, <1>6, <1>7
<1>9. files'.inode = written /\ files'.live = files.live /\ files'.staged = files.staged
  BY <1>3, <1>6
<1>10. ExaminedTypes'
  BY <1>2, DisturbedReport DEF ExaminedInv, ExaminedTypes
<1>11. FilesInv'
  <2>1. \A e \in deploys' : e.fd \in 1 .. n
    BY <1>1, <1>2 DEF FilesOf
  <2> QED
    BY <1>3, <1>8, <1>9, <2>1 DEF FilesInv, FilesOf
<1>12. AnswersInv' /\ HolderInv'
  BY <1>2, TouchedReport
<1>13. LiveInv'
  <2> SUFFICES ASSUME spent.drops = 0, ~spent.overlap
               PROVE  /\ X!LiveFile'.parts = Parts /\ X!LiveFile'.runs
                      /\ \A e, f \in deploys : e = f
                      /\ \A e \in deploys :
                            /\ e.fd = files'.staged
                            /\ e.at \in {"chmod", "mv"} => files'.inode[e.fd].parts = Parts
                            /\ e.at = "mv" => files'.inode[e.fd].runs
    BY <1>2 DEF LiveInv
  <2>1. d.fd = files.staged /\ (\A e \in deploys : e = d) /\ \A e, f \in deploys : e = f
    BY DEF ExaminedInv, LiveInv
  <2>2. X!LiveFile' = X!LiveFile
    BY <1>3, <1>7, <1>9, <2>1 DEF X!LiveFile
  <2>3. X!LiveFile.parts = Parts /\ X!LiveFile.runs
    BY DEF ExaminedInv, LiveInv
  <2> QED
    BY <1>2, <1>9, <2>1, <2>2, <2>3
<1> QED
  BY <1>10, <1>11, <1>12, <1>13 DEF ExaminedInv

LEMMA CatEndsKeeps ==
    ASSUME ExaminedInv, NEW d \in deploys, X!CatEnds(d)
    PROVE  ExaminedInv'
<1> DEFINE e == [d EXCEPT !.at = "chmod"]
<1>1. /\ d.at = "cat" /\ deploys' = (deploys \ {d}) \union {e}
      /\ UNCHANGED <<tablet, files, doctor>>
      /\ \/ files.inode[d.fd].parts = Parts /\ UNCHANGED spent
         \/ spent' = [spent EXCEPT !.drops = @ + 1]
  BY DEF X!CatEnds, X!Replace, X!Spend
<1>2. d \in Copies /\ spent \in Examinations
  BY DEF ExaminedInv, ExaminedTypes
<1>3. e \in Copies /\ e.fd = d.fd /\ e.at = "chmod"
  BY <1>2 DEF Copies
<1> HIDE DEF e
<1>4. /\ spent' \in Examinations /\ spent'.overlap = spent.overlap
      /\ spent.drops > 0 => spent'.drops > 0
      /\ spent'.drops = 0 => spent.drops = 0 /\ files.inode[d.fd].parts = Parts
  BY <1>1, <1>2 DEF Examinations
<1>5. ExaminedTypes'
  BY <1>1, <1>3, <1>4 DEF ExaminedInv, ExaminedTypes
<1>6. FilesInv'
  BY <1>1, <1>3 DEF ExaminedInv, FilesInv, FilesOf
<1>7. AnswersInv'
  BY <1>1, <1>4 DEF ExaminedInv, AnswersInv, Asked, X!LiveFile, X!Stock
<1>8. HolderInv'
  BY <1>1 DEF ExaminedInv, HolderInv, Asked, X!Verdict
<1>9. LiveInv'
  <2> SUFFICES ASSUME spent'.drops = 0, ~spent'.overlap
               PROVE  /\ X!LiveFile.parts = Parts /\ X!LiveFile.runs
                      /\ \A f, g \in deploys' : f = g
                      /\ \A f \in deploys' :
                            /\ f.fd = files.staged
                            /\ f.at \in {"chmod", "mv"} => files.inode[f.fd].parts = Parts
                            /\ f.at = "mv" => files.inode[f.fd].runs
    BY <1>1 DEF LiveInv, X!LiveFile
  <2>1. /\ d.fd = files.staged /\ \A f \in deploys : f = d
        /\ X!LiveFile.parts = Parts /\ X!LiveFile.runs
    BY <1>4 DEF ExaminedInv, LiveInv
  <2>2. deploys' = {e}
    BY <1>1, <2>1
  <2> QED
    BY <1>3, <1>4, <2>1, <2>2
<1> QED
  BY <1>5, <1>6, <1>7, <1>8, <1>9 DEF ExaminedInv

(* A deploy goes, or takes its next step, with no file touched.              *)
LEMMA CopyGone ==
    ASSUME ExaminedInv, NEW d \in deploys, deploys' = deploys \ {d},
           UNCHANGED <<tablet, files, doctor, spent>>
    PROVE  ExaminedInv'
<1>1. ExaminedTypes'
  BY DEF ExaminedInv, ExaminedTypes
<1>2. FilesInv'
  BY DEF ExaminedInv, FilesInv, FilesOf
<1>3. AnswersInv' /\ HolderInv'
  BY DEF ExaminedInv, AnswersInv, HolderInv, Asked, X!LiveFile, X!Stock, X!Verdict
<1>4. LiveInv'
  BY DEF ExaminedInv, LiveInv, X!LiveFile
<1> QED
  BY <1>1, <1>2, <1>3, <1>4 DEF ExaminedInv

LEMMA ChmodKeeps ==
    ASSUME ExaminedInv, NEW d \in deploys, X!Chmod(d)
    PROVE  ExaminedInv'
<1>1. CASE files.staged = X!NoFile
  BY <1>1, CopyGone DEF X!Chmod
<1>2. CASE files.staged # X!NoFile
  <2>1. PICK n \in Nat : FilesOf(files, n)
    BY DEF ExaminedInv, FilesInv
  <2> DEFINE old == files.inode[files.staged]
             new == [old EXCEPT !.runs = TRUE]
             e == [d EXCEPT !.at = "mv"]
             written == [files.inode EXCEPT ![files.staged] = new]
  <2>2. /\ d.at = "chmod" /\ deploys' = (deploys \ {d}) \union {e}
        /\ files' = [files EXCEPT !.inode[files.staged].runs = TRUE] /\ doctor' = X!Disturbed
        /\ UNCHANGED <<tablet, spent>>
    BY <1>2 DEF X!Chmod, X!Touch, X!Replace
  <2>3. /\ files.inode \in [1 .. n -> Binaries] /\ files.live \in 1 .. n /\ files.staged \in 1 .. n
        /\ files \in [inode : [1 .. n -> Binaries], live : 1 .. n, staged : 0 .. n]
        /\ files.staged # files.live /\ d.fd \in 1 .. n
    BY <1>2, <2>1 DEF FilesOf, X!NoFile
  <2>4. old \in Binaries
    BY <2>3
  <2>5. new \in Binaries /\ new.runs /\ new.parts = old.parts
    <3> HIDE DEF old
    <3> QED
      BY <2>4 DEF Binaries
  <2>6. files' = [files EXCEPT !.inode = written]
    BY <2>2, <2>3
  <2> HIDE DEF new
  <2>7. /\ written \in [1 .. n -> Binaries] /\ written[files.staged] = new
        /\ written[files.live] = files.inode[files.live]
    BY <2>3, <2>5
  <2> HIDE DEF written
  <2>8. files' \in [inode : [1 .. n -> Binaries], live : 1 .. n, staged : 0 .. n]
    BY <2>3, <2>6, <2>7
  <2>9. files'.inode = written /\ files'.live = files.live /\ files'.staged = files.staged
    BY <2>3, <2>6
  <2>10. e \in Copies /\ e.fd = d.fd /\ e.at = "mv"
    BY DEF ExaminedInv, ExaminedTypes, Copies
  <2> HIDE DEF e
  <2>11. ExaminedTypes'
    BY <2>2, <2>10, DisturbedReport DEF ExaminedInv, ExaminedTypes
  <2>12. FilesInv'
    <3>1. \A f \in deploys' : f.fd \in 1 .. n
      BY <2>1, <2>2, <2>10 DEF FilesOf
    <3> QED
      BY <2>3, <2>8, <2>9, <3>1 DEF FilesInv, FilesOf
  <2>13. AnswersInv' /\ HolderInv'
    BY <2>2, TouchedReport
  <2>14. LiveInv'
    <3> SUFFICES ASSUME spent.drops = 0, ~spent.overlap
                 PROVE  /\ X!LiveFile'.parts = Parts /\ X!LiveFile'.runs
                        /\ \A f, g \in deploys' : f = g
                        /\ \A f \in deploys' :
                              /\ f.fd = files'.staged
                              /\ f.at \in {"chmod", "mv"} => files'.inode[f.fd].parts = Parts
                              /\ f.at = "mv" => files'.inode[f.fd].runs
      BY <2>2 DEF LiveInv
    <3>1. /\ d.fd = files.staged /\ \A f \in deploys : f = d
          /\ X!LiveFile.parts = Parts /\ X!LiveFile.runs /\ old.parts = Parts
      BY <2>2 DEF ExaminedInv, LiveInv
    <3>2. X!LiveFile' = X!LiveFile
      BY <2>7, <2>9 DEF X!LiveFile
    <3>3. deploys' = {e}
      BY <2>2, <3>1
    <3> QED
      BY <2>5, <2>7, <2>9, <2>10, <3>1, <3>2, <3>3
  <2> QED
    BY <2>11, <2>12, <2>13, <2>14 DEF ExaminedInv
<1> QED
  BY <1>1, <1>2

LEMMA MvKeeps ==
    ASSUME ExaminedInv, NEW d \in deploys, X!Mv(d)
    PROVE  ExaminedInv'
<1>1. CASE files.staged = X!NoFile
  BY <1>1, CopyGone DEF X!Mv
<1>2. CASE files.staged # X!NoFile
  <2>1. PICK n \in Nat : FilesOf(files, n)
    BY DEF ExaminedInv, FilesInv
  <2>2. /\ d.at = "mv" /\ deploys' = deploys \ {d}
        /\ files' = [files EXCEPT !.live = files.staged, !.staged = 0] /\ doctor' = X!Disturbed
        /\ UNCHANGED <<tablet, spent>>
    BY <1>2 DEF X!Mv, X!Touch, X!NoFile
  <2>3. /\ files.staged \in 1 .. n
        /\ files \in [inode : [1 .. n -> Binaries], live : 1 .. n, staged : 0 .. n]
    BY <1>2, <2>1 DEF FilesOf, X!NoFile
  <2>4. /\ files' \in [inode : [1 .. n -> Binaries], live : 1 .. n, staged : 0 .. n]
        /\ files'.inode = files.inode /\ files'.live = files.staged /\ files'.staged = 0
    <3> DEFINE Inodes == [1 .. n -> Binaries]
    <3>1. 0 \in 0 .. n
      OBVIOUS
    <3> HIDE DEF Inodes
    <3>2. files \in [inode : Inodes, live : 1 .. n, staged : 0 .. n]
      BY <2>3 DEF Inodes
    <3>3. files'.inode = files.inode /\ files'.live = files.staged /\ files'.staged = 0
      BY <2>2, <3>2
    <3>4. files' \in [inode : Inodes, live : 1 .. n, staged : 0 .. n]
      BY <2>2, <2>3, <3>1, <3>2
    <3> QED
      BY <3>3, <3>4 DEF Inodes
  <2>5. ExaminedTypes'
    BY <2>2, DisturbedReport DEF ExaminedInv, ExaminedTypes
  <2>6. FilesInv'
    <3>1. \A f \in deploys' : f.fd \in 1 .. n
      BY <2>1, <2>2 DEF FilesOf
    <3>2. files'.staged # files'.live
      BY <2>3, <2>4
    <3> QED
      BY <2>4, <3>1, <3>2 DEF FilesInv, FilesOf
  <2>7. AnswersInv' /\ HolderInv'
    BY <2>2, TouchedReport
  <2>8. LiveInv'
    <3> SUFFICES ASSUME spent.drops = 0, ~spent.overlap
                 PROVE  X!LiveFile'.parts = Parts /\ X!LiveFile'.runs /\ deploys' = {}
      BY <2>2 DEF LiveInv
    <3>1. /\ d.fd = files.staged /\ \A f \in deploys : f = d
          /\ files.inode[d.fd].parts = Parts /\ files.inode[d.fd].runs
      BY <2>2 DEF ExaminedInv, LiveInv
    <3> QED
      BY <2>2, <2>4, <3>1 DEF X!LiveFile
  <2> QED
    BY <2>5, <2>6, <2>7, <2>8 DEF ExaminedInv
<1> QED
  BY <1>1, <1>2

LEMMA SetupKeeps ==
    ASSUME ExaminedInv, NEW check \in BOOLEAN, X!Setup(check)
    PROVE  ExaminedInv'
<1>1. /\ tablet' \in {tablet, [tablet EXCEPT !.root = TRUE]}
      /\ spent' = [spent EXCEPT !.commands = @ + 1]
      /\ UNCHANGED <<files, doctor, deploys>>
  BY DEF X!Setup, X!Start, X!Spend
<1>2. tablet \in Tablets
  BY DEF ExaminedInv, ExaminedTypes
<1>3. /\ tablet' \in Tablets /\ tablet'.pid = tablet.pid /\ tablet'.lock = tablet.lock
      /\ tablet'.pids = tablet.pids /\ tablet'.restarts = tablet.restarts
  <2>1. [tablet EXCEPT !.root = TRUE] \in Tablets
    BY <1>2 DEF Tablets
  <2> QED
    BY <1>1, <1>2, <2>1 DEF Tablets
<1>4. spent' \in Examinations /\ spent'.drops = spent.drops /\ spent'.overlap = spent.overlap
  BY <1>1 DEF ExaminedInv, ExaminedTypes, Examinations
<1>5. ExaminedTypes'
  BY <1>1, <1>3, <1>4 DEF ExaminedInv, ExaminedTypes
<1>6. FilesInv'
  BY <1>1 DEF ExaminedInv, FilesInv, FilesOf
<1>7. AnswersInv'
  BY <1>1, <1>3, <1>4 DEF ExaminedInv, AnswersInv, Asked, X!LiveFile, X!Stock
<1>8. HolderInv'
  BY <1>1, <1>3 DEF ExaminedInv, HolderInv, Asked, X!Verdict
<1>9. LiveInv'
  BY <1>1, <1>4 DEF ExaminedInv, LiveInv, X!LiveFile
<1> QED
  BY <1>5, <1>6, <1>7, <1>8, <1>9 DEF ExaminedInv

LEMMA ExaminedStep ==
    ASSUME ExaminedInv, X!DoctorNext
    PROVE  ExaminedInv'
<1>1. CASE X!Unanswered("xochitl", "lock") \/ X!Unanswered("lock", "binary") \/ X!Unanswered("binary", "verdict")
  BY <1>1, UnansweredKeeps DEF Questions
<1>2. ASSUME NEW d \in deploys, X!Send(d) \/ X!CatEnds(d) \/ X!InstallCommand(d) PROVE ExaminedInv'
  BY <1>2, SendKeeps, CatEndsKeeps, ChmodKeeps, MvKeeps DEF X!InstallCommand
<1> QED
  BY <1>1, <1>2, TabletKeeps, AskKeeps, QueryXochitlKeeps, QueryLockKeeps, QueryBinaryKeeps,
     ReportKeeps, DeployKeeps, SetupKeeps DEF X!DoctorNext

LEMMA ExaminedInit ==
    ASSUME X!DoctorInit
    PROVE  ExaminedInv
<1>1. /\ tablet \in Tablets /\ tablet.pid <= tablet.pids /\ tablet.lock <= tablet.pids
      /\ doctor = [at |-> "none"] /\ doctor \notin Reports /\ deploys = {}
      /\ spent \in Examinations
  BY DEF X!DoctorInit, Tablets, Reports, Questions, Examinations
<1>2. PICK old \in {Here - 1, Here + 1} :
        files = [inode |-> [i \in {1} |-> X!File(old, Parts, TRUE)], live |-> 1, staged |-> X!NoFile]
  BY DEF X!DoctorInit
<1> DEFINE first == [version |-> old, parts |-> Parts, runs |-> TRUE]
<1>3. first \in Binaries /\ first.parts = Parts /\ first.runs
  BY ParametersOfTheDesk DEF Binaries
<1>4. files = [inode |-> [i \in {1} |-> first], live |-> 1, staged |-> 0]
  BY <1>2 DEF X!File, X!NoFile
<1> HIDE DEF first
<1>5. {1} = 1 .. 1
  OBVIOUS
<1>6. files \in [inode : [1 .. 1 -> Binaries], live : 1 .. 1, staged : 0 .. 1] /\ files.staged # files.live
  BY <1>3, <1>4, <1>5
<1>7. FilesInv
  BY <1>1, <1>6 DEF FilesInv, FilesOf
<1>8. LiveInv
  BY <1>1, <1>3, <1>4 DEF LiveInv, X!LiveFile
<1> QED
  BY <1>1, <1>7, <1>8 DEF ExaminedInv, ExaminedTypes, AnswersInv, HolderInv

LEMMA ExaminedUnmoved ==
    ASSUME ExaminedInv, UNCHANGED examined
    PROVE  ExaminedInv'
<1>1. UNCHANGED <<tablet, files, doctor, deploys, spent>>
  BY DEF examined
<1> QED
  BY <1>1 DEF ExaminedInv, ExaminedTypes, FilesInv, FilesOf, AnswersInv, HolderInv, LiveInv, Asked,
     X!LiveFile, X!Stock, X!Verdict

(* A calm report with every answer calls the tablet what it is.              *)
LEMMA CalmReportIsTrue ==
    ASSUME ExaminedInv
    PROVE  X!UndisturbedVerdictIsTrue
<1> SUFFICES ASSUME doctor.at = "done", doctor.calm
             PROVE  \/ doctor.verdict = "unreachable" /\ spent.drops > 0
                    \/ doctor.verdict = (IF X!Fit THEN "healthy" ELSE "degraded")
  BY DEF X!UndisturbedVerdictIsTrue
<1>1. doctor \in Reports /\ doctor.answers \in SUBSET Questions
  BY DEF ExaminedInv, ExaminedTypes, Reports
<1>2. /\ doctor.verdict = X!Verdict
      /\ \A question \in Questions : question \in doctor.answers \/ spent.drops > 0
  BY <1>1 DEF ExaminedInv, HolderInv, AnswersInv, Asked, Questions
<1>3. CASE doctor.answers # {"xochitl", "lock", "binary"}
  <2>1. spent.drops > 0
    BY <1>1, <1>2, <1>3 DEF Questions
  <2> QED
    BY <1>2, <1>3, <2>1 DEF X!Verdict
<1>4. CASE doctor.answers = {"xochitl", "lock", "binary"}
  <2>1. /\ doctor.restarts = tablet.restarts /\ doctor.main = tablet.pid
        /\ doctor.held <=> tablet.lock # 0
        /\ doctor.stock <=> X!Stock(tablet.lock, doctor.main)
        /\ doctor.present <=> (X!LiveFile.runs /\ X!LiveFile.parts = Parts)
        /\ doctor.older <=> X!LiveFile.version < Here
    BY <1>1, <1>4 DEF ExaminedInv, AnswersInv
  <2>2. X!LiveFile.version \in Int /\ Here \in Int
    BY LiveIsAFile, ParametersOfTheDesk DEF ExaminedInv, FilesInv, Binaries
  <2>3. tablet.restarts \in Nat
    BY DEF ExaminedInv, ExaminedTypes, Tablets
  <2>4. X!Fit <=> ~(\/ doctor.restarts > 0 \/ (doctor.held /\ ~doctor.stock)
                    \/ ~doctor.present \/ doctor.older)
    BY <2>1, <2>2, <2>3 DEF X!Fit, X!Stock
  <2> QED
    BY <1>2, <1>4, <2>4 DEF X!Verdict
<1> QED
  BY <1>3, <1>4

LEMMA HealthyIsNobodyElse ==
    ASSUME ExaminedInv
    PROVE  X!HealthyMeansNobodyElse
<1> SUFFICES ASSUME doctor.at = "done", doctor.verdict = "healthy"
             PROVE  ~doctor.foreign
  BY DEF X!HealthyMeansNobodyElse
<1>1. doctor \in Reports
  BY DEF ExaminedInv, ExaminedTypes
<1>2. X!Verdict = "healthy" /\ (doctor.foreign => doctor.held /\ ~doctor.stock)
  BY <1>1 DEF ExaminedInv, HolderInv
<1>3. ~(doctor.held /\ ~doctor.stock)
  BY <1>2 DEF X!Verdict
<1> QED
  BY <1>2, <1>3

LEMMA LiveRuns ==
    ASSUME ExaminedInv
    PROVE  X!LivePaperctlRuns
BY DEF ExaminedInv, LiveInv, X!LivePaperctlRuns

(* For any shells, tablets, desks, process numbers, commands, kills, dropped*)
(* connections and changes on the tablet: the exit status a detached run    *)
(* reports is its own unless another run had its pid on that tablet, a quiet*)
(* run log is bounded while no process was killed, an undisturbed verdict is*)
(* true, a healthy tablet is held by nobody but stock, and the paperctl in  *)
(* place runs while no connection dropped and no deploys overlapped         *)
(* (remote.rs, run_log.rs, doctor.rs, deploy.rs).                           *)
THEOREM DeskIsTruthful == Spec => []DeskTellsTheTruth
<1>1. Init => DeskInv /\ ExaminedInv
  BY DeskInit, ExaminedInit DEF Init
<1>2. DeskInv /\ ExaminedInv /\ [Next]_vars => DeskInv' /\ ExaminedInv'
  BY DeskStep, DeskUnmoved, ExaminedStep, ExaminedUnmoved DEF Next, vars
<1>3. DeskInv /\ ExaminedInv => DeskTellsTheTruth
  BY DeskReports, CalmReportIsTrue, HealthyIsNobodyElse, LiveRuns DEF DeskTellsTheTruth
<1> QED
  BY <1>1, <1>2, <1>3, PTL DEF Spec

-----------------------------------------------------------------------------
(* Packages.  Every block on disk was read under the limit and every file on  *)
(* disk was counted once; of an archive this program built, what is still in  *)
(* it and what is on disk make up what the manifest declares.                 *)

\* The provers do not know that a literal is a string.
PathNames == STRING \union {"paper.toml"}
Paths == Seq(PathNames)
Sheets == [entrypoint : Paths, assets : SUBSET Paths, runnable : BOOLEAN, aarch64 : BOOLEAN]
Entries == [path : Paths, kind : {"file", "dir", "link"}, size : Nat, holds : Nat, declares : Sheets]

Refusals == {"Malformed", "TooManyEntries", "UnsafePath", "FileTooLarge", "ForbiddenEntry", "Io"}
Endings == Refusals \union {"no", "Truncated", "Payload", "Extracted"}
Tallies == [entries : Nat, files : Nat, read : Nat, names : SUBSET Paths, ended : Endings]

PackageTypes ==
    /\ source \in Sources
    /\ archive = [from |-> archive.from, entries |-> archive.entries]
    /\ archive.entries \in Seq(Entries)
    /\ out = [nodes |-> out.nodes, executable |-> out.executable]
    /\ IsFiniteSet(DOMAIN out.nodes)
    /\ taken \in Tallies
    /\ archive.from = "none" =>
          archive.entries = <<>> /\ DOMAIN out.nodes = {} /\ taken.ended = "no"

(* What is on disk. *)
SoundNode(path, node) ==
    /\ path \in Paths /\ K!Lexical(path) /\ ~K!Reserving(path)
    /\ node.kind \in {"file", "dir"} /\ node.size \in Nat
    /\ node.kind = "file" => node.size <= FileLimit
NodesInv == \A p \in DOMAIN out.nodes : SoundNode(p, out.nodes[p])

OnDisk == K!FilesOn(out.nodes)
BytesOf(nodes) == K!MapThenSumSet(LAMBDA p : nodes[p].size + 1, K!FilesOn(nodes))

TakenInv ==
    /\ taken.read <= TotalLimit /\ BytesOf(out.nodes) <= taken.read
    /\ taken.ended \in {"no", "Extracted"} => taken.names = OnDisk /\ taken.files = Cardinality(OnDisk)

(* The files a source tree's archive holds, and those still to be read.       *)
Promised(t) == {K!ManifestName} \union K!Declared(t.manifest)
Left == {archive.entries[i].path : i \in DOMAIN archive.entries}

(* A tree that `build` accepted, and whose manifest does not list itself.     *)
Buildable ==
    /\ K!Readable /\ K!ValidPayload(source.nodes, source.manifest)
    /\ \A path \in K!Declared(source.manifest) : K!CanAppend(path)
InProgress ==
    /\ \A i \in DOMAIN archive.entries :
          /\ archive.entries[i] = K!EntryFor(archive.entries[i].path)
          /\ \A j \in DOMAIN archive.entries :
                archive.entries[i].path = archive.entries[j].path => i = j
    /\ Left \intersect OnDisk = {} /\ Left \union OnDisk = Promised(source)
    /\ \A p \in DOMAIN out.nodes \ OnDisk : \E path \in Promised(source) : p \in K!Parents(path)
    /\ K!ManifestName \in OnDisk => out.nodes[K!ManifestName].declares = source.manifest
BuiltInv ==
    archive.from = "build" /\ K!ManifestName \notin K!Declared(source.manifest) =>
        Buildable /\ (taken.ended = "no" => InProgress)

PackageInv ==
    /\ PackageTypes /\ NodesInv /\ TakenInv /\ BuiltInv
    /\ K!AcceptedIsWhole /\ K!BuiltIsDeclared

-----------------------------------------------------------------------------
LEMMA AssumptionFacts ==
    /\ Foreign \subseteq Entries
    /\ \A t \in Sources :
         /\ t.manifest \in Sheets
         /\ \A p \in K!Declared(t.manifest) : K!Lexical(p)
         /\ \A p \in DOMAIN t.nodes :
              /\ t.nodes[p].size \in Nat
              /\ \A q \in K!Parents(p) \intersect DOMAIN t.nodes : t.nodes[q].kind = "dir"
<1>1. \A p \in Seq(STRING) : p \in Paths
  BY SeqMonotonic DEF Paths, PathNames
<1>2. \A m \in [entrypoint : Seq(STRING), assets : SUBSET Seq(STRING),
                runnable : BOOLEAN, aarch64 : BOOLEAN] : m \in Sheets
  BY <1>1 DEF Sheets
<1>3. \A e \in [path : Seq(STRING), kind : {"file", "dir", "link"}, size : Nat, holds : Nat,
                declares : [entrypoint : Seq(STRING), assets : SUBSET Seq(STRING),
                            runnable : BOOLEAN, aarch64 : BOOLEAN]] : e \in Entries
  BY <1>1, <1>2 DEF Entries
<1> QED
  BY <1>2, <1>3, PackagesAssumption

LEMMA KCard == \A S : K!Cardinality(S) = Cardinality(S)
BY DEF K!Cardinality, Cardinality

(* The blocks on disk are a sum over the files on disk.                       *)
Weights(nodes) == [p \in K!FilesOn(nodes) |-> nodes[p].size + 1]
Counting(nodes) == {g \in SumsOver(K!FilesOn(nodes), Weights(nodes)) : BytesOf(nodes) = g[K!FilesOn(nodes)]}
LEMMA BytesAreASum ==
    ASSUME NEW nodes, IsFiniteSet(DOMAIN nodes), \A p \in DOMAIN nodes : nodes[p].size \in Nat
    PROVE  Counting(nodes) /= {}
<1> DEFINE there == K!FilesOn(nodes)
           c(s) == CHOOSE x \in s : TRUE
           Sweeps(g) == g = [s \in SUBSET there |->
                             IF s = {} THEN 0 ELSE (nodes[c(s)].size + 1) + g[s \ {c(s)}]]
<1>1. IsFiniteSet(there) /\ \A p \in there : nodes[p].size + 1 \in Nat
  BY FS_Subset DEF K!FilesOn
<1>2. BytesOf(nodes) = (CHOOSE g : Sweeps(g))[there]
  BY DEF BytesOf, K!MapThenSumSet, K!MapThenFoldSet
<1> HIDE DEF there
<1>3. \E g \in [SUBSET there -> Nat] : Sweeps(g)
  <2> DEFINE op == [q \in there \X Nat |-> (nodes[q[1]].size + 1) + q[2]]
             k == [s \in (SUBSET there) \ {{}} |-> c(s)]
  <2>1. op \in [there \X Nat -> Nat]
    BY <1>1
  <2>2. \A s \in SUBSET there : s /= {} => c(s) \in s
    OBVIOUS
  <2>3. k \in Choices(there)
    <3> HIDE DEF c
    <3> QED
      BY <2>2 DEF Choices
  <2>4. PICK g \in [SUBSET there -> Nat] :
           /\ g[{}] = 0
           /\ \A s \in (SUBSET there) \ {{}} : g[s] = op[<<k[s], g[s \ {k[s]}]>>]
    <3> HIDE DEF op, k
    <3>1. FoldsOf(there, Nat, 0, op, k) /= {}
      BY <1>1, <2>1, <2>3, FoldExists
    <3> QED
      BY <3>1 DEF FoldsOf
  <2>5. ASSUME NEW s \in (SUBSET there) \ {{}}
        PROVE  g[s] = (nodes[c(s)].size + 1) + g[s \ {c(s)}]
    <3> HIDE DEF c
    <3> QED
      BY <2>2, <2>4
  <2>6. Sweeps(g)
    <3> HIDE DEF c
    <3>1. \A s \in SUBSET there :
            g[s] = IF s = {} THEN 0 ELSE (nodes[c(s)].size + 1) + g[s \ {c(s)}]
      BY <2>4, <2>5
    <3> QED
      BY <3>1
  <2> QED
    BY <2>6
<1>4. PICK g \in [SUBSET there -> Nat] : Sweeps(g)
  BY <1>3
<1>5. ASSUME NEW a, Sweeps(a) PROVE a = g
  <2> DEFINE Good == {s \in SUBSET there : a[s] = g[s]}
  <2>1. ASSUME NEW s \in SUBSET there, \A x \in s : s \ {x} \in Good PROVE s \in Good
    <3>1. s /= {} => c(s) \in s
      OBVIOUS
    <3> HIDE DEF c
    <3>2. /\ a[s] = IF s = {} THEN 0 ELSE (nodes[c(s)].size + 1) + a[s \ {c(s)}]
          /\ g[s] = IF s = {} THEN 0 ELSE (nodes[c(s)].size + 1) + g[s \ {c(s)}]
      BY <1>4, <1>5
    <3> QED
      BY <2>1, <3>1, <3>2
  <2>2. \A s \in SUBSET there : s \in Good
    <3> HIDE DEF Good
    <3> QED
      BY <1>1, <2>1, SubsetInduction
  <2>3. DOMAIN a = SUBSET there /\ DOMAIN g = SUBSET there
    BY <1>5
  <2>4. a = [s \in SUBSET there |-> a[s]] /\ g = [s \in SUBSET there |-> g[s]]
    BY <1>4, <1>5
  <2> QED
    BY <2>2, <2>4
<1>6. (CHOOSE a : Sweeps(a)) = g
  <2>1. Sweeps(CHOOSE a : Sweeps(a))
    BY <1>4
  <2> DEFINE b == CHOOSE a : Sweeps(a)
  <2> HIDE DEF b
  <2> QED
    BY <1>5, <2>1 DEF b
<1>7. g \in SumsOver(there, Weights(nodes))
  <2>1. g[{}] = 0
    BY <1>4
  <2>2. ASSUME NEW s \in (SUBSET there) \ {{}}
        PROVE  \E x \in s : g[s] = Weights(nodes)[x] + g[s \ {x}]
    <3>1. c(s) \in s
      OBVIOUS
    <3> HIDE DEF c
    <3>2. g[s] = (nodes[c(s)].size + 1) + g[s \ {c(s)}]
      BY <1>4
    <3>3. Weights(nodes)[c(s)] = nodes[c(s)].size + 1
      BY <3>1 DEF Weights, there
    <3> QED
      BY <3>1, <3>2, <3>3
  <2> QED
    BY <2>1, <2>2 DEF SumsOver
<1> QED
  BY <1>2, <1>6, <1>7 DEF there, Counting

(* One more file adds its blocks, and directories have none.                  *)
LEMMA FileAdds ==
    ASSUME NEW nodes, IsFiniteSet(DOMAIN nodes), \A p \in DOMAIN nodes : nodes[p].size \in Nat,
           NEW after, IsFiniteSet(DOMAIN after), \A p \in DOMAIN after : after[p].size \in Nat,
           NEW path, path \notin K!FilesOn(nodes),
           K!FilesOn(after) = K!FilesOn(nodes) \union {path},
           \A p \in K!FilesOn(nodes) : after[p].size = nodes[p].size
    PROVE  BytesOf(after) = BytesOf(nodes) + after[path].size + 1
<1> DEFINE S == K!FilesOn(nodes)
<1>1. IsFiniteSet(S)
  BY FS_Subset DEF K!FilesOn
<1>2. PICK g \in SumsOver(S, Weights(nodes)) : BytesOf(nodes) = g[S]
  BY BytesAreASum DEF Counting
<1>3. PICK k \in SumsOver(S \union {path}, Weights(after)) : BytesOf(after) = k[S \union {path}]
  BY BytesAreASum DEF Counting
<1>4. Weights(nodes) \in [S -> Nat] /\ Weights(after) \in [S \union {path} -> Nat]
  BY DEF Weights, K!FilesOn
<1>5. \A p \in S : Weights(nodes)[p] = Weights(after)[p]
  BY DEF Weights
<1>6. Weights(after)[path] = after[path].size + 1 /\ after[path].size \in Nat
  BY DEF Weights, K!FilesOn
<1>7. g[S] \in Nat
  BY DEF SumsOver
<1>8. k[S \union {path}] = Weights(after)[path] + g[S]
  <2> DEFINE w == Weights(nodes)
             v == Weights(after)
  <2>1. path \notin S /\ w \in [S -> Nat] /\ v \in [S \union {path} -> Nat]
    BY <1>4
  <2>2. g \in SumsOver(S, w) /\ k \in SumsOver(S \union {path}, v) /\ \A p \in S : w[p] = v[p]
    BY <1>2, <1>3, <1>5
  <2>3. k[S \union {path}] = v[path] + g[S]
    <3> DEFINE Both == S \union {path}
    <3>1. IsFiniteSet(Both)
      BY <1>1, FS_AddElement
    <3>2. Both \ {path} = S /\ S \cap Both = S /\ S \in SUBSET (S \cap Both) /\ path \in Both /\ Both \in SUBSET Both
      BY <2>1
    <3>3. v \in [Both -> Nat] /\ k \in SumsOver(Both, v) /\ \A p \in S \cap Both : w[p] = v[p]
      BY <2>1, <2>2
    <3> HIDE DEF Both, S, w, v
    <3>4. k[Both] = v[path] + k[Both \ {path}]
      BY <3>1, <3>2, <3>3, SumTakesAny
    <3>5. g[S] = k[S]
      BY <1>1, <2>1, <2>2, <3>1, <3>2, <3>3, SumsAgree
    <3> QED
      BY <3>2, <3>4, <3>5 DEF Both
  <2> QED
    BY <2>3
<1> QED
  BY <1>2, <1>3, <1>6, <1>7, <1>8

LEMMA SameFiles ==
    ASSUME NEW nodes, IsFiniteSet(DOMAIN nodes), \A p \in DOMAIN nodes : nodes[p].size \in Nat,
           NEW after, IsFiniteSet(DOMAIN after), \A p \in DOMAIN after : after[p].size \in Nat,
           K!FilesOn(after) = K!FilesOn(nodes),
           \A p \in K!FilesOn(nodes) : after[p].size = nodes[p].size
    PROVE  BytesOf(after) = BytesOf(nodes)
<1> DEFINE S == K!FilesOn(nodes)
<1>1. IsFiniteSet(S)
  BY FS_Subset DEF K!FilesOn
<1>2. PICK g \in SumsOver(S, Weights(nodes)) : BytesOf(nodes) = g[S]
  BY BytesAreASum DEF Counting
<1>3. PICK k \in SumsOver(S, Weights(after)) : BytesOf(after) = k[S]
  BY BytesAreASum DEF Counting
<1>4. Weights(nodes) \in [S -> Nat] /\ Weights(after) \in [S -> Nat]
  BY DEF Weights, K!FilesOn
<1>5. \A p \in S \cap S : Weights(nodes)[p] = Weights(after)[p]
  BY DEF Weights
<1>6. g[S] = k[S]
  <2>1. S \in SUBSET (S \cap S)
    OBVIOUS
  <2> HIDE DEF S
  <2> QED
    BY <1>1, <1>4, <1>5, <2>1, SumsAgree
<1> QED
  BY <1>2, <1>3, <1>6

(* The directories on the way to a path are sound when the path is.           *)
LEMMA ParentsAreSound ==
    ASSUME NEW path \in Paths
    PROVE  /\ IsFiniteSet(K!Parents(path)) /\ path \notin K!Parents(path)
           /\ \A p \in K!Parents(path) :
                /\ p \in Paths
                /\ K!Lexical(path) => K!Lexical(p)
                /\ ~K!Reserving(path) => ~K!Reserving(p)
<1>1. Len(path) \in Nat /\ DOMAIN path = 1..Len(path)
  BY LenProperties DEF Paths
<1>2. IsFiniteSet(K!Parents(path))
  <2> DEFINE f == [n \in 1..(Len(path) - 1) |-> SubSeq(path, 1, n)]
  <2>1. f \in Surjection(1..(Len(path) - 1), K!Parents(path))
    BY DEF Surjection, K!Parents
  <2>2. IsFiniteSet(1..(Len(path) - 1))
    BY <1>1, FS_Interval
  <2> QED
    BY <2>1, <2>2, FS_Surjection
<1>3. ASSUME NEW n \in 1..(Len(path) - 1)
      PROVE  /\ SubSeq(path, 1, n) \in Paths /\ Len(SubSeq(path, 1, n)) = n
             /\ DOMAIN SubSeq(path, 1, n) = 1..n
             /\ \A i \in 1..n : SubSeq(path, 1, n)[i] = path[i]
  <2>1. n \in Int /\ 1 <= n /\ n <= Len(path) /\ n - 1 + 1 = n /\ 1..n \subseteq 1..Len(path)
    BY <1>1
  <2>2. \A i \in 1..n : path[i] \in PathNames
    BY <2>1, ElementOfSeq DEF Paths
  <2>3. /\ SubSeq(path, 1, n) \in Seq(PathNames)
        /\ Len(SubSeq(path, 1, n)) = n
        /\ \A i \in 1..n : SubSeq(path, 1, n)[i] = path[1 + i - 1]
    BY <2>1, <2>2, SubSeqProperties
  <2>4. DOMAIN SubSeq(path, 1, n) = 1..n
    BY <2>3, LenProperties
  <2>5. \A i \in 1..n : 1 + i - 1 = i
    BY <2>1
  <2> QED
    BY <2>3, <2>4, <2>5 DEF Paths
<1>4. path \notin K!Parents(path)
  <2> SUFFICES ASSUME NEW n \in 1..(Len(path) - 1), path = SubSeq(path, 1, n) PROVE FALSE
    BY DEF K!Parents
  <2>1. Len(path) = n
    BY <1>3
  <2> QED
    BY <1>1, <2>1
<1>5. ASSUME NEW n \in 1..(Len(path) - 1)
      PROVE  /\ K!Lexical(path) => K!Lexical(SubSeq(path, 1, n))
             /\ ~K!Reserving(path) => ~K!Reserving(SubSeq(path, 1, n))
  <2>1. n \in 1..n /\ 1..n \subseteq DOMAIN path
    BY <1>1
  <2>2. SubSeq(path, 1, n) # <<>>
    BY <1>3, <2>1, EmptySeq
  <2> QED
    BY <1>3, <2>1, <2>2 DEF K!Lexical, K!Reserving
<1> QED
  BY <1>2, <1>3, <1>4, <1>5 DEF K!Parents

(* A finite set as a sequence: every element once.                            *)
LEMMA SetToSeqFacts ==
    ASSUME NEW S, IsFiniteSet(S)
    PROVE  /\ K!SetToSeq(S) \in Seq(S)
           /\ \A i, j \in DOMAIN K!SetToSeq(S) : K!SetToSeq(S)[i] = K!SetToSeq(S)[j] => i = j
           /\ {K!SetToSeq(S)[i] : i \in DOMAIN K!SetToSeq(S)} = S
<1> DEFINE n == Cardinality(S)
           Fits(f) == f \in [1..n -> S] /\ \A i, j \in DOMAIN f : f[i] = f[j] => i = j
<1>1. n \in Nat /\ ExistsBijection(1..n, S)
  BY FS_CardinalityType
<1>2. \E f : Fits(f)
  BY <1>1 DEF ExistsBijection, Bijection, Injection, IsInjective
<1>3. K!SetToSeq(S) = CHOOSE f : Fits(f)
  BY KCard DEF K!SetToSeq, K!IsInjective
<1> DEFINE s == K!SetToSeq(S)
<1> HIDE DEF s
<1>4. Fits(s)
  BY <1>2, <1>3 DEF s
<1>5. s \in Seq(S)
  BY <1>1, <1>4
<1>6. s \in Surjection(1..n, S)
  <2>1. s \in Injection(1..n, S)
    BY <1>4 DEF Injection, IsInjective
  <2>2. Cardinality(1..n) = n
    BY <1>1, FS_Interval
  <2> QED
    BY <2>1, <2>2, FS_Injection
<1>7. {s[i] : i \in DOMAIN s} = S
  BY <1>4, <1>6 DEF Surjection
<1> QED
  BY <1>4, <1>5, <1>7 DEF s

-----------------------------------------------------------------------------
SoundNodes(nodes) == IsFiniteSet(DOMAIN nodes) /\ \A p \in DOMAIN nodes : SoundNode(p, nodes[p])

(* Directories were added and nothing else.                                   *)
Grown(before, after) ==
    /\ DOMAIN before \subseteq DOMAIN after
    /\ \A p \in DOMAIN before : after[p] = before[p]
    /\ \A p \in DOMAIN after \ DOMAIN before : after[p] = K!Dir

LEMMA GrownKeeps ==
    ASSUME NEW before, SoundNodes(before), NEW after, SoundNodes(after), Grown(before, after)
    PROVE  K!FilesOn(after) = K!FilesOn(before) /\ BytesOf(after) = BytesOf(before)
<1>1. K!FilesOn(after) = K!FilesOn(before)
  BY DEF Grown, K!FilesOn, K!Dir
<1>2. \A p \in K!FilesOn(before) : after[p].size = before[p].size
  BY DEF Grown, K!FilesOn
<1> QED
  BY <1>1, <1>2, SameFiles DEF SoundNodes, SoundNode

LEMMA MakingParents ==
    ASSUME SoundNodes(out.nodes), NEW path \in Paths, K!SafeName(path)
    PROVE  /\ SoundNodes(K!WithParents(path)) /\ Grown(out.nodes, K!WithParents(path))
           /\ DOMAIN K!WithParents(path) = DOMAIN out.nodes \union K!Parents(path)
<1> DEFINE after == K!WithParents(path)
<1>1. /\ DOMAIN after = DOMAIN out.nodes \union K!Parents(path)
      /\ \A p \in DOMAIN out.nodes : after[p] = out.nodes[p]
      /\ \A p \in DOMAIN after \ DOMAIN out.nodes : after[p] = K!Dir
  BY DEF K!WithParents, K!Has
<1>2. \A p \in K!Parents(path) : SoundNode(p, K!Dir)
  BY ParentsAreSound DEF K!SafeName, SoundNode, K!Dir
<1>3. IsFiniteSet(DOMAIN after)
  BY <1>1, ParentsAreSound, FS_Union DEF SoundNodes
<1> HIDE DEF after
<1>4. SoundNodes(after) /\ Grown(out.nodes, after)
  BY <1>1, <1>2, <1>3 DEF SoundNodes, Grown
<1> QED
  BY <1>1, <1>4 DEF after

LEMMA PuttingADirectory ==
    ASSUME NEW nodes, SoundNodes(nodes), NEW path \in Paths, K!SafeName(path), path \notin DOMAIN nodes
    PROVE  /\ SoundNodes(K!Put(nodes, path, K!Dir)) /\ Grown(nodes, K!Put(nodes, path, K!Dir))
           /\ DOMAIN K!Put(nodes, path, K!Dir) = DOMAIN nodes \union {path}
<1> DEFINE after == K!Put(nodes, path, K!Dir)
<1>1. /\ DOMAIN after = DOMAIN nodes \union {path}
      /\ \A p \in DOMAIN nodes : after[p] = nodes[p]
      /\ after[path] = K!Dir
  BY DEF K!Put
<1>2. SoundNode(path, K!Dir)
  BY DEF K!SafeName, SoundNode, K!Dir
<1>3. IsFiniteSet(DOMAIN after)
  BY <1>1, FS_AddElement DEF SoundNodes
<1> HIDE DEF after
<1>4. SoundNodes(after) /\ Grown(nodes, after)
  BY <1>1, <1>2, <1>3 DEF SoundNodes, Grown
<1> QED
  BY <1>1, <1>4 DEF after

(* A file was added, with what it weighs.                                     *)
Filed(nodes, path, node) ==
    /\ SoundNodes(K!Put(nodes, path, node))
    /\ DOMAIN K!Put(nodes, path, node) = DOMAIN nodes \union {path}
    /\ K!Put(nodes, path, node)[path] = node
    /\ \A p \in DOMAIN nodes : K!Put(nodes, path, node)[p] = nodes[p]
    /\ K!FilesOn(K!Put(nodes, path, node)) = K!FilesOn(nodes) \union {path}
    /\ BytesOf(K!Put(nodes, path, node)) = BytesOf(nodes) + node.size + 1
LEMMA PuttingAFile ==
    ASSUME NEW nodes, SoundNodes(nodes), NEW path \in Paths, K!SafeName(path), path \notin DOMAIN nodes,
           NEW node, node.kind = "file", node.size \in Nat, node.size <= FileLimit
    PROVE  Filed(nodes, path, node)
<1> DEFINE after == K!Put(nodes, path, node)
<1>1. /\ DOMAIN after = DOMAIN nodes \union {path}
      /\ \A p \in DOMAIN nodes : after[p] = nodes[p]
      /\ after[path] = node
  BY DEF K!Put
<1>2. SoundNode(path, node)
  BY DEF K!SafeName, SoundNode
<1>3. IsFiniteSet(DOMAIN after)
  BY <1>1, FS_AddElement DEF SoundNodes
<1> HIDE DEF after
<1>4. SoundNodes(after)
  BY <1>1, <1>2, <1>3 DEF SoundNodes
<1>5. K!FilesOn(after) = K!FilesOn(nodes) \union {path} /\ path \notin K!FilesOn(nodes)
  BY <1>1 DEF K!FilesOn
<1>6. \A p \in K!FilesOn(nodes) : after[p].size = nodes[p].size
  BY <1>1 DEF K!FilesOn
<1>7. BytesOf(after) = BytesOf(nodes) + after[path].size + 1
  BY <1>4, <1>5, <1>6, FileAdds DEF SoundNodes, SoundNode
<1> QED
  BY <1>1, <1>4, <1>5, <1>7 DEF after, Filed

(* What one entry does: it is refused and nothing but directories is made, a  *)
(* directory is made, or a file is written.                                   *)
Refused(how) ==
    /\ how \in Refusals /\ taken' = [taken EXCEPT !.ended = how]
    /\ out' = [nodes |-> out'.nodes, executable |-> out.executable]
    /\ SoundNodes(out'.nodes) /\ Grown(out.nodes, out'.nodes)
Listed ==
    /\ taken' = [taken EXCEPT !.entries = @ + 1, !.read = @ + 1] /\ K!Room(1) >= 0
    /\ out' = [nodes |-> out'.nodes, executable |-> out.executable]
    /\ SoundNodes(out'.nodes) /\ Grown(out.nodes, out'.nodes)
Written(entry) ==
    \E n \in Nat :
       /\ n <= entry.size /\ K!Room(1) >= n /\ K!CanOpen(entry.path) /\ entry.size <= FileLimit
       /\ out' = [nodes |-> out'.nodes, executable |-> out.executable]
       /\ out'.nodes = K!Put(K!WithParents(entry.path), entry.path,
                             [kind |-> "file", size |-> n, declares |-> entry.declares])
       /\ taken' = [taken EXCEPT !.entries = @ + 1, !.read = @ + 1 + n,
                                 !.files = IF n = entry.size THEN @ + 1 ELSE @,
                                 !.names = IF n = entry.size THEN @ \union {entry.path} ELSE @,
                                 !.ended = IF n = entry.size THEN @ ELSE "Truncated"]

LEMMA GrownToItself ==
    ASSUME NEW nodes
    PROVE  Grown(nodes, nodes)
BY DEF Grown

LEMMA WritingAnEntry ==
    ASSUME PackageTypes, NodesInv, TakenInv, NEW entry \in Entries,
           K!SafeName(entry.path), entry.size <= FileLimit, K!Room(1) >= 0, K!WriteFile(entry)
    PROVE  (Refused("Io") /\ ~K!CanOpen(entry.path)) \/ Written(entry)
<1>0. SoundNodes(out.nodes) /\ out = [nodes |-> out.nodes, executable |-> out.executable]
  BY DEF PackageTypes, NodesInv, SoundNodes
<1>e. entry.path \in Paths /\ entry.size \in Nat /\ entry.holds \in Nat
  BY DEF Entries
<1>1. CASE ~K!CanOpen(entry.path)
  <2>1. taken' = [taken EXCEPT !.ended = "Io"] /\ out' = [out EXCEPT !.nodes = K!WithParents(entry.path)]
    BY <1>1 DEF K!WriteFile, K!End
  <2>2. out'.nodes = K!WithParents(entry.path) /\ out' = [nodes |-> out'.nodes, executable |-> out.executable]
    BY <1>0, <2>1
  <2>3. SoundNodes(out'.nodes) /\ Grown(out.nodes, out'.nodes)
    BY <1>0, <1>e, <2>2, MakingParents
  <2> QED
    BY <1>1, <2>1, <2>2, <2>3 DEF Refused, Refusals
<1>2. CASE K!CanOpen(entry.path)
  <2> DEFINE n == K!Min({entry.size, entry.holds, K!Room(1)})
  <2>1. n \in Nat /\ n <= entry.size /\ n <= K!Room(1)
    <3>1. K!Room(1) \in Nat
      BY PackagesAssumption DEF K!Room, PackageTypes, Tallies
    <3>2. \E x \in {entry.size, entry.holds, K!Room(1)} :
             \A y \in {entry.size, entry.holds, K!Room(1)} : x <= y
      BY <1>e, <3>1
    <3>3. /\ n \in {entry.size, entry.holds, K!Room(1)}
          /\ \A y \in {entry.size, entry.holds, K!Room(1)} : n <= y
      <4> HIDE <3>1
      <4> QED
        BY <3>2 DEF K!Min
    <3> HIDE DEF n
    <3> QED
      BY <1>e, <3>1, <3>3
  <2>2. /\ out' = [out EXCEPT !.nodes = K!Put(K!WithParents(entry.path), entry.path,
                                  [kind |-> "file", size |-> n, declares |-> entry.declares])]
        /\ taken' = [taken EXCEPT !.entries = @ + 1, !.read = @ + 1 + n,
                                  !.files = IF n = entry.size THEN @ + 1 ELSE @,
                                  !.names = IF n = entry.size THEN @ \cup {entry.path} ELSE @,
                                  !.ended = IF n = entry.size THEN @ ELSE "Truncated"]
    BY <1>2 DEF K!WriteFile
  <2> HIDE DEF n
  <2>3. /\ out'.nodes = K!Put(K!WithParents(entry.path), entry.path,
                              [kind |-> "file", size |-> n, declares |-> entry.declares])
        /\ out' = [nodes |-> out'.nodes, executable |-> out.executable]
    BY <1>0, <2>2
  <2>4. K!Room(1) >= n
    BY <2>1, PackagesAssumption DEF K!Room, PackageTypes, Tallies
  <2> QED
    BY <1>2, <2>1, <2>2, <2>3, <2>4 DEF Written
<1> QED
  BY <1>1, <1>2

LEMMA ReadingAnEntry ==
    ASSUME PackageTypes, NodesInv, TakenInv, NEW entry \in Entries, K!ReadEntry(entry)
    PROVE  \/ \E how \in Refusals :
                /\ Refused(how)
                /\ how = "Io" => entry.kind = "dir" \/ ~K!CanOpen(entry.path)
                /\ how = "UnsafePath" => ~K!SafeName(entry.path)
                /\ how = "ForbiddenEntry" => entry.kind = "link"
           \/ entry.kind = "dir" /\ Listed
           \/ entry.kind = "file" /\ K!SafeName(entry.path) /\ Written(entry)
<1>0. SoundNodes(out.nodes) /\ out = [nodes |-> out.nodes, executable |-> out.executable]
  BY DEF PackageTypes, NodesInv, SoundNodes
<1>e. entry.path \in Paths /\ entry.size \in Nat /\ entry.holds \in Nat
  BY DEF Entries
<1>q. ASSUME UNCHANGED out, NEW how \in Refusals, K!End(how) PROVE Refused(how)
  BY <1>0, <1>q, GrownToItself DEF Refused, K!End
<1>1. CASE K!Room(1) < 0
  <2>1. Refused("Malformed")
    BY <1>1, <1>q DEF K!ReadEntry, Refusals
  <2> QED
    BY <2>1 DEF Refusals
<1>2. CASE ~(K!Room(1) < 0) /\ taken.entries >= EntryLimit
  <2>1. Refused("TooManyEntries")
    BY <1>2, <1>q DEF K!ReadEntry, Refusals
  <2> QED
    BY <2>1 DEF Refusals
<1>3. CASE ~(K!Room(1) < 0) /\ ~(taken.entries >= EntryLimit) /\ ~K!SafeName(entry.path)
  <2>1. Refused("UnsafePath")
    BY <1>3, <1>q DEF K!ReadEntry, Refusals
  <2> QED
    BY <1>3, <2>1 DEF Refusals
<1>4. CASE ~(K!Room(1) < 0) /\ ~(taken.entries >= EntryLimit) /\ K!SafeName(entry.path)
  <2>0. K!Unpack(entry)
    BY <1>4 DEF K!ReadEntry
  <2>r. K!Room(1) >= 0
    BY <1>4, PackagesAssumption DEF K!Room, PackageTypes, Tallies
  <2>1. CASE entry.kind = "link" /\ K!End("ForbiddenEntry") /\ UNCHANGED out
    <3>1. Refused("ForbiddenEntry")
      BY <2>1, <1>q DEF Refusals
    <3> QED
      BY <2>1, <3>1 DEF Refusals
  <2>2. CASE entry.kind = "file" /\ entry.size > FileLimit /\ K!End("FileTooLarge") /\ UNCHANGED out
    <3>1. Refused("FileTooLarge")
      BY <2>2, <1>q DEF Refusals
    <3> QED
      BY <3>1 DEF Refusals
  <2>3. CASE entry.kind = "file" /\ entry.size <= FileLimit /\ K!WriteFile(entry)
    <3>1. (Refused("Io") /\ ~K!CanOpen(entry.path)) \/ Written(entry)
      BY <1>4, <2>3, <2>r, WritingAnEntry
    <3> QED
      BY <1>4, <2>3, <3>1 DEF Refusals
  <2>4. CASE entry.kind = "dir" /\ K!MakeDirectory(entry)
    <3>1. CASE K!End("Io") /\ UNCHANGED out
      <4>1. Refused("Io")
        BY <3>1, <1>q DEF Refusals
      <4> QED
        BY <2>4, <4>1 DEF Refusals
    <3>2. CASE /\ taken' = [taken EXCEPT !.entries = @ + 1, !.read = @ + 1]
               /\ out' = out
      <4>1. Listed
        BY <1>0, <2>r, <3>2, GrownToItself DEF Listed
      <4> QED
        BY <2>4, <4>1
    <3>3. CASE /\ taken' = [taken EXCEPT !.entries = @ + 1, !.read = @ + 1]
               /\ ~K!Has(out.nodes, entry.path)
               /\ out' = [out EXCEPT !.nodes = K!Put(out.nodes, entry.path, K!Dir)]
      <4>1. /\ out'.nodes = K!Put(out.nodes, entry.path, K!Dir)
            /\ out' = [nodes |-> out'.nodes, executable |-> out.executable]
        BY <1>0, <3>3
      <4>2. SoundNodes(out'.nodes) /\ Grown(out.nodes, out'.nodes)
        BY <1>0, <1>4, <1>e, <3>3, <4>1, PuttingADirectory DEF K!Has
      <4>3. Listed
        BY <2>r, <3>3, <4>1, <4>2 DEF Listed
      <4> QED
        BY <2>4, <4>3
    <3> QED
      BY <2>4, <3>1, <3>2, <3>3 DEF K!MakeDirectory
  <2> QED
    BY <2>0, <2>1, <2>2, <2>3, <2>4 DEF K!Unpack
<1> QED
  BY <1>1, <1>2, <1>3, <1>4

(* A refusal ends it, and neither what was read nor what was counted changes. *)
LEMMA RefusedKeeps ==
    ASSUME PackageTypes, NodesInv, TakenInv, NEW how, Refused(how)
    PROVE  /\ out' = [nodes |-> out'.nodes, executable |-> out'.executable] /\ SoundNodes(out'.nodes)
           /\ taken' \in Tallies
           /\ TakenInv' /\ OnDisk' = OnDisk /\ taken'.ended = how
<1>0. SoundNodes(out.nodes)
  BY DEF PackageTypes, NodesInv, SoundNodes
<1>1. /\ taken' \in Tallies
      /\ taken'.read = taken.read /\ taken'.ended = how
      /\ how \notin {"no", "Extracted"}
  <2>1. taken \in Tallies /\ taken' = [taken EXCEPT !.ended = how]
    BY DEF PackageTypes, Refused
  <2>2. how \in Endings /\ how \notin {"no", "Extracted"}
    BY DEF Refused, Refusals, Endings
  <2> QED
    BY <2>1, <2>2 DEF Tallies, Endings
<1>2. /\ out' = [nodes |-> out'.nodes, executable |-> out'.executable]
      /\ SoundNodes(out'.nodes) /\ Grown(out.nodes, out'.nodes)
  <2>1. out' = [nodes |-> out'.nodes, executable |-> out.executable]
    BY DEF Refused
  <2>2. out'.executable = out.executable
    BY <2>1
  <2> QED
    BY <2>1, <2>2 DEF Refused
<1>3. K!FilesOn(out'.nodes) = K!FilesOn(out.nodes) /\ BytesOf(out'.nodes) = BytesOf(out.nodes)
  BY <1>0, <1>2, GrownKeeps
<1> QED
  BY <1>1, <1>2, <1>3 DEF TakenInv, OnDisk

LEMMA ListedKeeps ==
    ASSUME PackageTypes, NodesInv, TakenInv, Listed, taken.ended = "no"
    PROVE  /\ out' = [nodes |-> out'.nodes, executable |-> out'.executable] /\ SoundNodes(out'.nodes)
           /\ taken' \in Tallies
           /\ TakenInv' /\ OnDisk' = OnDisk /\ taken'.ended = "no"
<1>0. SoundNodes(out.nodes)
  BY DEF PackageTypes, NodesInv, SoundNodes
<1>1. /\ taken' \in Tallies
      /\ taken'.read = taken.read + 1 /\ taken'.ended = "no"
      /\ taken'.names = taken.names /\ taken'.files = taken.files
      /\ taken.read \in Nat
  <2>1. taken \in Tallies /\ taken' = [taken EXCEPT !.entries = @ + 1, !.read = @ + 1]
    BY DEF PackageTypes, Listed
  <2>2. taken.entries \in Nat /\ taken.read \in Nat
    BY <2>1 DEF Tallies
  <2>3. taken' = [entries |-> taken.entries + 1, files |-> taken.files, read |-> taken.read + 1,
                  names |-> taken.names, ended |-> taken.ended]
    BY <2>1 DEF Tallies
  <2>4. taken.files \in Nat /\ taken.names \in SUBSET Paths /\ taken.ended \in Endings
    BY <2>1 DEF Tallies
  <2>5. taken' \in Tallies
    BY <2>2, <2>3, <2>4 DEF Tallies
  <2> QED
    BY <2>2, <2>3, <2>5
<1>2. /\ out' = [nodes |-> out'.nodes, executable |-> out'.executable]
      /\ SoundNodes(out'.nodes) /\ Grown(out.nodes, out'.nodes)
  <2>1. out' = [nodes |-> out'.nodes, executable |-> out.executable]
    BY DEF Listed
  <2>2. out'.executable = out.executable
    BY <2>1
  <2> QED
    BY <2>1, <2>2 DEF Listed
<1>3. K!FilesOn(out'.nodes) = K!FilesOn(out.nodes) /\ BytesOf(out'.nodes) = BytesOf(out.nodes)
  BY <1>0, <1>2, GrownKeeps
<1>4. taken'.read <= TotalLimit
  BY <1>1, PackagesAssumption DEF Listed, K!Room
<1>5. BytesOf(out.nodes) \in Nat
  <2>1. PICK g \in SumsOver(K!FilesOn(out.nodes), Weights(out.nodes)) : BytesOf(out.nodes) = g[K!FilesOn(out.nodes)]
    BY <1>0, BytesAreASum DEF Counting, SoundNodes, SoundNode
  <2> QED
    BY <2>1 DEF SumsOver
<1>6. BytesOf(out'.nodes) <= taken'.read
  BY <1>1, <1>3, <1>5 DEF TakenInv
<1>7. taken'.names = OnDisk' /\ taken'.files = Cardinality(OnDisk')
  BY <1>1, <1>3 DEF TakenInv, OnDisk
<1> QED
  BY <1>1, <1>2, <1>3, <1>4, <1>6, <1>7 DEF TakenInv, OnDisk

LEMMA WrittenKeeps ==
    ASSUME PackageTypes, NodesInv, TakenInv, taken.ended = "no",
           NEW entry \in Entries, K!SafeName(entry.path), Written(entry)
    PROVE  /\ out' = [nodes |-> out'.nodes, executable |-> out'.executable] /\ SoundNodes(out'.nodes)
           /\ taken' \in Tallies
           /\ TakenInv' /\ taken'.ended \in {"no", "Truncated"}
           /\ entry.path \notin OnDisk /\ OnDisk' = OnDisk \union {entry.path}
           /\ DOMAIN out'.nodes = DOMAIN out.nodes \union K!Through(entry.path)
           /\ out'.nodes[entry.path].declares = entry.declares
           /\ \A p \in OnDisk : out'.nodes[p] = out.nodes[p]
<1>0. SoundNodes(out.nodes)
  BY DEF PackageTypes, NodesInv, SoundNodes
<1>e. entry.path \in Paths /\ entry.size \in Nat
  BY DEF Entries
<1> DEFINE m == K!WithParents(entry.path)
           node(n) == [kind |-> "file", size |-> n, declares |-> entry.declares]
<1>1. PICK n \in Nat :
        /\ n <= entry.size /\ K!Room(1) >= n /\ K!CanOpen(entry.path) /\ entry.size <= FileLimit
        /\ out' = [nodes |-> out'.nodes, executable |-> out.executable]
        /\ out'.nodes = K!Put(m, entry.path, node(n))
        /\ taken' = [taken EXCEPT !.entries = @ + 1, !.read = @ + 1 + n,
                                  !.files = IF n = entry.size THEN @ + 1 ELSE @,
                                  !.names = IF n = entry.size THEN @ \union {entry.path} ELSE @,
                                  !.ended = IF n = entry.size THEN @ ELSE "Truncated"]
  BY DEF Written
<1>2. /\ SoundNodes(m) /\ Grown(out.nodes, m) /\ DOMAIN m = DOMAIN out.nodes \union K!Parents(entry.path)
  BY <1>0, <1>e, MakingParents
<1>3. entry.path \notin DOMAIN m
  BY <1>1, <1>2, <1>e, ParentsAreSound DEF K!CanOpen, K!Has
<1>4. n <= FileLimit
  BY <1>1, <1>e, PackagesAssumption
<1>5. K!FilesOn(m) = K!FilesOn(out.nodes) /\ BytesOf(m) = BytesOf(out.nodes)
  <2> HIDE DEF m
  <2> QED
    BY <1>0, <1>2, GrownKeeps
<1>6. /\ SoundNodes(out'.nodes) /\ DOMAIN out'.nodes = DOMAIN m \union {entry.path}
      /\ out'.nodes[entry.path] = node(n)
      /\ \A p \in DOMAIN m : out'.nodes[p] = m[p]
      /\ K!FilesOn(out'.nodes) = K!FilesOn(m) \union {entry.path}
      /\ BytesOf(out'.nodes) = BytesOf(m) + n + 1
  <2> DEFINE f == node(n)
  <2>1. f.kind = "file" /\ f.size = n /\ out'.nodes = K!Put(m, entry.path, f)
    BY <1>1
  <2> HIDE DEF m, node, f
  <2>2. Filed(m, entry.path, f)
    BY <1>2, <1>3, <1>4, <1>e, <2>1, PuttingAFile
  <2> QED
    BY <2>1, <2>2 DEF f, Filed
<1>7. /\ taken' \in Tallies
      /\ taken'.read = taken.read + 1 + n /\ taken.read \in Nat /\ taken.files \in Nat
      /\ n = entry.size => /\ taken'.ended = "no" /\ taken'.names = taken.names \union {entry.path}
                           /\ taken'.files = taken.files + 1
      /\ n # entry.size => taken'.ended = "Truncated"
  <2>1. taken \in Tallies
    BY DEF PackageTypes
  <2>2. /\ taken.entries \in Nat /\ taken.files \in Nat /\ taken.read \in Nat
        /\ taken.names \in SUBSET Paths /\ taken.ended \in Endings
    BY <2>1 DEF Tallies
  <2>3. CASE n = entry.size
    <3>1. taken' = [entries |-> taken.entries + 1, files |-> taken.files + 1, read |-> taken.read + 1 + n,
                    names |-> taken.names \union {entry.path}, ended |-> taken.ended]
      BY <1>1, <2>1, <2>3 DEF Tallies
    <3>2. taken.names \union {entry.path} \in SUBSET Paths
      BY <1>e, <2>2
    <3>3. taken' \in Tallies
      BY <2>2, <3>1, <3>2 DEF Tallies
    <3> QED
      BY <2>2, <2>3, <3>1, <3>3
  <2>4. CASE n # entry.size
    <3>1. taken' = [entries |-> taken.entries + 1, files |-> taken.files, read |-> taken.read + 1 + n,
                    names |-> taken.names, ended |-> "Truncated"]
      BY <1>1, <2>1, <2>4 DEF Tallies
    <3>2. taken' \in Tallies
      BY <2>2, <3>1 DEF Tallies, Endings
    <3> QED
      BY <2>2, <2>4, <3>1, <3>2
  <2> QED
    BY <2>3, <2>4
<1>8. out' = [nodes |-> out'.nodes, executable |-> out'.executable]
  <2>1. out'.executable = out.executable
    BY <1>1
  <2> QED
    BY <1>1, <2>1
<1>9. BytesOf(out.nodes) \in Nat
  <2>1. PICK g \in SumsOver(K!FilesOn(out.nodes), Weights(out.nodes)) : BytesOf(out.nodes) = g[K!FilesOn(out.nodes)]
    BY <1>0, BytesAreASum DEF Counting, SoundNodes, SoundNode
  <2> QED
    BY <2>1 DEF SumsOver
<1>10. taken'.read <= TotalLimit /\ BytesOf(out'.nodes) <= taken'.read
  <2>1. BytesOf(out.nodes) <= taken.read
    BY DEF TakenInv
  <2>2. BytesOf(out'.nodes) = BytesOf(out.nodes) + n + 1
    BY <1>5, <1>6
  <2>3. BytesOf(out'.nodes) <= taken'.read
    BY <1>7, <1>9, <2>1, <2>2
  <2>4. TotalLimit - (taken.read + 1) >= n
    BY <1>1 DEF K!Room
  <2>5. taken'.read <= TotalLimit
    BY <1>7, <2>4, PackagesAssumption
  <2> QED
    BY <2>3, <2>5
<1>11. entry.path \notin OnDisk /\ OnDisk' = OnDisk \union {entry.path}
  BY <1>3, <1>5, <1>6 DEF OnDisk, K!FilesOn
<1>12. n = entry.size => taken'.names = OnDisk' /\ taken'.files = Cardinality(OnDisk')
  <2>1. IsFiniteSet(OnDisk)
    BY <1>0, FS_Subset DEF SoundNodes, OnDisk, K!FilesOn
  <2>2. Cardinality(OnDisk \union {entry.path}) = Cardinality(OnDisk) + 1
    BY <1>11, <2>1, FS_AddElement
  <2> QED
    BY <1>7, <1>11, <2>2 DEF TakenInv
<1>13. TakenInv'
  BY <1>7, <1>10, <1>12 DEF TakenInv
<1>14. \A p \in OnDisk : out'.nodes[p] = out.nodes[p]
  BY <1>2, <1>6 DEF Grown, OnDisk, K!FilesOn
<1>15. DOMAIN out'.nodes = DOMAIN out.nodes \union K!Through(entry.path)
  BY <1>2, <1>6 DEF K!Through
<1>16. out'.nodes[entry.path].declares = entry.declares
  BY <1>6
<1>17. taken'.ended \in {"no", "Truncated"}
  BY <1>7
<1> QED
  BY <1>6, <1>7, <1>8, <1>11, <1>13, <1>14, <1>15, <1>16, <1>17

(* One entry of any archive.                                                  *)
LEMMA EntryKeeps ==
    ASSUME PackageTypes, NodesInv, TakenInv, taken.ended = "no",
           NEW entry \in Entries, K!ReadEntry(entry)
    PROVE  /\ out' = [nodes |-> out'.nodes, executable |-> out'.executable] /\ SoundNodes(out'.nodes)
           /\ taken' \in Tallies
           /\ TakenInv' /\ taken'.ended # "Extracted"
<1>1. ASSUME NEW how \in Refusals, Refused(how)
      PROVE  /\ out' = [nodes |-> out'.nodes, executable |-> out'.executable] /\ SoundNodes(out'.nodes)
             /\ taken' \in Tallies
             /\ TakenInv' /\ taken'.ended # "Extracted"
  <2>1. how # "Extracted"
    BY DEF Refusals
  <2> QED
    BY <1>1, <2>1, RefusedKeeps
<1> QED
  BY <1>1, ReadingAnEntry, ListedKeeps, WrittenKeeps

-----------------------------------------------------------------------------
(* What `build` puts in: files of the source tree, none of them below another.*)
LEMMA ManifestFacts ==
    /\ K!ManifestName \in Paths /\ K!SafeName(K!ManifestName)
    /\ K!NoManifest \in Sheets
<1>0. "paper.toml" \in PathNames
  BY DEF PathNames
<1> DEFINE name == <<"paper.toml">>
<1>1. name \in Seq(PathNames)
  BY <1>0, EmptySeq
<1>2. Len(name) = 1 /\ name[1] = "paper.toml"
  OBVIOUS
<1>3. DOMAIN name = 1..1
  BY <1>1, <1>2, LenProperties
<1>4. name # <<>> /\ \A i \in DOMAIN name : name[i] = "paper.toml"
  BY <1>2, <1>3
<1>5. K!ManifestName = name
  BY DEF K!ManifestName
<1> HIDE DEF name
<1>6. K!Lexical(name) /\ ~K!Reserving(name)
  BY <1>4 DEF K!Lexical, K!Reserving, K!Reserved
<1>7. K!NoManifest \in Sheets
  <2>1. <<>> \in Seq(PathNames)
    BY EmptySeq
  <2> QED
    BY <2>1 DEF K!NoManifest, Paths, Sheets
<1> QED
  BY <1>1, <1>5, <1>6, <1>7 DEF K!SafeName, Paths

LEMMA PromisedFacts ==
    ASSUME source \in Sources, Buildable, NEW path \in Promised(source)
    PROVE  /\ path \in Paths /\ K!SafeName(path)
           /\ path \in DOMAIN source.nodes /\ source.nodes[path].kind = "file"
           /\ source.nodes[path].size \in Nat
           /\ \A p \in Promised(source) : p \notin K!Parents(path)
<1>1. /\ source.manifest \in Sheets
      /\ \A p \in K!Declared(source.manifest) : K!Lexical(p)
      /\ \A p \in DOMAIN source.nodes :
           /\ source.nodes[p].size \in Nat
           /\ \A q \in K!Parents(p) \intersect DOMAIN source.nodes : source.nodes[q].kind = "dir"
  BY AssumptionFacts
<1>2. \A p \in K!Declared(source.manifest) : p \in Paths
  BY <1>1 DEF K!Declared, Sheets
<1>3. ASSUME NEW p \in Promised(source)
      PROVE  /\ p \in Paths /\ K!SafeName(p)
             /\ p \in DOMAIN source.nodes /\ source.nodes[p].kind = "file"
  <2>1. CASE p = K!ManifestName
    BY <2>1, ManifestFacts DEF Buildable, K!Readable, K!Has
  <2>2. CASE p \in K!Declared(source.manifest)
    <3>1. p \in DOMAIN source.nodes /\ K!CanAppend(p)
      BY <2>2 DEF Buildable, K!ValidPayload, K!Has
    <3> QED
      BY <1>1, <1>2, <2>2, <3>1 DEF K!CanAppend, K!SafeName
  <2> QED
    BY <2>1, <2>2 DEF Promised
<1>4. \A p \in Promised(source) : p \notin K!Parents(path)
  BY <1>1, <1>3
<1> QED
  BY <1>1, <1>3, <1>4

LEMMA EntryFacts ==
    ASSUME source \in Sources, Buildable, NEW path \in Promised(source)
    PROVE  /\ K!EntryFor(path) \in Entries /\ K!EntryFor(path).path = path
           /\ K!EntryFor(path).kind = "file" /\ K!SafeName(path)
           /\ K!EntryFor(path).declares = IF path = K!ManifestName THEN source.manifest ELSE K!NoManifest
<1>1. path \in Paths /\ source.nodes[path].size \in Nat /\ K!SafeName(path)
  BY PromisedFacts
<1>2. source.manifest \in Sheets /\ K!NoManifest \in Sheets
  BY ManifestFacts, AssumptionFacts
<1> DEFINE d == IF path = K!ManifestName THEN source.manifest ELSE K!NoManifest
<1>3. d \in Sheets
  BY <1>2
<1>4. K!EntryFor(path) = [path |-> path, kind |-> "file", size |-> source.nodes[path].size,
                          holds |-> source.nodes[path].size, declares |-> d]
  BY DEF K!EntryFor, K!SizeOf
<1> HIDE DEF d
<1>5. K!EntryFor(path) \in Entries
  BY <1>1, <1>3, <1>4 DEF Entries
<1> QED
  BY <1>1, <1>4, <1>5 DEF d

LEMMA BuiltFacts ==
    ASSUME source \in Sources, Buildable
    PROVE  /\ K!Built \in Seq(Entries)
           /\ {K!Built[i].path : i \in DOMAIN K!Built} = Promised(source)
           /\ \A i \in DOMAIN K!Built : K!Built[i] = K!EntryFor(K!Built[i].path)
           /\ K!ManifestName \notin K!Declared(source.manifest) =>
                \A i, j \in DOMAIN K!Built : K!Built[i].path = K!Built[j].path => i = j
<1> DEFINE D1 == K!Declared(source.manifest)
           ents == {K!EntryFor(p) : p \in D1}
           s == K!SetToSeq(ents)
           first == K!EntryFor(K!ManifestName)
           b == K!Built
<1>1. D1 \subseteq Promised(source) /\ K!ManifestName \in Promised(source)
      /\ Promised(source) = {K!ManifestName} \union D1
  BY DEF Promised
<1>2. /\ first \in Entries /\ first.path = K!ManifestName
      /\ \A p \in D1 : K!EntryFor(p) \in Entries /\ K!EntryFor(p).path = p
  <2> HIDE DEF D1
  <2> QED
    BY <1>1, EntryFacts
<1>3. IsFiniteSet(ents)
  <2>1. IsFiniteSet({source.manifest.entrypoint}) /\ IsFiniteSet(source.manifest.assets)
    BY PackagesAssumption, FS_Singleton
  <2>2. IsFiniteSet(D1)
    BY <2>1, FS_Union DEF K!Declared
  <2> DEFINE f == [p \in D1 |-> K!EntryFor(p)]
  <2>3. f \in Surjection(D1, ents)
    <3> HIDE DEF D1
    <3> QED
      BY DEF Surjection
  <2> HIDE DEF D1, ents, f
  <2> QED
    BY <2>2, <2>3, FS_Surjection
<1>4. /\ s \in Seq(ents) /\ {s[i] : i \in DOMAIN s} = ents
      /\ \A i, j \in DOMAIN s : s[i] = s[j] => i = j
  <2> HIDE DEF ents
  <2> QED
    BY <1>3, SetToSeqFacts
<1>5. s \in Seq(Entries) /\ Len(s) \in Nat /\ DOMAIN s = 1..Len(s)
  <2>1. ents \subseteq Entries
    BY <1>2
  <2> HIDE DEF ents, s
  <2> QED
    BY <1>4, <2>1, SeqMonotonic, LenProperties
<1>6. b = <<first>> \o s /\ <<first>> \in Seq(Entries) /\ Len(<<first>>) = 1 /\ <<first>>[1] = first
  BY <1>2 DEF K!Built
<1> HIDE DEF s, b, first
<1>7. /\ b \in Seq(Entries) /\ Len(b) = Len(s) + 1 /\ DOMAIN b = 1..(Len(s) + 1)
      /\ b[1] = first
      /\ \A i \in 1..Len(s) : b[i + 1] = s[i]
  <2>1. /\ b \in Seq(Entries) /\ Len(b) = 1 + Len(s)
        /\ \A i \in 1..(1 + Len(s)) : b[i] = IF i <= 1 THEN <<first>>[i] ELSE s[i - 1]
    BY <1>5, <1>6, ConcatProperties
  <2>2. DOMAIN b = 1..(1 + Len(s))
    BY <2>1, LenProperties
  <2>3. \A i \in 1..Len(s) : i + 1 \in 1..(1 + Len(s)) /\ ~(i + 1 <= 1) /\ i + 1 - 1 = i
    BY <1>5
  <2>4. 1 \in 1..(1 + Len(s))
    BY <1>5
  <2> QED
    BY <1>5, <1>6, <2>1, <2>2, <2>3, <2>4
<1>8. \A i \in DOMAIN b : i = 1 \/ \E j \in 1..Len(s) : i = j + 1
  <2> SUFFICES ASSUME NEW i \in 1..(Len(s) + 1), i # 1 PROVE \E j \in 1..Len(s) : i = j + 1
    BY <1>7
  <2>1. i - 1 \in 1..Len(s) /\ i = (i - 1) + 1
    BY <1>5
  <2> QED
    BY <2>1
<1>9. \A j \in 1..Len(s) : s[j].path \in D1 /\ s[j] = K!EntryFor(s[j].path)
  <2> SUFFICES ASSUME NEW j \in 1..Len(s) PROVE s[j].path \in D1 /\ s[j] = K!EntryFor(s[j].path)
    OBVIOUS
  <2>1. s[j] \in ents
    BY <1>4, <1>5
  <2>2. PICK p \in D1 : s[j] = K!EntryFor(p)
    BY <2>1
  <2> QED
    BY <1>2, <2>2
<1>10. \A i \in DOMAIN b : b[i] = K!EntryFor(b[i].path)
  BY <1>2, <1>7, <1>8, <1>9 DEF first
<1>11. {b[i].path : i \in DOMAIN b} = Promised(source)
  <2>1. ASSUME NEW i \in DOMAIN b PROVE b[i].path \in Promised(source)
    BY <1>1, <1>2, <1>7, <1>8, <1>9
  <2>2. ASSUME NEW p \in Promised(source) PROVE \E i \in DOMAIN b : b[i].path = p
    <3>1. CASE p = K!ManifestName
      <4>1. 1 \in DOMAIN b /\ b[1].path = p
        BY <1>2, <1>5, <1>7, <3>1
      <4> QED
        BY <4>1
    <3>2. CASE p \in D1
      <4>1. K!EntryFor(p) \in ents
        BY <3>2
      <4>2. PICK j \in DOMAIN s : s[j] = K!EntryFor(p)
        BY <1>4, <4>1
      <4>3. j + 1 \in DOMAIN b /\ b[j + 1] = s[j]
        BY <1>5, <1>7, <4>2
      <4>4. b[j + 1].path = p
        BY <1>2, <3>2, <4>2, <4>3
      <4> QED
        BY <4>3, <4>4
    <3> QED
      BY <1>1, <3>1, <3>2
  <2> QED
    BY <2>1, <2>2
<1>12. ASSUME K!ManifestName \notin D1, NEW i \in DOMAIN b, NEW j \in DOMAIN b, b[i].path = b[j].path
       PROVE  i = j
  <2>1. CASE i = 1 /\ j = 1
    BY <2>1
  <2>2. ASSUME NEW m \in 1..Len(s) PROVE b[m + 1].path # K!ManifestName
    BY <1>7, <1>9, <1>12
  <2>3. CASE i # 1 /\ j # 1
    <3>1. PICK m \in 1..Len(s), n \in 1..Len(s) : i = m + 1 /\ j = n + 1
      BY <1>8, <2>3
    <3>2. s[m].path = s[n].path
      BY <1>7, <1>12, <3>1
    <3>3. s[m] = s[n]
      BY <1>9, <3>2
    <3> QED
      BY <1>4, <1>5, <3>1, <3>3
  <2> QED
    BY <1>2, <1>7, <1>8, <1>12, <2>1, <2>2, <2>3
<1> QED
  BY <1>7, <1>10, <1>11, <1>12 DEF b

(* Nothing on disk is in the way of what is still to be written.              *)
LEMMA NothingInTheWay ==
    ASSUME NodesInv, source \in Sources, Buildable, InProgress, NEW path \in Left
    PROVE  K!CanOpen(path) /\ path \in Promised(source)
<1>1. path \in Promised(source) /\ path \notin OnDisk
  BY DEF InProgress
<1>2. ASSUME NEW p \in K!Parents(path), p \in DOMAIN out.nodes, p \in OnDisk PROVE FALSE
  BY <1>1, <1>2, PromisedFacts DEF InProgress
<1>3. ASSUME NEW p \in DOMAIN out.nodes, p \notin OnDisk PROVE p \notin Promised(source)
  BY <1>3, PromisedFacts DEF InProgress
<1>4. path \notin DOMAIN out.nodes
  BY <1>1, <1>3
<1> QED
  BY <1>1, <1>2, <1>4 DEF K!CanOpen, K!Has, OnDisk, K!FilesOn, NodesInv, SoundNode

LEMMA BuiltEntryKeeps ==
    ASSUME PackageTypes, NodesInv, TakenInv, taken.ended = "no", Buildable, InProgress,
           K!ManifestName \notin K!Declared(source.manifest),
           archive.entries # <<>>, K!ReadEntry(Head(archive.entries)),
           archive' = [archive EXCEPT !.entries = Tail(@)], source' = source
    PROVE  /\ taken'.ended \in {"no", "FileTooLarge", "Truncated", "Malformed", "TooManyEntries"}
           /\ taken'.ended = "no" => InProgress'
<1> DEFINE s == archive.entries
           e == Head(archive.entries)
           path == e.path
<1>1. /\ Len(s) \in Nat \ {0} /\ e = s[1] /\ e \in Entries /\ DOMAIN s = 1..Len(s)
      /\ DOMAIN Tail(s) = 1..(Len(s) - 1)
      /\ \A i \in 1..(Len(s) - 1) : Tail(s)[i] = s[i + 1]
  <2>1. s \in Seq(Entries) /\ s # <<>> /\ e = Head(s)
    BY DEF PackageTypes
  <2>2. Tail(s) \in Seq(Entries) /\ Len(Tail(s)) = Len(s) - 1 /\ Len(s) \in Nat \ {0}
    <3> HIDE DEF s
    <3> QED
      BY <2>1, TailFacts
  <2> HIDE DEF s, e
  <2> QED
    BY <2>1, <2>2, TailFacts, LenProperties
<1>2. archive'.entries = Tail(s)
  BY DEF PackageTypes
<1>3. e = K!EntryFor(path) /\ path \in Left
  BY <1>1 DEF InProgress, Left
<1>4. source \in Sources
  BY DEF PackageTypes
<1>5. K!CanOpen(path) /\ path \in Promised(source)
  <2> HIDE DEF path
  <2> QED
    BY <1>3, <1>4, NothingInTheWay
<1>6. /\ e.kind = "file" /\ K!SafeName(path)
      /\ e.declares = IF path = K!ManifestName THEN source.manifest ELSE K!NoManifest
  <2> HIDE DEF e, path
  <2> QED
    BY <1>3, <1>4, <1>5, EntryFacts
<1>7. CASE \E how \in Refusals :
             /\ Refused(how)
             /\ how = "Io" => e.kind = "dir" \/ ~K!CanOpen(path)
             /\ how = "UnsafePath" => ~K!SafeName(path)
             /\ how = "ForbiddenEntry" => e.kind = "link"
  <2>1. PICK how \in Refusals :
             /\ Refused(how)
             /\ how = "Io" => e.kind = "dir" \/ ~K!CanOpen(path)
             /\ how = "UnsafePath" => ~K!SafeName(path)
             /\ how = "ForbiddenEntry" => e.kind = "link"
    BY <1>7
  <2>2. taken'.ended = how
    BY <2>1, RefusedKeeps
  <2> HIDE DEF e, path
  <2>3. how \in {"Malformed", "TooManyEntries", "FileTooLarge"}
    BY <1>5, <1>6, <2>1 DEF Refusals
  <2> QED
    BY <2>2, <2>3
<1>8. CASE e.kind = "file" /\ K!SafeName(path) /\ Written(e)
  <2>1. /\ taken'.ended \in {"no", "Truncated"}
        /\ path \notin OnDisk /\ OnDisk' = OnDisk \union {path}
        /\ DOMAIN out'.nodes = DOMAIN out.nodes \union K!Through(path)
        /\ out'.nodes[path].declares = e.declares
        /\ \A p \in OnDisk : out'.nodes[p] = out.nodes[p]
    <3> HIDE DEF e
    <3> QED
      BY <1>1, <1>8, WrittenKeeps
  <2> DEFINE after == Tail(s)
  <2>2. /\ DOMAIN after = 1..(Len(s) - 1)
        /\ \A i \in DOMAIN after : i + 1 \in DOMAIN s /\ i + 1 # 1 /\ after[i] = s[i + 1]
    BY <1>1
  <2>3. \A i \in DOMAIN s : i = 1 \/ (i - 1 \in DOMAIN after /\ after[i - 1] = s[i])
    <3> SUFFICES ASSUME NEW i \in 1..Len(s), i # 1 PROVE i - 1 \in 1..(Len(s) - 1) /\ after[i - 1] = s[i]
      BY <1>1, <2>2
    <3>1. i - 1 \in 1..(Len(s) - 1) /\ (i - 1) + 1 = i
      BY <1>1
    <3> QED
      BY <1>1, <3>1
  <2>4. /\ \A i \in DOMAIN s : s[i] = K!EntryFor(s[i].path)
        /\ \A i, j \in DOMAIN s : s[i].path = s[j].path => i = j
        /\ s[1].path = path /\ 1 \in DOMAIN s
    BY <1>1 DEF InProgress
  <2> HIDE DEF after, s, e, path
  <2>5. \A i \in DOMAIN after : after[i] = K!EntryFor(after[i].path)
    BY <2>2, <2>4
  <2>6. \A i, j \in DOMAIN after : after[i].path = after[j].path => i = j
    <3> SUFFICES ASSUME NEW i \in DOMAIN after, NEW j \in DOMAIN after, after[i].path = after[j].path
                 PROVE  i = j
      OBVIOUS
    <3>1. i \in Nat /\ j \in Nat /\ i + 1 = j + 1
      BY <1>1, <2>2, <2>4
    <3> QED
      BY <3>1
  <2>7. Left' = Left \ {path}
    <3>1. Left' = {after[i].path : i \in DOMAIN after}
      BY <1>2 DEF Left, after
    <3>2. Left = {s[i].path : i \in DOMAIN s}
      BY DEF Left, s
    <3>3. ASSUME NEW i \in DOMAIN after PROVE after[i].path \in Left \ {path}
      BY <2>2, <2>4, <3>2
    <3>4. ASSUME NEW i \in DOMAIN s, s[i].path # path PROVE s[i].path \in Left'
      BY <2>3, <2>4, <3>1, <3>4
    <3> QED
      BY <3>1, <3>2, <3>3, <3>4
  <2>8. Left' \intersect OnDisk' = {} /\ Left' \union OnDisk' = Promised(source)
    BY <1>5, <2>1, <2>7 DEF InProgress
  <2>9. \A p \in DOMAIN out'.nodes \ OnDisk' : \E q \in Promised(source) : p \in K!Parents(q)
    BY <1>5, <2>1 DEF InProgress, K!Through
  <2>10. K!ManifestName \in OnDisk' => out'.nodes[K!ManifestName].declares = source.manifest
    BY <1>6, <2>1 DEF InProgress
  <2>11. \A i \in DOMAIN archive'.entries :
            /\ archive'.entries[i] =
                 [path |-> archive'.entries[i].path, kind |-> "file",
                  size |-> source.nodes[archive'.entries[i].path].size,
                  holds |-> source.nodes[archive'.entries[i].path].size,
                  declares |-> IF archive'.entries[i].path = K!ManifestName
                               THEN source.manifest ELSE K!NoManifest]
            /\ \A j \in DOMAIN archive'.entries :
                  archive'.entries[i].path = archive'.entries[j].path => i = j
    BY <1>2, <2>5, <2>6 DEF after, K!EntryFor, K!SizeOf
  <2>12. InProgress'
    <3>1. Promised(source)' = Promised(source)
      BY DEF Promised
    <3> QED
      BY <2>8, <2>9, <2>10, <2>11, <3>1 DEF InProgress, K!EntryFor, K!SizeOf
  <2> QED
    BY <2>1, <2>12
<1>9. ~(e.kind = "dir" /\ Listed)
  BY <1>6
<1> QED
  <2> HIDE DEF e
  <2> QED
    BY <1>1, <1>7, <1>8, <1>9, ReadingAnEntry DEF e

-----------------------------------------------------------------------------
LEMMA PackageUnmoved ==
    ASSUME PackageInv, UNCHANGED <<source, archive, out, taken>>
    PROVE  PackageInv'
BY DEF PackageInv, PackageTypes, NodesInv, TakenInv, OnDisk, BuiltInv, Buildable, InProgress, Left, Promised,
       K!AcceptedIsWhole, K!BuiltIsDeclared, K!Readable, K!CanAppend, K!EntryFor, K!SizeOf

LEMMA ArchiveBuilt ==
    ASSUME PackageInv, K!Build
    PROVE  PackageInv'
<1>1. /\ archive' = [from |-> "build", entries |-> K!Built] /\ UNCHANGED <<source, out, taken>>
      /\ archive.from = "none" /\ Buildable
  BY DEF K!Build, Buildable
<1>2. /\ source \in Sources /\ DOMAIN out.nodes = {} /\ taken.ended = "no"
  BY <1>1 DEF PackageInv, PackageTypes
<1>3. /\ K!Built \in Seq(Entries)
      /\ {K!Built[i].path : i \in DOMAIN K!Built} = Promised(source)
      /\ \A i \in DOMAIN K!Built : K!Built[i] = K!EntryFor(K!Built[i].path)
      /\ K!ManifestName \notin K!Declared(source.manifest) =>
            \A i, j \in DOMAIN K!Built : K!Built[i].path = K!Built[j].path => i = j
  BY <1>1, <1>2, BuiltFacts
<1>4. PackageTypes' /\ NodesInv' /\ TakenInv'
  BY <1>1, <1>3 DEF PackageInv, PackageTypes, NodesInv, TakenInv, OnDisk
<1>5. Buildable' /\ OnDisk' = {}
  BY <1>1, <1>2 DEF Buildable, K!Readable, K!CanAppend, OnDisk, K!FilesOn
<1>6. ASSUME K!ManifestName \notin K!Declared(source.manifest) PROVE InProgress'
  <2> DEFINE b == K!Built
  <2>1. /\ {b[i].path : i \in DOMAIN b} = Promised(source)
        /\ \A i \in DOMAIN b : b[i] = K!EntryFor(b[i].path)
        /\ \A i, j \in DOMAIN b : b[i].path = b[j].path => i = j
        /\ archive'.entries = b
    BY <1>1, <1>3, <1>6
  <2> HIDE DEF b
  <2>2. Left' = Promised(source)
    BY <2>1 DEF Left
  <2>3. \A i \in DOMAIN archive'.entries :
            /\ archive'.entries[i] =
                 [path |-> archive'.entries[i].path, kind |-> "file",
                  size |-> source.nodes[archive'.entries[i].path].size,
                  holds |-> source.nodes[archive'.entries[i].path].size,
                  declares |-> IF archive'.entries[i].path = K!ManifestName
                               THEN source.manifest ELSE K!NoManifest]
            /\ \A j \in DOMAIN archive'.entries :
                  archive'.entries[i].path = archive'.entries[j].path => i = j
    BY <2>1 DEF K!EntryFor, K!SizeOf
  <2>4. Promised(source)' = Promised(source) /\ DOMAIN out'.nodes = {}
    BY <1>1, <1>2 DEF Promised
  <2> QED
    BY <1>1, <1>5, <2>2, <2>3, <2>4 DEF InProgress, K!EntryFor, K!SizeOf
<1>7. BuiltInv'
  BY <1>1, <1>5, <1>6 DEF BuiltInv
<1>8. K!AcceptedIsWhole' /\ K!BuiltIsDeclared'
  BY <1>1, <1>2 DEF K!AcceptedIsWhole, K!BuiltIsDeclared
<1> QED
  BY <1>4, <1>7, <1>8 DEF PackageInv

LEMMA ArchiveReceived ==
    ASSUME PackageInv, K!Receive
    PROVE  PackageInv'
<1>1. /\ archive' = [archive EXCEPT !.from = "elsewhere"] /\ UNCHANGED <<source, out, taken>>
      /\ archive.from = "none"
  BY DEF K!Receive
<1>2. /\ archive' = [from |-> "elsewhere", entries |-> archive.entries] /\ taken.ended = "no"
  BY <1>1 DEF PackageInv, PackageTypes
<1> QED
  BY <1>1, <1>2 DEF PackageInv, PackageTypes, NodesInv, TakenInv, OnDisk, BuiltInv,
       K!AcceptedIsWhole, K!BuiltIsDeclared

LEMMA EntryRead ==
    ASSUME PackageInv, NEW entry \in Entries, K!ReadEntry(entry), K!Extracting,
           source' = source, archive'.from = archive.from,
           archive' = [from |-> archive'.from, entries |-> archive'.entries],
           archive'.entries \in Seq(Entries)
    PROVE  PackageTypes' /\ NodesInv' /\ TakenInv' /\ K!AcceptedIsWhole'
<1>1. taken.ended = "no" /\ archive.from # "none"
  BY DEF K!Extracting
<1>2. PackageTypes /\ NodesInv /\ TakenInv
  BY DEF PackageInv
<1>3. /\ out' = [nodes |-> out'.nodes, executable |-> out'.executable] /\ SoundNodes(out'.nodes)
      /\ taken' \in Tallies
      /\ TakenInv' /\ taken'.ended # "Extracted"
  BY <1>1, <1>2, EntryKeeps
<1>4. PackageTypes' /\ NodesInv'
  BY <1>1, <1>2, <1>3 DEF PackageTypes, NodesInv, SoundNodes
<1>5. K!AcceptedIsWhole'
  BY <1>3 DEF K!AcceptedIsWhole
<1> QED
  BY <1>3, <1>4, <1>5

LEMMA BuiltRead ==
    ASSUME PackageInv, K!ReadBuilt
    PROVE  PackageInv'
<1> DEFINE s == archive.entries
<1>1. /\ K!Extracting /\ s # <<>> /\ K!ReadEntry(Head(s)) /\ source' = source
      /\ archive' = [archive EXCEPT !.entries = Tail(@)]
  BY DEF K!ReadBuilt
<1>2. s \in Seq(Entries) /\ PackageTypes /\ NodesInv /\ TakenInv /\ taken.ended = "no"
  BY <1>1 DEF PackageInv, PackageTypes, K!Extracting
<1>3. Head(s) \in Entries /\ Tail(s) \in Seq(Entries)
  <2> HIDE DEF s
  <2> QED
    BY <1>1, <1>2, TailFacts
<1>4. archive' = [from |-> archive.from, entries |-> Tail(s)]
  BY <1>1, <1>2 DEF PackageTypes
<1>5. PackageTypes' /\ NodesInv' /\ TakenInv' /\ K!AcceptedIsWhole'
  <2>1. /\ archive'.from = archive.from
        /\ archive' = [from |-> archive'.from, entries |-> archive'.entries]
        /\ archive'.entries \in Seq(Entries)
    BY <1>3, <1>4
  <2> HIDE DEF s
  <2> QED
    BY <1>1, <1>3, <2>1, EntryRead
<1>6. CASE archive.from = "build" /\ K!ManifestName \notin K!Declared(source.manifest)
  <2>1. Buildable /\ InProgress
    BY <1>2, <1>6 DEF PackageInv, BuiltInv
  <2>2. /\ taken'.ended \in {"no", "FileTooLarge", "Truncated", "Malformed", "TooManyEntries"}
        /\ taken'.ended = "no" => InProgress'
    BY <1>1, <1>2, <1>6, <2>1, BuiltEntryKeeps
  <2>3. Buildable'
    BY <1>1, <2>1 DEF Buildable, K!Readable, K!CanAppend
  <2>4. BuiltInv'
    BY <1>1, <1>4, <2>2, <2>3 DEF BuiltInv
  <2>5. K!BuiltIsDeclared'
    BY <2>2 DEF K!BuiltIsDeclared
  <2> QED
    BY <1>5, <2>4, <2>5 DEF PackageInv
<1>7. CASE ~(archive.from = "build" /\ K!ManifestName \notin K!Declared(source.manifest))
  <2>1. BuiltInv' /\ K!BuiltIsDeclared'
    BY <1>1, <1>4, <1>7 DEF BuiltInv, K!BuiltIsDeclared
  <2> QED
    BY <1>5, <2>1 DEF PackageInv
<1> QED
  BY <1>6, <1>7

LEMMA ForeignRead ==
    ASSUME PackageInv, NEW entry \in Foreign, K!ReadForeign(entry)
    PROVE  PackageInv'
<1>1. /\ K!Extracting /\ K!ReadEntry(entry) /\ UNCHANGED <<source, archive>>
      /\ archive.from = "elsewhere" /\ entry \in Entries
  BY AssumptionFacts DEF K!ReadForeign
<1>2. /\ archive' = [from |-> archive'.from, entries |-> archive'.entries]
      /\ archive'.entries \in Seq(Entries)
  BY <1>1 DEF PackageInv, PackageTypes
<1>3. PackageTypes' /\ NodesInv' /\ TakenInv' /\ K!AcceptedIsWhole'
  BY <1>1, <1>2, EntryRead
<1>4. BuiltInv' /\ K!BuiltIsDeclared'
  BY <1>1 DEF BuiltInv, K!BuiltIsDeclared
<1> QED
  BY <1>3, <1>4 DEF PackageInv

(* Extraction ends: accepted only when the files on disk are what the         *)
(* manifest among them declares.                                              *)
LEMMA ExtractionEnds ==
    ASSUME PackageInv, K!Finish
    PROVE  PackageInv'
<1> DEFINE m == IF K!ManifestName \in taken.names THEN out.nodes[K!ManifestName].declares ELSE K!NoManifest
<1>1. /\ K!Extracting /\ archive.entries = <<>> /\ UNCHANGED <<source, archive>>
      /\ \/ /\ K!FinishAllows(m) /\ taken' = [taken EXCEPT !.ended = "Extracted"]
            /\ out' = [out EXCEPT !.executable = {m.entrypoint}]
         \/ ~K!FinishAllows(m) /\ taken' = [taken EXCEPT !.ended = "Payload"] /\ out' = out
  BY DEF K!Finish, K!End
<1>2. /\ PackageTypes /\ NodesInv /\ TakenInv /\ taken.ended = "no" /\ archive.from # "none"
  BY <1>1 DEF PackageInv, K!Extracting
<1>3. taken.names = OnDisk /\ taken.files = Cardinality(OnDisk)
  BY <1>2 DEF TakenInv
<1>4. /\ taken'.ended = IF K!FinishAllows(m) THEN "Extracted" ELSE "Payload"
      /\ taken'.read = taken.read /\ taken'.names = taken.names /\ taken'.files = taken.files
      /\ taken' \in Tallies
  <2> HIDE DEF m
  <2>1. taken \in Tallies
    BY <1>2 DEF PackageTypes
  <2> QED
    BY <1>1, <2>1 DEF Tallies, Endings
<1>5. /\ out'.nodes = out.nodes /\ out' = [nodes |-> out'.nodes, executable |-> out'.executable]
      /\ K!FinishAllows(m) => out'.executable = {m.entrypoint}
  <2> HIDE DEF m
  <2>1. out = [nodes |-> out.nodes, executable |-> out.executable]
    BY <1>2 DEF PackageTypes
  <2> QED
    BY <1>1, <2>1
<1>6. PackageTypes' /\ NodesInv' /\ TakenInv'
  <2> HIDE DEF m
  <2> QED
    BY <1>1, <1>2, <1>3, <1>4, <1>5 DEF PackageTypes, NodesInv, TakenInv, OnDisk
<1>7. BuiltInv'
  <2> HIDE DEF m
  <2>1. Buildable' = Buildable /\ taken'.ended # "no"
    BY <1>1, <1>4 DEF Buildable, K!Readable, K!CanAppend
  <2> QED
    BY <1>1, <2>1 DEF PackageInv, BuiltInv
<1>8. K!AcceptedIsWhole'
  <2> SUFFICES ASSUME K!FinishAllows(m)
               PROVE  /\ K!ValidPayload(out.nodes, out.nodes[K!ManifestName].declares)
                      /\ {m.entrypoint} \subseteq K!FilesOn(out.nodes) /\ {m.entrypoint} # {}
                      /\ taken.files = K!Cardinality(K!FilesOn(out.nodes))
    <3> HIDE DEF m
    <3>1. taken'.ended = "Extracted" <=> K!FinishAllows(m)
      BY <1>4
    <3> QED
      BY <1>4, <1>5, <3>1 DEF K!AcceptedIsWhole, K!Cardinality
  <2>1. m = out.nodes[K!ManifestName].declares /\ K!ValidPayload(out.nodes, m)
    BY DEF K!FinishAllows
  <2>2. m.entrypoint \in K!FilesOn(out.nodes)
    <3> HIDE DEF m
    <3> QED
      BY <2>1 DEF K!ValidPayload, K!Declared, K!Has, K!FilesOn
  <2> QED
    BY <1>3, <2>1, <2>2, KCard DEF OnDisk
<1>9. ASSUME archive.from = "build", K!ManifestName \notin K!Declared(source.manifest)
      PROVE  K!FinishAllows(m) /\ K!FilesOn(out.nodes) = Promised(source)
  <2>1. InProgress
    BY <1>2, <1>9 DEF PackageInv, BuiltInv
  <2>2. Left = {}
    BY <1>1 DEF Left
  <2>3. OnDisk = Promised(source) /\ K!ManifestName \in OnDisk
    BY <2>1, <2>2 DEF InProgress, Promised
  <2>4. m = source.manifest
    BY <1>3, <2>1, <2>3 DEF InProgress
  <2>5. m # K!NoManifest
    <3>1. K!Lexical(source.manifest.entrypoint)
      BY <1>2, AssumptionFacts DEF PackageTypes, K!Declared
    <3>2. K!NoManifest.entrypoint = <<>>
      BY DEF K!NoManifest
    <3> HIDE DEF m
    <3> QED
      BY <2>4, <3>1, <3>2 DEF K!Lexical
  <2>6. K!ValidPayload(out.nodes, source.manifest)
    <3>1. \A p \in K!Declared(source.manifest) : p \in OnDisk
      BY <2>3 DEF Promised
    <3>2. \A p \in DOMAIN out.nodes : out.nodes[p].kind # "link"
      BY <1>2 DEF NodesInv, SoundNode
    <3> QED
      BY <3>1, <3>2 DEF K!ValidPayload, K!NoLinks, K!Has, K!Declared, OnDisk, K!FilesOn
  <2> HIDE DEF m
  <2> QED
    BY <2>3, <2>4, <2>5, <2>6 DEF K!FinishAllows, OnDisk
<1>10. K!BuiltIsDeclared'
  <2> HIDE DEF m
  <2> QED
    BY <1>1, <1>4, <1>5, <1>9 DEF K!BuiltIsDeclared, Promised
<1> QED
  BY <1>6, <1>7, <1>8, <1>10 DEF PackageInv

LEMMA PackageStep ==
    ASSUME PackageInv, K!PackagingNext
    PROVE  PackageInv'
BY PackageUnmoved, ArchiveBuilt, ArchiveReceived, BuiltRead, ForeignRead, ExtractionEnds
   DEF K!PackagingNext, K!Check

LEMMA PackageInit ==
    ASSUME Init
    PROVE  PackageInv
<1>1. K!PackagingInit
  BY DEF Init
<1>2. /\ source \in Sources
      /\ archive = [from |-> "none", entries |-> <<>>]
      /\ out = [nodes |-> <<>>, executable |-> {}]
      /\ taken = [entries |-> 0, files |-> 0, read |-> 0, names |-> {}, ended |-> "no"]
  BY <1>1 DEF K!PackagingInit
<1>3. DOMAIN out.nodes = {} /\ OnDisk = {} /\ SoundNodes(out.nodes)
  BY <1>2, FS_EmptySet DEF OnDisk, K!FilesOn, SoundNodes
<1>4. BytesOf(out.nodes) = 0
  <2>1. PICK g \in SumsOver(K!FilesOn(out.nodes), Weights(out.nodes)) : BytesOf(out.nodes) = g[K!FilesOn(out.nodes)]
    BY <1>3, BytesAreASum DEF Counting, SoundNodes
  <2> QED
    BY <1>3, <2>1 DEF SumsOver, OnDisk
<1>5. PackageTypes
  <2>1. <<>> \in Seq(Entries)
    BY EmptySeq
  <2>2. taken \in Tallies
    BY <1>2 DEF Tallies, Endings
  <2>3. archive.from = "none" /\ archive.entries = <<>> /\ taken.ended = "no"
    BY <1>2
  <2> QED
    BY <1>2, <1>3, <2>1, <2>2, <2>3 DEF PackageTypes, SoundNodes
<1>6. TakenInv
  BY <1>2, <1>3, <1>4, FS_EmptySet, PackagesAssumption DEF TakenInv
<1>7. NodesInv /\ BuiltInv /\ K!AcceptedIsWhole /\ K!BuiltIsDeclared
  BY <1>2, <1>3 DEF NodesInv, BuiltInv, K!AcceptedIsWhole, K!BuiltIsDeclared
<1> QED
  BY <1>5, <1>6, <1>7 DEF PackageInv

LEMMA PackageSound ==
    ASSUME PackageInv
    PROVE  PackagingIsSound
<1>1. K!NothingEscapes
  BY DEF PackageInv, NodesInv, SoundNode, K!NothingEscapes
<1>2. K!DiskIsBounded
  <2>1. SoundNodes(out.nodes) /\ taken.read \in Nat
    BY DEF PackageInv, PackageTypes, NodesInv, SoundNodes, Tallies
  <2>2. BytesOf(out.nodes) \in Nat
    <3>1. PICK g \in SumsOver(K!FilesOn(out.nodes), Weights(out.nodes)) :
             BytesOf(out.nodes) = g[K!FilesOn(out.nodes)]
      BY <2>1, BytesAreASum DEF Counting, SoundNodes, SoundNode
    <3> QED
      BY <3>1 DEF SumsOver
  <2>3. BytesOf(out.nodes) <= TotalLimit
    BY <2>1, <2>2, PackagesAssumption DEF PackageInv, TakenInv
  <2>4. K!BytesOut = BytesOf(out.nodes)
    BY DEF K!BytesOut, BytesOf
  <2> QED
    BY <2>3, <2>4 DEF PackageInv, NodesInv, SoundNode, K!DiskIsBounded, K!FilesOn
<1> QED
  BY <1>1, <1>2 DEF PackagingIsSound, PackageInv

(* For any source trees, any entries an archive made elsewhere may hold and   *)
(* any limits: nothing is written outside the destination, disk use is        *)
(* bounded at every moment, an accepted archive is whole and what is built    *)
(* is what the manifest declares (archive.rs build and extract_tree).         *)
THEOREM PackagesAreSound == Spec => []PackagingIsSound
<1>1. Init => PackageInv
  BY PackageInit
<1>2. PackageInv /\ [Next]_vars => PackageInv'
  BY PackageStep, PackageUnmoved DEF Next, vars, packaging
<1>3. PackageInv => PackagingIsSound
  BY PackageSound
<1> QED
  BY <1>1, <1>2, <1>3, PTL DEF Spec
=============================================================================
