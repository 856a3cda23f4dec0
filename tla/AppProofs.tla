------------------------------ MODULE AppProofs ------------------------------
(***************************************************************************)
(* What Settings, the App Store and Home show is what the store, the       *)
(* workers and the battery are, for any apps, reads and budgets; and what  *)
(* Chess and Sudoku keep is the game, for any engine and any stream.       *)
(***************************************************************************)
EXTENDS MCApps, FiniteSetTheorems, WellFoundedInduction, TLAPS

(* Induction over the subsets of a finite set, for a property given by the    *)
(* set of the subsets that have it.                                           *)
LEMMA SubsetInduction ==
    ASSUME NEW S, IsFiniteSet(S), NEW Good,
           \A s \in SUBSET S : (\A x \in s : s \ {x} \in Good) => s \in Good
    PROVE  \A s \in SUBSET S : s \in Good
  <1> DEFINE Bad == {s \in SUBSET S : s \notin Good}
  <1>1. SUFFICES ASSUME Bad /= {} PROVE FALSE
    OBVIOUS
  <1>2. Bad \subseteq FiniteSubsetsOf(S)
    BY FS_Subset DEF FiniteSubsetsOf
  <1>3. PICK s \in Bad : \A t \in Bad : <<t, s>> \notin StrictSubsetOrdering(S)
    <2> HIDE DEF Bad
    <2> QED
      BY <1>1, <1>2, FS_StrictSubsetOrderingWellFounded, WFMin
  <1>4. \A x \in s : s \ {x} \notin Bad
    <2> SUFFICES ASSUME NEW x \in s, s \ {x} \in Bad PROVE FALSE
      OBVIOUS
    <2>1. s \ {x} \in SUBSET S /\ s \in SUBSET S /\ s \ {x} /= s
      OBVIOUS
    <2>2. <<s \ {x}, s>> \in StrictSubsetOrdering(S)
      BY <2>1 DEF StrictSubsetOrdering
    <2> QED
      BY <1>3, <2>2
  <1> QED
    BY <1>3, <1>4

(* Induction over the natural numbers, for a property given the same way. *)
LEMMA NumberInduction ==
    ASSUME NEW Good, 0 \in Good, \A n \in Nat : n \in Good => n + 1 \in Good
    PROVE  \A n \in Nat : n \in Good
  <1> DEFINE Bad == {n \in Nat : n \notin Good}
  <1>1. SUFFICES ASSUME Bad /= {} PROVE FALSE
    OBVIOUS
  <1>2. PICK n \in Bad : \A m \in Bad : <<m, n>> \notin OpToRel(<, Nat)
    <2>1. Bad \subseteq Nat
      OBVIOUS
    <2> HIDE DEF Bad
    <2> QED
      BY <1>1, <2>1, NatLessThanWellFounded, WFMin
  <1>3. n \in Nat /\ n /= 0 /\ n \notin Good
    OBVIOUS
  <1>4. n - 1 \in Nat /\ n - 1 < n /\ (n - 1) + 1 = n
    BY <1>3
  <1>5. <<n - 1, n>> \in OpToRel(<, Nat)
    BY <1>3, <1>4 DEF OpToRel
  <1>6. n - 1 \in Good
    BY <1>2, <1>4, <1>5
  <1> QED
    BY <1>3, <1>4, <1>6


(* What a queue holds after something joins it at the end, *)
LEMMA Joined ==
    ASSUME NEW S, NEW s \in Seq(S), NEW e \in S
    PROVE  /\ Append(s, e) \in Seq(S) /\ Len(Append(s, e)) = Len(s) + 1 /\ Len(s) \in Nat
           /\ Append(s, e)[Len(s) + 1] = e
           /\ \A i \in 1..Len(s) : Append(s, e)[i] = s[i]
  OBVIOUS

(* and after the first leaves. *)
LEMMA Left ==
    ASSUME NEW S, NEW s \in Seq(S), s # <<>>
    PROVE  /\ Tail(s) \in Seq(S) /\ Len(s) \in Nat \ {0} /\ Len(Tail(s)) = Len(s) - 1
           /\ Head(s) = s[1] /\ Head(s) \in S
           /\ \A i \in 1..Len(s) : s[i] \in S
           /\ \A i \in 1..(Len(s) - 1) : Tail(s)[i] = s[i + 1]
  OBVIOUS

(* Two queues one after the other. *)
LEMMA Chained ==
    ASSUME NEW S, NEW s \in Seq(S), NEW t \in Seq(S)
    PROVE  /\ s \o t \in Seq(S) /\ Len(s \o t) = Len(s) + Len(t) /\ Len(s) \in Nat /\ Len(t) \in Nat
           /\ \A i \in 1..Len(s) : (s \o t)[i] = s[i]
           /\ \A i \in 1..Len(t) : (s \o t)[Len(s) + i] = t[i]
  OBVIOUS

---------------------------------------------------------------------------
(* Home *)

Bars == [pressed : Tiles \union {0}, battery : Int]
Homes == [pressed : Tiles \union {0}, battery : Int, asked : BOOLEAN, drawn : Bars, due : BOOLEAN]
HomeTypes ==
    /\ home \in Homes
    /\ line \in [queries : Nat, back : Seq(Int)]
    /\ power \in Int
    /\ host \in [last : Int, sent : Nat]

\* Of those who know b and are sent s, 0 being no reading, the last they hear is v.
Hear(s, b, v) ==
    \/ v = b /\ \A i \in 1..Len(s) : s[i] = 0
    \/ v # 0 /\ \E i \in 1..Len(s) : s[i] = v /\ \A j \in 1..Len(s) : j > i => s[j] = 0

LEMMA HearNothing ==
    ASSUME NEW s \in Seq(Int), NEW b \in Int, NEW v \in Int, Hear(s, b, v)
    PROVE  Hear(Append(s, 0), b, v)
  <1> DEFINE t == Append(s, 0)
  <1>1. /\ Len(t) = Len(s) + 1 /\ Len(s) \in Nat /\ t[Len(s) + 1] = 0
        /\ \A i \in 1..Len(s) : t[i] = s[i]
    BY Joined
  <1> HIDE DEF t
  <1>2. CASE v = b /\ \A i \in 1..Len(s) : s[i] = 0
    <2>1. \A i \in 1..Len(t) : t[i] = 0
      BY <1>1, <1>2
    <2> QED
      BY <1>2, <2>1 DEF Hear, t
  <1>3. ASSUME v # 0, NEW i \in 1..Len(s), s[i] = v, \A j \in 1..Len(s) : j > i => s[j] = 0
        PROVE  Hear(t, b, v)
    <2>1. i \in 1..Len(t) /\ t[i] = v
      BY <1>1, <1>3
    <2>2. \A j \in 1..Len(t) : j > i => t[j] = 0
      BY <1>1, <1>3
    <2> QED
      BY <1>3, <2>1, <2>2 DEF Hear
  <1> QED
    BY <1>2, <1>3 DEF Hear, t

LEMMA HearLast ==
    ASSUME NEW s \in Seq(Int), NEW b \in Int, NEW v \in Int, v # 0
    PROVE  Hear(Append(s, v), b, v)
  <1> DEFINE t == Append(s, v)
  <1>1. Len(t) = Len(s) + 1 /\ Len(s) \in Nat /\ t[Len(s) + 1] = v
    BY Joined
  <1> HIDE DEF t
  <1>2. Len(s) + 1 \in 1..Len(t) /\ \A j \in 1..Len(t) : j > Len(s) + 1 => t[j] = 0
    BY <1>1
  <1> QED
    BY <1>1, <1>2 DEF Hear, t

LEMMA HearFirst ==
    ASSUME NEW s \in Seq(Int), s # <<>>, NEW b \in Int, NEW v \in Int, Hear(s, b, v)
    PROVE  Hear(Tail(s), IF Head(s) = 0 THEN b ELSE Head(s), v)
  <1> DEFINE t == Tail(s)
             c == IF Head(s) = 0 THEN b ELSE Head(s)
  <1>1. /\ Len(s) \in Nat \ {0} /\ Len(t) = Len(s) - 1 /\ Head(s) = s[1]
        /\ \A i \in 1..(Len(s) - 1) : t[i] = s[i + 1]
    BY Left
  <1>2. c = IF s[1] = 0 THEN b ELSE s[1]
    BY <1>1
  <1> HIDE DEF t, c
  <1>3. CASE v = b /\ \A i \in 1..Len(s) : s[i] = 0
    <2>1. \A i \in 1..Len(t) : t[i] = 0
      BY <1>1, <1>3
    <2>2. c = b
      BY <1>1, <1>2, <1>3
    <2> QED
      BY <1>3, <2>1, <2>2 DEF Hear, t, c
  <1>4. ASSUME v # 0, NEW i \in 1..Len(s), s[i] = v, \A j \in 1..Len(s) : j > i => s[j] = 0
        PROVE  Hear(t, c, v)
    <2>1. \A j \in 1..Len(t) : j > i - 1 => t[j] = 0
      BY <1>1, <1>4
    <2>2. CASE i = 1
      <3>1. c = v /\ \A j \in 1..Len(t) : t[j] = 0
        BY <1>1, <1>2, <1>4, <2>1, <2>2
      <3> QED
        BY <3>1 DEF Hear
    <2>3. CASE i # 1
      <3>1. i - 1 \in 1..Len(t) /\ t[i - 1] = v
        BY <1>1, <1>4, <2>3
      <3> QED
        BY <1>4, <2>1, <3>1 DEF Hear
    <2> QED
      BY <2>2, <2>3
  <1> QED
    BY <1>3, <1>4 DEF Hear, t, c

HomeInv ==
    /\ HomeTypes
    /\ Hear(line.back, home.battery, host.last)
    /\ H!LitMeansTouched
    /\ ~home.due => home.drawn.battery = home.battery

LEMMA HomeInit == H!HomeInit => HomeInv
  BY DEF H!HomeInit, HomeInv, HomeTypes, Homes, Bars, Hear, H!LitMeansTouched

\* A step that sends nothing, and leaves what Home knows and what it shows.
LEMMA HomeKeeps ==
    ASSUME HomeInv, HomeTypes', line'.back = line.back, host'.last = host.last,
           home'.battery = home.battery, home'.drawn = home.drawn, home.due => home'.due,
           H!LitMeansTouched'
    PROVE  HomeInv'
  BY DEF HomeInv

LEMMA HomeStep ==
    ASSUME HomeInv, H!HomeNext
    PROVE  HomeInv'
  <1>0. /\ home \in Homes /\ line \in [queries : Nat, back : Seq(Int)] /\ power \in Int
        /\ host \in [last : Int, sent : Nat] /\ line.back \in Seq(Int)
        /\ home.battery \in Int /\ host.last \in Int /\ home.due \in BOOLEAN
        /\ Hear(line.back, home.battery, host.last) /\ H!LitMeansTouched
        /\ ~home.due => home.drawn.battery = home.battery
    BY DEF HomeInv, HomeTypes, Homes
  <1>1. CASE H!Draw
    <2>1. H!Drawn \in Bars /\ H!Drawn.battery = home.battery
      BY <1>0 DEF H!Drawn, H!TileDrawn, Homes, Bars
    <2>2. home' = [home EXCEPT !.asked = TRUE, !.due = FALSE, !.drawn = H!Drawn]
      BY <1>1 DEF H!Draw
    <2>3. /\ home' \in Homes
          /\ home'.pressed = home.pressed /\ home'.battery = home.battery /\ home'.drawn = H!Drawn
      BY <1>0, <2>1, <2>2 DEF Homes
    <2>4. line' \in [queries : Nat, back : Seq(Int)] /\ line'.back = line.back
      <3>1. CASE home.asked
        BY <1>0, <1>1, <3>1 DEF H!Draw
      <3>2. CASE ~home.asked
        <4>1. line' = [line EXCEPT !.queries = @ + 1]
          BY <1>1, <3>2 DEF H!Draw
        <4> QED
          BY <1>0, <4>1
      <3> QED
        BY <3>1, <3>2
    <2>5. UNCHANGED <<down, power, host>>
      BY <1>1 DEF H!Draw
    <2> QED
      BY <1>0, <2>1, <2>3, <2>4, <2>5 DEF H!LitMeansTouched, HomeInv, HomeTypes
  <1>2. CASE H!SecondPasses
    <2>1. UNCHANGED <<home, down, line, power>> /\ host' = [host EXCEPT !.sent = 0]
      BY <1>2 DEF H!SecondPasses
    <2>2. host' \in [last : Int, sent : Nat] /\ host'.last = host.last
      BY <1>0, <2>1
    <2> QED
      BY <1>0, <2>1, <2>2, HomeKeeps DEF HomeTypes, H!LitMeansTouched
  <1>3. CASE H!Answer
    <2> DEFINE told == H!Allow /\ power # 0
    <2>1. UNCHANGED <<home, down, power>> /\ line.queries > 0
      BY <1>3 DEF H!Answer
    <2>2. /\ line' = [queries |-> line.queries - 1,
                      back |-> Append(line.back, IF told THEN power ELSE 0)]
          /\ host' = [last |-> IF told THEN power ELSE host.last,
                      sent |-> IF H!Allow THEN host.sent + 1 ELSE host.sent]
      BY <1>3 DEF H!Answer
    <2>3. CASE told
      <3>1. line'.back = Append(line.back, power) /\ host'.last = power /\ power # 0
        BY <2>2, <2>3
      <3>2. Hear(line'.back, home'.battery, host'.last)
        BY <1>0, <2>1, <3>1, HearLast
      <3>3. line' \in [queries : Nat, back : Seq(Int)] /\ host' \in [last : Int, sent : Nat]
        BY <1>0, <2>1, <2>2, <2>3, Joined
      <3> QED
        BY <1>0, <2>1, <3>2, <3>3 DEF H!LitMeansTouched, HomeInv, HomeTypes
    <2>4. CASE ~told
      <3>1. line'.back = Append(line.back, 0) /\ host'.last = host.last
        BY <2>2, <2>4
      <3>2. Hear(line'.back, home'.battery, host'.last)
        BY <1>0, <2>1, <3>1, HearNothing
      <3>3. line' \in [queries : Nat, back : Seq(Int)] /\ host' \in [last : Int, sent : Nat]
        BY <1>0, <2>1, <2>2, <2>4, Joined
      <3> QED
        BY <1>0, <2>1, <3>2, <3>3 DEF H!LitMeansTouched, HomeInv, HomeTypes
    <2> QED
      BY <2>3, <2>4
  <1>4. CASE H!Announce
    <2>1. /\ line' = [line EXCEPT !.back = Append(@, power)] /\ host' = [host EXCEPT !.last = power]
          /\ UNCHANGED <<home, down, power>> /\ power # 0
      BY <1>4 DEF H!Announce, H!Changes
    <2>2. line' \in [queries : Nat, back : Seq(Int)] /\ line'.back = Append(line.back, power)
      BY <1>0, <2>1, Joined
    <2>3. host' \in [last : Int, sent : Nat] /\ host'.last = power
      BY <1>0, <2>1
    <2>4. Hear(line'.back, home'.battery, host'.last)
      BY <1>0, <2>1, <2>2, <2>3, HearLast
    <2> QED
      BY <1>0, <2>1, <2>2, <2>3, <2>4 DEF H!LitMeansTouched, HomeInv, HomeTypes
  <1>5. CASE H!ReceiveFact
    <2> DEFINE fact == Head(line.back)
    <2>1. /\ line.back # <<>> /\ line' = [line EXCEPT !.back = Tail(@)]
          /\ home' = (IF fact = 0 THEN home ELSE [home EXCEPT !.battery = fact, !.due = TRUE])
          /\ UNCHANGED <<host, down, power>>
      BY <1>5 DEF H!ReceiveFact
    <2>2. Tail(line.back) \in Seq(Int) /\ fact \in Int
      BY <1>0, <2>1, Left
    <2>3. line' \in [queries : Nat, back : Seq(Int)] /\ line'.back = Tail(line.back)
      BY <1>0, <2>1, <2>2
    <2>4. Hear(Tail(line.back), IF fact = 0 THEN home.battery ELSE fact, host.last)
      BY <1>0, <2>1, HearFirst
    <2>5. CASE fact = 0
      <3>1. home' = home
        BY <2>1, <2>5
      <3>2. Hear(Tail(line.back), home.battery, host.last)
        BY <2>4, <2>5
      <3> QED
        BY <1>0, <2>1, <2>3, <3>1, <3>2 DEF H!LitMeansTouched, HomeInv, HomeTypes
    <2>6. CASE fact # 0
      <3>1. home' = [home EXCEPT !.battery = fact, !.due = TRUE]
        BY <2>1, <2>6
      <3> HIDE DEF fact
      <3>2. /\ home' \in Homes /\ home'.due = TRUE /\ home'.battery = fact
            /\ home'.pressed = home.pressed
        BY <1>0, <2>2, <3>1 DEF Homes
      <3>3. Hear(Tail(line.back), fact, host.last)
        BY <2>4, <2>6
      <3> QED
        BY <1>0, <2>1, <2>3, <3>2, <3>3 DEF H!LitMeansTouched, HomeInv, HomeTypes
    <2> QED
      BY <2>5, <2>6
  <1>6. ASSUME NEW value \in 0..2, H!BatteryReads(value) PROVE HomeInv'
    <2>1. UNCHANGED <<home, down, line, host>> /\ power' = value
      BY <1>6 DEF H!BatteryReads
    <2> QED
      BY <1>0, <2>1, HomeKeeps DEF HomeTypes, H!LitMeansTouched
  <1>7. ASSUME NEW place \in Tiles \union {0}, NEW due \in BOOLEAN,
               home' = [home EXCEPT !.pressed = place, !.due = due],
               UNCHANGED <<line, power, host>>, home.due => due,
               down' = {} => place = 0
        PROVE  HomeInv'
    <2>1. /\ home' \in Homes /\ home'.battery = home.battery /\ home'.drawn = home.drawn
          /\ home'.due = due /\ home'.pressed = place
      BY <1>0, <1>7 DEF Homes
    <2> QED
      BY <1>0, <1>7, <2>1, HomeKeeps DEF HomeTypes, H!LitMeansTouched
  <1>8. ASSUME NEW finger \in Fingers, H!PointerCancelled(finger) PROVE HomeInv'
    BY <1>7, <1>8 DEF H!PointerCancelled, H!Cancel
  <1>9. ASSUME NEW finger \in Fingers, NEW place \in H!Places, H!PointerDown(finger, place) PROVE HomeInv'
    BY <1>0, <1>7, <1>9 DEF H!PointerDown, H!Light, H!Places
  <1>10. ASSUME NEW finger \in Fingers, NEW place \in H!Places, H!PointerMoved(finger, place) PROVE HomeInv'
    BY <1>0, <1>7, <1>10 DEF H!PointerMoved, H!Light, H!Places
  <1>11. ASSUME NEW finger \in Fingers, NEW place \in H!Places, H!PointerUp(finger, place) PROVE HomeInv'
    BY <1>0, <1>7, <1>11 DEF H!PointerUp, H!Places
  <1> QED
    BY <1>1, <1>2, <1>3, <1>4, <1>5, <1>6, <1>8, <1>9, <1>10, <1>11 DEF H!HomeNext

LEMMA HomeSound == HomeInv => H!LitMeansTouched /\ H!BatteryIsCurrent
  <1> SUFFICES ASSUME HomeInv PROVE H!LitMeansTouched /\ H!BatteryIsCurrent
    OBVIOUS
  <1>1. SUFFICES ASSUME line = [queries |-> 0, back |-> <<>>], ~H!Changes, ~home.due, power # 0
                 PROVE  home.drawn.battery = power
    BY DEF HomeInv, H!BatteryIsCurrent
  <1>2. line.back = <<>> /\ host.last = power
    BY <1>1 DEF H!Changes
  <1> QED
    BY <1>1, <1>2 DEF HomeInv, Hear

---------------------------------------------------------------------------
(* Settings *)

\* STRING, with the strings the module names.
Names == STRING \union {"none", "Rollback", "Uninstall", "InstalledApps"} \union E!Pages

Releases == [active : Int, previous : Int]
Dialogs == [kind : Names, returns : Int]
Frames == [page : Names, confirming : BOOLEAN]
Answers == [kind : Names, denied : BOOLEAN, apps : Releases]
Shows == [page : Names, content : Releases, dialog : Dialogs]
Glasses == [shows : Shows, due : BOOLEAN, heard : {"nothing", "answers"}]
SettingsTypes ==
    /\ panel \in [page : E!Pages, apps : Releases, pending : Dialogs, asked : BOOLEAN,
                  painted : Frames, front : BOOLEAN]
    /\ wire \in [queries : Seq(Names), answers : Seq(Answers)]
    /\ service \in [active : Int, previous : Int, new : Nat, old : Nat]
    /\ lit \in Glasses
    /\ behind \in [cache : BOOLEAN, confirms : Nat, suspends : Nat]

InStore == [active |-> service.active, previous |-> service.previous]

Wrote(answer) == answer.kind \in E!WriteKinds /\ ~answer.denied
Listed(answer) == answer.kind = "InstalledApps" /\ ~answer.denied

\* After the queries asked and the answers sent, an app that shows `shown` will
\* show what is in the store: it is asked for, or will be for a write, or is the
\* last list on its way, or is shown.
WillShow(queries, answers, known, truth) ==
    \/ \E i \in 1..Len(queries) : queries[i] = "InstalledApps"
    \/ \E i \in 1..Len(answers) : Wrote(answers[i])
    \/ \E i \in 1..Len(answers) :
          /\ Listed(answers[i]) /\ answers[i].apps = truth
          /\ \A j \in 1..Len(answers) : j > i => ~Listed(answers[j])
    \/ known = truth /\ \A i \in 1..Len(answers) : ~Listed(answers[i])

LEMMA ReadsNamed == READS \in Seq(Names)
  BY ReadsAssumption DEF Names

LEMMA AskedShows ==
    ASSUME NEW queries \in Seq(Names), NEW answers, NEW known, NEW truth
    PROVE  WillShow(queries \o READS, answers, known, truth)
  <1>1. PICK i \in 1..Len(READS) : READS[i] = "InstalledApps"
    BY ReadsAssumption
  <1>2. READS \in Seq(Names)
    BY ReadsNamed
  <1>3. /\ Len(queries) + i \in 1..Len(queries \o READS)
        /\ (queries \o READS)[Len(queries) + i] = "InstalledApps"
    BY <1>1, <1>2, Chained
  <1> QED
    BY <1>3 DEF WillShow

LEMMA MoreAsked ==
    ASSUME NEW queries \in Seq(Names), NEW kind \in Names, NEW answers, NEW known, NEW truth,
           WillShow(queries, answers, known, truth)
    PROVE  WillShow(Append(queries, kind), answers, known, truth)
  <1>1. ASSUME NEW i \in 1..Len(queries), queries[i] = "InstalledApps"
        PROVE  i \in 1..Len(Append(queries, kind)) /\ Append(queries, kind)[i] = "InstalledApps"
    BY <1>1, Joined
  <1> QED
    BY <1>1 DEF WillShow

(* The host answers its first query, and a write changes the store. *)
LEMMA AnsweredShows ==
    ASSUME NEW queries \in Seq(Names), queries # <<>>, NEW answers \in Seq(Answers), NEW known,
           NEW truth, NEW after, NEW answer \in Answers, answer.kind = Head(queries),
           ~answer.denied => answer.apps = truth,
           answer.kind = "InstalledApps" => ~answer.denied,
           after # truth => Wrote(answer),
           WillShow(queries, answers, known, truth)
    PROVE  WillShow(Tail(queries), Append(answers, answer), known, after)
  <1> DEFINE more == Append(answers, answer)
             rest == Tail(queries)
  <1>1. /\ Len(more) = Len(answers) + 1 /\ Len(answers) \in Nat
        /\ more[Len(answers) + 1] = answer
        /\ \A i \in 1..Len(answers) : more[i] = answers[i]
    BY Joined
  <1>2. /\ Len(queries) \in Nat \ {0} /\ Len(rest) = Len(queries) - 1
        /\ Head(queries) = queries[1]
        /\ \A i \in 1..(Len(queries) - 1) : rest[i] = queries[i + 1]
    BY Left
  <1> HIDE DEF more, rest
  <1>3. CASE Wrote(answer)
    BY <1>1, <1>3 DEF WillShow, more, rest
  <1>4. CASE ~Wrote(answer)
    <2>1. after = truth
      BY <1>4
    <2>2. CASE answer.kind = "InstalledApps"
      <3>1. Listed(answer) /\ answer.apps = truth
        BY <2>2 DEF Listed
      <3>2. Len(answers) + 1 \in 1..Len(more) /\ \A j \in 1..Len(more) : ~(j > Len(answers) + 1)
        BY <1>1
      <3>3. \E i \in 1..Len(more) : /\ Listed(more[i]) /\ more[i].apps = truth
                                    /\ \A j \in 1..Len(more) : j > i => ~Listed(more[j])
        BY <1>1, <3>1, <3>2
      <3> QED
        BY <2>1, <3>3 DEF WillShow, more, rest
    <2>3. CASE answer.kind # "InstalledApps"
      <3>1. ~Listed(answer)
        BY <2>3 DEF Listed
      <3>2. ASSUME NEW i \in 1..Len(queries), queries[i] = "InstalledApps"
            PROVE  i - 1 \in 1..Len(rest) /\ rest[i - 1] = "InstalledApps"
        BY <1>2, <2>3, <3>2
      <3>3. ASSUME NEW i \in 1..Len(answers), Wrote(answers[i])
            PROVE  i \in 1..Len(more) /\ Wrote(more[i])
        BY <1>1, <3>3
      <3>4. ASSUME NEW i \in 1..Len(answers), Listed(answers[i]), answers[i].apps = truth,
                   \A j \in 1..Len(answers) : j > i => ~Listed(answers[j])
            PROVE  /\ i \in 1..Len(more) /\ Listed(more[i]) /\ more[i].apps = truth
                   /\ \A j \in 1..Len(more) : j > i => ~Listed(more[j])
        BY <1>1, <3>1, <3>4
      <3>5. ASSUME \A i \in 1..Len(answers) : ~Listed(answers[i])
            PROVE  \A i \in 1..Len(more) : ~Listed(more[i])
        BY <1>1, <3>1, <3>5
      <3>6. WillShow(rest, more, known, truth)
        <4>1. CASE \E i \in 1..Len(queries) : queries[i] = "InstalledApps"
          BY <3>2, <4>1 DEF WillShow
        <4>2. CASE \E i \in 1..Len(answers) : Wrote(answers[i])
          BY <3>3, <4>2 DEF WillShow
        <4>3. ASSUME NEW i \in 1..Len(answers), Listed(answers[i]), answers[i].apps = truth,
                     \A j \in 1..Len(answers) : j > i => ~Listed(answers[j])
              PROVE  WillShow(rest, more, known, truth)
          BY <3>4, <4>3 DEF WillShow
        <4>4. CASE known = truth /\ \A i \in 1..Len(answers) : ~Listed(answers[i])
          BY <3>5, <4>4 DEF WillShow
        <4> QED
          BY <4>1, <4>2, <4>3, <4>4 DEF WillShow
      <3> QED
        BY <2>1, <3>6 DEF more, rest
    <2> QED
      BY <2>2, <2>3
  <1> QED
    BY <1>3, <1>4

(* The app reads its first answer, which was not a write that succeeded. *)
LEMMA ReadShows ==
    ASSUME NEW queries, NEW answers \in Seq(Answers), answers # <<>>, NEW known, NEW truth,
           ~Wrote(Head(answers)), WillShow(queries, answers, known, truth)
    PROVE  WillShow(queries, Tail(answers),
                    IF Listed(Head(answers)) THEN Head(answers).apps ELSE known, truth)
  <1> DEFINE rest == Tail(answers)
             now == IF Listed(Head(answers)) THEN Head(answers).apps ELSE known
  <1>1. /\ Len(answers) \in Nat \ {0} /\ Len(rest) = Len(answers) - 1
        /\ Head(answers) = answers[1]
        /\ \A i \in 1..(Len(answers) - 1) : rest[i] = answers[i + 1]
    BY Left
  <1>2. now = IF Listed(answers[1]) THEN answers[1].apps ELSE known
    BY <1>1
  <1>3. ~Wrote(answers[1])
    BY <1>1
  <1> HIDE DEF rest, now
  <1>4. CASE \E i \in 1..Len(queries) : queries[i] = "InstalledApps"
    BY <1>4 DEF WillShow, rest, now
  <1>5. ASSUME NEW i \in 1..Len(answers), Wrote(answers[i])
        PROVE  WillShow(queries, rest, now, truth)
    <2>1. i - 1 \in 1..Len(rest) /\ Wrote(rest[i - 1])
      BY <1>1, <1>3, <1>5
    <2> QED
      BY <2>1 DEF WillShow
  <1>6. ASSUME NEW i \in 1..Len(answers), Listed(answers[i]), answers[i].apps = truth,
               \A j \in 1..Len(answers) : j > i => ~Listed(answers[j])
        PROVE  WillShow(queries, rest, now, truth)
    <2>1. \A j \in 1..Len(rest) : j > i - 1 => ~Listed(rest[j])
      BY <1>1, <1>6
    <2>2. CASE i = 1
      <3>1. now = truth /\ \A j \in 1..Len(rest) : ~Listed(rest[j])
        BY <1>1, <1>2, <1>6, <2>1, <2>2
      <3> QED
        BY <3>1 DEF WillShow
    <2>3. CASE i # 1
      <3>1. i - 1 \in 1..Len(rest) /\ Listed(rest[i - 1]) /\ rest[i - 1].apps = truth
        BY <1>1, <1>6, <2>3
      <3> QED
        BY <2>1, <3>1 DEF WillShow
    <2> QED
      BY <2>2, <2>3
  <1>7. CASE known = truth /\ \A i \in 1..Len(answers) : ~Listed(answers[i])
    <2>1. 1 \in 1..Len(answers) /\ \A j \in 1..Len(rest) : j + 1 \in 1..Len(answers)
      BY <1>1
    <2>2. now = truth /\ \A j \in 1..Len(rest) : ~Listed(rest[j])
      BY <1>1, <1>2, <1>7, <2>1
    <2> QED
      BY <2>2 DEF WillShow, rest, now
  <1> QED
    BY <1>4, <1>5, <1>6, <1>7 DEF WillShow, rest, now

\* What a frame of a page shows below the tabs.
Body(page) == IF page = "Apps" THEN panel.apps ELSE E!Loading

SettingsInv ==
    /\ SettingsTypes
    /\ panel.asked /\ panel.front /\ ~behind.cache
         => WillShow(wire.queries, wire.answers, panel.apps, InStore)
    /\ E!DialogOnGlass
    /\ panel.front /\ panel.painted # E!NoFrame
         => /\ lit.shows.page = panel.painted.page
            /\ ~panel.painted.confirming => lit.shows.dialog = E!NoDialog
            /\ lit.heard = "nothing" => lit.shows.content = Body(panel.painted.page)

LEMMA GlassRests ==
    ASSUME SettingsInv, UNCHANGED <<panel, lit>>
    PROVE  /\ E!DialogOnGlass'
           /\ panel'.front /\ panel'.painted # E!NoFrame
                => /\ lit'.shows.page = panel'.painted.page
                   /\ ~panel'.painted.confirming => lit'.shows.dialog = E!NoDialog
                   /\ lit'.heard = "nothing" => lit'.shows.content = Body(panel.painted.page)'
  BY DEF SettingsInv, E!DialogOnGlass, E!Modal, E!Rendered, E!TabsDrawn, E!DialogDrawn, E!AppsDrawn,
     E!FactsDrawn, Body

LEMMA SettingsInit == E!SettingsInit => SettingsInv
  BY DEF E!SettingsInit, Names, SettingsInv, SettingsTypes, E!Pages, Releases, Dialogs, Frames, Answers,
     Shows, Glasses,
     E!Loading, E!NoDialog, E!NoFrame, E!NothingShown, E!DialogOnGlass

(* A press: the page or the dialog changes and a redraw is asked for; a query  *)
(* may go to the host.                                                         *)
LEMMA PressKeeps ==
    ASSUME SettingsInv, panel.front, panel'.page \in E!Pages, panel'.pending \in Dialogs,
           panel' = [panel EXCEPT !.page = panel'.page, !.pending = panel'.pending],
           lit' = [lit EXCEPT !.due = TRUE],
           \/ UNCHANGED wire
           \/ \E kind \in Names : wire' = [wire EXCEPT !.queries = @ \o <<kind>>],
           service' = service, behind' \in [cache : BOOLEAN, confirms : Nat, suspends : Nat],
           behind'.cache = behind.cache
    PROVE  SettingsInv'
  <1>1. /\ panel' \in [page : E!Pages, apps : Releases, pending : Dialogs, asked : BOOLEAN,
                       painted : Frames, front : BOOLEAN]
        /\ panel'.apps = panel.apps /\ panel'.asked = panel.asked /\ panel'.painted = panel.painted
        /\ panel'.front = panel.front
    BY DEF SettingsInv, SettingsTypes
  <1>2. /\ lit' \in Glasses
        /\ lit'.due = TRUE /\ lit'.shows = lit.shows /\ lit'.heard = lit.heard
    BY DEF SettingsInv, SettingsTypes, Glasses
  <1>3. wire.queries \in Seq(Names)
    BY DEF SettingsInv, SettingsTypes
  <1>4. \/ UNCHANGED wire
        \/ \E kind \in Names : /\ wire' \in [queries : Seq(Names), answers : Seq(Answers)]
                                /\ wire'.answers = wire.answers
                                /\ wire'.queries = Append(wire.queries, kind)
    <2>1. ASSUME NEW kind \in Names PROVE wire.queries \o <<kind>> = Append(wire.queries, kind)
      BY <1>3
    <2>2. ASSUME NEW kind \in Names, wire' = [wire EXCEPT !.queries = @ \o <<kind>>]
          PROVE  /\ wire' \in [queries : Seq(Names), answers : Seq(Answers)]
                 /\ wire'.answers = wire.answers
                 /\ wire'.queries = Append(wire.queries, kind)
      <3>1. Append(wire.queries, kind) \in Seq(Names)
        BY <1>3, Joined
      <3> QED
        BY <2>1, <2>2, <3>1 DEF SettingsInv, SettingsTypes
    <2> QED
      BY <2>2
  <1>5. InStore' = InStore
    BY DEF InStore
  <1>6. /\ wire' \in [queries : Seq(Names), answers : Seq(Answers)]
        /\ panel'.asked /\ panel'.front /\ ~behind'.cache
             => WillShow(wire'.queries, wire'.answers, panel'.apps, InStore')
    <2>1. CASE UNCHANGED wire
      BY <1>1, <1>5, <2>1 DEF SettingsInv, SettingsTypes
    <2>2. ASSUME NEW kind \in Names, wire' \in [queries : Seq(Names), answers : Seq(Answers)],
                 wire'.answers = wire.answers, wire'.queries = Append(wire.queries, kind)
          PROVE  panel'.asked /\ panel'.front /\ ~behind'.cache
                    => WillShow(wire'.queries, wire'.answers, panel'.apps, InStore')
      BY <1>1, <1>3, <1>5, <2>2, MoreAsked DEF SettingsInv
    <2> QED
      BY <1>4, <2>1, <2>2
  <1>7. SettingsTypes'
    BY <1>1, <1>2, <1>6 DEF SettingsInv, SettingsTypes
  <1> QED
    BY <1>1, <1>2, <1>6, <1>7 DEF SettingsInv, E!DialogOnGlass, Body

LEMMA SettingsDrawKeeps ==
    ASSUME SettingsInv, E!Draw
    PROVE  SettingsInv'
  <1> DEFINE how == E!DamageBetween(panel.painted, E!Modal, panel.page)
  <1>0. /\ panel \in [page : E!Pages, apps : Releases, pending : Dialogs, asked : BOOLEAN,
                      painted : Frames, front : BOOLEAN]
        /\ lit \in Glasses
        /\ wire \in [queries : Seq(Names), answers : Seq(Answers)]
        /\ behind \in [cache : BOOLEAN, confirms : Nat, suspends : Nat]
    BY DEF SettingsInv, SettingsTypes
  <1>1. /\ panel.front /\ UNCHANGED service
        /\ lit' = [shows |-> E!Swapped(how), due |-> FALSE,
                   heard |-> IF how = "none" THEN lit.heard ELSE "nothing"]
        /\ panel' = [panel EXCEPT !.asked = TRUE,
                                  !.painted = [page |-> panel.page, confirming |-> E!Modal]]
    BY DEF E!Draw
  <1>2. /\ panel' \in [page : E!Pages, apps : Releases, pending : Dialogs, asked : BOOLEAN,
                       painted : Frames, front : BOOLEAN]
        /\ panel'.apps = panel.apps /\ panel'.pending = panel.pending /\ panel'.page = panel.page
        /\ panel'.painted.page = panel.page /\ panel'.painted.confirming = E!Modal
    <2>1. E!Modal \in BOOLEAN /\ panel.page \in Names
      BY <1>0 DEF Names, E!Modal, E!Pages
    <2>2. [page |-> panel.page, confirming |-> E!Modal] \in Frames
      BY <2>1 DEF Frames
    <2> QED
      BY <1>0, <1>1, <2>2
  <1>3. E!Rendered \in Shows
    BY <1>0 DEF Shows, E!Rendered, E!TabsDrawn, E!DialogDrawn, E!AppsDrawn, E!FactsDrawn, E!Loading,
       E!Pages, Releases, Names
  <1>4. /\ E!Rendered.page = panel.page /\ E!Rendered.dialog = panel.pending
        /\ E!Rendered.content = Body(panel.page)
    BY DEF E!Rendered, E!TabsDrawn, E!DialogDrawn, E!AppsDrawn, E!FactsDrawn, Body
  <1>5. /\ E!Swapped(how) \in Shows
        /\ E!Swapped(how).page = panel.page /\ E!Swapped(how).dialog = panel.pending
        /\ how # "none" => E!Swapped(how) = E!Rendered
        /\ how = "none" =>
              ~E!Modal /\ (lit.heard = "nothing" => E!Swapped(how) = E!Rendered)
    <2>1. CASE how = "full"
      BY <1>3, <1>4, <2>1 DEF E!Swapped
    <2>2. CASE how = "page"
      <3>1. panel.painted # E!NoFrame /\ ~panel.painted.confirming /\ ~E!Modal
        BY <2>2 DEF E!DamageBetween
      <3>2. lit.shows.dialog = panel.pending
        BY <1>1, <3>1 DEF SettingsInv, E!Modal
      <3>3. E!Swapped(how) = [E!Rendered EXCEPT !.dialog = lit.shows.dialog]
        BY <2>2 DEF E!Swapped
      <3>4. E!Swapped(how) = E!Rendered
        BY <1>3, <1>4, <3>2, <3>3 DEF Shows
      <3> QED
        BY <1>3, <1>4, <2>2, <3>4
    <2>3. CASE how = "none"
      <3>1. panel.painted # E!NoFrame /\ ~panel.painted.confirming /\ ~E!Modal
            /\ panel.painted.page = panel.page
        BY <2>3 DEF E!DamageBetween
      <3>2. E!Swapped(how) = lit.shows
        BY <2>3 DEF E!Swapped
      <3>3. /\ lit.shows \in Shows /\ lit.shows.page = panel.page
            /\ lit.shows.dialog = panel.pending
            /\ lit.heard = "nothing" => lit.shows.content = Body(panel.page)
        BY <1>0, <1>1, <3>1 DEF SettingsInv, E!Modal, Glasses
      <3>4. lit.heard = "nothing" => lit.shows = E!Rendered
        BY <1>3, <1>4, <3>3 DEF Shows
      <3> QED
        BY <2>3, <3>1, <3>2, <3>3, <3>4
    <2>4. how \in {"full", "page", "none"}
      BY DEF E!DamageBetween
    <2> QED
      BY <2>1, <2>2, <2>3, <2>4
  <1> HIDE DEF how
  <1>6. /\ lit' \in Glasses
        /\ lit'.shows.page = panel.page /\ lit'.shows.dialog = panel.pending
        /\ E!Modal \/ lit'.heard = "nothing" => lit'.shows = E!Rendered
    <2>1. lit.heard \in {"nothing", "answers"}
      BY <1>0 DEF Glasses
    <2> QED
      BY <1>1, <1>5, <2>1 DEF Glasses
  <1>7. E!Rendered' = E!Rendered /\ (E!Modal' <=> E!Modal) /\ Body(panel.page)' = Body(panel.page)
    BY <1>2 DEF E!Rendered, E!Modal, E!TabsDrawn, E!DialogDrawn, E!AppsDrawn, E!FactsDrawn, Body
  <1>8. E!DialogOnGlass'
    BY <1>2, <1>6, <1>7 DEF E!DialogOnGlass
  <1>9. /\ lit'.shows.page = panel'.painted.page
        /\ ~panel'.painted.confirming => lit'.shows.dialog = E!NoDialog
        /\ lit'.heard = "nothing" => lit'.shows.content = Body(panel.painted.page)'
    <2>1. ~E!Modal => panel.pending = E!NoDialog
      BY DEF E!Modal
    <2>2. Body(panel.painted.page)' = Body(panel.page)
      BY <1>2 DEF Body
    <2> QED
      BY <1>2, <1>4, <1>6, <2>1, <2>2
  <1>10. /\ wire' \in [queries : Seq(Names), answers : Seq(Answers)]
         /\ behind' \in [cache : BOOLEAN, confirms : Nat, suspends : Nat]
         /\ ~behind'.cache => WillShow(wire'.queries, wire'.answers, panel.apps, InStore)
    <2>1. CASE panel.asked
      BY <1>0, <1>1, <2>1 DEF E!Draw, SettingsInv
    <2>2. CASE ~panel.asked
      <3>1. wire' = [wire EXCEPT !.queries = @ \o READS] /\ behind' = [behind EXCEPT !.cache = FALSE]
        BY <2>2 DEF E!Draw, E!AskReads, E!Ask
      <3>2. wire.queries \o READS \in Seq(Names)
        BY <1>0, ReadsNamed, Chained
      <3>3. wire' \in [queries : Seq(Names), answers : Seq(Answers)]
            /\ wire'.queries = wire.queries \o READS
        BY <1>0, <3>1, <3>2
      <3>4. WillShow(wire'.queries, wire'.answers, panel.apps, InStore)
        BY <1>0, <3>3, AskedShows
      <3>5. behind' \in [cache : BOOLEAN, confirms : Nat, suspends : Nat]
        BY <1>0, <3>1
      <3> QED
        BY <3>3, <3>4, <3>5
    <2> QED
      BY <2>1, <2>2
  <1>11. InStore' = InStore
    BY <1>1 DEF InStore
  <1>12. SettingsTypes'
    <2>1. service' \in [active : Int, previous : Int, new : Nat, old : Nat]
      BY <1>1 DEF SettingsInv, SettingsTypes
    <2>2. lit' \in Glasses
      BY <1>6
    <2> QED
      BY <1>2, <1>10, <2>1, <2>2 DEF SettingsTypes
  <1>13. ~behind'.cache => WillShow(wire'.queries, wire'.answers, panel'.apps, InStore')
    <2>1. panel'.apps = panel.apps
      BY <1>2
    <2> QED
      BY <1>10, <1>11, <2>1
  <1> QED
    BY <1>8, <1>9, <1>12, <1>13 DEF SettingsInv

LEMMA AnswerKeeps ==
    ASSUME SettingsInv, E!HostAnswers
    PROVE  SettingsInv'
  <1> DEFINE kind == Head(wire.queries)
  <1>0. /\ wire \in [queries : Seq(Names), answers : Seq(Answers)]
        /\ service \in [active : Int, previous : Int, new : Nat, old : Nat]
        /\ behind \in [cache : BOOLEAN, confirms : Nat, suspends : Nat]
        /\ wire.queries # <<>> /\ UNCHANGED <<panel, lit>>
    BY DEF SettingsInv, SettingsTypes, E!HostAnswers
  <1>1. kind \in Names /\ Tail(wire.queries) \in Seq(Names)
    BY <1>0, Left
  <1>2. ASSUME NEW answer \in Answers, answer.kind = kind, ~answer.denied => answer.apps = InStore,
               kind = "InstalledApps" /\ answer.denied => behind'.cache,
               ~behind'.cache => ~behind.cache \/ Listed(answer),
               behind' \in [cache : BOOLEAN, confirms : Nat, suspends : Nat],
               service' \in [active : Int, previous : Int, new : Nat, old : Nat],
               InStore' # InStore => Wrote(answer),
               wire' = [queries |-> Tail(wire.queries), answers |-> Append(wire.answers, answer)]
        PROVE  SettingsInv'
    <2>1. /\ wire' \in [queries : Seq(Names), answers : Seq(Answers)]
          /\ wire'.queries = Tail(wire.queries) /\ wire'.answers = Append(wire.answers, answer)
      BY <1>0, <1>1, <1>2, Joined
    <2>2. ASSUME panel'.asked, panel'.front, ~behind'.cache
          PROVE  WillShow(wire'.queries, wire'.answers, panel'.apps, InStore')
      <3>1. CASE ~behind.cache
        <4>1. WillShow(wire.queries, wire.answers, panel.apps, InStore)
          BY <1>0, <1>2, <2>2, <3>1 DEF SettingsInv
        <4>2. answer.kind = "InstalledApps" => ~answer.denied
          BY <1>2, <2>2
        <4> HIDE DEF kind
        <4>3. WillShow(Tail(wire.queries), Append(wire.answers, answer), panel.apps, InStore')
          BY <1>0, <1>2, <4>1, <4>2, AnsweredShows DEF kind
        <4> QED
          BY <1>0, <2>1, <4>3
      <3>2. CASE Listed(answer)
        <4>1. answer.apps = InStore'
          BY <1>2, <3>2 DEF Listed, Wrote, E!WriteKinds
        <4> DEFINE new == Len(wire.answers) + 1
        <4>2. /\ Len(wire'.answers) = new /\ new \in 1..Len(wire'.answers)
              /\ wire'.answers[new] = answer
          BY <1>0, <1>2, <2>1
        <4>3. \A j \in 1..Len(wire'.answers) : ~(j > new)
          BY <1>0, <4>2
        <4> QED
          BY <3>2, <4>1, <4>2, <4>3 DEF WillShow
      <3> QED
        BY <1>2, <2>2, <3>1, <3>2
    <2>3. SettingsTypes'
      BY <1>0, <1>2, <2>1 DEF SettingsInv, SettingsTypes
    <2> QED
      BY <1>0, <2>2, <2>3, GlassRests DEF SettingsInv
  <1>3. CASE E!Allowed
    <2>1. /\ service' = [E!Performed(kind) EXCEPT !.new = @ + 1]
          /\ wire' = [queries |-> Tail(wire.queries), answers |-> Append(wire.answers, E!Value(kind))]
          /\ behind' = IF kind = "InstalledApps" THEN [behind EXCEPT !.cache = FALSE] ELSE behind
      BY <1>3 DEF E!HostAnswers
    <2>2. /\ E!Value(kind) \in Answers /\ E!Value(kind).kind = kind /\ ~E!Value(kind).denied
          /\ E!Value(kind).apps = InStore
      BY <1>0, <1>1 DEF E!Value, Answers, Releases, InStore
    <2>3. /\ E!Performed(kind) \in [active : Int, previous : Int, new : Nat, old : Nat]
          /\ kind # "Rollback" => E!Performed(kind) = service
      BY <1>0 DEF E!Performed
    <2>4. /\ service' \in [active : Int, previous : Int, new : Nat, old : Nat]
          /\ kind # "Rollback" => InStore' = InStore
      <3> DEFINE after == E!Performed(kind)
      <3>1. /\ after \in [active : Int, previous : Int, new : Nat, old : Nat]
            /\ service' = [after EXCEPT !.new = @ + 1]
        BY <2>1, <2>3
      <3>2. kind # "Rollback" => after = service
        BY <2>3
      <3> HIDE DEF after
      <3>3. /\ service' \in [active : Int, previous : Int, new : Nat, old : Nat]
            /\ service'.active = after.active /\ service'.previous = after.previous
        BY <3>1
      <3> QED
        BY <3>2, <3>3 DEF InStore
    <2>5. InStore' # InStore => Wrote(E!Value(kind))
      BY <2>2, <2>4 DEF Wrote, E!WriteKinds
    <2>6. kind = "InstalledApps" => Listed(E!Value(kind))
      BY <2>2 DEF Listed
    <2>7. /\ behind' \in [cache : BOOLEAN, confirms : Nat, suspends : Nat]
          /\ ~behind'.cache => ~behind.cache \/ Listed(E!Value(kind))
      <3> HIDE DEF kind
      <3> QED
        BY <1>0, <2>1, <2>6
    <2> QED
      BY <1>0, <1>2, <2>1, <2>2, <2>4, <2>5, <2>7
  <1>4. CASE ~E!Allowed
    <2>1. /\ wire' = [queries |-> Tail(wire.queries), answers |-> Append(wire.answers, E!Denied(kind))]
          /\ behind' = IF kind = "InstalledApps" THEN [behind EXCEPT !.cache = TRUE] ELSE behind
          /\ UNCHANGED service
      BY <1>4 DEF E!HostAnswers
    <2>2. /\ E!Denied(kind) \in Answers /\ E!Denied(kind).kind = kind /\ E!Denied(kind).denied
      BY <1>0, <1>1 DEF E!Denied, Answers, Releases, E!Loading
    <2>3. InStore' = InStore
      BY <2>1 DEF InStore
    <2> HIDE DEF kind
    <2>4. /\ behind' \in [cache : BOOLEAN, confirms : Nat, suspends : Nat]
          /\ kind = "InstalledApps" => behind'.cache
          /\ ~behind'.cache => ~behind.cache
      BY <1>0, <2>1
    <2> QED
      BY <1>0, <1>2, <2>1, <2>2, <2>3, <2>4
  <1> QED
    BY <1>3, <1>4

LEMMA ReceiveKeeps ==
    ASSUME SettingsInv, E!ReceiveAnswer
    PROVE  SettingsInv'
  <1> DEFINE answer == Head(wire.answers)
             now == IF Listed(answer) THEN answer.apps ELSE panel.apps
  <1>0. /\ wire \in [queries : Seq(Names), answers : Seq(Answers)]
        /\ panel \in [page : E!Pages, apps : Releases, pending : Dialogs, asked : BOOLEAN,
                      painted : Frames, front : BOOLEAN]
        /\ lit \in Glasses
        /\ wire.answers # <<>> /\ UNCHANGED <<service, behind>>
    BY DEF SettingsInv, SettingsTypes, E!ReceiveAnswer
  <1>1. answer \in Answers /\ Tail(wire.answers) \in Seq(Answers)
    BY <1>0, Left
  <1>2. /\ wire' = [queries |-> E!AfterWrite(answer), answers |-> Tail(wire.answers)]
        /\ panel' = [panel EXCEPT !.apps = now]
        /\ lit' = IF answer.denied THEN lit ELSE [lit EXCEPT !.due = TRUE, !.heard = "answers"]
    BY DEF E!ReceiveAnswer, Listed
  <1>3. E!AfterWrite(answer) = IF Wrote(answer) THEN wire.queries \o READS ELSE wire.queries
    BY DEF E!AfterWrite, Wrote
  <1>4. now \in Releases
    BY <1>0, <1>1 DEF Answers
  <1> HIDE DEF now
  <1>5. /\ panel' \in [page : E!Pages, apps : Releases, pending : Dialogs, asked : BOOLEAN,
                       painted : Frames, front : BOOLEAN]
        /\ panel'.apps = now /\ panel'.asked = panel.asked /\ panel'.front = panel.front
        /\ panel'.page = panel.page /\ panel'.pending = panel.pending /\ panel'.painted = panel.painted
    BY <1>0, <1>2, <1>4
  <1>6. /\ lit' \in Glasses
        /\ lit'.shows = lit.shows
        /\ IF answer.denied THEN lit' = lit ELSE lit'.due /\ lit'.heard = "answers"
    <2> HIDE DEF answer
    <2> QED
      BY <1>0, <1>2 DEF Glasses
  <1>7. wire' \in [queries : Seq(Names), answers : Seq(Answers)]
    <2>1. wire.queries \o READS \in Seq(Names)
      BY <1>0, ReadsNamed, Chained
    <2> QED
      BY <1>0, <1>1, <1>2, <1>3, <2>1
  <1>8. InStore' = InStore
    BY <1>0 DEF InStore
  <1>9. ASSUME panel'.asked, panel'.front, ~behind'.cache
        PROVE  WillShow(wire'.queries, wire'.answers, panel'.apps, InStore')
    <2>1. WillShow(wire.queries, wire.answers, panel.apps, InStore)
      BY <1>0, <1>5, <1>9 DEF SettingsInv
    <2>2. CASE Wrote(answer)
      <3>1. wire'.queries = wire.queries \o READS
        BY <1>2, <1>3, <2>2
      <3>2. wire.queries \in Seq(Names)
        BY <1>0
      <3> QED
        BY <3>1, <3>2, AskedShows
    <2>3. CASE ~Wrote(answer)
      <3>1. WillShow(wire.queries, Tail(wire.answers), now, InStore)
        BY <1>0, <2>1, <2>3, ReadShows DEF now
      <3> QED
        BY <1>2, <1>3, <1>5, <1>8, <2>3, <3>1
    <2> QED
      BY <2>2, <2>3
  <1>10. SettingsTypes'
    BY <1>0, <1>5, <1>6, <1>7 DEF SettingsInv, SettingsTypes
  <1>11. answer.denied => panel' = panel
    BY <1>0, <1>2 DEF Listed, now
  <1> HIDE DEF answer
  <1>12. E!DialogOnGlass'
    <2>1. CASE answer.denied
      BY <1>6, <1>11, <2>1, GlassRests
    <2>2. CASE ~answer.denied
      BY <1>6, <2>2 DEF E!DialogOnGlass
    <2> QED
      BY <2>1, <2>2
  <1>13. panel'.front /\ panel'.painted # E!NoFrame
           => /\ lit'.shows.page = panel'.painted.page
              /\ ~panel'.painted.confirming => lit'.shows.dialog = E!NoDialog
              /\ lit'.heard = "nothing" => lit'.shows.content = Body(panel.painted.page)'
    <2>1. CASE answer.denied
      BY <1>6, <1>11, <2>1, GlassRests
    <2>2. CASE ~answer.denied
      <3>1. panel'.front = panel.front /\ panel'.painted = panel.painted /\ lit'.shows = lit.shows
        BY <1>5, <1>6
      <3>2. lit'.heard # "nothing"
        BY <1>6, <2>2
      <3> QED
        BY <3>1, <3>2 DEF SettingsInv
    <2> QED
      BY <2>1, <2>2
  <1> QED
    BY <1>9, <1>10, <1>12, <1>13 DEF SettingsInv

LEMMA SettingsStep ==
    ASSUME SettingsInv, E!SettingsNext
    PROVE  SettingsInv'
  <1>0. /\ wire \in [queries : Seq(Names), answers : Seq(Answers)]
        /\ panel \in [page : E!Pages, apps : Releases, pending : Dialogs, asked : BOOLEAN,
                      painted : Frames, front : BOOLEAN]
        /\ lit \in Glasses
        /\ service \in [active : Int, previous : Int, new : Nat, old : Nat]
        /\ behind \in [cache : BOOLEAN, confirms : Nat, suspends : Nat]
    BY DEF SettingsInv, SettingsTypes
  <1>1. E!NoDialog \in Dialogs /\ panel.pending \in Dialogs /\ panel.pending.kind \in Names
        /\ panel.apps.previous \in Int
    BY <1>0 DEF E!NoDialog, Dialogs, Releases, Names
  <1>2. CASE E!PressCancel
    <2>1. /\ panel.front /\ panel' = [panel EXCEPT !.pending = E!NoDialog]
          /\ lit' = [lit EXCEPT !.due = TRUE] /\ UNCHANGED <<wire, service, behind>>
      BY <1>2 DEF E!PressCancel, E!Tap, E!Redraw
    <2>2. panel'.page = panel.page /\ panel'.pending = E!NoDialog
          /\ panel' = [panel EXCEPT !.page = panel.page, !.pending = E!NoDialog]
      BY <1>0, <2>1
    <2> QED
      BY <1>0, <1>1, <2>1, <2>2, PressKeeps
  <1>3. CASE E!PressConfirm
    <2>1. /\ panel.front /\ panel' = [panel EXCEPT !.pending = E!NoDialog]
          /\ wire' = [wire EXCEPT !.queries = @ \o <<panel.pending.kind>>]
          /\ lit' = [lit EXCEPT !.due = TRUE] /\ UNCHANGED <<service, behind>>
      BY <1>3 DEF E!PressConfirm, E!Tap, E!Redraw, E!Ask
    <2>2. panel'.page = panel.page /\ panel'.pending = E!NoDialog
          /\ panel' = [panel EXCEPT !.page = panel.page, !.pending = E!NoDialog]
      BY <1>0, <2>1
    <2> QED
      BY <1>0, <1>1, <2>1, <2>2, PressKeeps
  <1>4. ASSUME NEW page \in E!Pages, E!PressTab(page) PROVE SettingsInv'
    <2>1. /\ panel.front /\ panel' = [panel EXCEPT !.page = page]
          /\ lit' = [lit EXCEPT !.due = TRUE] /\ UNCHANGED <<wire, service, behind>>
      BY <1>4 DEF E!PressTab, E!Tap, E!Redraw
    <2>2. panel'.page = page /\ panel'.pending = panel.pending
          /\ panel' = [panel EXCEPT !.page = page, !.pending = panel.pending]
      BY <1>0, <2>1
    <2> QED
      BY <1>0, <1>1, <1>4, <2>1, <2>2, PressKeeps
  <1>5. ASSUME NEW dialog \in Dialogs, E!Open(dialog) PROVE SettingsInv'
    <2>1. /\ panel.front /\ panel' = [panel EXCEPT !.pending = dialog]
          /\ behind' = [behind EXCEPT !.confirms = @ + 1]
          /\ lit' = [lit EXCEPT !.due = TRUE] /\ UNCHANGED <<wire, service>>
      BY <1>5 DEF E!Open, E!Tap, E!Redraw
    <2>2. panel'.page = panel.page /\ panel'.pending = dialog
          /\ panel' = [panel EXCEPT !.page = panel.page, !.pending = dialog]
      BY <1>0, <2>1
    <2>3. behind' \in [cache : BOOLEAN, confirms : Nat, suspends : Nat] /\ behind'.cache = behind.cache
      BY <1>0, <2>1
    <2> QED
      BY <1>0, <1>1, <2>1, <2>2, <2>3, PressKeeps
  <1>6. CASE E!PressRollback
    <2>1. [kind |-> "Rollback", returns |-> panel.apps.previous] \in Dialogs
      BY <1>1 DEF Dialogs, Names
    <2> QED
      BY <1>5, <1>6, <2>1 DEF E!PressRollback
  <1>7. CASE E!PressUninstall
    <2>1. [kind |-> "Uninstall", returns |-> 0] \in Dialogs
      BY DEF Dialogs, Names
    <2> QED
      BY <1>5, <1>7, <2>1 DEF E!PressUninstall
  <1>8. CASE E!PressScrim \/ E!PressReturnToStock
    <2>1. UNCHANGED <<panel, wire, service, lit, behind>>
      BY <1>8 DEF E!PressScrim, E!PressReturnToStock, E!sevars
    <2> QED
      BY <2>1, GlassRests DEF SettingsInv, SettingsTypes, InStore
  <1>9. CASE E!ReceiveAnswer
    BY <1>9, ReceiveKeeps
  <1>10. CASE E!Suspended
    <2>1. /\ panel' = [panel EXCEPT !.front = FALSE]
          /\ lit' = [shows |-> E!NothingShown, due |-> FALSE, heard |-> "nothing"]
          /\ behind' = [behind EXCEPT !.suspends = @ + 1]
          /\ UNCHANGED <<wire, service>>
      BY <1>10 DEF E!Suspended
    <2>2. /\ panel' \in [page : E!Pages, apps : Releases, pending : Dialogs, asked : BOOLEAN,
                         painted : Frames, front : BOOLEAN]
          /\ panel'.front = FALSE
      BY <1>0, <2>1
    <2>3. lit' \in Glasses
      BY <2>1 DEF E!NothingShown, E!NoDialog, E!Loading, Releases, Dialogs, Names, Shows, Glasses
    <2>4. behind' \in [cache : BOOLEAN, confirms : Nat, suspends : Nat]
      <3>1. behind.suspends + 1 \in Nat
        BY <1>0
      <3> QED
        BY <1>0, <2>1, <3>1
    <2> QED
      BY <1>0, <2>1, <2>2, <2>3, <2>4 DEF SettingsInv, SettingsTypes, E!DialogOnGlass
  <1>11. CASE E!Resumed
    <2>1. /\ panel' = [panel EXCEPT !.front = TRUE, !.painted = E!NoFrame]
          /\ wire' = [wire EXCEPT !.queries = @ \o READS]
          /\ lit' = [lit EXCEPT !.due = TRUE]
          /\ behind' = [behind EXCEPT !.cache = FALSE]
          /\ UNCHANGED service
      BY <1>11 DEF E!Resumed, E!AskReads, E!Ask, E!Redraw
    <2>2. E!NoFrame \in Frames
      BY DEF E!NoFrame, Frames, Names
    <2>3. /\ panel' \in [page : E!Pages, apps : Releases, pending : Dialogs, asked : BOOLEAN,
                         painted : Frames, front : BOOLEAN]
          /\ panel'.painted = E!NoFrame
      BY <1>0, <2>1, <2>2
    <2>4. /\ lit' \in Glasses
          /\ lit'.due = TRUE
      BY <1>0, <2>1 DEF Glasses
    <2>5. behind' \in [cache : BOOLEAN, confirms : Nat, suspends : Nat]
      BY <1>0, <2>1
    <2>6. wire.queries \o READS \in Seq(Names)
      BY <1>0, ReadsNamed, Chained
    <2>7. wire' \in [queries : Seq(Names), answers : Seq(Answers)]
          /\ wire'.queries = wire.queries \o READS
      BY <1>0, <2>1, <2>6
    <2>8. WillShow(wire'.queries, wire'.answers, panel'.apps, InStore')
      BY <1>0, <2>7, AskedShows
    <2> QED
      BY <1>0, <2>1, <2>3, <2>4, <2>5, <2>7, <2>8 DEF SettingsInv, SettingsTypes, E!DialogOnGlass
  <1>12. CASE E!Draw
    BY <1>12, SettingsDrawKeeps
  <1>13. CASE E!HostAnswers
    BY <1>13, AnswerKeeps
  <1>14. CASE E!Tick
    <2>1. service' = [service EXCEPT !.new = 0, !.old = service.new] /\ UNCHANGED <<panel, wire, lit, behind>>
      BY <1>14 DEF E!Tick
    <2>2. service' \in [active : Int, previous : Int, new : Nat, old : Nat] /\ InStore' = InStore
      BY <1>0, <2>1 DEF InStore
    <2> QED
      BY <1>0, <2>1, <2>2, GlassRests DEF SettingsInv, SettingsTypes
  <1>15. CASE E!StoreChanges
    <2>1. /\ service' = [service EXCEPT !.active = 3, !.previous = service.active]
          /\ UNCHANGED <<panel, wire, lit>>
          /\ behind' = IF panel.front THEN [behind EXCEPT !.cache = TRUE] ELSE behind
      BY <1>15 DEF E!StoreChanges
    <2>2. service' \in [active : Int, previous : Int, new : Nat, old : Nat]
      <3>1. service.active \in Int /\ 3 \in Int
        BY <1>0
      <3> QED
        BY <1>0, <2>1, <3>1
    <2>3. /\ behind' \in [cache : BOOLEAN, confirms : Nat, suspends : Nat]
          /\ panel.front => behind'.cache
      <3> DEFINE front == panel.front
      <3> HIDE DEF front
      <3>1. behind' = IF front THEN [behind EXCEPT !.cache = TRUE] ELSE behind
        BY <2>1 DEF front
      <3> QED
        BY <1>0, <3>1 DEF front
    <2> QED
      BY <1>0, <2>1, <2>2, <2>3, GlassRests DEF SettingsInv, SettingsTypes
  <1> QED
    BY <1>2, <1>3, <1>4, <1>6, <1>7, <1>8, <1>9, <1>10, <1>11, <1>12, <1>13, <1>14, <1>15
       DEF E!SettingsNext

LEMMA SettingsSound == SettingsInv => E!CacheFollowsStore /\ E!DialogOnGlass
  <1> SUFFICES ASSUME SettingsInv PROVE E!CacheFollowsStore
    BY DEF SettingsInv
  <1>1. SUFFICES ASSUME E!Quiet, ~behind.cache
                 PROVE  panel.apps = [active |-> service.active, previous |-> service.previous]
    BY DEF E!CacheFollowsStore
  <1>2. WillShow(<<>>, <<>>, panel.apps, InStore)
    BY <1>1 DEF SettingsInv, E!Quiet
  <1> QED
    BY <1>2 DEF WillShow, InStore

---------------------------------------------------------------------------
(* The App Store *)

LEMMA AppsFacts == IsFiniteSet(Apps) /\ Apps \in SUBSET Int
  BY ScreensAssumption

(* A finite set of numbers has a greatest one, *)
LEMMA Greatest ==
    ASSUME NEW S \in SUBSET Int, IsFiniteSet(S), S # {}
    PROVE  \E m \in S : \A x \in S : x <= m
  <1> DEFINE Good == {s \in SUBSET S : s = {} \/ \E m \in s : \A x \in s : x <= m}
  <1>1. ASSUME NEW s \in SUBSET S, \A x \in s : s \ {x} \in Good PROVE s \in Good
    <2>1. SUFFICES ASSUME s # {} PROVE \E m \in s : \A x \in s : x <= m
      OBVIOUS
    <2>2. PICK y \in s : TRUE
      BY <2>1
    <2>3. CASE s \ {y} = {}
      <3>1. \A x \in s : x <= y
        BY <2>3
      <3> QED
        BY <3>1
    <2>4. CASE s \ {y} # {}
      <3>1. PICK m \in s \ {y} : \A x \in s \ {y} : x <= m
        BY <1>1, <2>4
      <3>2. CASE y <= m
        <4>1. \A x \in s : x <= m
          BY <3>1, <3>2
        <4> QED
          BY <4>1
      <3>3. CASE m <= y
        <4>1. \A x \in s : x <= y
          BY <3>1, <3>3
        <4> QED
          BY <4>1
      <3> QED
        BY <3>2, <3>3
    <2> QED
      BY <2>3, <2>4
  <1> HIDE DEF Good
  <1>2. \A s \in SUBSET S : s \in Good
    BY <1>1, SubsetInduction
  <1> QED
    BY <1>2 DEF Good

Rising(n, S) == {row \in [1..n -> S] : \A i, j \in 1..n : i < j => row[i] < row[j]}

(* and can be listed in order. *)
LEMMA RisingExists ==
    ASSUME NEW S \in SUBSET Int, IsFiniteSet(S)
    PROVE  Cardinality(S) \in Nat /\ Rising(Cardinality(S), S) # {}
  <1> DEFINE Good == {n \in Nat : \A s \in SUBSET S : Cardinality(s) = n => Rising(n, s) # {}}
  <1>1. \A s \in SUBSET S : IsFiniteSet(s) /\ Cardinality(s) \in Nat
    BY FS_Subset, FS_CardinalityType
  <1>2. 0 \in Good
    <2> SUFFICES ASSUME NEW s \in SUBSET S, Cardinality(s) = 0 PROVE Rising(0, s) # {}
      OBVIOUS
    <2> DEFINE row == [i \in 1..0 |-> 0]
    <2>1. \A i \in 1..0 : FALSE
      OBVIOUS
    <2>2. row \in [1..0 -> s]
      BY <2>1
    <2>3. row \in Rising(0, s)
      BY <2>1, <2>2 DEF Rising
    <2> QED
      BY <2>3
  <1>3. ASSUME NEW n \in Nat, n \in Good PROVE n + 1 \in Good
    <2> SUFFICES ASSUME NEW s \in SUBSET S, Cardinality(s) = n + 1 PROVE Rising(n + 1, s) # {}
      OBVIOUS
    <2>1. s # {} /\ IsFiniteSet(s) /\ s \in SUBSET Int
      BY <1>1, FS_EmptySet
    <2>2. PICK m \in s : \A x \in s : x <= m
      BY <2>1, Greatest
    <2>3. Cardinality(s \ {m}) = n
      <3>1. Cardinality(s \ {m}) = Cardinality(s) - 1
        BY <2>1, <2>2, FS_RemoveElement
      <3> QED
        BY <3>1
    <2>4. PICK row \in Rising(n, s \ {m}) : TRUE
      BY <1>3, <2>3
    <2> DEFINE more == [i \in 1..(n + 1) |-> IF i = n + 1 THEN m ELSE row[i]]
    <2>5. row \in [1..n -> s \ {m}] /\ \A i, j \in 1..n : i < j => row[i] < row[j]
      BY <2>4 DEF Rising
    <2>6. more \in [1..(n + 1) -> s]
      BY <2>5
    <2>7. ASSUME NEW i \in 1..(n + 1), NEW j \in 1..(n + 1), i < j PROVE more[i] < more[j]
      <3>1. i \in 1..n /\ more[i] = row[i] /\ row[i] \in s \ {m}
        BY <2>5, <2>7
      <3>2. CASE j = n + 1
        <4>1. row[i] <= m /\ row[i] # m /\ row[i] \in Int /\ m \in Int
          BY <2>1, <2>2, <3>1
        <4> QED
          BY <3>1, <3>2, <4>1
      <3>3. CASE j # n + 1
        BY <2>5, <2>7, <3>1, <3>3
      <3> QED
        BY <3>2, <3>3
    <2> HIDE DEF more
    <2>8. more \in Rising(n + 1, s)
      BY <2>6, <2>7 DEF Rising
    <2> QED
      BY <2>8
  <1> HIDE DEF Good
  <1>4. \A n \in Nat : n \in Good
    BY <1>2, <1>3, NumberInduction
  <1> QED
    BY <1>1, <1>4 DEF Good

\* The rows a list shows, of any inventory.
RowsOf(inventory) ==
    LET listed == {a \in Apps : inventory[a].state # "none"}
    IN CHOOSE row \in [1..Cardinality(listed) -> listed] :
          \A i, j \in DOMAIN row : i < j => row[i] < row[j]

LEMMA RowsRead == T!Rows = RowsOf(store.inventory) /\ T!Rows' = RowsOf(store'.inventory)
  BY DEF T!Rows, RowsOf, T!Entry, T!Cardinality, Cardinality

(* Every app listed has one row. *)
LEMMA RowsDiffer ==
    ASSUME NEW inventory
    PROVE  /\ DOMAIN RowsOf(inventory) \in SUBSET (Nat \ {0})
           /\ \A i \in DOMAIN RowsOf(inventory) : RowsOf(inventory)[i] \in Apps
           /\ \A i, j \in DOMAIN RowsOf(inventory) : RowsOf(inventory)[i] = RowsOf(inventory)[j] => i = j
  <1> DEFINE listed == {a \in Apps : inventory[a].state # "none"}
             n == Cardinality(listed)
             rows == RowsOf(inventory)
  <1>1. IsFiniteSet(listed) /\ listed \in SUBSET Int /\ listed \in SUBSET Apps
    BY AppsFacts, FS_Subset
  <1> HIDE DEF listed
  <1>2. n \in Nat /\ Rising(n, listed) # {}
    BY <1>1, RisingExists
  <1> HIDE DEF n
  <1>3. \E row \in [1..n -> listed] : \A i, j \in DOMAIN row : i < j => row[i] < row[j]
    BY <1>2 DEF Rising
  <1>4. rows = CHOOSE row \in [1..n -> listed] : \A i, j \in DOMAIN row : i < j => row[i] < row[j]
    BY DEF RowsOf, n, listed
  <1> HIDE DEF rows
  <1>5. rows \in [1..n -> listed] /\ \A i, j \in DOMAIN rows : i < j => rows[i] < rows[j]
    BY <1>3, <1>4
  <1>6. DOMAIN rows = 1..n /\ \A i \in 1..n : rows[i] \in Int /\ rows[i] \in Apps
    BY <1>1, <1>5
  <1>7. \A i, j \in 1..n : rows[i] = rows[j] => i = j
    BY <1>2, <1>5, <1>6
  <1> QED
    BY <1>2, <1>6, <1>7 DEF rows

States == {"none", "Available", "NothingSelected", "Failing", "InstalledNotOffered", "Installed",
           "UpdateAvailable", "UpToDate"}
Listings == [state : States, installed : Int, fallback : Int, available : Int, kept : Int]
Inventories == [Apps -> Listings]
Places == Apps \union {0}
Steps == {"none", "STARTING", "COMMITTING"}
Jobs == [id : Nat, kind : {"Refresh", "Notes", "Install", "Rollback"}, app : Places, version : Int,
         told : BOOLEAN]
Reports == [kind : {"Progress"}, step : {"COMMITTING"}]
Outcomes == [kind : {"Done"}, outcome : {"Notes", "Installed", "RolledBack", "Failed"}, app : Places,
             value : Int]
Surveys == [kind : {"Done"}, outcome : {"Refreshed"}, app : {0}, value : Inventories]
Messages == Reports \union Outcomes \union Surveys
Healths == [version : Int, attempts : Int, started : BOOLEAN]
Shelves == [current : [Apps -> Int], previous : [Apps -> Int], disk : [Apps -> SUBSET Int],
            health : [Apps -> Healths], catalog : [Apps -> Int], reachable : BOOLEAN]
Stores == [view : Places, inventory : Inventories, notes : [app : Places, text : Int],
           working : [app : Places, step : Steps], failure : BOOLEAN, damage : SUBSET Int]
StoreTypes ==
    /\ store \in Stores
    /\ jobs \in SUBSET Jobs
    /\ \A job \in jobs : job.kind # "Refresh" => job.app \in Apps
    /\ queue \in Seq(Messages)
    /\ shelf \in Shelves
    /\ \A app \in Apps : IsFiniteSet(shelf.disk[app])
    /\ shown = [shows |-> [screen |-> shown.shows.screen, rows |-> shown.shows.rows],
                due |-> shown.due, skipped |-> shown.skipped]
    /\ shown.due \in BOOLEAN /\ shown.skipped \in BOOLEAN
    /\ used \in [requests : Nat, outside : Nat]

\* What is on the panel, but for the rows the next frame will be said to change.
RestShown ==
    store.damage # T!Full =>
        /\ store.view = 0
        /\ shown.shows.screen = T!Rendered.screen
        /\ DOMAIN shown.shows.rows = DOMAIN T!Rendered.rows
        /\ \A i \in DOMAIN T!Rendered.rows :
              i \in store.damage \/ shown.shows.rows[i] = T!Rendered.rows[i]
ShownIsStore ==
    ~shown.skipped => IF shown.due THEN RestShown ELSE shown.shows = T!Rendered

StoreInv == StoreTypes /\ T!WorkingIsReal /\ T!DetailIsListed /\ ShownIsStore

(* A survey lists every app as it is on the shelf. *)
LEMMA SurveyTyped ==
    ASSUME shelf \in Shelves, \A app \in Apps : IsFiniteSet(shelf.disk[app])
    PROVE  T!Survey \in Inventories
  <1> DEFINE row(app) ==
               IF T!Listed(app)
               THEN [state |-> T!StateOf(app), installed |-> shelf.current[app],
                     fallback |-> shelf.previous[app], available |-> T!Offered(app),
                     kept |-> IF shelf.disk[app] = {} THEN 0
                              ELSE CHOOSE v \in shelf.disk[app] : \A w \in shelf.disk[app] : w <= v]
               ELSE T!Unlisted
  <1>1. ASSUME NEW app \in Apps PROVE row(app) \in Listings
    <2>1. /\ shelf.current[app] \in Int /\ shelf.previous[app] \in Int /\ shelf.catalog[app] \in Int
          /\ shelf.disk[app] \in SUBSET Int /\ IsFiniteSet(shelf.disk[app])
      BY <1>1 DEF Shelves
    <2>2. T!Offered(app) \in Int
      BY <2>1 DEF T!Offered
    <2>3. T!StateOf(app) \in States
      BY DEF T!StateOf, States
    <2>4. T!Unlisted \in Listings
      BY DEF T!Unlisted, Listings, States
    <2> DEFINE kept == IF shelf.disk[app] = {} THEN 0
                       ELSE CHOOSE v \in shelf.disk[app] : \A w \in shelf.disk[app] : w <= v
    <2>5. kept \in Int
      <3>1. CASE shelf.disk[app] # {}
        <4>1. \E v \in shelf.disk[app] : \A w \in shelf.disk[app] : w <= v
          BY <2>1, <3>1, Greatest
        <4> DEFINE v == CHOOSE v \in shelf.disk[app] : \A w \in shelf.disk[app] : w <= v
        <4>2. v \in shelf.disk[app]
          BY <4>1
        <4> QED
          BY <2>1, <3>1, <4>2
      <3> QED
        BY <3>1
    <2> HIDE DEF kept
    <2>6. [state |-> T!StateOf(app), installed |-> shelf.current[app],
           fallback |-> shelf.previous[app], available |-> T!Offered(app), kept |-> kept] \in Listings
      BY <2>1, <2>2, <2>3, <2>5 DEF Listings
    <2> QED
      BY <2>4, <2>6 DEF kept
  <1>2. T!Survey = [app \in Apps |-> row(app)]
    BY DEF T!Survey
  <1> HIDE DEF row
  <1> QED
    BY <1>1, <1>2 DEF Inventories

LEMMA Parts ==
    ASSUME NEW a, NEW b, NEW r, r = [screen |-> a, rows |-> b]
    PROVE  r = [screen |-> r.screen, rows |-> r.rows] /\ r.screen = a /\ r.rows = b
  OBVIOUS

LEMMA RenderedParts == T!Rendered = [screen |-> T!Rendered.screen, rows |-> T!Rendered.rows]
  <1>1. CASE store.view = 0
    <2>1. T!Rendered = T!ListDrawn
      BY <1>1 DEF T!Rendered
    <2> DEFINE a == [view |-> 0, names |-> T!Rows, banner |-> T!Banner]
               b == [i \in DOMAIN T!Rows |-> [entry |-> T!Entry(T!Rows[i]), step |-> T!Step(T!Rows[i])]]
    <2>2. T!Rendered = [screen |-> a, rows |-> b]
      BY <2>1 DEF T!ListDrawn
    <2> HIDE DEF a, b
    <2> QED
      BY <2>2, Parts
  <1>2. CASE store.view # 0
    <2>1. T!Rendered = T!DetailDrawn
      BY <1>2 DEF T!Rendered
    <2> DEFINE a == [view |-> store.view, entry |-> T!Entry(store.view), notes |-> T!NotesShown,
                     step |-> T!Step(store.view), banner |-> T!Banner]
               b == <<>>
    <2>2. T!Rendered = [screen |-> a, rows |-> b]
      BY <2>1 DEF T!DetailDrawn
    <2> HIDE DEF a, b
    <2> QED
      BY <2>2, Parts
  <1> QED
    BY <1>1, <1>2

\* The part of a row that an operation in flight changes.
StepOf(working, app) == IF working.app = app THEN working.step ELSE "none"

(* What a list shows, of the store. *)
LEMMA ListRendered ==
    ASSUME store.view = 0
    PROVE  /\ T!Rendered.screen = [view |-> 0, names |-> RowsOf(store.inventory), banner |-> store.failure]
           /\ T!Rendered.rows = [i \in DOMAIN RowsOf(store.inventory) |->
                 [entry |-> store.inventory[RowsOf(store.inventory)[i]],
                  step |-> StepOf(store.working, RowsOf(store.inventory)[i])]]
  <1> DEFINE a == [view |-> 0, names |-> T!Rows, banner |-> T!Banner]
             b == [i \in DOMAIN T!Rows |-> [entry |-> T!Entry(T!Rows[i]), step |-> T!Step(T!Rows[i])]]
  <1>1. T!Rendered = [screen |-> a, rows |-> b]
    BY DEF T!Rendered, T!ListDrawn
  <1> HIDE DEF a, b
  <1>2. T!Rendered.screen = a /\ T!Rendered.rows = b
    BY <1>1, Parts
  <1> QED
    BY <1>2, RowsRead DEF a, b, T!Entry, T!Step, T!Banner, StepOf

LEMMA NextListRendered ==
    ASSUME store'.view = 0
    PROVE  /\ T!Rendered'.screen = [view |-> 0, names |-> RowsOf(store'.inventory), banner |-> store'.failure]
           /\ T!Rendered'.rows = [i \in DOMAIN RowsOf(store'.inventory) |->
                 [entry |-> store'.inventory[RowsOf(store'.inventory)[i]],
                  step |-> StepOf(store'.working, RowsOf(store'.inventory)[i])]]
  <1> DEFINE a == [view |-> 0, names |-> T!Rows', banner |-> store'.failure]
             b == [i \in DOMAIN T!Rows' |->
                     [entry |-> store'.inventory[T!Rows'[i]], step |-> StepOf(store'.working, T!Rows'[i])]]
  <1>1. T!Rendered' = [screen |-> a, rows |-> b]
    BY DEF T!Rendered, T!ListDrawn, T!Entry, T!Step, T!Banner, StepOf
  <1> HIDE DEF a, b
  <1>2. T!Rendered'.screen = a /\ T!Rendered'.rows = b
    BY <1>1, Parts
  <1> QED
    BY <1>2, RowsRead DEF a, b

LEMMA StoreStarts ==
    ASSUME T!StoreInit
    PROVE  StoreInv
  <1>1. /\ shelf = [current |-> [a \in Apps |-> IF a \in Held THEN Newest ELSE 0],
                    previous |-> [a \in Apps |-> IF a \in Held THEN Newest - 1 ELSE 0],
                    disk |-> [a \in Apps |-> IF a \in Held THEN {Newest - 1, Newest} ELSE {}],
                    health |-> [a \in Apps |-> T!NoHealth],
                    catalog |-> [a \in Apps |-> IF a \in Held THEN Newest ELSE 1], reachable |-> TRUE]
        /\ store = [view |-> 0, inventory |-> T!Survey, notes |-> T!NoNotes, working |-> T!Idle,
                    failure |-> FALSE, damage |-> T!Full]
        /\ jobs = {} /\ queue = <<>>
        /\ shown = [shows |-> T!Rendered, due |-> FALSE, skipped |-> FALSE]
        /\ used = [requests |-> 0, outside |-> 0]
    BY DEF T!StoreInit
  <1>2. T!NoHealth \in Healths
    BY DEF T!NoHealth, T!Fresh, Healths
  <1>3. shelf \in Shelves
    BY <1>1, <1>2, ScreensAssumption DEF Shelves
  <1>4. \A app \in Apps : IsFiniteSet(shelf.disk[app])
    <2> DEFINE old == {Newest - 1}
    <2>1. IsFiniteSet(old) /\ {Newest - 1, Newest} = old \union {Newest}
      BY FS_Singleton
    <2> HIDE DEF old
    <2>2. IsFiniteSet({Newest - 1, Newest}) /\ IsFiniteSet({})
      BY <2>1, FS_EmptySet, FS_AddElement
    <2> QED
      BY <1>1, <2>2
  <1>5. T!Survey \in Inventories
    BY <1>3, <1>4, SurveyTyped
  <1>6. store \in Stores
    BY <1>1, <1>5 DEF Stores, Places, Steps, T!NoNotes, T!Idle, T!Full
  <1>7. T!Rendered = [screen |-> T!Rendered.screen, rows |-> T!Rendered.rows]
    BY RenderedParts
  <1>8. /\ shown = [shows |-> [screen |-> shown.shows.screen, rows |-> shown.shows.rows],
                    due |-> shown.due, skipped |-> shown.skipped]
        /\ shown.due \in BOOLEAN /\ shown.skipped \in BOOLEAN /\ shown.shows = T!Rendered
        /\ ~shown.due
    <2> DEFINE r == T!Rendered
    <2>1. shown = [shows |-> r, due |-> FALSE, skipped |-> FALSE]
      BY <1>1
    <2>2. r = [screen |-> r.screen, rows |-> r.rows]
      BY <1>7
    <2> HIDE DEF r
    <2>3. shown.shows = r /\ shown.due = FALSE /\ shown.skipped = FALSE
      BY <2>1
    <2> QED
      BY <2>1, <2>2, <2>3 DEF r
  <1>9. StoreTypes
    <2>1. used \in [requests : Nat, outside : Nat]
      BY <1>1
    <2>2. queue \in Seq(Messages)
      BY <1>1
    <2>3. jobs \in SUBSET Jobs /\ \A job \in jobs : job.kind # "Refresh" => job.app \in Apps
      BY <1>1
    <2> QED
      BY <1>3, <1>4, <1>6, <1>8, <2>1, <2>2, <2>3 DEF StoreTypes
  <1>10. T!WorkingIsReal /\ T!DetailIsListed
    BY <1>1 DEF T!WorkingIsReal, T!DetailIsListed
  <1>11. ShownIsStore
    BY <1>8 DEF ShownIsStore
  <1> QED
    BY <1>9, <1>10, <1>11 DEF StoreInv

(* A frame asked for keeps what the panel shows until it is drawn. *)
LEMMA Redrawn ==
    ASSUME StoreTypes, T!Redraw
    PROVE  /\ shown' = [shows |-> [screen |-> shown'.shows.screen, rows |-> shown'.shows.rows],
                        due |-> shown'.due, skipped |-> shown'.skipped]
           /\ shown'.due \in BOOLEAN /\ shown'.skipped \in BOOLEAN
           /\ shown'.due /\ shown'.shows = shown.shows
           /\ ~shown'.skipped => ~shown.skipped /\ ~shown.due
  <1> DEFINE a == shown.shows
             e == shown.skipped \/ shown.due
  <1>2. /\ shown = [shows |-> a, due |-> shown.due, skipped |-> shown.skipped]
        /\ a = [screen |-> a.screen, rows |-> a.rows]
        /\ shown.due \in BOOLEAN /\ shown.skipped \in BOOLEAN
    <2>1. \A p, q, r, f, g : f = [shows |-> [screen |-> p, rows |-> q], due |-> r, skipped |-> g]
                             => f.shows = [screen |-> p, rows |-> q]
      OBVIOUS
    <2>2. /\ shown = [shows |-> [screen |-> shown.shows.screen, rows |-> shown.shows.rows],
                      due |-> shown.due, skipped |-> shown.skipped]
          /\ shown.due \in BOOLEAN /\ shown.skipped \in BOOLEAN
      BY DEF StoreTypes
    <2>3. a = [screen |-> a.screen, rows |-> a.rows]
      BY <2>1, <2>2
    <2> QED
      BY <2>2, <2>3
  <1>3. shown' = [shown EXCEPT !.due = TRUE, !.skipped = e] /\ e \in BOOLEAN
    BY <1>2 DEF T!Redraw
  <1> HIDE DEF a
  <1>4. /\ shown' \in [shows : {a}, due : BOOLEAN, skipped : BOOLEAN]
        /\ shown'.due = TRUE /\ shown'.skipped = e
    <2> HIDE DEF e
    <2>1. shown \in [shows : {a}, due : BOOLEAN, skipped : BOOLEAN]
      BY <1>2
    <2> QED
      BY <1>3, <2>1
  <1>5. shown'.shows = a /\ shown' = [shows |-> a, due |-> shown'.due, skipped |-> shown'.skipped]
    BY <1>4
  <1>6. ~e => ~shown.skipped /\ ~shown.due
    BY <1>2
  <1> HIDE DEF e
  <1>7. shown' = [shows |-> [screen |-> a.screen, rows |-> a.rows], due |-> shown'.due,
                  skipped |-> shown'.skipped]
    BY <1>2, <1>4, <1>5
  <1> QED
    BY <1>3, <1>5, <1>6, <1>7 DEF a

LEMMA WholeAsked ==
    ASSUME StoreTypes, T!Redraw, store'.damage = T!Full
    PROVE  ShownIsStore'
  BY Redrawn DEF ShownIsStore, RestShown

(* A frame asked for one row of a list. *)
LEMMA RowAsked ==
    ASSUME StoreTypes, ShownIsStore, T!Redraw, store.view = 0, store'.view = 0,
           store'.inventory = store.inventory, store'.failure = store.failure,
           NEW k \in DOMAIN RowsOf(store.inventory), store'.damage = {k},
           \A app : app # RowsOf(store.inventory)[k]
                       => StepOf(store'.working, app) = StepOf(store.working, app)
    PROVE  ShownIsStore'
  <1> DEFINE rows == RowsOf(store.inventory)
             R == T!Rendered
  <1>1. SUFFICES ASSUME ~shown.skipped, ~shown.due, shown'.shows = R PROVE RestShown'
    BY Redrawn DEF ShownIsStore
  <1>2. /\ R.screen = [view |-> 0, names |-> rows, banner |-> store.failure]
        /\ R.rows = [i \in DOMAIN rows |-> [entry |-> store.inventory[rows[i]],
                                            step |-> StepOf(store.working, rows[i])]]
    BY ListRendered
  <1>3. /\ R'.screen = [view |-> 0, names |-> rows, banner |-> store.failure]
        /\ R'.rows = [i \in DOMAIN rows |-> [entry |-> store.inventory[rows[i]],
                                             step |-> StepOf(store'.working, rows[i])]]
    BY NextListRendered
  <1>4. \A i, j \in DOMAIN rows : rows[i] = rows[j] => i = j
    BY RowsDiffer
  <1> DEFINE RR == R'
  <1>5. RR.screen = R.screen /\ DOMAIN RR.rows = DOMAIN rows /\ DOMAIN R.rows = DOMAIN rows
    BY <1>2, <1>3
  <1>6. ASSUME NEW i \in DOMAIN rows, i # k PROVE RR.rows[i] = R.rows[i]
    <2>1. StepOf(store'.working, rows[i]) = StepOf(store.working, rows[i])
      BY <1>4, <1>6
    <2> QED
      BY <1>2, <1>3, <1>6, <2>1
  <1> QED
    BY <1>1, <1>5, <1>6 DEF RestShown

(* A message settles an operation on an app when it is how one ends. *)
Settles(message, app) ==
    message.kind = "Done" /\ message.app = app /\ message.outcome \in {"Installed", "RolledBack", "Failed"}

LEMMA Flying ==
    ASSUME NEW app
    PROVE  /\ T!InFlight(app) <=> \/ \E job \in jobs : T!Changing(job) /\ job.app = app
                                  \/ \E i \in DOMAIN queue : Settles(queue[i], app)
           /\ T!InFlight(app)' <=> \/ \E job \in jobs' : T!Changing(job) /\ job.app = app
                                   \/ \E i \in DOMAIN queue' : Settles(queue'[i], app)
  BY DEF T!InFlight, Settles, T!Changing

LEMMA Sent ==
    ASSUME NEW q \in Seq(Messages), NEW m \in Messages, NEW app
    PROVE  /\ q \o <<m>> \in Seq(Messages)
           /\ (\E i \in DOMAIN q : Settles(q[i], app)) \/ Settles(m, app)
                => \E i \in DOMAIN (q \o <<m>>) : Settles((q \o <<m>>)[i], app)
  <1> DEFINE c == q \o <<m>>
  <1>1. q \o <<m>> = Append(q, m)
    OBVIOUS
  <1>2. /\ c \in Seq(Messages) /\ Len(c) = Len(q) + 1 /\ Len(q) \in Nat
        /\ \A i \in 1..Len(q) : c[i] = q[i]
        /\ c[Len(q) + 1] = m
    BY <1>1, Joined
  <1> HIDE DEF c
  <1>3. DOMAIN c = 1..(Len(q) + 1) /\ DOMAIN q = 1..Len(q)
    BY <1>2
  <1>4. ASSUME NEW i \in DOMAIN q, Settles(q[i], app)
        PROVE  \E j \in DOMAIN c : Settles(c[j], app)
    BY <1>2, <1>3, <1>4
  <1>5. ASSUME Settles(m, app)
        PROVE  \E j \in DOMAIN c : Settles(c[j], app)
    BY <1>2, <1>3, <1>5
  <1> QED
    BY <1>2, <1>4, <1>5 DEF c

(* The store of releases is nothing the screen reads until it asks. *)
LEMMA ShelfKeeps ==
    ASSUME StoreInv, UNCHANGED <<store, jobs, queue, shown>>, shelf' \in Shelves,
           \A app \in Apps : IsFiniteSet(shelf'.disk[app]), used' \in [requests : Nat, outside : Nat]
    PROVE  StoreInv'
  <1>1. T!Rendered' = T!Rendered
    BY DEF StoreInv, T!Rendered, T!ListDrawn, T!DetailDrawn, T!Rows, T!Entry, T!Step, T!Banner, T!NotesShown
  <1>2. ShownIsStore'
    BY <1>1 DEF StoreInv, ShownIsStore, RestShown
  <1>3. T!WorkingIsReal' /\ T!DetailIsListed'
    BY DEF StoreInv, T!WorkingIsReal, T!DetailIsListed, T!InFlight, T!Changing, T!Entry
  <1> QED
    BY <1>2, <1>3 DEF StoreInv, StoreTypes

(* A worker that ends sends how; one that changes an app sends it for that app. *)
LEMMA WorkerKeeps ==
    ASSUME StoreInv, UNCHANGED <<store, shown>>, shelf' \in Shelves,
           \A app \in Apps : IsFiniteSet(shelf'.disk[app]), used' \in [requests : Nat, outside : Nat],
           NEW job \in jobs, NEW m \in Messages, jobs' = jobs \ {job}, queue' = queue \o <<m>>,
           T!Changing(job) => Settles(m, job.app)
    PROVE  StoreInv'
  <1>1. T!Rendered' = T!Rendered
    BY DEF T!Rendered, T!ListDrawn, T!DetailDrawn, T!Rows, T!Entry, T!Step, T!Banner, T!NotesShown
  <1>2. ShownIsStore'
    BY <1>1 DEF StoreInv, ShownIsStore, RestShown
  <1>3. T!DetailIsListed'
    BY DEF StoreInv, T!DetailIsListed, T!Entry
  <1>4. queue \in Seq(Messages) /\ jobs \in SUBSET Jobs
        /\ \A other \in jobs : other.kind # "Refresh" => other.app \in Apps
    BY DEF StoreInv, StoreTypes
  <1>5. queue' \in Seq(Messages)
    BY <1>4, Sent
  <1>6. ASSUME NEW app, T!InFlight(app) PROVE T!InFlight(app)'
    <2>1. CASE \E i \in DOMAIN queue : Settles(queue[i], app)
      BY <1>4, <2>1, Sent, Flying
    <2>2. CASE \E other \in jobs : T!Changing(other) /\ other.app = app
      <3>1. PICK other \in jobs : T!Changing(other) /\ other.app = app
        BY <2>2
      <3>2. CASE other = job
        BY <1>4, <3>1, <3>2, Sent, Flying
      <3>3. CASE other # job
        BY <3>1, <3>3, Flying
      <3> QED
        BY <3>2, <3>3
    <2> QED
      BY <1>6, <2>1, <2>2, Flying
  <1>7. T!WorkingIsReal'
    <2> SUFFICES ASSUME store.working # T!Idle PROVE T!InFlight(store.working.app)'
      BY DEF T!WorkingIsReal, T!InFlight
    <2>1. T!InFlight(store.working.app)
      BY DEF StoreInv, T!WorkingIsReal
    <2> QED
      BY <1>6, <2>1
  <1> QED
    BY <1>2, <1>3, <1>4, <1>5, <1>7 DEF StoreInv, StoreTypes

(* A frame drawn shows the store: the rows it is said to change are all that did. *)
LEMMA StoreDrawKeeps ==
    ASSUME StoreInv, T!Draw
    PROVE  StoreInv'
  <1> DEFINE R == T!Rendered
             a == shown.shows
             rows == [i \in DOMAIN a.rows |-> IF i \in store.damage /\ i \in DOMAIN R.rows THEN R.rows[i]
                                              ELSE a.rows[i]]
  <1>1. /\ shown' = [shown EXCEPT !.shows = T!Presented, !.due = FALSE] /\ shown.due
        /\ UNCHANGED <<store, jobs, queue, shelf, used>>
    BY DEF T!Draw
  <1>2. R' = R
    BY <1>1 DEF T!Rendered, T!ListDrawn, T!DetailDrawn, T!Rows, T!Entry, T!Step, T!Banner, T!NotesShown
  <1>3. R = [screen |-> R.screen, rows |-> R.rows]
    BY RenderedParts
  <1>4. /\ shown = [shows |-> [screen |-> a.screen, rows |-> a.rows], due |-> shown.due,
                    skipped |-> shown.skipped]
        /\ shown.due \in BOOLEAN /\ shown.skipped \in BOOLEAN
    BY DEF StoreInv, StoreTypes
  <1>5. /\ a = [screen |-> a.screen, rows |-> a.rows]
        /\ shown \in [shows : {a}, due : BOOLEAN, skipped : BOOLEAN]
    <2>1. \A p, q, r, f, g : f = [shows |-> [screen |-> p, rows |-> q], due |-> r, skipped |-> g]
                             => f.shows = [screen |-> p, rows |-> q]
      OBVIOUS
    <2>2. a = [screen |-> a.screen, rows |-> a.rows]
      BY <1>4, <2>1
    <2> HIDE DEF a
    <2> QED
      BY <1>4, <2>2
  <1>6. T!Presented = IF store.damage = T!Full THEN R ELSE [a EXCEPT !.rows = rows]
    BY DEF T!Presented
  <1> DEFINE P == T!Presented
  <1>7. P = [screen |-> P.screen, rows |-> P.rows]
    <2>1. CASE store.damage = T!Full
      <3>1. P = R
        BY <1>6, <2>1
      <3> HIDE DEF P, R
      <3> QED
        BY <1>3, <3>1
    <2>2. CASE store.damage # T!Full
      <3>1. P = [a EXCEPT !.rows = rows]
        BY <1>6, <2>2
      <3> HIDE DEF P, rows, a
      <3>2. P = [screen |-> a.screen, rows |-> rows]
        BY <1>5, <3>1
      <3> QED
        BY <3>2, Parts
    <2> QED
      BY <2>1, <2>2
  <1>8. shown' \in [shows : {P}, due : BOOLEAN, skipped : BOOLEAN] /\ shown'.due = FALSE
        /\ shown'.skipped = shown.skipped
    <2>1. shown' = [shown EXCEPT !.shows = P, !.due = FALSE]
      BY <1>1
    <2> HIDE DEF P, a
    <2> QED
      BY <1>5, <2>1
  <1>9. shown'.shows = P /\ shown' = [shows |-> P, due |-> shown'.due, skipped |-> shown'.skipped]
    <2> HIDE DEF P
    <2> QED
      BY <1>8
  <1>10. ShownIsStore'
    <2> SUFFICES ASSUME ~shown.skipped PROVE P = R
      BY <1>2, <1>8, <1>9 DEF ShownIsStore
    <2>1. CASE store.damage = T!Full
      BY <1>6, <2>1
    <2>2. CASE store.damage # T!Full
      <3>1. /\ store.view = 0 /\ a.screen = R.screen /\ DOMAIN a.rows = DOMAIN R.rows
            /\ \A i \in DOMAIN R.rows : i \in store.damage \/ a.rows[i] = R.rows[i]
        BY <1>1, <2>2 DEF StoreInv, ShownIsStore, RestShown
      <3>2. rows = [i \in DOMAIN R.rows |-> R.rows[i]]
        <4> HIDE DEF R, a
        <4> QED
          BY <3>1
      <3>3. R.rows = [i \in DOMAIN R.rows |-> R.rows[i]]
        <4> DEFINE all == RowsOf(store.inventory)
                   row(i) == [entry |-> store.inventory[all[i]], step |-> StepOf(store.working, all[i])]
        <4>1. R.rows = [i \in DOMAIN all |-> row(i)]
          BY <3>1, ListRendered
        <4> HIDE DEF R, all, row
        <4> QED
          BY <4>1
      <3>4. P = [a EXCEPT !.rows = rows]
        BY <1>6, <2>2
      <3> HIDE DEF P, rows, a
      <3>5. P = [screen |-> a.screen, rows |-> rows]
        BY <1>5, <3>4
      <3> QED
        BY <1>3, <3>1, <3>2, <3>3, <3>5
    <2> QED
      BY <2>1, <2>2
  <1>11. T!WorkingIsReal' /\ T!DetailIsListed'
    BY <1>1 DEF StoreInv, T!WorkingIsReal, T!DetailIsListed, T!InFlight, T!Changing, T!Entry
  <1>12. StoreTypes'
    <2> HIDE DEF P
    <2>1. shown' = [shows |-> [screen |-> shown'.shows.screen, rows |-> shown'.shows.rows],
                    due |-> shown'.due, skipped |-> shown'.skipped]
      BY <1>7, <1>9
    <2> QED
      BY <1>1, <1>8, <2>1 DEF StoreInv, StoreTypes
  <1> QED
    BY <1>10, <1>11, <1>12 DEF StoreInv

(* A request handed to a worker. *)
LEMMA Dispatched ==
    ASSUME StoreTypes,
           NEW kind \in {"Refresh", "Notes", "Install", "Rollback"}, NEW app \in Places, NEW version \in Int,
           kind # "Refresh" => app \in Apps, T!Dispatch(kind, app, version)
    PROVE  /\ jobs' \in SUBSET Jobs /\ jobs \subseteq jobs'
           /\ \A job \in jobs' : job.kind # "Refresh" => job.app \in Apps
           /\ used' \in [requests : Nat, outside : Nat]
           /\ kind \in {"Install", "Rollback"} => \E job \in jobs' : T!Changing(job) /\ job.app = app
  <1> DEFINE new == [id |-> used.requests, kind |-> kind, app |-> app, version |-> version, told |-> FALSE]
  <1>1. /\ used' = [used EXCEPT !.requests = @ + 1] /\ jobs' = jobs \union {new}
        /\ used \in [requests : Nat, outside : Nat] /\ jobs \in SUBSET Jobs
        /\ \A job \in jobs : job.kind # "Refresh" => job.app \in Apps
    BY DEF T!Dispatch, StoreTypes
  <1>2. new \in Jobs /\ new.kind = kind /\ new.app = app
    BY <1>1 DEF Jobs
  <1> HIDE DEF new
  <1>3. used' \in [requests : Nat, outside : Nat]
    BY <1>1
  <1>4. kind \in {"Install", "Rollback"} => T!Changing(new)
    BY <1>2 DEF T!Changing
  <1> QED
    BY <1>1, <1>2, <1>3, <1>4

LEMMA FlyingKept ==
    ASSUME StoreInv, store'.working = store.working, jobs \subseteq jobs', queue' = queue
    PROVE  T!WorkingIsReal'
  BY DEF StoreInv, T!WorkingIsReal, T!InFlight, T!Changing

(* The button of a row, or of the detail view (row 0). *)
LEMMA StartKeeps ==
    ASSUME StoreInv, NEW kind \in {"Install", "Rollback"}, NEW app \in Apps, NEW version \in Int, NEW row \in Int,
           row # 0 => /\ store.view = 0 /\ row \in DOMAIN RowsOf(store.inventory)
                      /\ app = RowsOf(store.inventory)[row],
           T!Start(kind, app, version, row)
    PROVE  StoreInv'
  <1>0. StoreTypes /\ store \in Stores
    BY DEF StoreInv, StoreTypes
  <1> DEFINE now == [app |-> app, step |-> "STARTING"]
             rows == IF ~store.failure /\ row # 0 THEN {row} ELSE T!Full
  <1>1. /\ store.working = T!Idle /\ T!Dispatch(kind, app, version) /\ T!Redraw /\ UNCHANGED <<queue, shelf>>
        /\ store' = [store EXCEPT !.working = now, !.failure = FALSE, !.damage = rows]
    BY DEF T!Start, T!StartDamage
  <1>2. now \in [app : Places, step : Steps] /\ now.app = app /\ rows \in SUBSET Int
    BY DEF Places, Steps, T!Full
  <1> HIDE DEF now, rows
  <1>3. /\ store' \in Stores /\ store'.working = now /\ store'.damage = rows /\ store'.failure = FALSE
        /\ store'.view = store.view /\ store'.inventory = store.inventory
    BY <1>0, <1>1, <1>2 DEF Stores
  <1>4. /\ jobs' \in SUBSET Jobs /\ \A job \in jobs' : job.kind # "Refresh" => job.app \in Apps
        /\ used' \in [requests : Nat, outside : Nat]
        /\ \E job \in jobs' : T!Changing(job) /\ job.app = app
    BY <1>0, <1>1, Dispatched DEF Places
  <1>5. StoreTypes'
    BY <1>0, <1>1, <1>3, <1>4, Redrawn DEF StoreTypes
  <1>6. T!WorkingIsReal'
    BY <1>2, <1>3, <1>4, Flying DEF T!WorkingIsReal
  <1>7. T!DetailIsListed'
    BY <1>3 DEF StoreInv, T!DetailIsListed, T!Entry
  <1>8. ShownIsStore'
    <2>1. CASE rows = T!Full
      BY <1>0, <1>1, <1>3, <2>1, WholeAsked
    <2>2. CASE rows # T!Full
      <3>1. ~store.failure /\ row # 0 /\ rows = {row} /\ store.failure \in BOOLEAN
        BY <1>0, <2>2 DEF rows, Stores
      <3>2. ASSUME NEW other, other # app PROVE StepOf(store'.working, other) = StepOf(store.working, other)
        BY <1>1, <1>2, <1>3, <3>2 DEF StepOf, T!Idle
      <3> QED
        BY <1>0, <1>1, <1>3, <3>1, <3>2, RowAsked DEF StoreInv
    <2> QED
      BY <2>1, <2>2
  <1> QED
    BY <1>5, <1>6, <1>7, <1>8 DEF StoreInv

(* A step that changes what the screen shows and asks for the whole of it. *)
LEMMA WholeKeeps ==
    ASSUME StoreInv, T!Redraw, store' \in Stores, store'.damage = T!Full, T!DetailIsListed',
           T!WorkingIsReal', jobs' \in SUBSET Jobs, \A job \in jobs' : job.kind # "Refresh" => job.app \in Apps,
           queue' \in Seq(Messages), used' \in [requests : Nat, outside : Nat], UNCHANGED shelf
    PROVE  StoreInv'
  <1>1. StoreTypes
    BY DEF StoreInv
  <1>2. StoreTypes'
    BY <1>1, Redrawn DEF StoreTypes
  <1>3. ShownIsStore'
    BY <1>1, WholeAsked
  <1> QED
    BY <1>2, <1>3 DEF StoreInv

LEMMA PressRowKeeps ==
    ASSUME StoreInv, NEW app \in Apps, T!PressRow(app)
    PROVE  StoreInv'
  <1>0. StoreTypes /\ store \in Stores /\ queue \in Seq(Messages)
    BY DEF StoreInv, StoreTypes
  <1>1. /\ store.view = 0 /\ T!Entry(app).state # "none"
        /\ store' = [store EXCEPT !.view = app, !.failure = FALSE, !.notes = T!NoNotes, !.damage = T!Full]
        /\ T!Redraw /\ UNCHANGED <<queue, shelf>>
        /\ IF T!Entry(app).available = 0 THEN UNCHANGED <<jobs, used>>
           ELSE T!Dispatch("Notes", app, T!Entry(app).available)
    BY DEF T!PressRow
  <1>2. T!NoNotes \in [app : Places, text : Int] /\ T!Full \in SUBSET Int /\ app \in Places
    BY DEF T!NoNotes, T!Full, Places
  <1>3. /\ store' \in Stores /\ store'.damage = T!Full /\ store'.view = app
        /\ store'.inventory = store.inventory /\ store'.working = store.working
    BY <1>0, <1>1, <1>2 DEF Stores
  <1>4. /\ jobs' \in SUBSET Jobs /\ jobs \subseteq jobs'
        /\ \A job \in jobs' : job.kind # "Refresh" => job.app \in Apps
        /\ used' \in [requests : Nat, outside : Nat]
    <2>1. CASE T!Entry(app).available = 0
      BY <1>0, <1>1, <2>1 DEF StoreTypes
    <2>2. CASE T!Entry(app).available # 0
      <3>1. T!Entry(app).available \in Int
        BY <1>0 DEF T!Entry, Stores, Inventories, Listings
      <3> QED
        BY <1>0, <1>1, <1>2, <2>2, <3>1, Dispatched
    <2> QED
      BY <2>1, <2>2
  <1>5. T!DetailIsListed'
    BY <1>1, <1>3 DEF T!DetailIsListed, T!Entry
  <1>6. T!WorkingIsReal'
    BY <1>1, <1>3, <1>4, FlyingKept
  <1> QED
    BY <1>0, <1>1, <1>3, <1>4, <1>5, <1>6, WholeKeeps

LEMMA PressBackKeeps ==
    ASSUME StoreInv, T!PressBack
    PROVE  StoreInv'
  <1>0. StoreTypes /\ store \in Stores /\ queue \in Seq(Messages)
    BY DEF StoreInv, StoreTypes
  <1>1. /\ store' = [store EXCEPT !.view = 0, !.notes = T!NoNotes, !.damage = T!Full]
        /\ T!Redraw /\ UNCHANGED <<jobs, queue, shelf, used>>
    BY DEF T!PressBack
  <1>2. T!NoNotes \in [app : Places, text : Int] /\ T!Full \in SUBSET Int /\ 0 \in Places
    BY DEF T!NoNotes, T!Full, Places
  <1>3. /\ store' \in Stores /\ store'.damage = T!Full /\ store'.view = 0 /\ store'.working = store.working
    BY <1>0, <1>1, <1>2 DEF Stores
  <1>4. T!DetailIsListed'
    BY <1>3 DEF T!DetailIsListed
  <1>5. T!WorkingIsReal'
    BY <1>1, <1>3, FlyingKept
  <1> QED
    BY <1>0, <1>1, <1>3, <1>4, <1>5, WholeKeeps DEF StoreTypes

(* The button starts at most one operation, on the app it is shown beside. *)
LEMMA PrimaryKeeps ==
    ASSUME StoreInv, NEW app \in Apps, NEW row \in Int,
           row # 0 => /\ store.view = 0 /\ row \in DOMAIN RowsOf(store.inventory)
                      /\ app = RowsOf(store.inventory)[row],
           T!Primary(app, row)
    PROVE  StoreInv'
  <1>1. T!Entry(app).available \in Int /\ T!Entry(app).kept \in Int
    BY DEF StoreInv, StoreTypes, Stores, T!Entry, Inventories, Listings
  <1>2. PICK kind \in {"Install", "Rollback"}, version \in Int : T!Start(kind, app, version, row)
    BY <1>1 DEF T!Primary
  <1> QED
    BY <1>2, StartKeeps

LEMMA RowActionKeeps ==
    ASSUME StoreInv, NEW i \in 1..T!Cardinality(Apps), T!PressRowAction(i)
    PROVE  StoreInv'
  <1>1. /\ store.view = 0 /\ i \in DOMAIN RowsOf(store.inventory)
        /\ T!Primary(RowsOf(store.inventory)[i], i)
    BY RowsRead DEF T!PressRowAction
  <1>2. RowsOf(store.inventory)[i] \in Apps /\ i \in Int
    BY <1>1, RowsDiffer
  <1> QED
    BY <1>1, <1>2, PrimaryKeeps

LEMMA ViewKeeps ==
    ASSUME StoreInv, T!PressPrimary \/ T!PressRollback
    PROVE  StoreInv'
  <1>1. store.view \in Apps
    BY DEF StoreInv, StoreTypes, Stores, Places, T!PressPrimary, T!PressRollback
  <1>2. CASE T!PressPrimary
    BY <1>1, <1>2, PrimaryKeeps DEF T!PressPrimary
  <1>3. CASE T!PressRollback
    <2>1. T!Start("Rollback", store.view, 0, 0)
      BY <1>3 DEF T!PressRollback
    <2> QED
      BY <1>1, <2>1, StartKeeps
  <1> QED
    BY <1>2, <1>3

LEMMA RefreshKeeps ==
    ASSUME StoreInv, T!PressRefresh
    PROVE  StoreInv'
  <1>1. StoreTypes /\ T!Dispatch("Refresh", 0, 0) /\ UNCHANGED <<store, queue, shelf, shown>>
    BY DEF T!PressRefresh, StoreInv
  <1>2. /\ jobs' \in SUBSET Jobs /\ jobs \subseteq jobs'
        /\ \A job \in jobs' : job.kind # "Refresh" => job.app \in Apps
        /\ used' \in [requests : Nat, outside : Nat]
    BY <1>1, Dispatched DEF Places
  <1>3. T!Rendered' = T!Rendered
    BY <1>1 DEF T!Rendered, T!ListDrawn, T!DetailDrawn, T!Rows, T!Entry, T!Step, T!Banner, T!NotesShown
  <1>4. ShownIsStore'
    BY <1>1, <1>3 DEF StoreInv, ShownIsStore, RestShown
  <1>5. T!DetailIsListed' /\ T!WorkingIsReal'
    BY <1>1, <1>2, FlyingKept DEF StoreInv, T!DetailIsListed, T!Entry
  <1> QED
    BY <1>1, <1>2, <1>4, <1>5 DEF StoreInv, StoreTypes

LEMMA ProgressKeeps ==
    ASSUME StoreInv, NEW job \in jobs, T!TellProgress(job)
    PROVE  StoreInv'
  <1> DEFINE told == [job EXCEPT !.told = TRUE]
             m == [kind |-> "Progress", step |-> "COMMITTING"]
  <1>0. queue \in Seq(Messages) /\ jobs \in SUBSET Jobs
        /\ \A other \in jobs : other.kind # "Refresh" => other.app \in Apps
    BY DEF StoreInv, StoreTypes
  <1>1. /\ jobs' = (jobs \ {job}) \union {told} /\ queue' = queue \o <<m>>
        /\ UNCHANGED <<store, shelf, shown, used>> /\ job.kind = "Install"
    BY DEF T!TellProgress, T!Complete
  <1>2. told \in Jobs /\ told.kind = job.kind /\ told.app = job.app
    BY <1>0 DEF Jobs
  <1>3. m \in Messages
    BY DEF Messages, Reports
  <1> HIDE DEF told, m
  <1>4. queue' \in Seq(Messages)
    BY <1>0, <1>1, <1>3, Sent
  <1>5. ASSUME NEW app, T!InFlight(app) PROVE T!InFlight(app)'
    <2>1. CASE \E i \in DOMAIN queue : Settles(queue[i], app)
      BY <1>0, <1>1, <1>3, <2>1, Sent, Flying
    <2>2. CASE \E other \in jobs : T!Changing(other) /\ other.app = app
      <3>1. \E other \in jobs' : T!Changing(other) /\ other.app = app
        BY <1>1, <1>2, <2>2 DEF T!Changing
      <3> QED
        BY <3>1, Flying
    <2> QED
      BY <1>5, <2>1, <2>2, Flying
  <1>6. T!WorkingIsReal'
    <2> SUFFICES ASSUME store.working # T!Idle PROVE T!InFlight(store.working.app)'
      BY <1>1 DEF T!WorkingIsReal, T!InFlight
    <2>1. T!InFlight(store.working.app)
      BY DEF StoreInv, T!WorkingIsReal
    <2> QED
      BY <1>1, <1>5, <2>1
  <1>7. T!Rendered' = T!Rendered
    BY <1>1 DEF T!Rendered, T!ListDrawn, T!DetailDrawn, T!Rows, T!Entry, T!Step, T!Banner, T!NotesShown
  <1>8. ShownIsStore'
    BY <1>1, <1>7 DEF StoreInv, ShownIsStore, RestShown
  <1>9. T!DetailIsListed'
    BY <1>1 DEF StoreInv, T!DetailIsListed, T!Entry
  <1>10. StoreTypes'
    BY <1>0, <1>1, <1>2, <1>4 DEF StoreInv, StoreTypes
  <1> QED
    BY <1>6, <1>8, <1>9, <1>10 DEF StoreInv

(* How an install or a rollback leaves the shelf. *)
LEMMA Selected ==
    ASSUME StoreTypes, NEW app \in Apps, NEW version \in Int, T!Select(app, version)
    PROVE  shelf' \in Shelves /\ \A a \in Apps : IsFiniteSet(shelf'.disk[a])
  <1> DEFINE last == IF shelf.current[app] = version THEN shelf.previous[app] ELSE shelf.current[app]
             kept == shelf.disk[app] \union {version}
  <1>1. shelf \in Shelves /\ \A a \in Apps : IsFiniteSet(shelf.disk[a])
    BY DEF StoreTypes
  <1>2. last \in Int /\ kept \in SUBSET Int /\ IsFiniteSet(kept)
    <2>1. /\ shelf.current[app] \in Int /\ shelf.previous[app] \in Int
          /\ shelf.disk[app] \in SUBSET Int /\ IsFiniteSet(shelf.disk[app])
      BY <1>1 DEF Shelves
    <2> QED
      BY <2>1, FS_AddElement
  <1>3. shelf' = [shelf EXCEPT !.current = [@ EXCEPT ![app] = version],
                               !.disk = [@ EXCEPT ![app] = kept],
                               !.previous = [@ EXCEPT ![app] = last]]
    BY <1>1 DEF T!Select, Shelves
  <1> HIDE DEF last, kept
  <1>4. /\ [shelf.current EXCEPT ![app] = version] \in [Apps -> Int]
        /\ [shelf.disk EXCEPT ![app] = kept] \in [Apps -> SUBSET Int]
        /\ [shelf.previous EXCEPT ![app] = last] \in [Apps -> Int]
    BY <1>1, <1>2 DEF Shelves
  <1>5. shelf' \in Shelves /\ shelf'.disk = [shelf.disk EXCEPT ![app] = kept]
    BY <1>1, <1>3, <1>4 DEF Shelves
  <1>6. ASSUME NEW a \in Apps PROVE IsFiniteSet(shelf'.disk[a])
    <2>1. shelf'.disk[a] = IF a = app THEN kept ELSE shelf.disk[a]
      BY <1>1, <1>5, <1>6 DEF Shelves
    <2> QED
      BY <1>1, <1>2, <1>6, <2>1
  <1> QED
    BY <1>5, <1>6

LEMMA DoneTyped ==
    ASSUME NEW outcome \in {"Notes", "Installed", "RolledBack", "Failed"}, NEW app \in Places, NEW value \in Int
    PROVE  /\ T!Done(outcome, app, value) \in Messages
           /\ outcome # "Notes" => Settles(T!Done(outcome, app, value), app)
  <1> DEFINE m == [kind |-> "Done", outcome |-> outcome, app |-> app, value |-> value]
  <1>1. m \in Outcomes /\ m.kind = "Done" /\ m.app = app /\ m.outcome = outcome
    BY DEF Outcomes
  <1> QED
    BY <1>1 DEF T!Done, Messages, Settles

LEMMA JobsKeep ==
    ASSUME StoreInv, NEW job \in jobs,
           \/ T!Fails(job) \/ T!DoRefresh(job) \/ T!DoNotes(job) \/ T!DoInstall(job) \/ T!DoRollback(job)
    PROVE  StoreInv'
  <1>0. /\ StoreTypes /\ shelf \in Shelves /\ \A a \in Apps : IsFiniteSet(shelf.disk[a])
        /\ used \in [requests : Nat, outside : Nat]
        /\ job \in Jobs /\ job.app \in Places /\ job.version \in Int
        /\ job.kind # "Refresh" => job.app \in Apps
    BY DEF StoreInv, StoreTypes, Jobs
  <1>1. CASE T!Fails(job)
    <2> DEFINE m == T!Done("Failed", job.app, 0)
    <2>1. /\ used' = [used EXCEPT !.outside = @ + 1] /\ jobs' = jobs \ {job} /\ queue' = queue \o <<m>>
          /\ UNCHANGED <<store, shelf, shown>>
      BY <1>1 DEF T!Fails, T!Complete
    <2>2. used' \in [requests : Nat, outside : Nat]
      BY <1>0, <2>1
    <2>3. m \in Messages /\ Settles(m, job.app)
      BY <1>0, DoneTyped
    <2> HIDE DEF m
    <2> QED
      BY <1>0, <2>1, <2>2, <2>3, WorkerKeeps
  <1>2. CASE T!DoRefresh(job)
    <2> DEFINE m == [kind |-> "Done", outcome |-> "Refreshed", app |-> 0, value |-> T!Survey]
    <2>1. /\ job.kind = "Refresh" /\ jobs' = jobs \ {job} /\ queue' = queue \o <<m>>
          /\ UNCHANGED <<store, shown, used, shelf>>
      BY <1>2 DEF T!DoRefresh, T!Answers, T!Complete
    <2>2. m \in Messages
      BY <1>0, SurveyTyped DEF Messages, Surveys
    <2>3. ~T!Changing(job)
      BY <2>1 DEF T!Changing
    <2> HIDE DEF m
    <2> QED
      BY <1>0, <2>1, <2>2, <2>3, WorkerKeeps
  <1>3. CASE T!DoNotes(job)
    <2> DEFINE m == IF T!Offers(job) THEN T!Done("Notes", job.app, job.version) ELSE T!Done("Failed", job.app, 0)
    <2>1. /\ job.kind = "Notes" /\ jobs' = jobs \ {job} /\ queue' = queue \o <<m>>
          /\ UNCHANGED <<store, shown, used, shelf>>
      BY <1>3 DEF T!DoNotes, T!Answers, T!Complete
    <2>2. m \in Messages
      BY <1>0, DoneTyped
    <2>3. ~T!Changing(job)
      BY <2>1 DEF T!Changing
    <2> HIDE DEF m
    <2> QED
      BY <1>0, <2>1, <2>2, <2>3, WorkerKeeps
  <1>4. CASE T!DoInstall(job)
    <2>1. job.kind = "Install" /\ job.app \in Apps
      BY <1>0, <1>4 DEF T!DoInstall
    <2>2. CASE T!Offers(job) /\ job.version >= shelf.current[job.app]
      <3> DEFINE m == T!Done("Installed", job.app, job.version)
      <3>1. /\ jobs' = jobs \ {job} /\ queue' = queue \o <<m>> /\ UNCHANGED <<store, shown, used>>
            /\ T!Select(job.app, job.version)
        BY <1>4, <2>2 DEF T!DoInstall, T!Answers, T!Complete
      <3>2. m \in Messages /\ Settles(m, job.app)
        BY <1>0, DoneTyped
      <3>3. shelf' \in Shelves /\ \A a \in Apps : IsFiniteSet(shelf'.disk[a])
        BY <1>0, <2>1, <3>1, Selected
      <3> HIDE DEF m
      <3> QED
        BY <1>0, <3>1, <3>2, <3>3, WorkerKeeps
    <2>3. CASE ~(T!Offers(job) /\ job.version >= shelf.current[job.app])
      <3> DEFINE m == T!Done("Failed", job.app, 0)
      <3>1. /\ jobs' = jobs \ {job} /\ queue' = queue \o <<m>> /\ UNCHANGED <<store, shown, used, shelf>>
        BY <1>4, <2>3 DEF T!DoInstall, T!Answers, T!Complete
      <3>2. m \in Messages /\ Settles(m, job.app)
        BY <1>0, DoneTyped
      <3> HIDE DEF m
      <3> QED
        BY <1>0, <3>1, <3>2, WorkerKeeps
    <2> QED
      BY <2>2, <2>3
  <1>5. CASE T!DoRollback(job)
    <2>1. job.kind = "Rollback" /\ job.app \in Apps
      BY <1>0, <1>5 DEF T!DoRollback
    <2>2. CASE shelf.previous[job.app] # 0
      <3> DEFINE m == T!Done("RolledBack", job.app, shelf.previous[job.app])
      <3>1. /\ jobs' = jobs \ {job} /\ queue' = queue \o <<m>> /\ UNCHANGED <<store, shown, used>>
            /\ T!Select(job.app, shelf.previous[job.app])
        BY <1>5, <2>2 DEF T!DoRollback, T!Answers, T!Complete
      <3>2. shelf.previous[job.app] \in Int
        BY <1>0, <2>1 DEF Shelves
      <3>3. m \in Messages /\ Settles(m, job.app)
        BY <1>0, <3>2, DoneTyped
      <3>4. shelf' \in Shelves /\ \A a \in Apps : IsFiniteSet(shelf'.disk[a])
        BY <1>0, <2>1, <3>1, <3>2, Selected
      <3> HIDE DEF m
      <3> QED
        BY <1>0, <3>1, <3>3, <3>4, WorkerKeeps
    <2>3. CASE shelf.previous[job.app] = 0
      <3> DEFINE m == T!Done("Failed", job.app, 0)
      <3>1. /\ jobs' = jobs \ {job} /\ queue' = queue \o <<m>> /\ UNCHANGED <<store, shown, used, shelf>>
        BY <1>5, <2>3 DEF T!DoRollback, T!Answers, T!Complete
      <3>2. m \in Messages /\ Settles(m, job.app)
        BY <1>0, DoneTyped
      <3> HIDE DEF m
      <3> QED
        BY <1>0, <3>1, <3>2, WorkerKeeps
    <2> QED
      BY <2>2, <2>3
  <1> QED
    BY <1>1, <1>2, <1>3, <1>4, <1>5

(* A completion handled keeps what the others will say. *)
LEMMA Popped ==
    ASSUME queue \in Seq(Messages), queue # <<>>, queue' = Tail(queue), NEW app,
           ~Settles(Head(queue), app), \E i \in DOMAIN queue : Settles(queue[i], app)
    PROVE  \E j \in DOMAIN queue' : Settles(queue'[j], app)
  <1>1. /\ Tail(queue) \in Seq(Messages) /\ Len(queue) \in Nat \ {0} /\ Len(Tail(queue)) = Len(queue) - 1
        /\ Head(queue) = queue[1]
        /\ \A i \in 1..(Len(queue) - 1) : Tail(queue)[i] = queue[i + 1]
    BY Left
  <1>2. DOMAIN queue = 1..Len(queue) /\ DOMAIN queue' = 1..(Len(queue) - 1)
    BY <1>1
  <1>3. PICK i \in DOMAIN queue : Settles(queue[i], app)
    OBVIOUS
  <1>4. i # 1 /\ i \in 1..Len(queue)
    BY <1>1, <1>2, <1>3
  <1>5. i - 1 \in 1..(Len(queue) - 1) /\ (i - 1) + 1 = i
    BY <1>1, <1>4
  <1>6. queue'[i - 1] = queue[i]
    BY <1>1, <1>5
  <1> QED
    BY <1>2, <1>3, <1>5, <1>6

LEMMA CompletedKeeps ==
    ASSUME StoreInv, T!Completed
    PROVE  StoreInv'
  <1> DEFINE m == Head(queue)
  <1>0. /\ StoreTypes /\ store \in Stores /\ queue \in Seq(Messages)
        /\ jobs \in SUBSET Jobs /\ used \in [requests : Nat, outside : Nat]
        /\ \A job \in jobs : job.kind # "Refresh" => job.app \in Apps
    BY DEF StoreInv, StoreTypes
  <1>1. /\ queue # <<>> /\ queue' = Tail(queue) /\ T!Redraw /\ UNCHANGED <<jobs, shelf, used>>
        /\ IF m.kind = "Progress" THEN T!Report(m.step) ELSE T!Apply(m)
    BY DEF T!Completed
  <1>2. m \in Messages /\ queue' \in Seq(Messages)
    BY <1>0, <1>1, Left
  <1> HIDE DEF m
  <1>4. ASSUME store'.working = store.working \/ (store.working # T!Idle /\ store'.working.app = store.working.app),
               ~Settles(m, store.working.app)
        PROVE  T!WorkingIsReal'
    <2> DEFINE app == store.working.app
    <2>1. SUFFICES ASSUME store'.working # T!Idle
                   PROVE  \/ \E job \in jobs' : T!Changing(job) /\ job.app = app
                          \/ \E i \in DOMAIN queue' : Settles(queue'[i], app)
      BY <1>4 DEF T!WorkingIsReal, T!InFlight, T!Changing, Settles
    <2>2. T!InFlight(app)
      BY <1>4, <2>1 DEF StoreInv, T!WorkingIsReal
    <2>3. \/ \E job \in jobs : T!Changing(job) /\ job.app = app
          \/ \E i \in DOMAIN queue : Settles(queue[i], app)
      BY <2>2, Flying
    <2> HIDE DEF app
    <2> QED
      BY <1>0, <1>1, <1>4, <2>3, Popped DEF app, m
  <1>5. ASSUME store' \in Stores, store'.damage = T!Full, T!DetailIsListed', T!WorkingIsReal'
        PROVE  StoreInv'
    BY <1>0, <1>1, <1>2, <1>5, WholeKeeps
  <1>6. T!Full \in SUBSET Int /\ T!Idle \in [app : Places, step : Steps]
        /\ T!NoNotes \in [app : Places, text : Int] /\ 0 \in Places
    BY DEF T!Full, T!Idle, T!NoNotes, Places, Steps
  <1>7. ASSUME m.kind = "Progress" PROVE StoreInv'
    <2> DEFINE now == IF store.working = T!Idle THEN store.working ELSE [store.working EXCEPT !.step = m.step]
    <2>1. m.step \in Steps /\ \A app : ~Settles(m, app)
      BY <1>2, <1>7 DEF Messages, Reports, Outcomes, Surveys, Steps, Settles
    <2>2. store' = [store EXCEPT !.damage = T!WorkingDamage, !.working = now]
      BY <1>1, <1>7 DEF T!Report
    <2>3. store.working \in [app : Places, step : Steps]
      BY <1>0 DEF Stores
    <2>4. now \in [app : Places, step : Steps] /\ now.app = store.working.app
          /\ (store.working = T!Idle => now = store.working)
      BY <2>1, <2>3
    <2> HIDE DEF now
    <2>5. T!WorkingDamage \in SUBSET Int
          /\ (T!WorkingDamage # T!Full
               => /\ store.view = 0 /\ store.working # T!Idle
                  /\ \E k \in DOMAIN RowsOf(store.inventory) :
                        T!WorkingDamage = {k} /\ RowsOf(store.inventory)[k] = store.working.app)
      <3> DEFINE rows == RowsOf(store.inventory)
                 k == T!RowOf(store.working.app)
      <3>1. k = IF \E i \in DOMAIN rows : rows[i] = store.working.app
                THEN CHOOSE i \in DOMAIN rows : rows[i] = store.working.app ELSE 0
        BY RowsRead DEF T!RowOf
      <3> HIDE DEF k
      <3>2. k # 0 => k \in DOMAIN rows /\ rows[k] = store.working.app
        BY <3>1
      <3>3. k \in Int
        BY <3>1, <3>2, RowsDiffer
      <3>4. T!WorkingDamage = IF store.view = 0 /\ store.working # T!Idle /\ k # 0 THEN {k} ELSE T!Full
        BY DEF T!WorkingDamage, k
      <3> QED
        BY <1>6, <3>2, <3>3, <3>4
    <2> DEFINE d == T!WorkingDamage
    <2>6. store' = [store EXCEPT !.damage = d, !.working = now] /\ d \in SUBSET Int
      BY <2>2, <2>5
    <2> HIDE DEF d
    <2>7. /\ store' \in Stores /\ store'.damage = d /\ store'.working = now /\ store'.view = store.view
          /\ store'.inventory = store.inventory /\ store'.failure = store.failure
      BY <1>0, <2>4, <2>6 DEF Stores
    <2>8. T!DetailIsListed'
      BY <2>7 DEF StoreInv, T!DetailIsListed, T!Entry
    <2>9. T!WorkingIsReal'
      BY <1>4, <2>1, <2>4, <2>7
    <2>10. CASE d = T!Full
      BY <1>5, <2>7, <2>8, <2>9, <2>10
    <2>11. CASE d # T!Full
      <3>1. PICK k \in DOMAIN RowsOf(store.inventory) :
                /\ d = {k} /\ RowsOf(store.inventory)[k] = store.working.app
                /\ store.view = 0
        BY <2>5, <2>11 DEF d
      <3>2. ASSUME NEW app, app # store.working.app
            PROVE  StepOf(store'.working, app) = StepOf(store.working, app)
        BY <2>4, <2>7, <3>2 DEF StepOf
      <3>3. ShownIsStore'
        BY <1>0, <1>1, <2>7, <3>1, <3>2, RowAsked DEF StoreInv
      <3>4. StoreTypes'
        BY <1>0, <1>1, <1>2, <2>7, Redrawn DEF StoreTypes
      <3> QED
        BY <2>8, <2>9, <3>3, <3>4 DEF StoreInv
    <2> QED
      BY <2>10, <2>11
  <1>8. ASSUME m.kind # "Progress" PROVE StoreInv'
    <2>1. T!Apply(m) /\ m \in Outcomes \union Surveys
      BY <1>1, <1>2, <1>8 DEF Messages, Reports
    <2>2. CASE m.outcome = "Refreshed"
      <3> DEFINE gone == store.view # 0 /\ m.value[store.view].state = "none"
                 seen == IF gone THEN 0 ELSE store.view
                 notes == IF gone THEN T!NoNotes ELSE store.notes
                 value == m.value
      <3>1. store' = [store EXCEPT !.inventory = value, !.damage = T!Full, !.view = seen, !.notes = notes]
        BY <2>1, <2>2 DEF T!Apply, T!ApplyRefreshed
      <3>2. value \in Inventories /\ \A app : ~Settles(m, app)
        BY <2>1, <2>2 DEF Outcomes, Surveys, Settles
      <3>3. seen \in Places /\ notes \in [app : Places, text : Int]
        BY <1>0, <1>6 DEF Stores
      <3>4. seen # 0 => value[seen].state # "none"
        OBVIOUS
      <3> HIDE DEF seen, notes, value
      <3>5. /\ store' \in Stores /\ store'.damage = T!Full /\ store'.working = store.working
            /\ store'.view = seen /\ store'.inventory = value
        BY <1>0, <1>6, <3>1, <3>2, <3>3 DEF Stores
      <3>6. T!DetailIsListed'
        BY <3>4, <3>5 DEF T!DetailIsListed, T!Entry
      <3> QED
        BY <1>4, <1>5, <3>2, <3>5, <3>6
    <2>3. CASE m.outcome = "Notes"
      <3> DEFINE notes == [app |-> m.app, text |-> m.value]
      <3>1. store' = [store EXCEPT !.notes = notes, !.damage = T!Full]
        BY <2>1, <2>3 DEF T!Apply, T!ApplyNotes
      <3>2. notes \in [app : Places, text : Int] /\ \A app : ~Settles(m, app)
        BY <2>1, <2>3 DEF Outcomes, Surveys, Settles
      <3> HIDE DEF notes
      <3>3. /\ store' \in Stores /\ store'.damage = T!Full /\ store'.working = store.working
            /\ store'.view = store.view /\ store'.inventory = store.inventory
        BY <1>0, <1>6, <3>1, <3>2 DEF Stores
      <3>4. T!DetailIsListed'
        BY <3>3 DEF StoreInv, T!DetailIsListed, T!Entry
      <3> QED
        BY <1>4, <1>5, <3>2, <3>3, <3>4
    <2>4. CASE m.outcome \notin {"Refreshed", "Notes"}
      <3>1. PICK failure \in BOOLEAN :
                store' = [store EXCEPT !.working = T!Idle, !.failure = failure, !.damage = T!Full]
        BY <2>1, <2>4 DEF T!Apply, T!ApplyFinished, T!ApplyFailed
      <3>2. /\ store' \in Stores /\ store'.damage = T!Full /\ store'.working = T!Idle
            /\ store'.view = store.view /\ store'.inventory = store.inventory
        BY <1>0, <1>6, <3>1 DEF Stores
      <3>3. T!DetailIsListed' /\ T!WorkingIsReal'
        BY <3>2 DEF StoreInv, T!DetailIsListed, T!Entry, T!WorkingIsReal
      <3> QED
        BY <1>5, <3>2, <3>3
    <2> QED
      BY <2>2, <2>3, <2>4
  <1> QED
    BY <1>7, <1>8

(* What others do to the shelf meanwhile. *)
LEMMA OutsideKeeps ==
    ASSUME StoreInv, NEW change \in Shelves, \A a \in Apps : IsFiniteSet(change.disk[a]), T!Outside(change)
    PROVE  StoreInv'
  <1>1. /\ used' = [used EXCEPT !.outside = @ + 1] /\ shelf' = change
        /\ UNCHANGED <<store, jobs, queue, shown>> /\ used \in [requests : Nat, outside : Nat]
    BY DEF T!Outside, StoreInv, StoreTypes
  <1>2. used' \in [requests : Nat, outside : Nat]
    BY <1>1
  <1> QED
    BY <1>1, <1>2, ShelfKeeps

LEMMA OthersKeep ==
    ASSUME StoreInv, NEW app \in Apps,
           \/ T!Publish(app) \/ T!Withdraw(app) \/ T!HalfInstall(app)
           \/ T!RecordAttempt(app) \/ T!RecordStarted(app) \/ T!RecordFailure(app) \/ T!ClearHealth(app)
    PROVE  StoreInv'
  <1>0. shelf \in Shelves /\ \A a \in Apps : IsFiniteSet(shelf.disk[a])
    BY DEF StoreInv, StoreTypes
  <1>1. ASSUME NEW catalog \in [Apps -> Int], T!Outside([shelf EXCEPT !.catalog = catalog]) PROVE StoreInv'
    <2> DEFINE change == [shelf EXCEPT !.catalog = catalog]
    <2>1. change \in Shelves /\ change.disk = shelf.disk /\ T!Outside(change)
      BY <1>0, <1>1 DEF Shelves
    <2> HIDE DEF change
    <2> QED
      BY <1>0, <2>1, OutsideKeeps
  <1>2. ASSUME NEW health \in Healths, T!Record(app, health) PROVE StoreInv'
    <2> DEFINE change == [shelf EXCEPT !.health[app] = health]
    <2>1. change = [shelf EXCEPT !.health = [@ EXCEPT ![app] = health]] /\ T!Outside(change)
      BY <1>0, <1>2 DEF T!Record, Shelves
    <2> HIDE DEF change
    <2>2. [shelf.health EXCEPT ![app] = health] \in [Apps -> Healths]
      BY <1>0, <1>2 DEF Shelves
    <2>3. change \in Shelves /\ change.disk = shelf.disk
      BY <1>0, <2>1, <2>2 DEF Shelves
    <2> QED
      BY <1>0, <2>1, <2>3, OutsideKeeps
  <1>3. /\ shelf.health[app] \in Healths /\ shelf.current[app] \in Int /\ shelf.catalog[app] \in Int
        /\ shelf.disk[app] \in SUBSET Int
    BY <1>0 DEF Shelves
  <1>4. \A version \in Int : T!Fresh(version) \in Healths
    BY DEF T!Fresh, Healths
  <1>5. T!OfVersion(app, shelf.current[app]) \in Healths
    BY <1>3, <1>4 DEF T!OfVersion
  <1>7. CASE T!Publish(app)
    <2> DEFINE catalog == [shelf.catalog EXCEPT ![app] = shelf.catalog[app] + 1]
    <2>1. catalog \in [Apps -> Int] /\ T!Outside([shelf EXCEPT !.catalog = catalog])
      BY <1>0, <1>3, <1>7 DEF T!Publish, Shelves
    <2> QED
      BY <1>1, <2>1
  <1>8. CASE T!Withdraw(app)
    <2> DEFINE catalog == [shelf.catalog EXCEPT ![app] = 0]
    <2>1. catalog \in [Apps -> Int] /\ T!Outside([shelf EXCEPT !.catalog = catalog])
      BY <1>0, <1>3, <1>8 DEF T!Withdraw, Shelves
    <2> QED
      BY <1>1, <2>1
  <1>9. CASE T!HalfInstall(app)
    <2> DEFINE disk == [shelf.disk EXCEPT ![app] = {T!Offered(app)}]
               change == [shelf EXCEPT !.disk = disk]
    <2>1. T!Outside(change)
      BY <1>0, <1>9 DEF T!HalfInstall, Shelves
    <2>2. T!Offered(app) \in Int
      BY <1>3 DEF T!Offered
    <2>3. disk \in [Apps -> SUBSET Int] /\ \A a \in Apps : disk[a] = shelf.disk[a] \/ disk[a] = {T!Offered(app)}
      BY <1>0, <2>2 DEF Shelves
    <2> HIDE DEF disk
    <2>4. change \in Shelves /\ change.disk = disk
      BY <1>0, <2>3 DEF Shelves
    <2> HIDE DEF change
    <2>5. ASSUME NEW a \in Apps PROVE IsFiniteSet(change.disk[a])
      <3>1. change.disk[a] = shelf.disk[a] \/ change.disk[a] = {T!Offered(app)}
        BY <2>3, <2>4
      <3>2. IsFiniteSet({T!Offered(app)})
        BY FS_Singleton
      <3> QED
        BY <1>0, <3>1, <3>2
    <2> QED
      BY <2>1, <2>4, <2>5, OutsideKeeps
  <1>10. CASE T!RecordAttempt(app)
    <2> DEFINE old == T!OfVersion(app, shelf.current[app])
               health == [old EXCEPT !.attempts = @ + 1]
    <2>1. T!Record(app, health)
      BY <1>10 DEF T!RecordAttempt
    <2>2. old \in Healths
      BY <1>5
    <2> HIDE DEF old
    <2>3. health \in Healths
      BY <2>2 DEF Healths
    <2> HIDE DEF health
    <2> QED
      BY <1>2, <2>1, <2>3
  <1>11. CASE T!RecordStarted(app)
    <2> DEFINE old == T!Fresh(shelf.current[app])
               health == [old EXCEPT !.started = TRUE]
    <2>1. T!Record(app, health)
      BY <1>11 DEF T!RecordStarted
    <2>2. old \in Healths
      BY <1>3, <1>4
    <2> HIDE DEF old
    <2>3. health \in Healths
      BY <2>2 DEF Healths
    <2> HIDE DEF health
    <2> QED
      BY <1>2, <2>1, <2>3
  <1>12. CASE T!RecordFailure(app)
    <2> DEFINE old == T!OfVersion(app, shelf.current[app])
               health == [old EXCEPT !.started = FALSE]
    <2>1. T!Record(app, health)
      BY <1>12 DEF T!RecordFailure
    <2>2. old \in Healths
      BY <1>5
    <2> HIDE DEF old
    <2>3. health \in Healths
      BY <2>2 DEF Healths
    <2> HIDE DEF health
    <2> QED
      BY <1>2, <2>1, <2>3
  <1>13. CASE T!ClearHealth(app)
    <2>1. T!NoHealth \in Healths
      BY <1>4 DEF T!NoHealth
    <2> QED
      BY <1>2, <1>13, <2>1 DEF T!ClearHealth
  <1> QED
    BY <1>7, <1>8, <1>9, <1>10, <1>11, <1>12, <1>13

LEMMA StoreStep ==
    ASSUME StoreInv, T!StoreNext
    PROVE  StoreInv'
  <1>1. CASE T!Draw
    BY <1>1, StoreDrawKeeps
  <1>2. CASE T!PressRefresh
    BY <1>2, RefreshKeeps
  <1>3. CASE T!PressBack
    BY <1>3, PressBackKeeps
  <1>4. CASE T!PressPrimary \/ T!PressRollback
    BY <1>4, ViewKeeps
  <1>5. CASE T!Completed
    BY <1>5, CompletedKeeps
  <1>6. ASSUME NEW app \in Apps, T!PressRow(app) PROVE StoreInv'
    BY <1>6, PressRowKeeps
  <1>7. ASSUME NEW i \in 1..T!Cardinality(Apps), T!PressRowAction(i) PROVE StoreInv'
    BY <1>7, RowActionKeeps
  <1>8. ASSUME NEW job \in jobs, T!TellProgress(job) PROVE StoreInv'
    BY <1>8, ProgressKeeps
  <1>9. ASSUME NEW job \in jobs,
               \/ T!Fails(job) \/ T!DoRefresh(job) \/ T!DoNotes(job) \/ T!DoInstall(job) \/ T!DoRollback(job)
        PROVE  StoreInv'
    BY <1>9, JobsKeep
  <1>10. ASSUME T!NetworkChanges PROVE StoreInv'
    <2>1. UNCHANGED <<store, jobs, queue, shown>>
          /\ used' = [used EXCEPT !.outside = @ + 1] /\ shelf' = [shelf EXCEPT !.reachable = ~@]
      BY <1>10 DEF T!NetworkChanges, T!Outside
    <2>2. /\ shelf \in Shelves /\ \A a \in Apps : IsFiniteSet(shelf.disk[a])
          /\ used \in [requests : Nat, outside : Nat]
      BY DEF StoreInv, StoreTypes
    <2>3. used' \in [requests : Nat, outside : Nat]
      BY <2>1, <2>2
    <2> DEFINE reachable == ~shelf.reachable
    <2>4. shelf' = [shelf EXCEPT !.reachable = reachable] /\ reachable \in BOOLEAN
      BY <2>1
    <2> HIDE DEF reachable
    <2>5. shelf' \in Shelves /\ shelf'.disk = shelf.disk
      BY <2>2, <2>4 DEF Shelves
    <2> QED
      BY <2>1, <2>2, <2>3, <2>5, ShelfKeeps
  <1>11. ASSUME NEW app \in Apps,
                \/ T!Publish(app) \/ T!Withdraw(app) \/ T!HalfInstall(app) \/ T!RecordAttempt(app)
                \/ T!RecordStarted(app) \/ T!RecordFailure(app) \/ T!ClearHealth(app)
         PROVE  StoreInv'
    BY <1>11, OthersKeep
  <1> QED
    BY <1>1, <1>2, <1>3, <1>4, <1>5, <1>6, <1>7, <1>8, <1>9, <1>10, <1>11 DEF T!StoreNext

LEMMA StoreSound == StoreInv => T!WorkingIsReal /\ T!DetailIsListed /\ T!ClaimCoversTheChange
  BY DEF StoreInv, ShownIsStore, T!ClaimCoversTheChange

---------------------------------------------------------------------------
(* The screens together *)

\* One app runs; what is known of its state holds while it does.
ScreensInv ==
    /\ which \in {"chess", "sudoku", "settings", "store", "home"}
    /\ which = "settings" => SettingsInv
    /\ which = "store" => StoreInv
    /\ which = "home" => HomeInv

(* Every step of Settings, the App Store and Home keeps what is known of them. *)
LEMMA ScreensStep ==
    ASSUME ScreensInv, [Next]_vars
    PROVE  ScreensInv'
  <1>1. CASE UNCHANGED vars
    <2>1. UNCHANGED <<which, panel, wire, service, lit, behind>>
          /\ UNCHANGED <<store, jobs, queue, shelf, shown, used>>
          /\ UNCHANGED <<home, down, line, power, host, tally>>
      BY <1>1 DEF vars, settings, appstore, shelfapp
    <2>2. which = "settings" => SettingsInv'
      BY <2>1, GlassRests DEF ScreensInv, SettingsInv, SettingsTypes, InStore
    <2>3. which = "home" => HomeInv'
      BY <2>1 DEF ScreensInv, HomeInv, HomeTypes, H!LitMeansTouched
    <2>4. which = "store" => StoreInv'
      <3> SUFFICES ASSUME StoreInv PROVE StoreInv'
        BY DEF ScreensInv
      <3>1. /\ shelf' \in Shelves /\ used' \in [requests : Nat, outside : Nat]
            /\ \A app \in Apps : IsFiniteSet(shelf'.disk[app])
        BY <2>1 DEF StoreInv, StoreTypes
      <3> QED
        BY <2>1, <3>1, ShelfKeeps
    <2> QED
      BY <2>1, <2>2, <2>3, <2>4 DEF ScreensInv
  <1>2. CASE Next
    <2>1. which' = which /\ which \in {"chess", "sudoku", "settings", "store", "home"}
      BY <1>2 DEF Next, ScreensInv
    <2>2. ASSUME which = "settings" PROVE SettingsInv'
      BY <1>2, <2>2, SettingsStep DEF Next, ScreensInv
    <2>3. ASSUME which = "store" PROVE StoreInv'
      BY <1>2, <2>3, StoreStep DEF Next, ScreensInv
    <2>4. ASSUME which = "home" PROVE HomeInv'
      BY <1>2, <2>4, HomeStep DEF Next, ScreensInv
    <2> QED
      BY <2>1, <2>2, <2>3, <2>4 DEF ScreensInv
  <1> QED
    BY <1>1, <1>2

\* Whatever the apps a store lists, the queries a second allows, the fingers on
\* the glass and the order in which answers and completions come: once all
\* it asked is answered, the list Settings keeps is the store's, unless its last
\* read was refused or another program changed the store under it; its glass shows
\* the page and the dialog that take presses, and the rows too unless an answer was
\* filed since; in the App Store a working row has a worker, a detail page shows a
\* listed app, and the rows said to change are all that changed; in Home a lit tile
\* has a finger on it, and with nothing on its way the battery is as last read.
THEOREM ScreensTellTheTruth == Spec => []ScreensAreSound
  <1>1. Init => ScreensInv
    BY SettingsInit, StoreStarts, HomeInit DEF Init, ScreensInv
  <1>2. ScreensInv /\ [Next]_vars => ScreensInv'
    BY ScreensStep
  <1>3. ScreensInv => ScreensAreSound
    BY SettingsSound, StoreSound, HomeSound DEF ScreensInv, ScreensAreSound
  <1> QED
    BY <1>1, <1>2, <1>3, PTL DEF Spec

---------------------------------------------------------------------------
(* Chess *)

Spots == C!Squares \union {C!None}
MovesMade == [from : Spots, to : Spots, promotion : C!Pieces \union {"none"}]
MoveEvents == [kind : {"move"}, move : MovesMade, reason : {"none"}]
ClaimEvents == [kind : {"claim"}, move : {C!None}, reason : {"none", "threefold", "fifty"}]
EventsMade == MoveEvents \union ClaimEvents

\* A game of the engine's positions and its events.
IsGame(g) ==
    /\ g = [board |-> g.board, clock |-> g.clock, counts |-> g.counts, outcome |-> g.outcome, events |-> g.events]
    /\ g.board \in DOMAIN Engine
    /\ g.events \in Seq(EventsMade)

LEMMA NewIsGame == IsGame(C!NewGame) /\ C!NewGame.events = <<>>
  <1> DEFINE counts == [p \in {StartPosition} |-> 1]
             g == [board |-> StartPosition, outcome |-> "none", clock |-> 0, counts |-> counts, events |-> <<>>]
  <1>1. C!NewGame = g
    BY DEF C!NewGame
  <1> HIDE DEF counts
  <1>2. g.board = StartPosition /\ g.events = <<>> /\ g.clock = 0 /\ g.counts = counts /\ g.outcome = "none"
    OBVIOUS
  <1>3. g = [board |-> g.board, clock |-> g.clock, counts |-> g.counts, outcome |-> g.outcome, events |-> g.events]
    BY <1>2
  <1> QED
    BY <1>1, <1>2, <1>3, EngineAssumption DEF IsGame

(* A move the rules allow is one of the engine's, *)
LEMMA AllowedIsKnown ==
    ASSUME NEW g, NEW mv, C!Verdict(g, mv) = "ok"
    PROVE  \E m \in Engine[g.board].moves : m.from = mv.from /\ m.to = mv.to /\ m.promotion = mv.promotion
  <1> DEFINE found == {m \in Engine[g.board].moves : m.from = mv.from /\ m.to = mv.to}
  <1>1. \E m \in found : m.promotion = mv.promotion
    BY DEF C!Verdict
  <1> QED
    BY <1>1

(* and a move that needs a piece is allowed with any of them. *)
LEMMA PromotionIsAllowed ==
    ASSUME NEW g, IsGame(g), NEW from, NEW to, NEW piece \in C!Pieces,
           C!Verdict(g, [from |-> from, to |-> to, promotion |-> "none"]) = "PromotionRequired"
    PROVE  C!Verdict(g, [from |-> from, to |-> to, promotion |-> piece]) = "ok"
  <1> DEFINE found == {m \in Engine[g.board].moves : m.from = from /\ m.to = to}
             promotes == \E m \in found : m.promotion # "none"
             at == C!PieceAt(g, from)
             ask(p) == [from |-> from, to |-> to, promotion |-> p]
  <1>1. \A p : C!Verdict(g, ask(p)) =
            CASE g.outcome # "none" -> "GameOver"
              [] g.outcome = "none" /\ at = C!None -> "EmptySquare"
              [] g.outcome = "none" /\ at # C!None
                   -> IF at[1] # C!Side(g) THEN "WrongColor"
                      ELSE IF found = {} THEN "Illegal"
                      ELSE IF promotes /\ p = "none" THEN "PromotionRequired"
                      ELSE IF ~promotes /\ p # "none" THEN "PromotionNotAllowed"
                      ELSE IF ~\E m \in found : m.promotion = p THEN "Illegal"
                      ELSE "ok"
    <2> SUFFICES ASSUME NEW p
                 PROVE  C!Verdict(g, ask(p)) =
            CASE g.outcome # "none" -> "GameOver"
              [] g.outcome = "none" /\ at = C!None -> "EmptySquare"
              [] g.outcome = "none" /\ at # C!None
                   -> IF at[1] # C!Side(g) THEN "WrongColor"
                      ELSE IF found = {} THEN "Illegal"
                      ELSE IF promotes /\ p = "none" THEN "PromotionRequired"
                      ELSE IF ~promotes /\ p # "none" THEN "PromotionNotAllowed"
                      ELSE IF ~\E m \in found : m.promotion = p THEN "Illegal"
                      ELSE "ok"
      OBVIOUS
    <2>1. ask(p).from = from /\ ask(p).to = to /\ ask(p).promotion = p
      OBVIOUS
    <2> QED
      BY <2>1 DEF C!Verdict
  <1>2. piece # "none"
    BY DEF C!Pieces
  <1> HIDE DEF found, at, ask
  <1>3. /\ g.outcome = "none" /\ at # C!None /\ at[1] = C!Side(g) /\ found # {} /\ promotes
    BY <1>1 DEF ask
  <1>4. PICK m \in found : m.promotion # "none"
    BY <1>3
  <1>5. \E k \in found : k.promotion = piece
    <2>1. m \in Engine[g.board].moves /\ m.from = from /\ m.to = to
      BY DEF found
    <2>2. PICK k \in Engine[g.board].moves : k.from = m.from /\ k.to = m.to /\ k.promotion = piece
      BY <1>4, <2>1, EngineAssumption DEF IsGame
    <2> QED
      BY <2>1, <2>2 DEF found
  <1> QED
    BY <1>1, <1>2, <1>3, <1>5 DEF ask

(* A move played adds one event, a draw claimed too. *)
LEMMA MovePlayed ==
    ASSUME NEW g, IsGame(g), NEW mv \in MovesMade, C!Verdict(g, mv) = "ok"
    PROVE  /\ IsGame(C!Apply(g, mv))
           /\ C!Apply(g, mv).events = Append(g.events, C!MoveEvent(mv))
           /\ C!MoveEvent(mv) \in MoveEvents /\ C!MoveEvent(mv).move = mv
  <1> DEFINE chosen == CHOOSE m \in Engine[g.board].moves :
                          m.from = mv.from /\ m.to = mv.to /\ m.promotion = mv.promotion
             resets == \/ C!PieceAt(g, mv.from)[2] = "Pawn"
                       \/ C!PieceAt(g, mv.to) # C!None
                       \/ chosen.enPassant
             clock == IF resets THEN 0 ELSE g.clock + 1
             known == DOMAIN g.counts
             times == IF chosen.next \in known THEN g.counts[chosen.next] + 1 ELSE 1
             next == chosen.next
             counts == [p \in known \union {chosen.next} |-> IF p = chosen.next THEN times ELSE g.counts[p]]
             outcome == C!DeriveAutomaticOutcome(chosen.next, clock, times)
             events == Append(g.events, C!MoveEvent(mv))
             now == [board |-> next, clock |-> clock, counts |-> counts, outcome |-> outcome, events |-> events]
  <1>1. C!Apply(g, mv) = now
    BY DEF C!Apply
  <1>2. chosen \in Engine[g.board].moves
    BY AllowedIsKnown
  <1>3. next \in DOMAIN Engine
    <2> HIDE DEF chosen
    <2> QED
      BY <1>2, EngineAssumption DEF IsGame
  <1>4. C!MoveEvent(mv) \in MoveEvents /\ C!MoveEvent(mv).move = mv
    BY DEF C!MoveEvent, MoveEvents
  <1>5. events \in Seq(EventsMade)
    BY <1>4, Joined DEF IsGame, EventsMade
  <1> HIDE DEF next, clock, counts, outcome, events
  <1>6. now.board = next /\ now.events = events /\ now.clock = clock /\ now.counts = counts /\ now.outcome = outcome
    OBVIOUS
  <1>7. now = [board |-> now.board, clock |-> now.clock, counts |-> now.counts, outcome |-> now.outcome,
               events |-> now.events]
    BY <1>6
  <1> QED
    BY <1>1, <1>3, <1>4, <1>5, <1>6, <1>7 DEF IsGame, events

LEMMA DrawClaimed ==
    ASSUME NEW g, IsGame(g)
    PROVE  /\ IsGame(C!ClaimDraw(g))
           /\ C!ClaimDraw(g).events = Append(g.events, C!ClaimEvent(C!ClaimableDraw(g)))
           /\ C!ClaimDraw(g).board = g.board
           /\ C!ClaimEvent(C!ClaimableDraw(g)) \in ClaimEvents
           /\ C!ClaimEvent(C!ClaimableDraw(g)).reason = C!ClaimableDraw(g)
  <1> DEFINE reason == C!ClaimableDraw(g)
             outcome == "claimed " \o reason
             events == Append(g.events, C!ClaimEvent(reason))
             now == C!ClaimDraw(g)
  <1>1. reason \in {"none", "threefold", "fifty"}
    BY DEF C!ClaimableDraw
  <1> HIDE DEF reason
  <1>2. C!ClaimEvent(reason) \in ClaimEvents /\ C!ClaimEvent(reason).reason = reason
    BY <1>1 DEF C!ClaimEvent, ClaimEvents
  <1>3. events \in Seq(EventsMade)
    BY <1>2, Joined DEF IsGame, EventsMade
  <1>4. now = [g EXCEPT !.outcome = outcome, !.events = events]
    BY DEF C!ClaimDraw, reason
  <1> DEFINE a == g.board
             b == g.clock
             c == g.counts
  <1>5. g \in [board : {a}, clock : {b}, counts : {c}, outcome : {g.outcome}, events : {g.events}]
    BY DEF IsGame
  <1> HIDE DEF outcome, events, now, a, b, c
  <1>6. now \in [board : {a}, clock : {b}, counts : {c}, outcome : {outcome}, events : {events}]
    BY <1>4, <1>5
  <1>7. /\ now.board = a /\ now.events = events
        /\ now = [board |-> now.board, clock |-> now.clock, counts |-> now.counts, outcome |-> now.outcome,
                  events |-> now.events]
    BY <1>6
  <1> QED
    BY <1>2, <1>3, <1>7 DEF IsGame, now, a, events, reason

(* Game::from_events, one event at a time. *)
ReplayStep(so, e) ==
    IF so = C!None THEN C!None
    ELSE IF e.kind = "move"
         THEN IF C!Verdict(so[1], e.move) = "ok" THEN <<C!Apply(so[1], e.move)>> ELSE C!None
         ELSE IF C!ClaimableDraw(so[1]) = e.reason /\ e.reason # "none" THEN <<C!ClaimDraw(so[1])>> ELSE C!None

IsReplay(P, events) ==
    P = [i \in 0..Len(events) |-> IF i = 0 THEN <<C!NewGame>> ELSE ReplayStep(P[i - 1], events[i])]
Replay(events) == CHOOSE P : IsReplay(P, events)

LEMMA Replayed == \A events : C!FromEvents(events) = Replay(events)[Len(events)]
  BY DEF C!FromEvents, Replay, IsReplay, ReplayStep

LEMMA ReplayExists ==
    ASSUME NEW events \in Seq(EventsMade)
    PROVE  IsReplay(Replay(events), events)
  <1> DEFINE Next1(P, i) == IF i = 0 THEN <<C!NewGame>> ELSE ReplayStep(P[i - 1], events[i])
             Good == {n \in Nat : \E P : P = [i \in 0..n |-> P[i]] /\ \A i \in 0..n : P[i] = Next1(P, i)}
  <1>1. 0 \in Good
    <2> DEFINE P == [i \in 0..0 |-> <<C!NewGame>>]
    <2>1. P = [i \in 0..0 |-> P[i]] /\ \A i \in 0..0 : P[i] = Next1(P, i)
      OBVIOUS
    <2> QED
      BY <2>1
  <1>2. ASSUME NEW n \in Nat, n \in Good PROVE n + 1 \in Good
    <2>1. PICK P : P = [i \in 0..n |-> P[i]] /\ \A i \in 0..n : P[i] = Next1(P, i)
      BY <1>2
    <2> DEFINE Q == [i \in 0..(n + 1) |-> Next1(P, i)]
    <2>2. ASSUME NEW i \in 0..n PROVE Q[i] = P[i]
      <3>1. i \in 0..(n + 1)
        OBVIOUS
      <3>2. Q[i] = Next1(P, i)
        BY <3>1
      <3> HIDE DEF Q, Next1
      <3> QED
        BY <2>1, <3>2
    <2>3. ASSUME NEW i \in 0..(n + 1) PROVE Q[i] = Next1(Q, i)
      <3>1. CASE i = 0
        BY <3>1
      <3>2. CASE i # 0
        <4>1. i - 1 \in 0..n
          BY <3>2
        <4>2. Q[i - 1] = P[i - 1]
          BY <2>2, <4>1
        <4> QED
          BY <3>2, <4>2
      <3> QED
        BY <3>1, <3>2
    <2>4. Q = [i \in 0..(n + 1) |-> Q[i]]
      OBVIOUS
    <2> HIDE DEF Q, Next1
    <2>5. \E R : R = [i \in 0..(n + 1) |-> R[i]] /\ \A i \in 0..(n + 1) : R[i] = Next1(R, i)
      BY <2>3, <2>4
    <2> QED
      BY <2>5
  <1> HIDE DEF Good
  <1>3. Len(events) \in Good
    BY <1>1, <1>2, NumberInduction
  <1>4. PICK P : P = [i \in 0..Len(events) |-> P[i]] /\ \A i \in 0..Len(events) : P[i] = Next1(P, i)
    BY <1>3 DEF Good
  <1>5. IsReplay(P, events)
    BY <1>4 DEF IsReplay
  <1> QED
    BY <1>5 DEF Replay

(* An event played back is added to the game. *)
LEMMA StepReplays ==
    ASSUME NEW g, IsGame(g), NEW e \in EventsMade
    PROVE  \/ ReplayStep(<<g>>, e) = C!None
           \/ \E h : ReplayStep(<<g>>, e) = <<h>> /\ IsGame(h) /\ h.events = Append(g.events, e)
  <1>1. <<g>> # C!None /\ <<g>>[1] = g
    BY DEF C!None
  <1>2. CASE e.kind = "move"
    <2>1. /\ e \in MoveEvents /\ e.move \in MovesMade
          /\ e = [kind |-> "move", move |-> e.move, reason |-> "none"]
      BY <1>2 DEF EventsMade, MoveEvents, ClaimEvents
    <2>2. e = C!MoveEvent(e.move)
      BY <2>1 DEF C!MoveEvent
    <2>3. CASE C!Verdict(g, e.move) = "ok"
      <3> DEFINE h == C!Apply(g, e.move)
      <3>1. ReplayStep(<<g>>, e) = <<h>>
        BY <1>1, <1>2, <2>3 DEF ReplayStep
      <3>2. IsGame(h) /\ h.events = Append(g.events, C!MoveEvent(e.move))
        BY <2>1, <2>3, MovePlayed
      <3>3. h.events = Append(g.events, e)
        BY <2>2, <3>2
      <3> HIDE DEF h
      <3> QED
        BY <3>1, <3>2, <3>3
    <2>4. CASE C!Verdict(g, e.move) # "ok"
      BY <1>1, <1>2, <2>4 DEF ReplayStep
    <2> QED
      BY <2>3, <2>4
  <1>3. CASE e.kind # "move"
    <2>1. e \in ClaimEvents /\ e = [kind |-> "claim", move |-> C!None, reason |-> e.reason]
      BY <1>3 DEF EventsMade, MoveEvents, ClaimEvents
    <2>2. CASE C!ClaimableDraw(g) = e.reason /\ e.reason # "none"
      <3> DEFINE h == C!ClaimDraw(g)
      <3>1. ReplayStep(<<g>>, e) = <<h>>
        BY <1>1, <1>3, <2>2 DEF ReplayStep
      <3>2. IsGame(h) /\ h.events = Append(g.events, C!ClaimEvent(e.reason))
        BY <2>2, DrawClaimed
      <3>3. C!ClaimEvent(e.reason) = e
        BY <2>1 DEF C!ClaimEvent
      <3> HIDE DEF h
      <3> QED
        BY <3>1, <3>2, <3>3
    <2>3. CASE ~(C!ClaimableDraw(g) = e.reason /\ e.reason # "none")
      BY <1>1, <1>3, <2>3 DEF ReplayStep
    <2> QED
      BY <2>2, <2>3
  <1> QED
    BY <1>2, <1>3

Prefix(s, t) == Len(s) <= Len(t) /\ \A i \in 1..Len(s) : s[i] = t[i]

(* A file plays back to a game, or not at all. *)
LEMMA PlaysBackOrNot ==
    ASSUME NEW events \in Seq(EventsMade)
    PROVE  C!FromEvents(events) = C!None \/ \E g : C!FromEvents(events) = <<g>>
  <1> DEFINE P == Replay(events)
             n == Len(events)
  <1>1. /\ P[n] = IF n = 0 THEN <<C!NewGame>> ELSE ReplayStep(P[n - 1], events[n])
        /\ C!FromEvents(events) = P[n]
    BY ReplayExists, Replayed DEF IsReplay
  <1> HIDE DEF P, n
  <1> QED
    BY <1>1 DEF ReplayStep

(* A file that plays back is the events of the game it gives. *)
LEMMA ReplayedIsTheFile ==
    ASSUME NEW events \in Seq(EventsMade), NEW g, C!FromEvents(events) = <<g>>
    PROVE  IsGame(g) /\ g.events = events
  <1> DEFINE P == Replay(events)
             Played(i) == P[i] = C!None \/ \E h : P[i] = <<h>> /\ IsGame(h) /\ Len(h.events) = i
                                                  /\ Prefix(h.events, events)
             Good == {n \in Nat : n <= Len(events) => Played(n)}
  <1>1. \A i \in 0..Len(events) : P[i] = IF i = 0 THEN <<C!NewGame>> ELSE ReplayStep(P[i - 1], events[i])
    BY ReplayExists DEF IsReplay
  <1>2. Len(events) \in Nat /\ \A i \in 1..Len(events) : events[i] \in EventsMade
    OBVIOUS
  <1> HIDE DEF P
  <1>3. 0 \in Good
    <2>1. P[0] = <<C!NewGame>>
      BY <1>1, <1>2
    <2>2. Prefix(C!NewGame.events, events) /\ Len(C!NewGame.events) = 0
      BY <1>2, NewIsGame DEF Prefix
    <2> QED
      BY <2>1, <2>2, NewIsGame
  <1>4. ASSUME NEW n \in Nat, n \in Good PROVE n + 1 \in Good
    <2> SUFFICES ASSUME n + 1 <= Len(events) PROVE Played(n + 1)
      OBVIOUS
    <2>1. Played(n) /\ n + 1 \in 1..Len(events) /\ (n + 1) - 1 = n /\ n + 1 \in 0..Len(events)
      BY <1>2, <1>4
    <2>2. P[n + 1] = ReplayStep(P[n], events[n + 1])
      BY <1>1, <2>1
    <2>3. CASE P[n] = C!None
      BY <2>2, <2>3 DEF ReplayStep
    <2>4. ASSUME NEW h, P[n] = <<h>>, IsGame(h), Len(h.events) = n, Prefix(h.events, events)
          PROVE  Played(n + 1)
      <3> DEFINE e == events[n + 1]
      <3>1. e \in EventsMade
        BY <1>2, <2>1
      <3> HIDE DEF e
      <3>2. CASE ReplayStep(<<h>>, e) = C!None
        BY <2>2, <2>4, <3>2 DEF e
      <3>3. ASSUME NEW k, ReplayStep(<<h>>, e) = <<k>>, IsGame(k), k.events = Append(h.events, e)
            PROVE  Played(n + 1)
        <4>1. h.events \in Seq(EventsMade)
          BY <2>4 DEF IsGame
        <4>2. /\ Len(k.events) = n + 1 /\ k.events[n + 1] = e
              /\ \A i \in 1..n : k.events[i] = h.events[i]
          BY <2>4, <3>1, <3>3, <4>1, Joined
        <4>3. Prefix(k.events, events)
          BY <1>2, <2>1, <2>4, <4>2 DEF Prefix, e
        <4>4. P[n + 1] = <<k>>
          BY <2>2, <2>4, <3>3 DEF e
        <4> QED
          BY <3>3, <4>2, <4>3, <4>4
      <3> QED
        BY <2>4, <3>1, <3>2, <3>3, StepReplays
    <2> QED
      BY <2>1, <2>3, <2>4
  <1> HIDE DEF Good
  <1>5. Len(events) \in Good
    BY <1>2, <1>3, <1>4, NumberInduction
  <1>6. P[Len(events)] = <<g>> /\ <<g>> # C!None
    BY Replayed DEF P, C!None
  <1>7. PICK h : P[Len(events)] = <<h>> /\ IsGame(h) /\ Len(h.events) = Len(events) /\ Prefix(h.events, events)
    BY <1>2, <1>5, <1>6 DEF Good
  <1>8. h = g
    BY <1>6, <1>7
  <1>9. g.events = events
    BY <1>7, <1>8 DEF IsGame, Prefix
  <1> QED
    BY <1>7, <1>8, <1>9

(* Playing back one event more is one step more. *)
LEMMA ReplayGrows ==
    ASSUME NEW events \in Seq(EventsMade), NEW e \in EventsMade
    PROVE  C!FromEvents(Append(events, e)) = ReplayStep(C!FromEvents(events), e)
  <1> DEFINE more == Append(events, e)
             P == Replay(events)
             Q == Replay(more)
             n == Len(events)
             Good == {i \in Nat : i <= n => P[i] = Q[i]}
  <1>1. /\ more \in Seq(EventsMade) /\ Len(more) = n + 1 /\ n \in Nat /\ more[n + 1] = e
        /\ \A i \in 1..n : more[i] = events[i]
    BY Joined
  <1> HIDE DEF more
  <1>2. IsReplay(P, events) /\ IsReplay(Q, more)
    BY <1>1, ReplayExists
  <1> HIDE DEF P, Q
  <1>3. /\ \A i \in 0..n : P[i] = IF i = 0 THEN <<C!NewGame>> ELSE ReplayStep(P[i - 1], events[i])
        /\ \A i \in 0..(n + 1) : Q[i] = IF i = 0 THEN <<C!NewGame>> ELSE ReplayStep(Q[i - 1], more[i])
    BY <1>1, <1>2 DEF IsReplay
  <1> HIDE DEF n
  <1>4. 0 \in Good
    BY <1>1, <1>3
  <1>5. ASSUME NEW i \in Nat, i \in Good PROVE i + 1 \in Good
    <2> SUFFICES ASSUME i + 1 <= n PROVE P[i + 1] = Q[i + 1]
      OBVIOUS
    <2>1. i + 1 \in 0..n /\ i + 1 \in 0..(n + 1) /\ i + 1 \in 1..n /\ (i + 1) - 1 = i /\ i + 1 # 0 /\ i <= n
      BY <1>1
    <2>2. P[i] = Q[i]
      BY <1>5, <2>1
    <2>3. P[i + 1] = ReplayStep(P[i], events[i + 1]) /\ Q[i + 1] = ReplayStep(Q[i], more[i + 1])
      BY <1>3, <2>1
    <2> QED
      BY <1>1, <2>1, <2>2, <2>3
  <1> HIDE DEF Good
  <1>6. n \in Good
    BY <1>1, <1>4, <1>5, NumberInduction
  <1>7. P[n] = Q[n]
    BY <1>1, <1>6 DEF Good
  <1>8. Q[n + 1] = ReplayStep(Q[n], e)
    <2>1. n + 1 \in 0..(n + 1) /\ n + 1 # 0 /\ (n + 1) - 1 = n
      BY <1>1
    <2> QED
      BY <1>1, <1>3, <2>1
  <1> QED
    BY <1>1, <1>7, <1>8, Replayed DEF P, Q, more, n

\* Replaying the game's events gives the game back.
Replays(g) == IsGame(g) /\ C!FromEvents(g.events) = <<g>>

LEMMA NewReplays == Replays(C!NewGame)
  <1>1. <<>> \in Seq(EventsMade) /\ Len(<<>>) = 0
    OBVIOUS
  <1>2. IsReplay(Replay(<<>>), <<>>)
    BY <1>1, ReplayExists
  <1>3. Replay(<<>>)[0] = <<C!NewGame>>
    BY <1>1, <1>2 DEF IsReplay
  <1> QED
    BY <1>1, <1>3, Replayed, NewIsGame DEF Replays

LEMMA MoveReplays ==
    ASSUME NEW g, Replays(g), NEW mv \in MovesMade, C!Verdict(g, mv) = "ok"
    PROVE  Replays(C!Apply(g, mv)) /\ Len(C!Apply(g, mv).events) = Len(g.events) + 1
  <1> DEFINE e == C!MoveEvent(mv)
             h == C!Apply(g, mv)
  <1>1. IsGame(h) /\ h.events = Append(g.events, e) /\ e \in MoveEvents /\ e.move = mv
    BY MovePlayed DEF Replays
  <1> HIDE DEF e, h
  <1>2. g.events \in Seq(EventsMade) /\ e \in EventsMade /\ e.kind = "move"
    BY <1>1 DEF Replays, IsGame, EventsMade, MoveEvents
  <1>3. C!FromEvents(h.events) = ReplayStep(<<g>>, e)
    BY <1>1, <1>2, ReplayGrows DEF Replays
  <1>4. <<g>> # C!None /\ <<g>>[1] = g
    BY DEF C!None
  <1>5. ReplayStep(<<g>>, e) = <<h>>
    BY <1>1, <1>2, <1>4 DEF ReplayStep, h
  <1>6. Len(h.events) = Len(g.events) + 1
    BY <1>1, <1>2, Joined
  <1> QED
    BY <1>1, <1>3, <1>5, <1>6 DEF Replays, h

LEMMA ClaimReplays ==
    ASSUME NEW g, Replays(g), C!ClaimableDraw(g) # "none"
    PROVE  Replays(C!ClaimDraw(g)) /\ Len(C!ClaimDraw(g).events) = Len(g.events) + 1
           /\ C!ClaimDraw(g).board = g.board
  <1> DEFINE e == C!ClaimEvent(C!ClaimableDraw(g))
             h == C!ClaimDraw(g)
  <1>1. IsGame(h) /\ h.events = Append(g.events, e) /\ e \in ClaimEvents /\ h.board = g.board
        /\ e.reason = C!ClaimableDraw(g)
    BY DrawClaimed DEF Replays
  <1> HIDE DEF e, h
  <1>2. g.events \in Seq(EventsMade) /\ e \in EventsMade /\ e.kind = "claim"
    BY <1>1 DEF Replays, IsGame, EventsMade, ClaimEvents
  <1>3. C!FromEvents(h.events) = ReplayStep(<<g>>, e)
    BY <1>1, <1>2, ReplayGrows DEF Replays
  <1>4. <<g>> # C!None /\ <<g>>[1] = g
    BY DEF C!None
  <1>5. ReplayStep(<<g>>, e) = <<h>>
    BY <1>1, <1>2, <1>4 DEF ReplayStep, h
  <1>6. Len(h.events) = Len(g.events) + 1
    BY <1>1, <1>2, Joined
  <1> QED
    BY <1>1, <1>3, <1>5, <1>6 DEF Replays, h


ScreenStates ==
    [flipped : BOOLEAN, selected : Spots, pending : {C!None} \union (Spots \X Spots),
     armed : BOOLEAN, loaded : BOOLEAN]
GameFiles == [kind : {"absent", "garbage", "events"}, events : Seq(EventsMade)]
ChessTallies == [unsaved : BOOLEAN, faults : Nat, starts : Nat]

\* A promotion that waits is one the rules allow with any piece.
PendingFits(g, s) ==
    s.pending # C!None =>
        \A piece \in C!Pieces :
            C!Verdict(g, [from |-> s.pending[1], to |-> s.pending[2], promotion |-> piece]) = "ok"

SelectionFits(g, s) ==
    s.selected # C!None =>
        C!PieceAt(g, s.selected) # C!None /\ C!PieceAt(g, s.selected)[1] = C!Side(g)

GlassFits(g, s, f) ==
    f # C!None =>
        /\ f[1].layout = C!Layout(g, s)
        /\ f[1].position.board = g.board
        /\ f[1].position.selected = s.selected
        /\ s.armed => f[1].confirm

\* Chess: the game is the replay of its events, the file holds them unless a
\* save or a load failed, and the screen goes with the game.
ChessState(g, s, file, f, tallied) ==
    /\ s \in ScreenStates /\ file \in GameFiles /\ tallied \in ChessTallies
    /\ Replays(g)
    /\ file.kind = "absent" => file.events = <<>>
    /\ ~s.loaded => g = C!NewGame /\ s = C!NewScreen /\ f = C!None
    /\ s.loaded /\ ~tallied.unsaved => file.events = g.events
    /\ PendingFits(g, s)
    /\ SelectionFits(g, s)
    /\ GlassFits(g, s, f)
ChessInv == ChessState(game, screen, saved, frame, chist)

(* A save writes the game's events, or leaves the file and is noticed. *)
LEMMA PersistKeeps ==
    ASSUME saved \in GameFiles, chist \in ChessTallies, saved.kind = "absent" => saved.events = <<>>,
           NEW g, Replays(g), C!Persist(g)
    PROVE  /\ saved' \in GameFiles /\ chist' \in ChessTallies
           /\ saved'.kind = "absent" => saved'.events = <<>>
           /\ ~chist'.unsaved => saved'.events = g.events
  <1>1. CASE saved' = C!Holds(g.events) /\ chist' = [chist EXCEPT !.unsaved = FALSE]
    <2>1. g.events \in Seq(EventsMade)
      BY DEF Replays, IsGame
    <2>2. saved' = [kind |-> "events", events |-> g.events]
      BY <1>1 DEF C!Holds
    <2>3. saved' \in GameFiles /\ saved'.kind = "events" /\ saved'.events = g.events
      BY <2>1, <2>2 DEF GameFiles
    <2>4. chist' \in ChessTallies
      BY <1>1 DEF ChessTallies
    <2> QED
      BY <2>3, <2>4
  <1>2. CASE saved' = saved /\ chist' = [chist EXCEPT !.unsaved = TRUE, !.faults = @ + 1]
    <2> DEFINE more == chist.faults + 1
    <2>1. chist \in [unsaved : BOOLEAN, faults : Nat, starts : Nat] /\ more \in Nat
      BY DEF ChessTallies
    <2>2. chist' = [chist EXCEPT !.unsaved = TRUE, !.faults = more]
      BY <1>2
    <2> HIDE DEF more
    <2>3. chist' \in [unsaved : BOOLEAN, faults : Nat, starts : Nat] /\ chist'.unsaved = TRUE
      BY <2>1, <2>2
    <2>4. chist' \in ChessTallies /\ chist'.unsaved
      BY <2>3 DEF ChessTallies
    <2> QED
      BY <1>2, <2>4
  <1> QED
    BY <1>1, <1>2 DEF C!Persist

(* What a press leaves. *)
LEMMA ChessPressKeeps ==
    ASSUME ChessInv, screen.loaded, NEW g, NEW s, NEW action, C!Handled(g, s, action),
           Replays(g), Len(g.events) = Len(game.events) => g.events = game.events,
           s \in ScreenStates, s.loaded, PendingFits(g, s), SelectionFits(g, s),
           action = "Redraw" \/ (frame # C!None => GlassFits(g, s, frame))
    PROVE  ChessInv'
  <1>1. game' = g /\ screen' = s /\ frame' = IF action = "Redraw" THEN C!None ELSE frame
    BY DEF C!Handled
  <1>2. /\ saved' \in GameFiles /\ chist' \in ChessTallies
        /\ saved'.kind = "absent" => saved'.events = <<>>
        /\ ~chist'.unsaved => saved'.events = g.events
    <2>1. CASE C!Ply(g) # C!Ply(game)
      <3>1. C!Persist(g)
        BY <2>1 DEF C!Handled, C!SaveIfPlayed
      <3> QED
        BY <3>1, PersistKeeps DEF ChessInv, ChessState
    <2>2. CASE C!Ply(g) = C!Ply(game)
      <3>1. saved' = saved /\ chist' = chist
        BY <2>2 DEF C!Handled, C!SaveIfPlayed
      <3>2. g.events = game.events
        BY <2>2 DEF C!Ply
      <3> QED
        BY <3>1, <3>2 DEF ChessInv, ChessState
    <2> QED
      BY <2>1, <2>2
  <1>3. GlassFits(g, s, frame')
    BY <1>1 DEF GlassFits
  <1>4. ChessState(g, s, saved', frame', chist')
    BY <1>2, <1>3 DEF ChessState
  <1> QED
    BY <1>1, <1>4 DEF ChessInv

LEMMA ChessFirst == C!ChessInit => ChessInv
  <1> SUFFICES ASSUME C!ChessInit PROVE ChessInv
    OBVIOUS
  <1>1. /\ game = C!NewGame /\ screen = C!NewScreen /\ saved = C!Absent /\ frame = C!None
        /\ chist = [unsaved |-> FALSE, faults |-> 0, starts |-> 1]
    BY DEF C!ChessInit
  <1>2. /\ screen \in ScreenStates /\ ~screen.loaded
        /\ screen.pending = C!None /\ screen.selected = C!None
    BY <1>1 DEF C!NewScreen, ScreenStates, Spots
  <1>3. saved \in GameFiles /\ saved.events = <<>>
    BY <1>1 DEF C!Absent, GameFiles
  <1>4. chist \in ChessTallies
    BY <1>1 DEF ChessTallies
  <1> QED
    BY <1>1, <1>2, <1>3, <1>4, NewReplays DEF ChessInv, ChessState, PendingFits, SelectionFits, GlassFits

LEMMA ChessLoads == ChessInv /\ C!Load => ChessInv'
  <1> SUFFICES ASSUME ChessInv, C!Load PROVE ChessInv'
    OBVIOUS
  <1> DEFINE read == IF saved.kind = "events" THEN C!FromEvents(saved.events) ELSE C!None
             s == [screen EXCEPT !.loaded = TRUE]
  <1>1. /\ ~screen.loaded /\ screen' = s /\ saved' = saved /\ frame' = frame
        /\ game' = IF read = C!None THEN game ELSE read[1]
        /\ chist' = [chist EXCEPT !.unsaved = saved.kind # "absent" /\ read = C!None]
    BY DEF C!Load
  <1>2. /\ screen \in ScreenStates /\ saved \in GameFiles /\ chist \in ChessTallies
        /\ game = C!NewGame /\ screen = C!NewScreen /\ frame = C!None
        /\ saved.kind = "absent" => saved.events = <<>>
    BY <1>1 DEF ChessInv, ChessState
  <1>3. s \in ScreenStates /\ s.pending = C!None /\ s.selected = C!None /\ s.loaded
    BY <1>2 DEF ScreenStates, C!NewScreen
  <1>4. chist' \in ChessTallies /\ chist'.unsaved = (saved.kind # "absent" /\ read = C!None)
    BY <1>1, <1>2 DEF ChessTallies
  <1>5. saved.events \in Seq(EventsMade)
    BY <1>2 DEF GameFiles
  <1>6. Replays(game') /\ (~chist'.unsaved => saved.events = game'.events)
    <2>1. CASE read = C!None
      <3>1. game' = C!NewGame /\ (~chist'.unsaved => saved.kind = "absent")
        BY <1>1, <1>2, <1>4, <2>1
      <3> QED
        BY <1>2, <3>1, NewReplays, NewIsGame
    <2>2. CASE read # C!None
      <3>1. saved.kind = "events" /\ read = C!FromEvents(saved.events) /\ game' = read[1]
        BY <1>1, <2>2
      <3>2. \E g : read = <<g>>
        BY <1>5, <2>2, <3>1, PlaysBackOrNot
      <3>3. read = <<game'>>
        BY <3>1, <3>2
      <3>4. IsGame(game') /\ game'.events = saved.events
        BY <1>5, <3>1, <3>3, ReplayedIsTheFile
      <3> QED
        BY <3>1, <3>3, <3>4 DEF Replays
    <2> QED
      BY <2>1, <2>2
  <1> HIDE DEF s, read
  <1>7. ChessState(game', s, saved, frame, chist')
    BY <1>2, <1>3, <1>4, <1>6 DEF ChessState, PendingFits, SelectionFits, GlassFits
  <1> QED
    BY <1>1, <1>7 DEF ChessInv


LEMMA ChessStays ==
    ASSUME ChessInv, screen.loaded
    PROVE  /\ screen \in ScreenStates /\ Replays(game) /\ PendingFits(game, screen)
           /\ SelectionFits(game, screen) /\ GlassFits(game, screen, frame)
  BY DEF ChessInv, ChessState

(* The picker: the piece completes the promotion, a tap beside it does nothing. *)
LEMMA PickKeeps ==
    ASSUME ChessInv, NEW piece \in C!Pieces, C!PickPromotion(piece)
    PROVE  ChessInv'
  <1> DEFINE mv == [from |-> screen.pending[1], to |-> screen.pending[2], promotion |-> piece]
             g == IF C!Verdict(game, mv) = "ok" THEN C!Apply(game, mv) ELSE game
             s == [screen EXCEPT !.pending = C!None, !.selected = C!None]
  <1>1. screen.loaded /\ screen.pending # C!None /\ C!Handled(g, s, "Redraw")
    BY DEF C!PickPromotion
  <1>2. screen \in ScreenStates /\ Replays(game) /\ PendingFits(game, screen)
    BY <1>1, ChessStays
  <1>3. screen.pending \in Spots \X Spots
    BY <1>1, <1>2 DEF ScreenStates
  <1>4. mv \in MovesMade
    BY <1>3 DEF MovesMade
  <1>5. C!Verdict(game, mv) = "ok"
    BY <1>1, <1>2 DEF PendingFits
  <1>6. g = C!Apply(game, mv)
    BY <1>5
  <1>7. s \in ScreenStates /\ s.pending = C!None /\ s.selected = C!None /\ s.loaded
    BY <1>1, <1>2 DEF ScreenStates, Spots
  <1> HIDE DEF mv, s
  <1>8. Replays(g) /\ Len(g.events) = Len(game.events) + 1
    BY <1>2, <1>4, <1>5, <1>6, MoveReplays
  <1>9. Len(game.events) \in Nat
    BY <1>2 DEF Replays, IsGame
  <1> HIDE DEF g
  <1>10. PendingFits(g, s) /\ SelectionFits(g, s)
    BY <1>7 DEF PendingFits, SelectionFits
  <1>11. Len(g.events) # Len(game.events)
    BY <1>8, <1>9
  <1> QED
    BY <1>1, <1>7, <1>8, <1>10, <1>11, ChessPressKeeps

LEMMA ClaimKeeps ==
    ASSUME ChessInv, C!PressClaim
    PROVE  ChessInv'
  <1> DEFINE g == C!ClaimDraw(game)
  <1>1. screen.loaded /\ screen.pending = C!None /\ C!ClaimableDraw(game) # "none" /\ C!Handled(g, screen, "Redraw")
    BY DEF C!PressClaim, C!PickerModal, C!Layout
  <1>2. screen \in ScreenStates /\ Replays(game) /\ SelectionFits(game, screen)
    BY <1>1, ChessStays
  <1>3. Replays(g) /\ Len(g.events) = Len(game.events) + 1 /\ g.board = game.board
    BY <1>1, <1>2, ClaimReplays
  <1>4. Len(game.events) \in Nat
    BY <1>2 DEF Replays, IsGame
  <1> HIDE DEF g
  <1>5. PendingFits(g, screen)
    BY <1>1 DEF PendingFits
  <1>6. SelectionFits(g, screen)
    BY <1>2, <1>3 DEF SelectionFits, C!PieceAt, C!Side
  <1>7. Len(g.events) # Len(game.events)
    BY <1>3, <1>4
  <1> QED
    BY <1>1, <1>2, <1>3, <1>5, <1>6, <1>7, ChessPressKeeps

(* Presses that leave the game alone. *)
LEMMA CalmPressKeeps ==
    ASSUME ChessInv, screen.loaded, NEW s, NEW action, C!Handled(game, s, action),
           s \in ScreenStates, s.loaded, PendingFits(game, s), SelectionFits(game, s),
           action = "Redraw" \/ (frame # C!None => GlassFits(game, s, frame))
    PROVE  ChessInv'
  <1>1. Replays(game)
    BY ChessStays
  <1> QED
    BY <1>1, ChessPressKeeps

LEMMA NewGameKeeps ==
    ASSUME ChessInv, C!PressNewGame
    PROVE  ChessInv'
  <1> DEFINE over == [screen EXCEPT !.armed = FALSE, !.selected = C!None]
             armed == [screen EXCEPT !.armed = TRUE]
  <1>1. /\ screen.loaded /\ screen.pending = C!None
        /\ C!Handled(C!NewGame, over, "Redraw") \/ C!Handled(game, armed, "Redraw")
    BY DEF C!PressNewGame, C!PickerModal, C!StartOver, C!Arm
  <1>2. screen \in ScreenStates /\ Replays(game) /\ SelectionFits(game, screen)
    BY <1>1, ChessStays
  <1>3. over \in ScreenStates /\ over.pending = C!None /\ over.selected = C!None /\ over.loaded
    BY <1>1, <1>2 DEF ScreenStates, Spots
  <1>4. armed \in ScreenStates /\ armed.pending = C!None /\ armed.selected = screen.selected /\ armed.loaded
    BY <1>1, <1>2 DEF ScreenStates
  <1> HIDE DEF over, armed
  <1>5. CASE C!Handled(C!NewGame, over, "Redraw")
    <2>1. PendingFits(C!NewGame, over) /\ SelectionFits(C!NewGame, over)
      BY <1>3 DEF PendingFits, SelectionFits
    <2>2. Len(C!NewGame.events) = Len(game.events) => C!NewGame.events = game.events
      BY <1>2, NewIsGame DEF Replays, IsGame
    <2> QED
      BY <1>1, <1>3, <1>5, <2>1, <2>2, NewReplays, ChessPressKeeps
  <1>6. CASE C!Handled(game, armed, "Redraw")
    <2>1. PendingFits(game, armed) /\ SelectionFits(game, armed)
      BY <1>2, <1>4 DEF PendingFits, SelectionFits
    <2> QED
      BY <1>1, <1>4, <1>6, <2>1, CalmPressKeeps
  <1> QED
    BY <1>1, <1>5, <1>6

(* A square of the glass is a square of the board, *)
LEMMA TapOnBoard ==
    ASSUME NEW flipped \in BOOLEAN, NEW cell \in C!Squares
    PROVE  C!SquareAt(flipped, cell) \in C!Squares
  BY EngineAssumption DEF C!SquareAt, C!Squares

(* and the one that is drawn there. *)
LEMMA TapsWhereDrawn ==
    ASSUME NEW flipped \in BOOLEAN, NEW sq \in C!Squares
    PROVE  C!SquareAt(flipped, C!GridPosition(flipped, sq)) = sq
  <1>1. PICK x \in 0..(N - 1), y \in 0..(N - 1) : sq = <<x, y>>
    BY DEF C!Squares
  <1>2. N - 1 - (N - 1 - x) = x /\ N - 1 - (N - 1 - y) = y
    BY <1>1, EngineAssumption
  <1> QED
    BY <1>1, <1>2 DEF C!SquareAt, C!GridPosition

LEMMA BoardKeeps ==
    ASSUME ChessInv, NEW cell \in C!Squares \union {C!None}, C!PressBoard(cell)
    PROVE  ChessInv'
  <1> DEFINE calm == [screen EXCEPT !.armed = FALSE]
             sq == C!SquareAt(screen.flipped, cell)
             from == screen.selected
             mv == [from |-> from, to |-> sq, promotion |-> "none"]
             dropped == [calm EXCEPT !.selected = C!None]
             picked == [calm EXCEPT !.selected = C!PickUp(sq)]
             asking == [calm EXCEPT !.pending = <<from, sq>>]
  <1>1. screen.loaded /\ screen.pending = C!None
    BY DEF C!PressBoard, C!PickerModal
  <1>2. \/ C!Handled(game, calm, "None") /\ (game.outcome # "none" \/ cell = C!None)
        \/ cell # C!None /\
           \/ C!Handled(game, dropped, "Redraw")
           \/ C!Handled(game, picked, "Redraw")
           \/ from # C!None /\ C!Verdict(game, mv) = "ok" /\ C!Handled(C!Apply(game, mv), dropped, "Redraw")
           \/ from # C!None /\ C!Verdict(game, mv) = "PromotionRequired" /\ C!Handled(game, asking, "Redraw")
           \/ C!Handled(game, calm, "Redraw")
    <2> HIDE DEF calm, sq, from, mv
    <2> QED
      BY DEF C!PressBoard, calm, sq, from, mv
  <1>3. /\ screen \in ScreenStates /\ Replays(game) /\ SelectionFits(game, screen)
        /\ GlassFits(game, screen, frame)
    BY <1>1, ChessStays
  <1>4. calm \in ScreenStates /\ calm.loaded /\ calm.pending = C!None /\ calm.selected = from
        /\ calm.armed = FALSE /\ calm.flipped = screen.flipped
    BY <1>1, <1>3 DEF ScreenStates
  <1>5. from \in Spots
    BY <1>3 DEF ScreenStates
  <1>6. cell # C!None => sq \in C!Squares
    <2>1. screen.flipped \in BOOLEAN
      BY <1>3 DEF ScreenStates
    <2> QED
      BY <2>1, TapOnBoard
  <1> HIDE DEF calm, sq, from
  <1>7. dropped \in ScreenStates /\ dropped.loaded /\ dropped.pending = C!None /\ dropped.selected = C!None
    BY <1>4 DEF ScreenStates, Spots
  <1>8. PendingFits(game, calm) /\ SelectionFits(game, calm)
    BY <1>3, <1>4 DEF PendingFits, SelectionFits, from
  <1>9. CASE C!Handled(game, calm, "None")
    <2>1. GlassFits(game, calm, frame)
      BY <1>1, <1>3, <1>4 DEF GlassFits, C!Layout, from
    <2> QED
      BY <1>1, <1>4, <1>8, <1>9, <2>1, CalmPressKeeps
  <1>10. CASE C!Handled(game, dropped, "Redraw")
    <2> HIDE DEF dropped
    <2>1. PendingFits(game, dropped) /\ SelectionFits(game, dropped)
      BY <1>7 DEF PendingFits, SelectionFits
    <2> QED
      BY <1>1, <1>7, <1>10, <2>1, CalmPressKeeps
  <1>11. CASE cell # C!None /\ C!Handled(game, picked, "Redraw")
    <2>1. C!PickUp(sq) \in Spots
      BY <1>6, <1>11 DEF C!PickUp, Spots
    <2>2. /\ picked \in ScreenStates /\ picked.loaded /\ picked.pending = C!None
          /\ picked.selected = C!PickUp(sq)
      BY <1>4, <2>1 DEF ScreenStates
    <2> HIDE DEF picked
    <2>3. PendingFits(game, picked) /\ SelectionFits(game, picked)
      BY <2>2 DEF PendingFits, SelectionFits, C!PickUp, C!OwnsPieceAt
    <2> QED
      BY <1>1, <1>11, <2>2, <2>3, CalmPressKeeps
  <1>12. CASE /\ cell # C!None /\ C!Verdict(game, mv) = "ok"
              /\ C!Handled(C!Apply(game, mv), dropped, "Redraw")
    <2>1. mv \in MovesMade
      BY <1>5, <1>6, <1>12 DEF MovesMade, Spots
    <2> HIDE DEF mv, dropped
    <2> DEFINE g == C!Apply(game, mv)
    <2>2. Replays(g) /\ Len(g.events) = Len(game.events) + 1
      BY <1>3, <1>12, <2>1, MoveReplays
    <2>3. Len(game.events) \in Nat
      BY <1>3 DEF Replays, IsGame
    <2>4. C!Handled(g, dropped, "Redraw")
      BY <1>12
    <2> HIDE DEF g
    <2>5. PendingFits(g, dropped) /\ SelectionFits(g, dropped)
      BY <1>7 DEF PendingFits, SelectionFits
    <2>6. Len(g.events) # Len(game.events)
      BY <2>2, <2>3
    <2> QED
      BY <1>1, <1>7, <2>2, <2>4, <2>5, <2>6, ChessPressKeeps
  <1>13. CASE /\ cell # C!None /\ C!Verdict(game, mv) = "PromotionRequired"
              /\ C!Handled(game, asking, "Redraw")
    <2>1. <<from, sq>> \in Spots \X Spots /\ <<from, sq>>[1] = from /\ <<from, sq>>[2] = sq
      BY <1>5, <1>6, <1>13 DEF Spots
    <2>2. /\ asking \in ScreenStates /\ asking.loaded /\ asking.pending = <<from, sq>>
          /\ asking.selected = calm.selected
      BY <1>4, <2>1 DEF ScreenStates
    <2> HIDE DEF asking
    <2>3. PendingFits(game, asking)
      BY <1>3, <1>13, <2>1, <2>2, PromotionIsAllowed DEF PendingFits, Replays
    <2>4. SelectionFits(game, asking)
      BY <1>8, <2>2 DEF SelectionFits
    <2> QED
      BY <1>1, <1>13, <2>2, <2>3, <2>4, CalmPressKeeps
  <1>14. CASE C!Handled(game, calm, "Redraw")
    BY <1>1, <1>4, <1>8, <1>14, CalmPressKeeps
  <1> QED
    BY <1>2, <1>9, <1>10, <1>11, <1>12, <1>13, <1>14

LEMMA FlipKeeps ==
    ASSUME ChessInv, C!PressFlip
    PROVE  ChessInv'
  <1> DEFINE turned == ~screen.flipped
             s == [screen EXCEPT !.flipped = turned, !.armed = FALSE]
  <1>1. screen.loaded /\ screen.pending = C!None /\ C!Handled(game, s, "Redraw")
    BY DEF C!PressFlip, C!PickerModal
  <1>2. screen \in ScreenStates /\ SelectionFits(game, screen)
    BY <1>1, ChessStays
  <1>3. turned \in BOOLEAN
    OBVIOUS
  <1> HIDE DEF turned
  <1>4. s \in ScreenStates /\ s.loaded /\ s.pending = C!None /\ s.selected = screen.selected
    BY <1>1, <1>2, <1>3 DEF ScreenStates
  <1> HIDE DEF s
  <1>5. PendingFits(game, s) /\ SelectionFits(game, s)
    BY <1>2, <1>4 DEF PendingFits, SelectionFits
  <1> QED
    BY <1>1, <1>4, <1>5, CalmPressKeeps

(* The frame that is drawn is the state. *)
LEMMA ChessDraws == ChessInv /\ C!Draw => ChessInv'
  <1> SUFFICES ASSUME ChessInv, C!Draw PROVE ChessInv'
    OBVIOUS
  <1> DEFINE seen == C!Rendered(game, screen)
  <1>1. /\ screen.loaded /\ frame' = <<seen>>
        /\ game' = game /\ screen' = screen /\ saved' = saved /\ chist' = chist
    BY DEF C!Draw
  <1>2. /\ seen.layout = C!Layout(game, screen) /\ seen.confirm = screen.armed
        /\ seen.position.board = game.board /\ seen.position.selected = screen.selected
    BY DEF C!Rendered, C!Position
  <1>3. <<seen>>[1] = seen
    OBVIOUS
  <1> HIDE DEF seen
  <1>4. GlassFits(game, screen, frame')
    BY <1>1, <1>2, <1>3 DEF GlassFits
  <1>5. ChessState(game, screen, saved, frame', chist)
    BY <1>1, <1>4 DEF ChessInv, ChessState
  <1> QED
    BY <1>1, <1>5 DEF ChessInv

LEMMA ChessSaves == ChessInv /\ C!AskedToSave => ChessInv'
  <1> SUFFICES ASSUME ChessInv, C!AskedToSave PROVE ChessInv'
    OBVIOUS
  <1>1. C!Persist(game) /\ screen.loaded /\ game' = game /\ screen' = screen /\ frame' = frame
    BY DEF C!AskedToSave
  <1>2. /\ saved' \in GameFiles /\ chist' \in ChessTallies
        /\ saved'.kind = "absent" => saved'.events = <<>>
        /\ ~chist'.unsaved => saved'.events = game.events
    BY <1>1, PersistKeeps DEF ChessInv, ChessState
  <1>3. ChessState(game, screen, saved', frame, chist')
    BY <1>1, <1>2 DEF ChessInv, ChessState
  <1> QED
    BY <1>1, <1>3 DEF ChessInv

LEMMA ChessStartsAgain == ChessInv /\ C!Relaunch => ChessInv'
  <1> SUFFICES ASSUME ChessInv, C!Relaunch PROVE ChessInv'
    OBVIOUS
  <1> DEFINE more == chist.starts + 1
  <1>1. /\ game' = C!NewGame /\ screen' = C!NewScreen /\ frame' = C!None /\ saved' = saved
        /\ chist' = [chist EXCEPT !.unsaved = FALSE, !.starts = more]
    BY DEF C!Relaunch
  <1>2. chist \in ChessTallies /\ more \in Nat
    BY DEF ChessInv, ChessState, ChessTallies
  <1> HIDE DEF more
  <1>3. chist' \in ChessTallies
    BY <1>1, <1>2 DEF ChessTallies
  <1>4. /\ screen' \in ScreenStates /\ ~screen'.loaded
        /\ screen'.pending = C!None /\ screen'.selected = C!None
    BY <1>1 DEF C!NewScreen, ScreenStates, Spots
  <1>5. ChessState(game', screen', saved', frame', chist')
    BY <1>1, <1>3, <1>4, NewReplays DEF ChessInv, ChessState, PendingFits, SelectionFits, GlassFits
  <1> QED
    BY <1>5 DEF ChessInv

LEMMA FileIsDamaged == ChessInv /\ C!Damage => ChessInv'
  <1> SUFFICES ASSUME ChessInv, C!Damage PROVE ChessInv'
    OBVIOUS
  <1> DEFINE more == chist.faults + 1
  <1>1. /\ ~screen.loaded /\ saved.kind = "events"
        /\ saved' = C!Garbage \/ (Len(saved.events) > 1 /\ saved' = C!Holds(Tail(saved.events)))
        /\ chist' = [chist EXCEPT !.faults = more]
        /\ game' = game /\ screen' = screen /\ frame' = frame
    BY DEF C!Damage
  <1>2. chist \in ChessTallies /\ more \in Nat /\ saved \in GameFiles
    BY DEF ChessInv, ChessState, ChessTallies
  <1> HIDE DEF more
  <1>3. chist' \in ChessTallies
    BY <1>1, <1>2 DEF ChessTallies
  <1>4. saved' \in GameFiles /\ saved'.kind # "absent"
    <2>1. CASE saved' = C!Garbage
      BY <2>1 DEF C!Garbage, GameFiles
    <2>2. CASE Len(saved.events) > 1 /\ saved' = C!Holds(Tail(saved.events))
      <3>1. saved.events \in Seq(EventsMade) /\ saved.events # <<>>
        BY <1>2, <2>2 DEF GameFiles
      <3>2. Tail(saved.events) \in Seq(EventsMade)
        BY <3>1, Left
      <3> QED
        BY <2>2, <3>2 DEF C!Holds, GameFiles
    <2> QED
      BY <1>1, <2>1, <2>2
  <1>5. ChessState(game, screen, saved', frame, chist')
    BY <1>1, <1>3, <1>4 DEF ChessInv, ChessState
  <1> QED
    BY <1>1, <1>5 DEF ChessInv

LEMMA ChessKeeps == ChessInv /\ C!ChessNext => ChessInv'
  <1> SUFFICES ASSUME ChessInv, C!ChessNext PROVE ChessInv'
    OBVIOUS
  <1>1. CASE C!MissPicker
    <2>1. screen.loaded /\ C!Handled(game, screen, "Redraw")
      BY <1>1 DEF C!MissPicker
    <2> QED
      BY <2>1, ChessStays, CalmPressKeeps
  <1>2. CASE C!PressHome
    <2>1. screen.loaded /\ C!Handled(game, screen, "Home")
      BY <1>2 DEF C!PressHome
    <2> QED
      BY <2>1, ChessStays, CalmPressKeeps
  <1> QED
    BY <1>1, <1>2, ChessLoads, PickKeeps, ClaimKeeps, FlipKeeps, NewGameKeeps, BoardKeeps, ChessDraws,
       ChessSaves, ChessStartsAgain, FileIsDamaged DEF C!ChessNext

LEMMA ChessIsSound ==
    ChessInv => C!SavedIsTheGame /\ C!PendingStaysLegal /\ C!SelectionIsOwn /\ C!GlassIsCurrent
  <1> SUFFICES ASSUME ChessInv
               PROVE  C!SavedIsTheGame /\ C!PendingStaysLegal /\ C!SelectionIsOwn /\ C!GlassIsCurrent
    OBVIOUS
  <1>1. C!SavedIsTheGame
    BY DEF ChessInv, ChessState, C!SavedIsTheGame, Replays
  <1>2. C!PendingStaysLegal
    BY DEF ChessInv, ChessState, C!PendingStaysLegal, PendingFits
  <1>3. C!SelectionIsOwn
    BY DEF ChessInv, ChessState, C!SelectionIsOwn, SelectionFits, C!OwnsPieceAt
  <1>4. C!GlassIsCurrent
    <2> SUFFICES ASSUME screen.loaded, frame # C!None
                 PROVE  /\ frame[1].layout = C!Layout(game, screen)
                        /\ frame[1].position.board = game.board
                        /\ frame[1].position.selected = screen.selected
                        /\ \A sq \in C!Squares :
                              C!SquareAt(screen.flipped, C!GridPosition(frame[1].layout.flipped, sq)) = sq
                        /\ screen.armed => frame[1].confirm
      BY DEF C!GlassIsCurrent
    <2>1. GlassFits(game, screen, frame) /\ screen.flipped \in BOOLEAN
      BY DEF ChessInv, ChessState, ScreenStates
    <2>2. frame[1].layout = C!Layout(game, screen) /\ C!Layout(game, screen).flipped = screen.flipped
      BY <2>1 DEF GlassFits, C!Layout
    <2> QED
      BY <2>1, <2>2, TapsWhereDrawn DEF GlassFits
  <1> QED
    BY <1>1, <1>2, <1>3, <1>4

---------------------------------------------------------------------------
(* Sudoku: the grid and the solver *)

LEMMA GridIsFinite ==
    /\ W \in Nat \ {0} /\ W * W \in Nat \ {0} /\ Cells \subseteq Nat /\ Digits \subseteq Nat \ {0}
    /\ IsFiniteSet(Cells) /\ IsFiniteSet(Digits) /\ None \notin Cells /\ Blank \notin Digits
  <1>1. \A n \in Nat \ {0} : n * n \in Nat \ {0}
    OBVIOUS
  <1>2. W \in Nat \ {0} /\ W * W \in Nat \ {0}
    BY <1>1, DrawsAssumption DEF W
  <1>3. \A n \in Nat : n - 1 \in Int
    OBVIOUS
  <1>4. IsFiniteSet(0..(W * W - 1)) /\ IsFiniteSet(1..W)
    BY <1>2, <1>3, FS_Interval
  <1>5. Cells \subseteq Nat /\ Digits \subseteq Nat \ {0} /\ None \notin Cells /\ Blank \notin Digits
    BY <1>2 DEF Cells, Digits, None, Blank
  <1> QED
    BY <1>2, <1>4, <1>5 DEF Cells, Digits

LEMMA ZeroIsCell == 0 \in Cells
  BY GridIsFinite DEF Cells

LEMMA MinIsOne ==
    ASSUME NEW s \in SUBSET Nat, s /= {}
    PROVE  Min(s) \in s
  <1>1. PICK n \in s : \A m \in s : <<m, n>> \notin OpToRel(<, Nat)
    BY NatLessThanWellFounded, WFMin
  <1>2. ASSUME NEW m \in s PROVE n =< m
    <2> SUFFICES ASSUME m < n PROVE FALSE
      OBVIOUS
    <2>1. <<m, n>> \in OpToRel(<, Nat)
      BY DEF OpToRel
    <2> QED
      BY <1>1, <2>1
  <1> QED
    BY <1>2 DEF Min

\* No peer of the cell holds the digit.
Free(g, c, d) == \A o \in Peers[c] : g[o] /= d

LEMMA PeersAreMutual ==
    /\ \A c \in Cells : Peers[c] \subseteq Cells \ {c}
    /\ \A c, o \in Cells : o \in Peers[c] => c \in Peers[o]
  <1>1. \A c \in Cells : Peers[c] =
            {o \in Cells \ {c} : Row(o) = Row(c) \/ Column(o) = Column(c) \/ Block(o) = Block(c)}
    BY DEF Peers
  <1> QED
    BY <1>1

LEMMA NoConflictIsFree ==
    ASSUME NEW g, NEW c \in Cells, NEW d
    PROVE  (Conflict(g, c, d) = None) <=> Free(g, c, d)
  <1> DEFINE with == {o \in Peers[c] : g[o] = d}
  <1>1. with \in SUBSET Nat /\ with \subseteq Cells
    BY GridIsFinite, PeersAreMutual
  <1>2. Conflict(g, c, d) = IF with = {} THEN None ELSE Min(with)
    BY DEF Conflict
  <1>3. (with = {}) <=> Free(g, c, d)
    BY DEF Free
  <1> HIDE DEF with
  <1>4. with /= {} => Min(with) /= None
    BY <1>1, MinIsOne, GridIsFinite
  <1> QED
    BY <1>2, <1>3, <1>4

LEMMA ValidIsFree ==
    ASSUME NEW g
    PROVE  IsValid(g) <=> \A c \in Cells : g[c] /= Blank => Free(g, c, g[c])
  BY NoConflictIsFree DEF IsValid

Blanks(g) == {c \in Cells : g[c] = Blank}

LEMMA MostConstrainedIsBlank ==
    ASSUME NEW g
    PROVE  /\ MostConstrained(g) = None => Blanks(g) = {}
           /\ MostConstrained(g) /= None => MostConstrained(g) \in Blanks(g)
  <1> DEFINE choices(c) == Cardinality(Candidates(g, c))
             counts == {choices(c) : c \in Blanks(g)}
             best == {c \in Blanks(g) : choices(c) = Min(counts)}
  <1>1. MostConstrained(g) = IF Blanks(g) = {} THEN None ELSE Min(best)
    BY DEF MostConstrained, Blanks
  <1>2. \A c : choices(c) \in Nat
    <2> SUFFICES ASSUME NEW c PROVE choices(c) \in Nat
      OBVIOUS
    <2>1. Candidates(g, c) \subseteq Digits
      BY DEF Candidates
    <2> QED
      BY <2>1, GridIsFinite, FS_Subset, FS_CardinalityType
  <1>3. Blanks(g) \subseteq Cells
    BY DEF Blanks
  <1> HIDE DEF choices
  <1>4. CASE Blanks(g) /= {}
    <2>1. counts \in SUBSET Nat /\ counts /= {}
      BY <1>2, <1>4
    <2>2. Min(counts) \in counts
      BY <2>1, MinIsOne
    <2>3. best /= {} /\ best \in SUBSET Nat
      BY <1>3, <2>2, GridIsFinite
    <2>4. Min(best) \in best
      BY <2>3, MinIsOne
    <2>5. Min(best) \in Blanks(g) /\ Min(best) /= None
      BY <1>3, <2>4, GridIsFinite
    <2> QED
      BY <1>1, <1>4, <2>5
  <1>5. CASE Blanks(g) = {}
    BY <1>1, <1>5
  <1> QED
    BY <1>4, <1>5

LEMMA Filling ==
    ASSUME NEW g \in Grids, NEW c \in Blanks(g), NEW d \in Digits
    PROVE  /\ [g EXCEPT ![c] = d] \in Grids
           /\ Blanks([g EXCEPT ![c] = d]) = Blanks(g) \ {c}
           /\ Cardinality(Blanks([g EXCEPT ![c] = d])) = Cardinality(Blanks(g)) - 1
           /\ Cardinality(Blanks(g)) \in Nat \ {0}
  <1>1. c \in Cells /\ IsFiniteSet(Blanks(g))
    <2>1. Blanks(g) \subseteq Cells
      BY DEF Blanks
    <2> QED
      BY <2>1, GridIsFinite, FS_Subset
  <1>2. [g EXCEPT ![c] = d] \in Grids
    BY <1>1 DEF Grids
  <1>3. Blanks([g EXCEPT ![c] = d]) = Blanks(g) \ {c}
    BY <1>1, GridIsFinite DEF Grids, Blanks
  <1>4. Cardinality(Blanks(g) \ {c}) = Cardinality(Blanks(g)) - 1
    BY <1>1, FS_RemoveElement
  <1>5. Cardinality(Blanks(g)) \in Nat /\ Cardinality(Blanks(g) \ {c}) \in Nat
    BY <1>1, FS_CardinalityType, FS_Subset
  <1>6. Cardinality(Blanks(g)) /= 0
    BY <1>1, FS_EmptySet
  <1> QED
    BY <1>2, <1>3, <1>4, <1>5, <1>6

\* How much of the search is left: the blanks, then the digits still to try.
Work(s) == Cardinality(Blanks(s.grid)) * (W + 1) + ((W + 1) - s.digit)

LEMMA Searched ==
    ASSUME NEW g \in Grids, NEW d \in 1..(W + 1), NEW l \in Nat
    PROVE  /\ Search(g, d, l) \in Searches
           /\ Search(g, d, l).grid = g /\ Search(g, d, l).digit = d /\ Search(g, d, l).limit = l
  BY DEF Search, Searches

LEMMA SearchParts ==
    ASSUME NEW s \in Searches
    PROVE  s.grid \in Grids /\ s.digit \in 1..(W + 1) /\ s.limit \in Nat
  BY DEF Searches

LEMMA Products ==
    ASSUME NEW a \in Nat, NEW b \in Nat, NEW k \in Nat
    PROVE  /\ a * k \in Nat
           /\ a =< b => a * k =< b * k
           /\ (a + 1) * k = a * k + k
  <1>1. a * k \in Nat /\ b * k \in Nat
    OBVIOUS
  <1>2. (a + 1) * k = a * k + k
    OBVIOUS
  <1>3. ASSUME a =< b PROVE a * k =< b * k
    <2>1. PICK m \in Nat : b = a + m
      BY <1>3
    <2>2. b * k = a * k + m * k /\ m * k \in Nat
      BY <2>1
    <2> QED
      BY <1>1, <2>2
  <1> QED
    BY <1>1, <1>2, <1>3

LEMMA BlanksAreCounted ==
    ASSUME NEW g
    PROVE  /\ Cardinality(Blanks(g)) \in Nat /\ Cardinality(Cells) \in Nat
           /\ Cardinality(Blanks(g)) =< Cardinality(Cells)
  <1>1. Blanks(g) \subseteq Cells
    BY DEF Blanks
  <1> QED
    BY <1>1, GridIsFinite, FS_Subset, FS_CardinalityType

(* The next digit of a cell, and the next cell, leave less to search. *)
LEMMA WorkShrinks ==
    ASSUME NEW s \in Searches
    PROVE  /\ Work(s) \in Nat
           /\ s.digit =< W =>
                 \A l \in Nat : /\ Search(s.grid, s.digit + 1, l) \in Searches
                                /\ Work(Search(s.grid, s.digit + 1, l)) < Work(s)
           /\ s.digit =< W /\ MostConstrained(s.grid) /= None =>
                 LET g == [s.grid EXCEPT ![MostConstrained(s.grid)] = s.digit]
                 IN \A l \in Nat : Search(g, 1, l) \in Searches /\ Work(Search(g, 1, l)) < Work(s)
  <1> DEFINE n == Cardinality(Blanks(s.grid))
             k == W + 1
  <1>1. s.grid \in Grids /\ s.digit \in 1..(W + 1) /\ s.limit \in Nat /\ W \in Nat \ {0} /\ k \in Nat
    BY SearchParts, GridIsFinite
  <1>2. n \in Nat
    BY BlanksAreCounted
  <1>3. n * k \in Nat
    BY <1>1, <1>2, Products
  <1>4. Work(s) = n * k + (k - s.digit) /\ Work(s) \in Nat
    BY <1>1, <1>3 DEF Work
  <1>5. ASSUME s.digit =< W, NEW l \in Nat
        PROVE  /\ Search(s.grid, s.digit + 1, l) \in Searches
               /\ Work(Search(s.grid, s.digit + 1, l)) < Work(s)
    <2>1. s.digit + 1 \in 1..(W + 1)
      BY <1>1, <1>5
    <2>2. /\ Search(s.grid, s.digit + 1, l) \in Searches
          /\ Search(s.grid, s.digit + 1, l).grid = s.grid
          /\ Search(s.grid, s.digit + 1, l).digit = s.digit + 1
      BY <1>1, <2>1, Searched
    <2>3. Work(Search(s.grid, s.digit + 1, l)) = n * k + (k - (s.digit + 1))
      BY <2>2 DEF Work
    <2> HIDE DEF n, k
    <2> QED
      BY <1>1, <1>3, <1>4, <2>2, <2>3
  <1>6. ASSUME s.digit =< W, MostConstrained(s.grid) /= None, NEW l \in Nat,
               NEW g, g = [s.grid EXCEPT ![MostConstrained(s.grid)] = s.digit]
        PROVE  Search(g, 1, l) \in Searches /\ Work(Search(g, 1, l)) < Work(s)
    <2>1. MostConstrained(s.grid) \in Blanks(s.grid) /\ s.digit \in Digits /\ 1 \in 1..(W + 1)
      BY <1>1, <1>6, MostConstrainedIsBlank DEF Digits
    <2>2. g \in Grids /\ Cardinality(Blanks(g)) = n - 1 /\ n \in Nat \ {0}
      BY <1>1, <1>6, <2>1, Filling
    <2>3. Search(g, 1, l) \in Searches /\ Search(g, 1, l).grid = g /\ Search(g, 1, l).digit = 1
      BY <2>1, <2>2, Searched
    <2>4. Work(Search(g, 1, l)) = (n - 1) * k + (k - 1)
      BY <2>2, <2>3 DEF Work
    <2> HIDE DEF n, k
    <2>5. n - 1 \in Nat /\ (n - 1) + 1 = n
      BY <2>2
    <2>6. n * k = (n - 1) * k + k /\ (n - 1) * k \in Nat
      BY <1>1, <2>5, Products
    <2>7. k = W + 1
      BY DEF k
    <2> QED
      BY <1>1, <1>4, <1>6, <2>3, <2>4, <2>6, <2>7
  <1> QED
    BY <1>4, <1>5, <1>6

\* Search::count: what one call answers, given what the calls it makes answer.
CountBody(P, s) ==
    LET c == MostConstrained(s.grid)
    IN IF s.limit = 0 THEN 0
       ELSE IF c = None THEN 1
       ELSE IF s.digit > W THEN 0
       ELSE LET found == IF s.digit \in Candidates(s.grid, c)
                         THEN P[Search([s.grid EXCEPT ![c] = s.digit], 1, s.limit)] ELSE 0
            IN found + P[Search(s.grid, s.digit + 1, s.limit - found)]
IsCount(P) == P = [s \in Searches |-> CountBody(P, s)]

LEMMA CountIsChosen == Count = CHOOSE P : IsCount(P)
  BY DEF Count, IsCount, CountBody

\* The searches with less than so much left.
Below(n) == {s \in Searches : Work(s) < n}

LEMMA BelowGrows ==
    /\ Below(0) = {}
    /\ \A n \in Nat : Below(n) \subseteq Searches /\ Below(n) \subseteq Below(n + 1)
  <1>1. \A s \in Searches : Work(s) \in Nat
    <2> SUFFICES ASSUME NEW s \in Searches PROVE Work(s) \in Nat
      OBVIOUS
    <2> QED
      BY WorkShrinks
  <1> QED
    BY <1>1 DEF Below

LEMMA SameCalls ==
    ASSUME NEW n \in Nat, NEW P, NEW Q, NEW s \in Below(n + 1),
           \A u \in Below(n) : Q[u] = P[u] /\ P[u] \in 0..u.limit
    PROVE  CountBody(Q, s) = CountBody(P, s) /\ CountBody(P, s) \in 0..s.limit
  <1> DEFINE c == MostConstrained(s.grid)
             g == [s.grid EXCEPT ![c] = s.digit]
             inner == Search(g, 1, s.limit)
             found == IF s.digit \in Candidates(s.grid, c) THEN P[inner] ELSE 0
             rest == Search(s.grid, s.digit + 1, s.limit - found)
  <1>1. s \in Searches /\ Work(s) < n + 1 /\ Work(s) \in Nat
    BY WorkShrinks DEF Below
  <1>2. s.grid \in Grids /\ s.digit \in 1..(W + 1) /\ s.limit \in Nat /\ W \in Nat \ {0}
    BY <1>1, SearchParts, GridIsFinite
  <1>3. CASE s.limit = 0 \/ c = None \/ s.digit > W
    BY <1>2, <1>3 DEF CountBody
  <1>4. CASE s.limit /= 0 /\ c /= None /\ s.digit =< W
    <2>1. inner \in Searches /\ Work(inner) < Work(s) /\ Work(inner) \in Nat /\ inner.limit = s.limit
      <3>1. inner \in Searches /\ Work(inner) < Work(s)
        BY <1>1, <1>2, <1>4, WorkShrinks
      <3> QED
        BY <3>1, WorkShrinks DEF Search
    <2>2. inner \in Below(n)
      BY <1>1, <2>1 DEF Below
    <2> HIDE DEF inner
    <2>3. Q[inner] = P[inner] /\ P[inner] \in 0..s.limit
      BY <2>1, <2>2
    <2>4. found \in 0..s.limit
      BY <1>2, <2>3
    <2> HIDE DEF found
    <2>5. s.limit - found \in Nat
      BY <1>2, <2>4
    <2>6. rest \in Searches /\ Work(rest) < Work(s) /\ Work(rest) \in Nat /\ rest.limit = s.limit - found
      <3>1. rest \in Searches /\ Work(rest) < Work(s)
        BY <1>1, <1>4, <2>5, WorkShrinks
      <3> QED
        BY <3>1, WorkShrinks DEF Search
    <2>7. rest \in Below(n)
      BY <1>1, <2>6 DEF Below
    <2> HIDE DEF rest
    <2>8. Q[rest] = P[rest] /\ P[rest] \in 0..(s.limit - found)
      BY <2>6, <2>7
    <2>9. found + P[rest] \in 0..s.limit
      BY <1>2, <2>4, <2>8
    <2>10. CountBody(P, s) = found + P[rest]
      BY <1>2, <1>4 DEF CountBody, found, rest, inner
    <2>11. CountBody(Q, s) = found + Q[rest]
      <3>1. found = IF s.digit \in Candidates(s.grid, c) THEN Q[inner] ELSE 0
        BY <2>3 DEF found
      <3> DEFINE again == IF s.digit \in Candidates(s.grid, c) THEN Q[inner] ELSE 0
      <3>2. CountBody(Q, s) = again + Q[Search(s.grid, s.digit + 1, s.limit - again)]
        BY <1>2, <1>4 DEF CountBody, inner
      <3> HIDE DEF again
      <3>3. again = found
        BY <3>1 DEF again
      <3> QED
        BY <3>2, <3>3 DEF rest
    <2> QED
      BY <2>8, <2>9, <2>10, <2>11
  <1> QED
    BY <1>2, <1>3, <1>4

LEMMA CountExists ==
    /\ IsCount(Count)
    /\ \A s \in Searches : Count[s] = CountBody(Count, s) /\ Count[s] \in 0..s.limit
  <1> DEFINE Fits(P, n) == /\ P = [s \in Below(n) |-> P[s]]
                           /\ \A s \in Below(n) : P[s] = CountBody(P, s) /\ P[s] \in 0..s.limit
             Good == {n \in Nat : \E P : Fits(P, n)}
  <1>1. 0 \in Good
    <2>1. Below(0) = {}
      BY BelowGrows
    <2> DEFINE P == [s \in Below(0) |-> 0]
    <2>2. Fits(P, 0)
      BY <2>1
    <2> QED
      BY <2>2
  <1>2. ASSUME NEW n \in Nat, n \in Good PROVE n + 1 \in Good
    <2>1. PICK P : Fits(P, n)
      BY <1>2
    <2> DEFINE Q == [s \in Below(n + 1) |-> CountBody(P, s)]
    <2>2. ASSUME NEW s \in Below(n) PROVE s \in Below(n + 1) /\ Q[s] = P[s]
      <3>1. s \in Below(n + 1)
        BY BelowGrows
      <3>2. Q[s] = CountBody(P, s)
        BY <3>1
      <3> QED
        BY <2>1, <3>1, <3>2
    <2>3. ASSUME NEW s \in Below(n + 1) PROVE Q[s] = CountBody(Q, s) /\ Q[s] \in 0..s.limit
      <3>1. Q[s] = CountBody(P, s)
        OBVIOUS
      <3> HIDE DEF Q
      <3>2. CountBody(Q, s) = CountBody(P, s) /\ CountBody(P, s) \in 0..s.limit
        BY <2>1, <2>2, SameCalls
      <3> QED
        BY <3>1, <3>2
    <2>4. Q = [s \in Below(n + 1) |-> Q[s]]
      OBVIOUS
    <2> HIDE DEF Q
    <2>5. Fits(Q, n + 1)
      BY <2>3, <2>4
    <2> HIDE DEF Fits
    <2> QED
      BY <2>5
  <1> DEFINE most == Cardinality(Cells)
             all == most * (W + 1) + (W + 1)
  <1>3. all \in Nat /\ Below(all) = Searches
    <2>1. most \in Nat /\ W + 1 \in Nat /\ W \in Nat
      BY BlanksAreCounted, GridIsFinite
    <2>2. most * (W + 1) \in Nat
      BY <2>1, Products
    <2>3. ASSUME NEW s \in Searches PROVE Work(s) < all
      <3> DEFINE n == Cardinality(Blanks(s.grid))
      <3>1. n \in Nat /\ n =< most /\ s.digit \in 1..(W + 1)
        BY BlanksAreCounted, SearchParts
      <3>2. n * (W + 1) \in Nat /\ n * (W + 1) =< most * (W + 1)
        BY <2>1, <3>1, Products
      <3>3. Work(s) = n * (W + 1) + ((W + 1) - s.digit)
        BY DEF Work
      <3> HIDE DEF n, most
      <3> QED
        BY <2>1, <2>2, <3>1, <3>2, <3>3
    <2> HIDE DEF all
    <2>4. Below(all) = Searches
      BY <2>3 DEF Below
    <2> QED
      BY <2>1, <2>2, <2>4 DEF all
  <1> HIDE DEF Good, all
  <1>4. all \in Good
    BY <1>1, <1>2, <1>3, NumberInduction
  <1>5. PICK P : Fits(P, all)
    BY <1>4 DEF Good
  <1>6. IsCount(P)
    BY <1>3, <1>5 DEF IsCount
  <1>7. IsCount(Count)
    BY <1>6, CountIsChosen
  <1>8. \A s \in Searches : Count[s] = CountBody(Count, s)
    BY <1>7 DEF IsCount
  <1> DEFINE Bounded == {n \in Nat : \A s \in Below(n) : Count[s] \in 0..s.limit}
  <1>9. 0 \in Bounded
    BY BelowGrows
  <1>10. ASSUME NEW n \in Nat, n \in Bounded PROVE n + 1 \in Bounded
    <2> SUFFICES ASSUME NEW s \in Below(n + 1) PROVE Count[s] \in 0..s.limit
      OBVIOUS
    <2>1. CountBody(Count, s) \in 0..s.limit
      BY <1>10, SameCalls
    <2> QED
      BY <1>8, <2>1 DEF Below
  <1> HIDE DEF Bounded
  <1>11. all \in Bounded
    BY <1>3, <1>9, <1>10, NumberInduction
  <1> QED
    BY <1>3, <1>7, <1>8, <1>11 DEF Bounded

---------------------------------------------------------------------------
(* Sudoku: what the search finds *)

FinishedGrids == {g \in [Cells -> Digits] : IsValid(g)}

\* The finished grid keeps what is filled in.
Keeps(x, g) == \A c \in Cells : g[c] /= Blank => x[c] = g[c]

\* The finished grids a search has still to find.
Ahead(s) ==
    {x \in FinishedGrids : /\ Keeps(x, s.grid)
                           /\ MostConstrained(s.grid) /= None => x[MostConstrained(s.grid)] >= s.digit}

(* A grid without blanks is its own only completion. *)
LEMMA FullIsItself ==
    ASSUME NEW g \in Grids, Blanks(g) = {}, NEW x \in FinishedGrids, Keeps(x, g)
    PROVE  x = g
  <1>1. \A c \in Cells : x[c] = g[c]
    BY DEF Blanks, Keeps
  <1>2. x \in [Cells -> Digits] /\ g \in [Cells -> Digits \cup {Blank}]
    BY DEF FinishedGrids, Grids
  <1> QED
    BY <1>1, <1>2

LEMMA DigitsStartAtOne ==
    ASSUME NEW g, NEW x \in FinishedGrids, MostConstrained(g) /= None
    PROVE  x[MostConstrained(g)] \in Digits /\ x[MostConstrained(g)] >= 1
  <1>1. MostConstrained(g) \in Cells
    BY MostConstrainedIsBlank DEF Blanks
  <1>2. x[MostConstrained(g)] \in Digits
    BY <1>1 DEF FinishedGrids
  <1>3. \A d \in Digits : d >= 1
    BY GridIsFinite DEF Digits
  <1> QED
    BY <1>2, <1>3

(* The digit a completion puts in the open cell is a candidate there, and the *)
(* completion is ahead of the search that fills it in.                        *)
LEMMA AheadInside ==
    ASSUME NEW s \in Searches, NEW l \in Nat, MostConstrained(s.grid) /= None, NEW x \in Ahead(s),
           x[MostConstrained(s.grid)] = s.digit
    PROVE  /\ s.digit \in Candidates(s.grid, MostConstrained(s.grid))
           /\ x \in Ahead(Search([s.grid EXCEPT ![MostConstrained(s.grid)] = s.digit], 1, l))
  <1> DEFINE c == MostConstrained(s.grid)
             d == s.digit
             g == [s.grid EXCEPT ![c] = d]
             inner == Search(g, 1, l)
  <1>1. s.grid \in Grids /\ c \in Cells /\ s.grid[c] = Blank
    BY SearchParts, MostConstrainedIsBlank DEF Blanks
  <1>2. x \in [Cells -> Digits] /\ IsValid(x) /\ x \in FinishedGrids /\ Keeps(x, s.grid) /\ x[c] = d
    BY DEF Ahead, FinishedGrids
  <1> HIDE DEF c, d
  <1>3. d \in Digits
    BY <1>1, <1>2
  <1>4. Free(x, c, d)
    BY <1>1, <1>2, <1>3, ValidIsFree, GridIsFinite
  <1>5. Free(s.grid, c, d)
    BY <1>1, <1>2, <1>3, <1>4, GridIsFinite, PeersAreMutual DEF Free, Keeps
  <1>6. d \in Candidates(s.grid, c)
    BY <1>1, <1>3, <1>5, NoConflictIsFree DEF Candidates
  <1>7. g \in Grids
    BY <1>1, <1>3 DEF Grids
  <1>8. Keeps(x, g)
    BY <1>1, <1>2 DEF Keeps, Grids
  <1> HIDE DEF g
  <1>9. inner.grid = g /\ inner.digit = 1
    BY DEF Search
  <1>10. MostConstrained(g) /= None => x[MostConstrained(g)] >= 1
    BY <1>2, DigitsStartAtOne
  <1>11. x \in Ahead(inner)
    BY <1>2, <1>8, <1>9, <1>10 DEF Ahead
  <1> QED
    BY <1>6, <1>11 DEF c, d, g

(* A completion with a larger digit there is ahead of the rest of the search. *)
LEMMA AheadBeyond ==
    ASSUME NEW s \in Searches, NEW l, MostConstrained(s.grid) /= None, NEW x \in Ahead(s),
           x[MostConstrained(s.grid)] /= s.digit
    PROVE  x \in Ahead(Search(s.grid, s.digit + 1, l))
  <1> DEFINE c == MostConstrained(s.grid)
             rest == Search(s.grid, s.digit + 1, l)
  <1>1. c \in Cells /\ s.digit \in 1..(W + 1) /\ W \in Nat
    BY SearchParts, MostConstrainedIsBlank, GridIsFinite DEF Blanks
  <1>2. x \in [Cells -> Digits] /\ x \in FinishedGrids /\ Keeps(x, s.grid) /\ x[c] >= s.digit
    BY DEF Ahead, FinishedGrids
  <1>3. rest.grid = s.grid /\ rest.digit = s.digit + 1
    BY DEF Search
  <1>4. x[c] \in Nat /\ x[c] /= s.digit
    BY <1>1, <1>2 DEF Digits
  <1> HIDE DEF c, rest
  <1>5. x[c] >= s.digit + 1
    BY <1>1, <1>2, <1>4
  <1> QED
    BY <1>2, <1>3, <1>5 DEF Ahead, rest, c

\* A search that may count one finds one if there is one ahead, and a search
\* that may count two finds two if there are two.
Finds(s) ==
    \A x, y \in Ahead(s) : /\ s.limit >= 1 => Count[s] >= 1
                           /\ s.limit >= 2 /\ x /= y => Count[s] >= 2

LEMMA SearchFinds == \A s \in Searches : Finds(s)
  <1> DEFINE Good == {n \in Nat : \A s \in Below(n) : Finds(s)}
  <1>1. 0 \in Good
    BY BelowGrows
  <1>2. ASSUME NEW n \in Nat, n \in Good, NEW s \in Below(n + 1) PROVE Finds(s)
    <2> SUFFICES ASSUME NEW x \in Ahead(s), NEW y \in Ahead(s), s.limit >= 1
                 PROVE  /\ Count[s] >= 1
                        /\ s.limit >= 2 /\ x /= y => Count[s] >= 2
      <3>1. s \in Searches
        BY DEF Below
      <3>2. s.limit \in Nat
        BY <3>1, SearchParts
      <3> QED
        BY <3>2 DEF Finds
    <2> DEFINE c == MostConstrained(s.grid)
               inner == Search([s.grid EXCEPT ![c] = s.digit], 1, s.limit)
               found == IF s.digit \in Candidates(s.grid, c) THEN Count[inner] ELSE 0
               rest == Search(s.grid, s.digit + 1, s.limit - found)
    <2>1. s \in Searches /\ Work(s) < n + 1 /\ Work(s) \in Nat
      <3>1. s \in Searches /\ Work(s) < n + 1
        BY DEF Below
      <3> QED
        BY <3>1, WorkShrinks
    <2>2. s.grid \in Grids /\ s.digit \in 1..(W + 1) /\ s.limit \in Nat /\ W \in Nat \ {0} /\ s.limit /= 0
      BY <2>1, SearchParts, GridIsFinite
    <2>3. Count[s] = CountBody(Count, s)
      BY <2>1, CountExists
    <2>4. CASE c = None
      <3>1. Count[s] = 1
        BY <2>2, <2>3, <2>4 DEF CountBody
      <3>2. x = s.grid /\ y = s.grid
        BY <2>2, <2>4, MostConstrainedIsBlank, FullIsItself DEF Ahead
      <3> QED
        BY <3>1, <3>2
    <2>5. CASE c /= None
      <3>1. c \in Cells /\ x[c] \in Digits /\ y[c] \in Digits /\ x[c] >= s.digit /\ y[c] >= s.digit
        BY <2>5, MostConstrainedIsBlank DEF Ahead, FinishedGrids, Blanks
      <3>2. s.digit =< W
        BY <2>2, <3>1 DEF Digits
      <3>3. inner \in Searches /\ inner.limit = s.limit /\ Work(inner) < Work(s) /\ Work(inner) \in Nat
        <4>1. inner \in Searches /\ Work(inner) < Work(s)
          BY <2>1, <2>2, <2>5, <3>2, WorkShrinks
        <4> QED
          BY <4>1, WorkShrinks DEF Search
      <3>4. Finds(inner)
        BY <1>2, <2>1, <3>3 DEF Below
      <3>5. Count[inner] \in 0..s.limit
        BY <3>3, CountExists
      <3>6. /\ x[c] = s.digit => s.digit \in Candidates(s.grid, c) /\ x \in Ahead(inner)
            /\ y[c] = s.digit => s.digit \in Candidates(s.grid, c) /\ y \in Ahead(inner)
        BY <2>1, <2>2, <2>5, AheadInside
      <3> HIDE DEF inner
      <3>7. found \in 0..s.limit /\ s.limit - found \in Nat
        BY <2>2, <3>5
      <3>8. /\ x[c] = s.digit \/ y[c] = s.digit => found >= 1
            /\ x[c] = s.digit /\ y[c] = s.digit /\ s.limit >= 2 /\ x /= y => found >= 2
        BY <3>3, <3>4, <3>6 DEF Finds
      <3> HIDE DEF found
      <3>9. rest \in Searches /\ rest.limit = s.limit - found /\ Work(rest) < Work(s) /\ Work(rest) \in Nat
        <4>1. rest \in Searches /\ Work(rest) < Work(s)
          BY <2>1, <3>2, <3>7, WorkShrinks
        <4> QED
          BY <4>1, WorkShrinks DEF Search
      <3>10. Finds(rest)
        BY <1>2, <2>1, <3>9 DEF Below
      <3>11. Count[rest] \in 0..(s.limit - found)
        BY <3>9, CountExists
      <3>12. /\ x[c] /= s.digit => x \in Ahead(rest)
             /\ y[c] /= s.digit => y \in Ahead(rest)
        BY <2>1, <2>5, AheadBeyond
      <3> HIDE DEF rest
      <3>13. /\ x[c] /= s.digit \/ y[c] /= s.digit => (s.limit - found >= 1 => Count[rest] >= 1)
             /\ x[c] /= s.digit /\ y[c] /= s.digit /\ s.limit - found >= 2 /\ x /= y => Count[rest] >= 2
        BY <3>9, <3>10, <3>12 DEF Finds
      <3>14. Count[s] = found + Count[rest]
        BY <2>2, <2>3, <2>5, <3>2 DEF CountBody, found, rest, inner
      <3> HIDE DEF c
      <3> QED
        BY <2>2, <3>7, <3>8, <3>11, <3>13, <3>14
    <2> QED
      BY <2>4, <2>5
  <1> HIDE DEF Good
  <1>3. \A n \in Nat : n \in Good
    <2>1. \A n \in Nat : n \in Good => n + 1 \in Good
      BY <1>2 DEF Good
    <2> QED
      BY <1>1, <2>1, NumberInduction
  <1> SUFFICES ASSUME NEW s \in Searches PROVE Finds(s)
    OBVIOUS
  <1>4. Work(s) \in Nat
    BY WorkShrinks
  <1>5. s \in Below(Work(s) + 1) /\ Work(s) + 1 \in Good
    BY <1>3, <1>4 DEF Below
  <1> QED
    BY <1>5 DEF Good

(* A grid the digger calls unique has no two completions. *)
LEMMA UniqueIsOne ==
    ASSUME NEW g \in Grids, StillUnique(g), NEW x \in FinishedGrids, NEW y \in FinishedGrids,
           Keeps(x, g), Keeps(y, g)
    PROVE  x = y
  <1> DEFINE s == Search(g, 1, 2)
  <1>1. s \in Searches /\ s.grid = g /\ s.digit = 1 /\ s.limit = 2
    BY Searched, GridIsFinite
  <1>2. Count[s] = 1
    BY DEF StillUnique, Solutions
  <1> HIDE DEF s
  <1>3. \A z \in FinishedGrids : MostConstrained(g) /= None => z[MostConstrained(g)] >= 1
    BY DigitsStartAtOne
  <1>4. x \in Ahead(s) /\ y \in Ahead(s)
    BY <1>1, <1>3 DEF Ahead
  <1> QED
    BY <1>1, <1>2, <1>4, SearchFinds DEF Finds

---------------------------------------------------------------------------
(* Sudoku: the puzzles *)

Draws == [solution : FinishedGrids, order : Seq(Cells)]

\* Puzzle::generate_with, one cell of the order at a time.
DigStep(level, g, c) ==
    LET without == [g EXCEPT ![c] = Blank]
    IN IF Filled(g) > TargetGivens[level] /\ StillUnique(without) THEN without ELSE g
IsDug(P, level, draw) ==
    P = [i \in 0..Len(draw.order) |-> IF i = 0 THEN draw.solution ELSE DigStep(level, P[i - 1], draw.order[i])]
Dug(level, draw) == CHOOSE P : IsDug(P, level, draw)

LEMMA GeneratedIsDug ==
    ASSUME NEW level, NEW draw
    PROVE  GenerateWith(level, draw) =
              [givens |-> Dug(level, draw)[Len(draw.order)], solution |-> draw.solution, level |-> level]
  BY DEF GenerateWith, Dug, IsDug, DigStep

LEMMA DigExists ==
    ASSUME NEW level, NEW draw \in Draws
    PROVE  IsDug(Dug(level, draw), level, draw)
  <1> DEFINE Next1(P, i) == IF i = 0 THEN draw.solution ELSE DigStep(level, P[i - 1], draw.order[i])
             Good == {n \in Nat : \E P : P = [i \in 0..n |-> P[i]] /\ \A i \in 0..n : P[i] = Next1(P, i)}
  <1>1. 0 \in Good
    <2> DEFINE P == [i \in 0..0 |-> draw.solution]
    <2>1. P = [i \in 0..0 |-> P[i]] /\ \A i \in 0..0 : P[i] = Next1(P, i)
      OBVIOUS
    <2> QED
      BY <2>1
  <1>2. ASSUME NEW n \in Nat, n \in Good PROVE n + 1 \in Good
    <2>1. PICK P : P = [i \in 0..n |-> P[i]] /\ \A i \in 0..n : P[i] = Next1(P, i)
      BY <1>2
    <2> DEFINE Q == [i \in 0..(n + 1) |-> Next1(P, i)]
    <2>2. ASSUME NEW i \in 0..n PROVE Q[i] = P[i]
      <3>1. i \in 0..(n + 1)
        OBVIOUS
      <3>2. Q[i] = Next1(P, i)
        BY <3>1
      <3> HIDE DEF Q, Next1
      <3> QED
        BY <2>1, <3>2
    <2>3. ASSUME NEW i \in 0..(n + 1) PROVE Q[i] = Next1(Q, i)
      <3>1. CASE i = 0
        BY <3>1
      <3>2. CASE i # 0
        <4>1. i - 1 \in 0..n
          BY <3>2
        <4>2. Q[i - 1] = P[i - 1]
          BY <2>2, <4>1
        <4> QED
          BY <3>2, <4>2
      <3> QED
        BY <3>1, <3>2
    <2>4. Q = [i \in 0..(n + 1) |-> Q[i]]
      OBVIOUS
    <2> HIDE DEF Q, Next1
    <2>5. \E R : R = [i \in 0..(n + 1) |-> R[i]] /\ \A i \in 0..(n + 1) : R[i] = Next1(R, i)
      BY <2>3, <2>4
    <2> QED
      BY <2>5
  <1> HIDE DEF Good
  <1>3. Len(draw.order) \in Nat
    BY DEF Draws
  <1>4. Len(draw.order) \in Good
    BY <1>1, <1>2, <1>3, NumberInduction
  <1>5. PICK P : P = [i \in 0..Len(draw.order) |-> P[i]] /\ \A i \in 0..Len(draw.order) : P[i] = Next1(P, i)
    BY <1>4 DEF Good
  <1>6. IsDug(P, level, draw)
    BY <1>5 DEF IsDug
  <1> QED
    BY <1>6 DEF Dug

\* What is dug out of a finished grid has it for its only completion.
Holey(g, x) == g \in Grids /\ Keeps(x, g) /\ (g = x \/ StillUnique(g))

LEMMA DigKeeps ==
    ASSUME NEW level, NEW draw \in Draws
    PROVE  Holey(Dug(level, draw)[Len(draw.order)], draw.solution)
  <1> DEFINE P == Dug(level, draw)
             n == Len(draw.order)
             Good == {i \in Nat : i =< n => Holey(P[i], draw.solution)}
  <1>1. /\ \A i \in 0..n : P[i] = IF i = 0 THEN draw.solution ELSE DigStep(level, P[i - 1], draw.order[i])
        /\ n \in Nat /\ \A i \in 1..n : draw.order[i] \in Cells
        /\ draw.solution \in FinishedGrids
    BY DigExists DEF IsDug, Draws
  <1> HIDE DEF P, n
  <1>2. 0 \in Good
    <2>1. P[0] = draw.solution
      BY <1>1
    <2>2. draw.solution \in Grids /\ Keeps(draw.solution, draw.solution)
      BY <1>1 DEF FinishedGrids, Grids, Keeps
    <2> QED
      BY <2>1, <2>2 DEF Holey
  <1>3. ASSUME NEW i \in Nat, i \in Good PROVE i + 1 \in Good
    <2> SUFFICES ASSUME i + 1 =< n PROVE Holey(P[i + 1], draw.solution)
      OBVIOUS
    <2>1. i =< n /\ i + 1 \in 0..n /\ i + 1 \in 1..n /\ i + 1 /= 0 /\ (i + 1) - 1 = i
      BY <1>1
    <2> DEFINE g == P[i]
               c == draw.order[i + 1]
               without == [g EXCEPT ![c] = Blank]
    <2>2. Holey(g, draw.solution) /\ c \in Cells
      BY <1>1, <1>3, <2>1
    <2>3. P[i + 1] = DigStep(level, g, c)
      BY <1>1, <2>1
    <2> HIDE DEF g, c
    <2>4. without \in Grids /\ Keeps(draw.solution, without)
      BY <2>2 DEF Holey, Grids, Keeps
    <2>5. P[i + 1] = g \/ (P[i + 1] = without /\ StillUnique(without))
      BY <2>3 DEF DigStep
    <2> HIDE DEF without
    <2> QED
      BY <2>2, <2>4, <2>5 DEF Holey
  <1> HIDE DEF Good
  <1>4. n \in Good
    BY <1>1, <1>2, <1>3, NumberInduction
  <1> QED
    BY <1>1, <1>4 DEF Good, P, n

Puzzles == {Generated[i] : i \in DOMAIN Generated}

LEMMA PuzzleIsDrawn ==
    ASSUME NEW level \in Difficulties, NEW k \in DOMAIN Stream
    PROVE  Generated[<<level, k>>] \in Puzzles /\ k \in Nat
  <1>1. <<level, k>> \in DOMAIN Generated
    BY DEF Generated
  <1>2. k \in Nat
    BY DrawsAssumption
  <1> HIDE DEF Generated
  <1> QED
    BY <1>1, <1>2 DEF Puzzles

(* A puzzle is its givens, its solution and its level; the solution is a      *)
(* finished grid the givens were dug out of.                                  *)
LEMMA PuzzleIsHoley ==
    ASSUME NEW p \in Puzzles
    PROVE  /\ p.solution \in FinishedGrids /\ p.givens \in Grids /\ p.level \in Difficulties
           /\ Holey(p.givens, p.solution)
  <1>1. PICK i \in DOMAIN Generated : p = Generated[i]
    BY DEF Puzzles
  <1>2. i \in Difficulties \X DOMAIN Stream /\ p = GenerateWith(i[1], Stream[i[2]])
    BY <1>1 DEF Generated
  <1>3. Stream[i[2]] \in Draws
    <2>1. Stream \in Seq(Draws)
      BY DrawsAssumption DEF Draws, FinishedGrids
    <2>2. \A k \in DOMAIN Stream : Stream[k] \in Draws
      BY <2>1
    <2>3. i[2] \in DOMAIN Stream
      BY <1>2
    <2> QED
      BY <2>2, <2>3
  <1>4. p = [givens |-> Dug(i[1], Stream[i[2]])[Len(Stream[i[2]].order)], solution |-> Stream[i[2]].solution,
             level |-> i[1]]
    BY <1>2, GeneratedIsDug
  <1>5. p.solution = Stream[i[2]].solution /\ p.level = i[1]
        /\ p.givens = Dug(i[1], Stream[i[2]])[Len(Stream[i[2]].order)]
    BY <1>4
  <1>6. Holey(p.givens, p.solution)
    BY <1>3, <1>5, DigKeeps
  <1> QED
    BY <1>2, <1>3, <1>5, <1>6 DEF Holey, Draws

(* Part of a grid that breaks no constraint breaks none. *)
LEMMA PartIsValid ==
    ASSUME NEW x \in FinishedGrids, NEW g \in Grids, Keeps(x, g)
    PROVE  IsValid(g)
  <1> SUFFICES ASSUME NEW c \in Cells, g[c] /= Blank PROVE Free(g, c, g[c])
    BY ValidIsFree
  <1>1. x[c] = g[c] /\ x[c] \in Digits /\ IsValid(x)
    BY DEF Keeps, FinishedGrids
  <1>2. Free(x, c, x[c])
    BY <1>1, ValidIsFree, GridIsFinite
  <1> SUFFICES ASSUME NEW o \in Peers[c], g[o] = g[c] PROVE FALSE
    BY DEF Free
  <1>3. o \in Cells /\ x[o] = g[o]
    BY PeersAreMutual DEF Keeps
  <1> QED
    BY <1>1, <1>2, <1>3 DEF Free

(* Every legal filling of a puzzle's blanks is its solution. *)
LEMMA PuzzleHasOneSolution ==
    ASSUME NEW p \in Puzzles
    PROVE  Completions[p] = {p.solution}
  <1> DEFINE blanks == {c \in Cells : p.givens[c] = Blank}
             fill(f) == [c \in Cells |-> IF c \in blanks THEN f[c] ELSE p.givens[c]]
  <1>1. Completions[p] = {g \in {fill(f) : f \in [blanks -> Digits]} : IsValid(g)}
    BY DEF Completions, Puzzles
  <1>2. /\ p.solution \in FinishedGrids /\ p.givens \in Grids /\ Keeps(p.solution, p.givens)
        /\ p.givens = p.solution \/ StillUnique(p.givens)
    BY PuzzleIsHoley DEF Holey
  <1>3. ASSUME NEW f \in [blanks -> Digits], IsValid(fill(f)) PROVE fill(f) = p.solution
    <2>1. ASSUME NEW c \in Cells
          PROVE  fill(f)[c] \in Digits /\ (p.givens[c] /= Blank => fill(f)[c] = p.givens[c])
      <3>1. fill(f)[c] = IF c \in blanks THEN f[c] ELSE p.givens[c]
        OBVIOUS
      <3>2. p.givens[c] \in Digits \cup {Blank}
        BY <1>2 DEF Grids
      <3> HIDE DEF fill
      <3> QED
        BY <3>1, <3>2
    <2>2. fill(f) = [c \in Cells |-> fill(f)[c]]
      OBVIOUS
    <2> HIDE DEF fill
    <2>3. fill(f) \in [Cells -> Digits] /\ Keeps(fill(f), p.givens)
      BY <2>1, <2>2 DEF Keeps
    <2>4. fill(f) \in FinishedGrids
      BY <1>3, <2>3 DEF FinishedGrids
    <2>5. CASE StillUnique(p.givens)
      BY <1>2, <2>3, <2>4, <2>5, UniqueIsOne
    <2>6. CASE p.givens = p.solution
      <3>1. Blanks(p.givens) = {}
        BY <1>2, <2>6, GridIsFinite DEF FinishedGrids, Blanks
      <3>2. fill(f) = p.givens
        BY <1>2, <2>3, <2>4, <3>1, FullIsItself
      <3> QED
        BY <2>6, <3>2
    <2> QED
      BY <1>2, <2>5, <2>6
  <1>4. \E f \in [blanks -> Digits] : fill(f) = p.solution
    <2> DEFINE f == [c \in blanks |-> p.solution[c]]
    <2>1. p.solution \in [Cells -> Digits] /\ p.solution = [c \in Cells |-> p.solution[c]]
      BY <1>2 DEF FinishedGrids
    <2>2. f \in [blanks -> Digits]
      BY <2>1
    <2>3. \A c \in Cells : (IF c \in blanks THEN f[c] ELSE p.givens[c]) = p.solution[c]
      BY <1>2 DEF Keeps
    <2>4. fill(f) = p.solution
      BY <2>1, <2>3
    <2> HIDE DEF f, fill
    <2> QED
      BY <2>2, <2>4
  <1>5. IsValid(p.solution)
    BY <1>2 DEF FinishedGrids
  <1> HIDE DEF fill, blanks
  <1> QED
    BY <1>1, <1>3, <1>4, <1>5

---------------------------------------------------------------------------
(* Sudoku: the game, its file and the glass *)

Games == [puzzle : Puzzles, board : Grids, rng : Nat]
Views ==
    [selected : Cells \cup {None}, notice : {"none", "given", "no selection", "conflict"}, armed : BOOLEAN,
     next : Difficulties, loaded : BOOLEAN, front : BOOLEAN]
SavedGames == [kind : {"saved"}, puzzle : Puzzles, board : Grids, stream : Nat]
PuzzleFiles == {NoFile, Unreadable} \cup SavedGames
DamageClaims == [full : BOOLEAN, count : Nat, rects : SUBSET Regions]
GlassStates == [stale : SUBSET Regions, due : BOOLEAN, taps : Nat]
SudokuTallies == [unsaved : BOOLEAN, faults : Nat, launches : Nat]

\* The board keeps its givens and breaks no constraint.
LegalGame(g) ==
    /\ \A c \in Cells : IsGiven(g.puzzle, c) => g.board[c] = g.puzzle.givens[c]
    /\ IsValid(g.board)

\* Sudoku: the board is legal, the file is the game unless a save failed, and
\* what is out of date on the glass is claimed.
SudokuState(g, v, file, claimed, seen, tallied) ==
    /\ g \in Games /\ v \in Views /\ file \in PuzzleFiles
    /\ claimed \in DamageClaims /\ seen \in GlassStates /\ tallied \in SudokuTallies
    /\ LegalGame(g)
    /\ v.loaded /\ ~tallied.unsaved => file = Saved(g)
    /\ ~v.loaded => tallied.unsaved /\ claimed = Full /\ seen.due
    /\ ~v.front => claimed = Full
    /\ seen.stale \ {Status} \subseteq Covered(claimed)
    /\ v.front /\ ~seen.due => seen.stale \subseteq {Status}
SudokuInv == SudokuState(play, view, puzzleFile, claims, glass, shist)

LEMMA FullIsClaim == Full \in DamageClaims /\ Covered(Full) = Regions /\ Full.full
  BY DEF Full, DamageClaims, Covered

LEMMA NothingIsClaim ==
    Only(<<>>) \in DamageClaims /\ Only(<<>>).count = 0 /\ ~Only(<<>>).full /\ Only(<<>>).rects = {}
  <1>1. {(<<>>)[i] : i \in DOMAIN <<>>} = {} /\ Len(<<>>) = 0
    OBVIOUS
  <1>2. Only(<<>>) = [full |-> FALSE, count |-> 0, rects |-> {}]
    BY <1>1 DEF Only
  <1> DEFINE nothing == Only(<<>>)
  <1> HIDE DEF nothing
  <1>3. nothing = [full |-> FALSE, count |-> 0, rects |-> {}]
    BY <1>2 DEF nothing
  <1>4. nothing \in DamageClaims /\ nothing.count = 0 /\ ~nothing.full /\ nothing.rects = {}
    BY <1>3 DEF DamageClaims
  <1> QED
    BY <1>4 DEF nothing

(* A puzzle that is begun is legal. *)
LEMMA BeginIsLegal ==
    ASSUME NEW level \in Difficulties, NEW k \in DOMAIN Stream
    PROVE  Begin(level, k) \in Games /\ LegalGame(Begin(level, k))
  <1> DEFINE p == Generated[<<level, k>>]
             g == Begin(level, k)
  <1>1. p \in Puzzles /\ k + 1 \in Nat
    BY PuzzleIsDrawn
  <1>2. g = [puzzle |-> p, board |-> p.givens, rng |-> k + 1]
    BY DEF Begin
  <1> HIDE DEF p, g
  <1>3. p.solution \in FinishedGrids /\ p.givens \in Grids /\ Keeps(p.solution, p.givens)
    BY <1>1, PuzzleIsHoley DEF Holey
  <1>4. g \in Games /\ g.puzzle = p /\ g.board = p.givens
    BY <1>1, <1>2, <1>3 DEF Games
  <1>5. IsValid(p.givens)
    BY <1>3, PartIsValid
  <1> QED
    BY <1>4, <1>5 DEF LegalGame, g

LEMMA FreshView ==
    ASSUME NEW level \in Difficulties
    PROVE  /\ NewView(level) \in Views /\ ~NewView(level).loaded /\ NewView(level).front
           /\ [NewView(level) EXCEPT !.loaded = TRUE] \in Views
           /\ [NewView(level) EXCEPT !.loaded = TRUE].loaded /\ [NewView(level) EXCEPT !.loaded = TRUE].front
  <1>1. NewView(level) \in Views /\ ~NewView(level).loaded /\ NewView(level).front
    BY DEF NewView, Views
  <1> QED
    BY <1>1 DEF Views

LEMMA SudokuFirst == SudokuInit => SudokuInv
  <1> SUFFICES ASSUME SudokuInit PROVE SudokuInv
    OBVIOUS
  <1>1. /\ play = Begin(FIRST_PUZZLE, 1) /\ view = NewView(FIRST_PUZZLE) /\ puzzleFile = NoFile /\ claims = Full
        /\ glass = [stale |-> Regions, due |-> TRUE, taps |-> 0]
        /\ shist = [unsaved |-> TRUE, faults |-> 0, launches |-> 1]
    BY DEF SudokuInit
  <1>2. FIRST_PUZZLE \in Difficulties /\ 1 \in DOMAIN Stream
    BY DrawsAssumption
  <1>3. play \in Games /\ LegalGame(play)
    BY <1>1, <1>2, BeginIsLegal
  <1>4. view \in Views /\ ~view.loaded /\ view.front
    BY <1>1, <1>2, FreshView
  <1>5. glass \in GlassStates /\ glass.stale = Regions /\ glass.due
    BY <1>1 DEF GlassStates
  <1>6. shist \in SudokuTallies /\ shist.unsaved
    BY <1>1 DEF SudokuTallies
  <1>7. puzzleFile \in PuzzleFiles
    BY <1>1 DEF PuzzleFiles
  <1> QED
    BY <1>1, <1>3, <1>4, <1>5, <1>6, <1>7, FullIsClaim DEF SudokuInv, SudokuState

LEMMA SavedIsGame ==
    ASSUME NEW g \in Games
    PROVE  Saved(g) \in SavedGames
  BY DEF Saved, Games, SavedGames

LEMMA RestoredIsSaved ==
    ASSUME NEW f \in SavedGames
    PROVE  Restored(f) \in Games /\ Saved(Restored(f)) = f /\ (Rebuilds(f) => LegalGame(Restored(f)))
  <1>1. /\ f = [kind |-> "saved", puzzle |-> f.puzzle, board |-> f.board, stream |-> f.stream]
        /\ f.puzzle \in Puzzles /\ f.board \in Grids /\ f.stream \in Nat
    BY DEF SavedGames
  <1>2. Restored(f) = [puzzle |-> f.puzzle, board |-> f.board, rng |-> f.stream]
    BY DEF Restored
  <1>3. Restored(f).puzzle = f.puzzle /\ Restored(f).board = f.board /\ Restored(f).rng = f.stream
    BY <1>2
  <1>4. Restored(f) \in Games
    BY <1>1, <1>2 DEF Games
  <1>5. Saved(Restored(f)) = f
    BY <1>1, <1>3 DEF Saved
  <1>6. Rebuilds(f) => LegalGame(Restored(f))
    BY <1>3 DEF Rebuilds, LegalGame
  <1> QED
    BY <1>4, <1>5, <1>6

LEMMA SudokuLoads == SudokuInv /\ Load => SudokuInv'
  <1> SUFFICES ASSUME SudokuInv, Load PROVE SudokuInv'
    OBVIOUS
  <1>1. ~view.loaded /\ puzzleFile' = puzzleFile /\ claims' = claims /\ glass' = glass
    BY DEF Load
  <1>2. /\ play \in Games /\ view \in Views /\ puzzleFile \in PuzzleFiles /\ claims \in DamageClaims
        /\ glass \in GlassStates /\ shist \in SudokuTallies /\ LegalGame(play)
        /\ shist.unsaved /\ claims = Full /\ glass.due
        /\ glass.stale \ {Status} \subseteq Covered(claims)
    BY <1>1 DEF SudokuInv, SudokuState
  <1>3. CASE puzzleFile.kind = "saved" /\ Rebuilds(puzzleFile)
    <2>1. /\ play' = Restored(puzzleFile)
          /\ view' = [NewView(puzzleFile.puzzle.level) EXCEPT !.loaded = TRUE]
          /\ shist' = [shist EXCEPT !.unsaved = FALSE]
      BY <1>3 DEF Load
    <2>2. puzzleFile \in SavedGames
      BY <1>2, <1>3 DEF PuzzleFiles, NoFile, Unreadable
    <2>3. puzzleFile.puzzle.level \in Difficulties
      BY <2>2, PuzzleIsHoley DEF SavedGames
    <2>4. view' \in Views /\ view'.loaded /\ view'.front
      BY <2>1, <2>3, FreshView
    <2>5. shist' \in SudokuTallies
      BY <1>2, <2>1 DEF SudokuTallies
    <2>6. play' \in Games /\ LegalGame(play') /\ Saved(play') = puzzleFile
      BY <1>3, <2>1, <2>2, RestoredIsSaved
    <2> QED
      BY <1>1, <1>2, <2>4, <2>5, <2>6 DEF SudokuInv, SudokuState
  <1>4. CASE ~(puzzleFile.kind = "saved" /\ Rebuilds(puzzleFile))
    <2>1. play' = play /\ shist' = shist /\ view' = [view EXCEPT !.loaded = TRUE]
      BY <1>4 DEF Load
    <2>2. view' \in Views /\ view'.loaded
      BY <1>2, <2>1 DEF Views
    <2> QED
      BY <1>1, <1>2, <2>1, <2>2 DEF SudokuInv, SudokuState
  <1> QED
    BY <1>3, <1>4

LEMMA SudokuPersists ==
    ASSUME puzzleFile \in PuzzleFiles, shist \in SudokuTallies, NEW g \in Games, Persist(g)
    PROVE  puzzleFile' \in PuzzleFiles /\ shist' \in SudokuTallies /\ (~shist'.unsaved => puzzleFile' = Saved(g))
  <1>1. CASE puzzleFile' = Saved(g) /\ shist' = [shist EXCEPT !.unsaved = FALSE]
    <2>1. shist' \in SudokuTallies
      BY <1>1 DEF SudokuTallies
    <2> QED
      BY <1>1, <2>1, SavedIsGame DEF PuzzleFiles
  <1>2. CASE puzzleFile' = puzzleFile /\ shist' = [shist EXCEPT !.unsaved = TRUE, !.faults = @ + 1]
    <2> DEFINE more == shist.faults + 1
    <2>1. shist \in [unsaved : BOOLEAN, faults : Nat, launches : Nat] /\ more \in Nat
      BY DEF SudokuTallies
    <2>2. shist' = [shist EXCEPT !.unsaved = TRUE, !.faults = more]
      BY <1>2
    <2> HIDE DEF more
    <2>3. shist' \in [unsaved : BOOLEAN, faults : Nat, launches : Nat] /\ shist'.unsaved = TRUE
      BY <2>1, <2>2
    <2> QED
      BY <1>2, <2>3 DEF SudokuTallies
  <1> QED
    BY <1>1, <1>2 DEF Persist

(* A claim added to the pending one covers both. *)
LEMMA ClaimCovers ==
    ASSUME NEW p \in DamageClaims, NEW d \in DamageClaims
    PROVE  /\ Claim(p, d) \in DamageClaims
           /\ Covered(p) \subseteq Covered(Claim(p, d)) /\ Covered(d) \subseteq Covered(Claim(p, d))
           /\ d.full => Claim(p, d) = Full
  <1>1. CASE p.full \/ d.full \/ p.count + d.count > MAX_DAMAGE_RECTS
    <2>1. Claim(p, d) = Full
      BY <1>1 DEF Claim
    <2> QED
      BY <2>1, FullIsClaim DEF Covered, DamageClaims
  <1>2. CASE ~(p.full \/ d.full \/ p.count + d.count > MAX_DAMAGE_RECTS)
    <2> DEFINE n == p.count + d.count
               all == p.rects \cup d.rects
    <2>1. Claim(p, d) = [full |-> FALSE, count |-> n, rects |-> all]
      BY <1>2 DEF Claim
    <2>2. n \in Nat /\ all \in SUBSET Regions
      BY DEF DamageClaims
    <2>3. Covered(p) = p.rects /\ Covered(d) = d.rects
      BY <1>2 DEF Covered
    <2>4. p.rects \subseteq all /\ d.rects \subseteq all
      OBVIOUS
    <2> HIDE DEF n, all
    <2>5. Claim(p, d) \in DamageClaims /\ Covered(Claim(p, d)) = all
      BY <2>1, <2>2 DEF DamageClaims, Covered
    <2> QED
      BY <1>2, <2>3, <2>4, <2>5
  <1> QED
    BY <1>1, <1>2

(* What a press leaves when it claims what it changed. *)
LEMMA SudokuPressKeeps ==
    ASSUME SudokuInv, view.loaded, view.front, NEW g \in Games, NEW v \in Views, NEW damage \in DamageClaims,
           v.loaded, v.front, LegalGame(g), ~damage.full /\ damage.count = 0 => damage.rects = {},
           Changed(play, view, g, v) \ {Status} \subseteq Covered(damage), Handled(g, v, damage)
    PROVE  SudokuInv'
  <1> DEFINE different == Changed(play, view, g, v)
             stale == glass.stale \cup different
             due == glass.due \/ damage.full \/ damage.count > 0
             taps == glass.taps + 1
  <1>1. /\ play' = g /\ view' = v /\ claims' = Claim(claims, damage)
        /\ glass' = [stale |-> stale, due |-> due, taps |-> taps]
        /\ IF g # play THEN Persist(g) ELSE puzzleFile' = puzzleFile /\ shist' = shist
    BY DEF Handled, Revised
  <1>2. /\ play \in Games /\ puzzleFile \in PuzzleFiles /\ claims \in DamageClaims /\ glass \in GlassStates
        /\ shist \in SudokuTallies /\ (~shist.unsaved => puzzleFile = Saved(play))
        /\ glass.stale \ {Status} \subseteq Covered(claims)
        /\ ~glass.due => glass.stale \subseteq {Status}
    BY DEF SudokuInv, SudokuState
  <1>3. /\ Claim(claims, damage) \in DamageClaims
        /\ Covered(claims) \subseteq Covered(Claim(claims, damage))
        /\ Covered(damage) \subseteq Covered(Claim(claims, damage))
    BY <1>2, ClaimCovers
  <1>4. different \subseteq Regions
    BY DEF Changed
  <1>5. different \ {Status} \subseteq Covered(damage)
    OBVIOUS
  <1> HIDE DEF different
  <1>6. stale \in SUBSET Regions /\ due \in BOOLEAN /\ taps \in Nat
    BY <1>2, <1>4 DEF GlassStates
  <1>7. stale \ {Status} \subseteq Covered(claims')
    BY <1>1, <1>2, <1>3, <1>5
  <1>8. ~due => stale \subseteq {Status}
    <2> SUFFICES ASSUME ~due PROVE stale \subseteq {Status}
      OBVIOUS
    <2>1. damage.count \in Nat
      BY DEF DamageClaims
    <2>2. ~glass.due /\ ~damage.full /\ damage.count = 0
      BY <2>1
    <2>3. Covered(damage) = {}
      BY <2>2 DEF Covered
    <2> QED
      BY <1>2, <1>5, <2>2, <2>3
  <1> HIDE DEF stale, due, taps
  <1>9. glass' \in GlassStates /\ glass'.stale = stale /\ glass'.due = due
    BY <1>1, <1>6 DEF GlassStates
  <1>10. puzzleFile' \in PuzzleFiles /\ shist' \in SudokuTallies /\ (~shist'.unsaved => puzzleFile' = Saved(g))
    <2>1. CASE g # play
      <3>1. Persist(g)
        BY <1>1, <2>1
      <3> QED
        BY <1>2, <3>1, SudokuPersists
    <2>2. CASE g = play
      BY <1>1, <1>2, <2>2
    <2> QED
      BY <2>1, <2>2
  <1>11. SudokuState(g, v, puzzleFile', claims', glass', shist')
    BY <1>1, <1>3, <1>7, <1>8, <1>9, <1>10 DEF SudokuState
  <1> QED
    BY <1>1, <1>11 DEF SudokuInv

\* The rectangles of a list.
SudokuListed(list) == {list[i] : i \in DOMAIN list}

LEMMA OnlyIsClaim ==
    ASSUME NEW list \in Seq(Regions)
    PROVE  /\ Only(list) \in DamageClaims /\ ~Only(list).full /\ Covered(Only(list)) = SudokuListed(list)
           /\ Only(list).count = 0 => Only(list).rects = {}
  <1> DEFINE n == Len(list)
             all == {list[i] : i \in DOMAIN list}
             d == Only(list)
  <1>1. n \in Nat /\ all \in SUBSET Regions /\ (n = 0 => all = {})
    OBVIOUS
  <1>2. d = [full |-> FALSE, count |-> n, rects |-> all]
    BY DEF Only
  <1> HIDE DEF n, all, d
  <1>3. d \in DamageClaims /\ ~d.full /\ d.rects = all /\ d.count = n
    BY <1>1, <1>2 DEF DamageClaims
  <1> QED
    BY <1>1, <1>3 DEF d, all, Covered, SudokuListed

LEMMA ListOfOne ==
    ASSUME NEW r \in Regions
    PROVE  <<r>> \in Seq(Regions) /\ r \in SudokuListed(<<r>>) /\ <<>> \in Seq(Regions)
  <1>1. <<r>> \in Seq(Regions) /\ <<>> \in Seq(Regions) /\ 1 \in DOMAIN <<r>> /\ <<r>>[1] = r
    OBVIOUS
  <1> QED
    BY <1>1 DEF SudokuListed

LEMMA ListsJoin ==
    ASSUME NEW s \in Seq(Regions), NEW t \in Seq(Regions)
    PROVE  s \o t \in Seq(Regions) /\ SudokuListed(s) \subseteq SudokuListed(s \o t) /\ SudokuListed(t) \subseteq SudokuListed(s \o t)
  <1>1. /\ s \o t \in Seq(Regions) /\ Len(s \o t) = Len(s) + Len(t) /\ Len(s) \in Nat /\ Len(t) \in Nat
        /\ \A i \in 1..Len(s) : (s \o t)[i] = s[i]
        /\ \A i \in 1..Len(t) : (s \o t)[Len(s) + i] = t[i]
    BY Chained
  <1>2. DOMAIN s = 1..Len(s) /\ DOMAIN t = 1..Len(t) /\ DOMAIN (s \o t) = 1..Len(s \o t)
    BY <1>1
  <1> DEFINE both == s \o t
  <1> HIDE DEF both
  <1>3. ASSUME NEW i \in 1..Len(s) PROVE i \in DOMAIN both /\ both[i] = s[i]
    BY <1>1, <1>2 DEF both
  <1>4. ASSUME NEW i \in 1..Len(t) PROVE Len(s) + i \in DOMAIN both /\ both[Len(s) + i] = t[i]
    BY <1>1, <1>2 DEF both
  <1>5. SudokuListed(s) \subseteq SudokuListed(both)
    BY <1>2, <1>3 DEF SudokuListed
  <1>6. SudokuListed(t) \subseteq SudokuListed(both)
    BY <1>2, <1>4 DEF SudokuListed
  <1> QED
    BY <1>1, <1>5, <1>6 DEF both

LEMMA RegionsApart ==
    /\ Cells \subseteq Regions /\ {Bar, Status, NewButton, NextButton} \subseteq Regions
    /\ {Bar, Status, NewButton, NextButton} \cap Cells = {}
    /\ Bar /= Status /\ Bar /= NewButton /\ Bar /= NextButton
    /\ Status /= NewButton /\ Status /= NextButton /\ NewButton /= NextButton
  BY GridIsFinite DEF Regions, Bar, Status, NewButton, NextButton

(* A list that has the cells and the buttons that changed covers the change. *)
LEMMA ListCovers ==
    ASSUME NEW g, NEW v, NEW list \in Seq(Regions), g.puzzle = play.puzzle,
           \A c \in Cells \ SudokuListed(list) : g.board[c] = play.board[c] /\ ((v.selected = c) <=> (view.selected = c)),
           NewButton \in SudokuListed(list) \/ v.armed = view.armed,
           NextButton \in SudokuListed(list) \/ v.next = view.next
    PROVE  Changed(play, view, g, v) \ {Status} \subseteq Covered(Only(list))
  <1> SUFFICES ASSUME NEW r \in Regions, r /= Status, r \notin SudokuListed(list)
               PROVE  Shown(play, view, r) = Shown(g, v, r)
    BY OnlyIsClaim DEF Changed
  <1>1. r \in Cells \/ r = Bar \/ r = NewButton \/ r = NextButton
    BY DEF Regions
  <1>2. CASE r = Bar
    BY <1>2 DEF Shown
  <1>3. CASE r = NewButton
    <2>1. Shown(play, view, r) = <<view.armed>> /\ Shown(g, v, r) = <<v.armed>>
      BY <1>3, RegionsApart DEF Shown
    <2> QED
      BY <1>3, <2>1
  <1>4. CASE r = NextButton
    <2>1. Shown(play, view, r) = <<view.next>> /\ Shown(g, v, r) = <<v.next>>
      BY <1>4, RegionsApart DEF Shown
    <2> QED
      BY <1>4, <2>1
  <1>5. CASE r \in Cells
    <2>1. r /= Bar /\ r /= NewButton /\ r /= NextButton /\ r /= Status
      BY <1>5, RegionsApart
    <2>2. /\ Shown(play, view, r) = <<play.board[r], IsGiven(play.puzzle, r), view.selected = r>>
          /\ Shown(g, v, r) = <<g.board[r], IsGiven(g.puzzle, r), v.selected = r>>
      BY <2>1 DEF Shown
    <2>3. g.board[r] = play.board[r] /\ (v.selected = r) = (view.selected = r)
      BY <1>5
    <2> QED
      BY <2>2, <2>3
  <1> QED
    BY <1>1, <1>2, <1>3, <1>4, <1>5

LEMMA Lists ==
    ASSUME view \in Views, NEW notice, NEW c \in Cells
    PROVE  /\ Disarmed \in Seq(Regions) /\ (view.armed => NewButton \in SudokuListed(Disarmed))
           /\ Noted(notice) \in Seq(Regions)
           /\ Released(c) \in Seq(Regions)
           /\ view.selected \notin {None, c} => view.selected \in SudokuListed(Released(c))
  <1>1. Disarmed \in Seq(Regions) /\ (view.armed => NewButton \in SudokuListed(Disarmed))
    BY RegionsApart, ListOfOne DEF Disarmed
  <1>2. Noted(notice) \in Seq(Regions)
    BY RegionsApart, ListOfOne DEF Noted
  <1>3. view.selected \notin {None, c} => view.selected \in Regions
    BY RegionsApart DEF Views
  <1>4. Released(c) \in Seq(Regions) /\ (view.selected \notin {None, c} => view.selected \in SudokuListed(Released(c)))
    BY <1>3, RegionsApart, ListOfOne DEF Released
  <1> QED
    BY <1>1, <1>2, <1>4

LEMMA CalmView ==
    ASSUME view \in Views, view.loaded, view.front
    PROVE  /\ Calm \in Views /\ Calm.loaded /\ Calm.front /\ Calm.armed = FALSE
           /\ Calm.selected = view.selected /\ Calm.next = view.next
  BY DEF Views, Calm

LEMMA Opened == SudokuInv /\ Open => view.loaded /\ view.front /\ view \in Views /\ play \in Games /\ LegalGame(play)
  BY DEF Open, Ready, SudokuInv, SudokuState

(* A press that disarms, and claims what else it changed. *)
LEMMA CalmlyKeeps ==
    ASSUME SudokuInv, Open, NEW g \in Games, LegalGame(g), g.puzzle = play.puzzle,
           NEW v \in Views, v.loaded, v.front, v.armed = FALSE, NEW list \in Seq(Regions),
           SudokuListed(Disarmed) \subseteq SudokuListed(list), NextButton \in SudokuListed(list) \/ v.next = view.next,
           \A c \in Cells \ SudokuListed(list) : g.board[c] = play.board[c] /\ ((v.selected = c) <=> (view.selected = c)),
           Handled(g, v, Only(list))
    PROVE  SudokuInv'
  <1>1. view.loaded /\ view.front /\ view \in Views /\ 0 \in Cells
    BY Opened, ZeroIsCell
  <1>2. NewButton \in SudokuListed(list) \/ v.armed = view.armed
    BY <1>1, Lists DEF Views
  <1>3. Changed(play, view, g, v) \ {Status} \subseteq Covered(Only(list))
    BY <1>2, ListCovers
  <1> QED
    BY <1>1, <1>3, OnlyIsClaim, SudokuPressKeeps

LEMMA SudokuHomeKeeps ==
    ASSUME SudokuInv, PressHome
    PROVE  SudokuInv'
  <1>1. Open /\ Handled(play, view, Only(<<>>))
    BY DEF PressHome
  <1>2. view.loaded /\ view.front /\ view \in Views /\ play \in Games /\ LegalGame(play)
    BY <1>1, Opened
  <1>3. Changed(play, view, play, view) = {}
    BY DEF Changed
  <1> QED
    BY <1>1, <1>2, <1>3, NothingIsClaim, SudokuPressKeeps

LEMMA NewKeeps ==
    ASSUME SudokuInv, PressNew
    PROVE  SudokuInv'
  <1>1. Open
    BY DEF PressNew
  <1>2. view.loaded /\ view.front /\ view \in Views /\ play \in Games /\ LegalGame(play)
    BY <1>1, Opened
  <1>3. CASE Handled(play, [view EXCEPT !.armed = TRUE], Only(<<NewButton>>))
    <2> DEFINE v == [view EXCEPT !.armed = TRUE]
    <2>1. v \in Views /\ v.loaded /\ v.front /\ v.selected = view.selected /\ v.next = view.next
      BY <1>2 DEF Views
    <2>2. Handled(play, v, Only(<<NewButton>>))
      BY <1>3
    <2> HIDE DEF v
    <2>3. <<NewButton>> \in Seq(Regions) /\ NewButton \in SudokuListed(<<NewButton>>)
      BY RegionsApart, ListOfOne
    <2>4. Changed(play, view, play, v) \ {Status} \subseteq Covered(Only(<<NewButton>>))
      BY <2>1, <2>3, ListCovers
    <2> QED
      BY <1>2, <2>1, <2>2, <2>3, <2>4, OnlyIsClaim, SudokuPressKeeps
  <1>4. CASE play.rng \in DOMAIN Stream /\ Handled(Begin(view.next, play.rng),
               [view EXCEPT !.armed = FALSE, !.selected = None, !.notice = "none"], Full)
    <2> DEFINE v == [view EXCEPT !.armed = FALSE, !.selected = None, !.notice = "none"]
               g == Begin(view.next, play.rng)
    <2>1. v \in Views /\ v.loaded /\ v.front /\ view.next \in Difficulties
      BY <1>2 DEF Views
    <2>2. g \in Games /\ LegalGame(g)
      BY <1>4, <2>1, BeginIsLegal
    <2>3. Handled(g, v, Full)
      BY <1>4
    <2> HIDE DEF g, v
    <2>4. Changed(play, view, g, v) \ {Status} \subseteq Covered(Full)
      BY FullIsClaim DEF Changed
    <2> QED
      BY <1>2, <2>1, <2>2, <2>3, <2>4, FullIsClaim, SudokuPressKeeps
  <1> QED
    BY <1>3, <1>4 DEF PressNew

LEMMA NextKeeps ==
    ASSUME SudokuInv, PressNext
    PROVE  SudokuInv'
  <1> DEFINE v == [Calm EXCEPT !.next = NextDifficulty[@]]
             list == Append(Disarmed, NextButton)
  <1>1. Open /\ Handled(play, v, Only(list))
    BY DEF PressNext
  <1>2. view.loaded /\ view.front /\ view \in Views /\ play \in Games /\ LegalGame(play) /\ 0 \in Cells
    BY <1>1, Opened, ZeroIsCell
  <1>3. Calm \in Views /\ Calm.loaded /\ Calm.front /\ Calm.armed = FALSE /\ Calm.selected = view.selected
    BY <1>2, CalmView
  <1>4. NextDifficulty[Calm.next] \in Difficulties
    BY <1>3, DrawsAssumption DEF Views
  <1>5. v \in Views /\ v.loaded /\ v.front /\ v.armed = FALSE /\ v.selected = view.selected
    BY <1>3, <1>4 DEF Views
  <1> HIDE DEF v
  <1>6. Disarmed \in Seq(Regions) /\ NextButton \in Regions
    BY <1>2, Lists, RegionsApart
  <1>7. list = Disarmed \o <<NextButton>>
    BY <1>6
  <1>8. <<NextButton>> \in Seq(Regions) /\ NextButton \in SudokuListed(<<NextButton>>)
    BY <1>6, ListOfOne
  <1> HIDE DEF list
  <1>9. list \in Seq(Regions) /\ SudokuListed(Disarmed) \subseteq SudokuListed(list) /\ NextButton \in SudokuListed(list)
    BY <1>6, <1>7, <1>8, ListsJoin
  <1> QED
    BY <1>1, <1>2, <1>5, <1>9, CalmlyKeeps

LEMMA NothingKeeps ==
    ASSUME SudokuInv, PressNothing
    PROVE  SudokuInv'
  <1>1. Open /\ Handled(play, Calm, Only(Disarmed))
    BY DEF PressNothing
  <1>2. view.loaded /\ view.front /\ view \in Views /\ play \in Games /\ LegalGame(play) /\ 0 \in Cells
    BY <1>1, Opened, ZeroIsCell
  <1> QED
    BY <1>1, <1>2, Lists, CalmView, CalmlyKeeps

LEMMA SelectKeeps ==
    ASSUME SudokuInv, NEW c \in Touched, SelectCell(c)
    PROVE  SudokuInv'
  <1>1. Open /\ c \in Cells
    BY DrawsAssumption DEF SelectCell
  <1>2. view.loaded /\ view.front /\ view \in Views /\ play \in Games /\ LegalGame(play)
    BY <1>1, Opened
  <1>3. Calm \in Views /\ Calm.loaded /\ Calm.front /\ Calm.armed = FALSE
        /\ Calm.selected = view.selected /\ Calm.next = view.next
    BY <1>2, CalmView
  <1>4. CASE Handled(play, [Calm EXCEPT !.notice = "given"], Only(Disarmed \o Noted("given")))
    <2> DEFINE v == [Calm EXCEPT !.notice = "given"]
               list == Disarmed \o Noted("given")
    <2>1. v \in Views /\ v.loaded /\ v.front /\ v.armed = FALSE /\ v.selected = view.selected /\ v.next = view.next
      BY <1>3 DEF Views
    <2>2. Handled(play, v, Only(list))
      BY <1>4
    <2>3. list \in Seq(Regions) /\ SudokuListed(Disarmed) \subseteq SudokuListed(list)
      BY <1>1, <1>2, Lists, ListsJoin
    <2> HIDE DEF v, list
    <2> QED
      BY <1>1, <1>2, <2>1, <2>2, <2>3, CalmlyKeeps
  <1>5. CASE Handled(play, [Calm EXCEPT !.notice = "none", !.selected = IF view.selected = c THEN None ELSE c],
                     Only(Disarmed \o Noted("none") \o Released(c) \o <<c>>))
    <2> DEFINE now == IF view.selected = c THEN None ELSE c
               v == [Calm EXCEPT !.notice = "none", !.selected = now]
               first == Disarmed \o Noted("none")
               second == first \o Released(c)
               list == second \o <<c>>
    <2>1. now \in Cells \cup {None}
      BY <1>1
    <2>2. Handled(play, v, Only(list))
      BY <1>5
    <2> HIDE DEF now
    <2>3. v \in Views /\ v.loaded /\ v.front /\ v.armed = FALSE /\ v.selected = now /\ v.next = view.next
      BY <1>3, <2>1 DEF Views
    <2>4. Disarmed \in Seq(Regions) /\ Noted("none") \in Seq(Regions) /\ Released(c) \in Seq(Regions)
          /\ (view.selected \notin {None, c} => view.selected \in SudokuListed(Released(c)))
      BY <1>1, <1>2, Lists
    <2>5. <<c>> \in Seq(Regions) /\ c \in SudokuListed(<<c>>)
      BY <1>1, RegionsApart, ListOfOne
    <2>6. first \in Seq(Regions) /\ SudokuListed(Disarmed) \subseteq SudokuListed(first)
      BY <2>4, ListsJoin
    <2> HIDE DEF first
    <2>7. second \in Seq(Regions) /\ SudokuListed(first) \subseteq SudokuListed(second)
          /\ SudokuListed(Released(c)) \subseteq SudokuListed(second)
      BY <2>4, <2>6, ListsJoin
    <2> HIDE DEF second
    <2>8. list \in Seq(Regions) /\ SudokuListed(second) \subseteq SudokuListed(list) /\ SudokuListed(<<c>>) \subseteq SudokuListed(list)
      BY <2>5, <2>7, ListsJoin
    <2> HIDE DEF list, v
    <2>9. ASSUME NEW o \in Cells \ SudokuListed(list) PROVE (v.selected = o) <=> (view.selected = o)
      <3>1. o /= c /\ o \notin SudokuListed(Released(c)) /\ o /= None
        BY <2>5, <2>7, <2>8, GridIsFinite
      <3>2. v.selected /= o
        BY <2>3, <3>1 DEF now
      <3>3. view.selected /= o
        BY <2>4, <3>1
      <3> QED
        BY <3>2, <3>3
    <2> QED
      BY <1>1, <1>2, <2>2, <2>3, <2>6, <2>7, <2>8, <2>9, CalmlyKeeps
  <1> QED
    BY <1>4, <1>5 DEF SelectCell

LEMMA RefusedKeeps ==
    ASSUME SudokuInv, Open, NEW notice \in {"given", "no selection", "conflict"}, Refused(notice)
    PROVE  SudokuInv'
  <1> DEFINE v == [Calm EXCEPT !.notice = notice]
             list == Disarmed \o Noted(notice)
  <1>1. view.loaded /\ view.front /\ view \in Views /\ play \in Games /\ LegalGame(play)
    BY Opened
  <1>2. 0 \in Cells
    BY ZeroIsCell
  <1>3. Calm \in Views /\ Calm.loaded /\ Calm.front /\ Calm.armed = FALSE
        /\ Calm.selected = view.selected /\ Calm.next = view.next
    BY <1>1, CalmView
  <1>4. v \in Views /\ v.loaded /\ v.front /\ v.armed = FALSE /\ v.selected = view.selected /\ v.next = view.next
    BY <1>3 DEF Views
  <1>5. Handled(play, v, Only(list))
    BY DEF Refused
  <1>6. list \in Seq(Regions) /\ SudokuListed(Disarmed) \subseteq SudokuListed(list)
    BY <1>1, <1>2, Lists, ListsJoin
  <1> HIDE DEF v, list
  <1> QED
    BY <1>1, <1>4, <1>5, <1>6, CalmlyKeeps

(* A digit the game accepts leaves the board legal. *)
LEMMA SetIsLegal ==
    ASSUME NEW g \in Games, LegalGame(g), NEW c \in Cells, NEW d \in Digits \cup {Blank},
           ~IsSolved(g.board), SetVerdict(g, c, d) \notin {"Conflict", "Given"}
    PROVE  /\ SetDigit(g, c, d) \in Games /\ LegalGame(SetDigit(g, c, d))
           /\ SetDigit(g, c, d).puzzle = g.puzzle
           /\ \A o \in Cells \ {c} : SetDigit(g, c, d).board[o] = g.board[o]
  <1> DEFINE next == SetDigit(g, c, d)
             old == g.board
             new == [g.board EXCEPT ![c] = d]
  <1>1. g.puzzle \in Puzzles /\ old \in Grids /\ g.rng \in Nat
        /\ g = [puzzle |-> g.puzzle, board |-> old, rng |-> g.rng]
    BY DEF Games
  <1>2. ~IsGiven(g.puzzle, c) /\ (d = Blank \/ old[c] = d \/ Free(old, c, d))
    BY NoConflictIsFree DEF SetVerdict
  <1>3. next = [g EXCEPT !.board = new]
    BY DEF SetDigit
  <1>4. new \in Grids /\ new[c] = d /\ \A o \in Cells \ {c} : new[o] = old[o]
    BY <1>1 DEF Grids
  <1>5. IsValid(old) /\ \A o \in Cells : IsGiven(g.puzzle, o) => old[o] = g.puzzle.givens[o]
    BY DEF LegalGame
  <1> HIDE DEF old, new, next
  <1>6. next \in Games /\ next.puzzle = g.puzzle /\ next.board = new
    BY <1>1, <1>3, <1>4 DEF Games
  <1>7. \A o \in Cells : IsGiven(g.puzzle, o) => new[o] = g.puzzle.givens[o]
    BY <1>2, <1>4, <1>5
  <1>8. IsValid(new)
    <2> SUFFICES ASSUME NEW x \in Cells, new[x] /= Blank, NEW o \in Peers[x], new[o] = new[x] PROVE FALSE
      BY ValidIsFree DEF Free
    <2>1. o \in Cells /\ o /= x /\ x \in Peers[o]
      BY PeersAreMutual
    <2>2. \A y \in Cells : old[y] /= Blank => Free(old, y, old[y])
      BY <1>5, ValidIsFree
    <2>3. CASE x = c
      <3>1. new[x] = d /\ old[o] = d /\ d /= Blank
        BY <1>4, <2>1, <2>3
      <3>2. Free(old, c, d)
        BY <1>2, <2>2, <3>1
      <3> QED
        BY <2>3, <3>1, <3>2 DEF Free
    <2>4. CASE o = c
      <3>1. new[o] = d /\ old[x] = d /\ d /= Blank
        BY <1>4, <2>1, <2>4
      <3>2. Free(old, c, d)
        BY <1>2, <2>2, <3>1
      <3> QED
        BY <2>1, <2>4, <3>1, <3>2 DEF Free
    <2>5. CASE x /= c /\ o /= c
      <3>1. old[x] = new[x] /\ old[o] = new[o]
        BY <1>4, <2>1, <2>5
      <3> QED
        BY <2>2, <3>1 DEF Free
    <2> QED
      BY <2>3, <2>4, <2>5
  <1> QED
    BY <1>4, <1>6, <1>7, <1>8 DEF LegalGame, next, old

LEMMA EnterKeeps ==
    ASSUME SudokuInv, NEW d \in Digits \cup {Blank}, Enter(d)
    PROVE  SudokuInv'
  <1> DEFINE c == view.selected
             g == SetDigit(play, c, d)
             calm == [Calm EXCEPT !.notice = "none"]
             over == [calm EXCEPT !.selected = None]
             list == (Disarmed \o Noted("none")) \o <<c>>
  <1>1. Open /\ ~IsSolved(play.board)
    BY DEF Enter
  <1>2. view.loaded /\ view.front /\ view \in Views /\ play \in Games /\ LegalGame(play)
    BY <1>1, Opened
  <1>3. \/ \E notice \in {"given", "no selection", "conflict"} : Refused(notice)
        \/ /\ c /= None /\ SetVerdict(play, c, d) \notin {"Conflict", "Given"}
           /\ Handled(g, over, Full) \/ Handled(g, calm, Only(list))
    <2> HIDE DEF c, g, calm
    <2> QED
      BY DEF Enter, c, g, calm
  <1>4. CASE \E notice \in {"given", "no selection", "conflict"} : Refused(notice)
    BY <1>1, <1>4, RefusedKeeps
  <1>5. CASE /\ c /= None /\ SetVerdict(play, c, d) \notin {"Conflict", "Given"}
             /\ Handled(g, over, Full) \/ Handled(g, calm, Only(list))
    <2>1. c \in Cells
      BY <1>2, <1>5 DEF Views
    <2>2. g \in Games /\ LegalGame(g) /\ g.puzzle = play.puzzle /\ \A o \in Cells \ {c} : g.board[o] = play.board[o]
      BY <1>1, <1>2, <1>5, <2>1, SetIsLegal
    <2>3. Calm \in Views /\ Calm.loaded /\ Calm.front /\ Calm.armed = FALSE
          /\ Calm.selected = c /\ Calm.next = view.next
      BY <1>2, CalmView
    <2>4. calm \in Views /\ calm.loaded /\ calm.front /\ calm.armed = FALSE
          /\ calm.selected = c /\ calm.next = view.next
      BY <2>3 DEF Views
    <2>5. over \in Views /\ over.loaded /\ over.front
      BY <2>4 DEF Views
    <2>6. Disarmed \in Seq(Regions) /\ Noted("none") \in Seq(Regions)
      BY <1>2, <2>1, Lists
    <2>7. <<c>> \in Seq(Regions) /\ c \in SudokuListed(<<c>>)
      BY <2>1, RegionsApart, ListOfOne
    <2> DEFINE first == Disarmed \o Noted("none")
    <2>8. first \in Seq(Regions) /\ SudokuListed(Disarmed) \subseteq SudokuListed(first)
      BY <2>6, ListsJoin
    <2> HIDE DEF first
    <2>9. first \o <<c>> \in Seq(Regions) /\ SudokuListed(first) \subseteq SudokuListed(first \o <<c>>)
          /\ SudokuListed(<<c>>) \subseteq SudokuListed(first \o <<c>>)
      BY <2>7, <2>8, ListsJoin
    <2>10. list = first \o <<c>>
      BY DEF first
    <2> HIDE DEF list, calm, over, g
    <2>11. CASE Handled(g, over, Full)
      <3>1. Changed(play, view, g, over) \ {Status} \subseteq Covered(Full)
        BY FullIsClaim DEF Changed
      <3> QED
        BY <1>2, <2>2, <2>5, <2>11, <3>1, FullIsClaim, SudokuPressKeeps
    <2>12. CASE Handled(g, calm, Only(list))
      <3>1. list \in Seq(Regions) /\ SudokuListed(Disarmed) \subseteq SudokuListed(list) /\ c \in SudokuListed(list)
        BY <2>7, <2>8, <2>9, <2>10
      <3> QED
        BY <1>1, <2>2, <2>4, <2>12, <3>1, CalmlyKeeps
    <2> QED
      BY <1>5, <2>11, <2>12
  <1> QED
    BY <1>3, <1>4, <1>5

LEMMA FrameKeeps ==
    ASSUME SudokuInv, Draw
    PROVE  SudokuInv'
  <1> DEFINE stale == glass.stale \ Covered(TakeFrame)
  <1>1. /\ view.loaded /\ view.front /\ glass' = [stale |-> stale, due |-> FALSE, taps |-> 0]
        /\ claims' = Only(<<>>) /\ play' = play /\ view' = view /\ puzzleFile' = puzzleFile /\ shist' = shist
    BY DEF Draw, Ready
  <1>2. glass \in GlassStates /\ claims \in DamageClaims /\ glass.stale \ {Status} \subseteq Covered(claims)
    BY DEF SudokuInv, SudokuState
  <1>3. glass.stale \subseteq Regions
    BY <1>2 DEF GlassStates
  <1>4. Covered(claims) \subseteq Covered(TakeFrame)
    <2>1. Covered(claims) \subseteq Regions
      BY <1>2 DEF DamageClaims, Covered
    <2> QED
      BY <2>1, FullIsClaim DEF TakeFrame
  <1>5. stale \subseteq {Status} /\ stale \in SUBSET Regions
    BY <1>2, <1>3, <1>4
  <1> HIDE DEF stale
  <1>6. glass' \in GlassStates /\ glass'.stale = stale /\ ~glass'.due
    BY <1>1, <1>5 DEF GlassStates
  <1>7. claims' \in DamageClaims
    BY <1>1, NothingIsClaim
  <1>8. glass'.stale \ {Status} \subseteq Covered(claims')
    BY <1>5, <1>6
  <1> QED
    BY <1>1, <1>5, <1>6, <1>7, <1>8 DEF SudokuInv, SudokuState

LEMMA SuspendKeeps ==
    ASSUME SudokuInv, Suspend
    PROVE  SudokuInv'
  <1>1. /\ view.loaded /\ Persist(play) /\ view' = [view EXCEPT !.front = FALSE] /\ claims' = Claim(claims, Full)
        /\ glass' = [stale |-> Regions, due |-> FALSE, taps |-> 0] /\ play' = play
    BY DEF Suspend, Ready, LifecycleClaim
  <1>2. /\ play \in Games /\ view \in Views /\ puzzleFile \in PuzzleFiles /\ claims \in DamageClaims
        /\ shist \in SudokuTallies /\ LegalGame(play)
    BY DEF SudokuInv, SudokuState
  <1>3. claims' = Full
    BY <1>1, <1>2, FullIsClaim, ClaimCovers
  <1>4. view' \in Views /\ view'.loaded /\ ~view'.front
    BY <1>1, <1>2 DEF Views
  <1>5. glass' \in GlassStates /\ glass'.stale = Regions
    BY <1>1 DEF GlassStates
  <1>6. puzzleFile' \in PuzzleFiles /\ shist' \in SudokuTallies /\ (~shist'.unsaved => puzzleFile' = Saved(play))
    BY <1>1, <1>2, SudokuPersists
  <1> QED
    BY <1>1, <1>2, <1>3, <1>4, <1>5, <1>6, FullIsClaim DEF SudokuInv, SudokuState

LEMMA ResumeKeeps ==
    ASSUME SudokuInv, Resume
    PROVE  SudokuInv'
  <1>1. /\ view.loaded /\ ~view.front /\ view' = [view EXCEPT !.front = TRUE] /\ claims' = Claim(claims, Full)
        /\ glass' = [glass EXCEPT !.due = TRUE] /\ play' = play /\ puzzleFile' = puzzleFile /\ shist' = shist
    BY DEF Resume, LifecycleClaim
  <1>2. view \in Views /\ glass \in GlassStates /\ claims \in DamageClaims
    BY DEF SudokuInv, SudokuState
  <1>3. claims' = Full
    BY <1>1, <1>2, FullIsClaim, ClaimCovers
  <1>4. view' \in Views /\ view'.loaded /\ view'.front
    BY <1>1, <1>2 DEF Views
  <1>5. glass' \in GlassStates /\ glass'.due /\ glass'.stale \subseteq Regions
    BY <1>1, <1>2 DEF GlassStates
  <1> QED
    BY <1>1, <1>3, <1>4, <1>5, FullIsClaim DEF SudokuInv, SudokuState

LEMMA SudokuStartsAgain ==
    ASSUME SudokuInv, Relaunch
    PROVE  SudokuInv'
  <1> DEFINE more == shist.launches + 1
  <1>1. /\ play' = Begin(FIRST_PUZZLE, Len(Stream)) /\ view' = NewView(FIRST_PUZZLE) /\ claims' = Full
        /\ glass' = [stale |-> Regions, due |-> TRUE, taps |-> 0] /\ puzzleFile' = puzzleFile
        /\ shist' = [shist EXCEPT !.unsaved = TRUE, !.launches = more]
    BY DEF Relaunch
  <1>2. FIRST_PUZZLE \in Difficulties /\ Len(Stream) \in DOMAIN Stream
    BY DrawsAssumption
  <1>3. play' \in Games /\ LegalGame(play')
    BY <1>1, <1>2, BeginIsLegal
  <1>4. view' \in Views /\ ~view'.loaded /\ view'.front
    BY <1>1, <1>2, FreshView
  <1>5. glass' \in GlassStates /\ glass'.stale = Regions /\ glass'.due
    BY <1>1 DEF GlassStates
  <1>6. shist \in SudokuTallies /\ more \in Nat /\ puzzleFile \in PuzzleFiles
    BY DEF SudokuInv, SudokuState, SudokuTallies
  <1> HIDE DEF more
  <1>7. shist' \in SudokuTallies /\ shist'.unsaved
    BY <1>1, <1>6 DEF SudokuTallies
  <1> QED
    BY <1>1, <1>3, <1>4, <1>5, <1>6, <1>7, FullIsClaim DEF SudokuInv, SudokuState

LEMMA SudokuFileIsDamaged ==
    ASSUME SudokuInv, Damage
    PROVE  SudokuInv'
  <1> DEFINE more == shist.faults + 1
  <1>1. /\ ~view.loaded /\ puzzleFile.kind = "saved"
        /\ \/ puzzleFile' = Unreadable
           \/ \E c \in {0, W + 1} : \E d \in {Blank, 1} : puzzleFile' = [puzzleFile EXCEPT !.board[c] = d]
        /\ shist' = [shist EXCEPT !.faults = more]
        /\ play' = play /\ view' = view /\ claims' = claims /\ glass' = glass
    BY DEF Damage
  <1>2. shist \in SudokuTallies /\ more \in Nat /\ puzzleFile \in PuzzleFiles /\ shist.unsaved
    BY <1>1 DEF SudokuInv, SudokuState, SudokuTallies
  <1> HIDE DEF more
  <1>3. shist' \in SudokuTallies /\ shist'.unsaved
    BY <1>1, <1>2 DEF SudokuTallies
  <1>4. puzzleFile' \in PuzzleFiles
    <2>1. puzzleFile \in SavedGames
      BY <1>1, <1>2 DEF PuzzleFiles, NoFile, Unreadable
    <2>2. ASSUME NEW c, NEW d \in {Blank, 1}, puzzleFile' = [puzzleFile EXCEPT !.board[c] = d]
          PROVE  puzzleFile' \in SavedGames
      <3> DEFINE new == [puzzleFile.board EXCEPT ![c] = d]
      <3>1. d \in Digits \cup {Blank}
        BY GridIsFinite DEF Digits
      <3>2. new \in Grids
        BY <2>1, <3>1 DEF SavedGames, Grids
      <3>3. puzzleFile' = [puzzleFile EXCEPT !.board = new]
        BY <2>2
      <3> HIDE DEF new
      <3> QED
        BY <2>1, <3>2, <3>3 DEF SavedGames
    <2> QED
      BY <1>1, <2>2 DEF PuzzleFiles
  <1> QED
    BY <1>1, <1>3, <1>4 DEF SudokuInv, SudokuState

LEMMA SudokuKeeps == SudokuInv /\ SudokuNext => SudokuInv'
  BY SudokuLoads, SudokuHomeKeeps, NewKeeps, NextKeeps, NothingKeeps, SelectKeeps, EnterKeeps, FrameKeeps,
     SuspendKeeps, ResumeKeeps, SudokuStartsAgain, SudokuFileIsDamaged DEF SudokuNext

LEMMA SudokuIsSound ==
    SudokuInv => PuzzleIsUnique /\ BoardStaysLegal /\ FileIsTheGame /\ ClaimsCoverTheBoard
  <1> SUFFICES ASSUME SudokuInv PROVE PuzzleIsUnique /\ BoardStaysLegal /\ FileIsTheGame /\ ClaimsCoverTheBoard
    OBVIOUS
  <1>1. play.puzzle \in Puzzles
    BY DEF SudokuInv, SudokuState, Games
  <1>2. PuzzleIsUnique
    BY <1>1, PuzzleHasOneSolution DEF PuzzleIsUnique
  <1>3. BoardStaysLegal
    BY DEF SudokuInv, SudokuState, LegalGame, BoardStaysLegal
  <1>4. FileIsTheGame
    BY DEF SudokuInv, SudokuState, FileIsTheGame
  <1>5. ClaimsCoverTheBoard
    BY DEF SudokuInv, SudokuState, ClaimsCoverTheBoard, Ready
  <1> QED
    BY <1>2, <1>3, <1>4, <1>5


---------------------------------------------------------------------------
(* The games together *)

GamesInv ==
    /\ which = "chess" => ChessInv
    /\ which = "sudoku" => SudokuInv

(* Every step of either game keeps what is known of it. *)
LEMMA GamesStep ==
    ASSUME GamesInv, [Next]_vars
    PROVE  GamesInv'
  <1>1. CASE UNCHANGED vars
    <2>1. /\ which' = which
          /\ game' = game /\ screen' = screen /\ saved' = saved /\ frame' = frame /\ chist' = chist
          /\ play' = play /\ view' = view /\ puzzleFile' = puzzleFile /\ claims' = claims /\ glass' = glass
          /\ shist' = shist
      BY <1>1 DEF vars, chess, suvars
    <2> QED
      BY <2>1 DEF GamesInv, ChessInv, SudokuInv
  <1>2. CASE Next
    <2>1. which' = which
      BY <1>2 DEF Next
    <2>2. ASSUME which = "chess" PROVE ChessInv'
      BY <1>2, <2>2, ChessKeeps DEF Next, GamesInv
    <2>3. ASSUME which = "sudoku" PROVE SudokuInv'
      BY <1>2, <2>3, SudokuKeeps DEF Next, GamesInv
    <2> QED
      BY <2>1, <2>2, <2>3 DEF GamesInv
  <1> QED
    BY <1>1, <1>2

\* Whatever the board and the moves of the engine, the stream of puzzles and the
\* taps, with saves that fail and files that are damaged: the chess file replays
\* to the game on the board, to the last rule; a promotion that waits can be
\* completed with any piece; every puzzle drawn has exactly one solution; the
\* player's board keeps its givens; and the damage claimed covers the change.
THEOREM GamesAreKept == Spec => []GamesAreSound
  <1>1. Init => GamesInv
    BY ChessFirst, SudokuFirst DEF Init, GamesInv
  <1>2. GamesInv /\ [Next]_vars => GamesInv'
    BY GamesStep
  <1>3. GamesInv => GamesAreSound
    BY ChessIsSound, SudokuIsSound DEF GamesInv, GamesAreSound
  <1> QED
    BY <1>1, <1>2, <1>3, PTL DEF Spec
=============================================================================
