-------------------------- MODULE SupervisorProofs --------------------------
(***************************************************************************)
(* What the supervisor never loses track of, proved for every number of    *)
(* owners, commands, faults and attempts, whether it starts at stock or    *)
(* with a session up.                                                      *)
(***************************************************************************)
EXTENDS MCSupervisor, TLAPS

-----------------------------------------------------------------------------
(* The inductive invariant. *)

Launch == {"begin", "start_target", "start_comp", "start_app"}

(* One of the steps is still to be done for the event at hand.               *)
Has(plan, steps) == \E i \in DOMAIN plan : plan[i] \in steps
Planned(steps) == Has(todo, steps)

(* Nothing is left over when a pass ends.                                    *)
NothingLeft == host = "running" /\ phase = "collect" => events = <<>> /\ todo = <<>>

(* A session is being started only for the switch that is pending.           *)
LaunchInv == Planned(Launch) => state = "switching" /\ pending.target \in Apps

(* A spent budget leaves no start of the target in the plan.                 *)
SpentInv == spent => ~Planned({"start_target"})

(* Whoever is at stock, going there or recovering has stock, is restoring it *)
(* or has still to hear that it could not be restored.                       *)
TowardsStock ==
    /\ host = "running"
    /\ state \in {"recovering", "stock"} \/ (pending # None /\ pending.target = Stock)

Accounted ==
    TowardsStock =>
        StockActive \/ ToldOfFailure(queued) \/ ToldOfFailure(events) \/ Planned(Restores)

ControlInv == TypeOK /\ NothingLeft /\ LaunchInv /\ SpentInv /\ Accounted

-----------------------------------------------------------------------------
(* Sequences. *)

LEMMA TailKeeps ==
    ASSUME NEW S, NEW s \in Seq(S), s # <<>>
    PROVE  /\ Head(s) \in S /\ Tail(s) \in Seq(S)
           /\ Head(s) = s[1] /\ 1 \in DOMAIN s
           /\ \A i \in DOMAIN Tail(s) : i + 1 \in DOMAIN s /\ Tail(s)[i] = s[i + 1]
           /\ \A i \in DOMAIN s : i = 1 \/ (i - 1 \in DOMAIN Tail(s) /\ Tail(s)[i - 1] = s[i])
OBVIOUS

LEMMA ConcatKeeps ==
    ASSUME NEW S, NEW s \in Seq(S), NEW t \in Seq(S)
    PROVE  /\ s \o t \in Seq(S)
           /\ \A i \in DOMAIN s : i \in DOMAIN (s \o t) /\ (s \o t)[i] = s[i]
           /\ \A i \in DOMAIN t : i + Len(s) \in DOMAIN (s \o t) /\ (s \o t)[i + Len(s)] = t[i]
           /\ \A i \in DOMAIN (s \o t) :
                 \/ i \in DOMAIN s /\ (s \o t)[i] = s[i]
                 \/ i - Len(s) \in DOMAIN t /\ (s \o t)[i] = t[i - Len(s)]
OBVIOUS

LEMMA ToldAlso ==
    ASSUME NEW s \in Seq(Events), NEW t \in Seq(Events)
    PROVE  /\ s \o t \in Seq(Events)
           /\ ToldOfFailure(s) \/ ToldOfFailure(t) => ToldOfFailure(s \o t)
<1>1. s \o t \in Seq(Events)
  BY ConcatKeeps
<1>2. ASSUME ToldOfFailure(s) PROVE ToldOfFailure(s \o t)
  <2>1. PICK i \in DOMAIN s : s[i].kind = "restore_failed"
    BY <1>2 DEF ToldOfFailure
  <2>2. i \in DOMAIN (s \o t) /\ (s \o t)[i] = s[i]
    BY ConcatKeeps
  <2> QED
    BY <2>1, <2>2 DEF ToldOfFailure
<1>3. ASSUME ToldOfFailure(t) PROVE ToldOfFailure(s \o t)
  <2>1. PICK i \in DOMAIN t : t[i].kind = "restore_failed"
    BY <1>3 DEF ToldOfFailure
  <2>2. i + Len(s) \in DOMAIN (s \o t) /\ (s \o t)[i + Len(s)] = t[i]
    BY ConcatKeeps
  <2> QED
    BY <2>1, <2>2 DEF ToldOfFailure
<1> QED
  BY <1>1, <1>2, <1>3

LEMMA StillTold ==
    ASSUME NEW s \in Seq(Events), s # <<>>, ToldOfFailure(s), Head(s).kind # "restore_failed"
    PROVE  ToldOfFailure(Tail(s))
<1>1. PICK i \in DOMAIN s : s[i].kind = "restore_failed"
  BY DEF ToldOfFailure
<1>2. i # 1
  BY <1>1, TailKeeps
<1>3. i - 1 \in DOMAIN Tail(s) /\ Tail(s)[i - 1] = s[i]
  BY <1>2, TailKeeps
<1> QED
  BY <1>1, <1>3 DEF ToldOfFailure

LEMMA EventIsEvent ==
    ASSUME NEW kind \in Kinds, NEW o \in Owners \cup {None}, kind # "switch" \/ o \in Owners
    PROVE  Event(kind, o) \in Events /\ <<Event(kind, o)>> \in Seq(Events)
BY DEF Event, Events

(* The next step of the plan, and what remains of it.                        *)
LEMMA PlanShrinks ==
    ASSUME TypeOK, todo # <<>>, todo' = Tail(todo), NEW steps
    PROVE  /\ todo' \in Seq(Steps) /\ Head(todo) \in Steps
           /\ Planned(steps)' => Planned(steps)
           /\ Planned(steps) => Planned(steps)' \/ Head(todo) \in steps
           /\ Head(todo) \in steps => Planned(steps)
<1>1. todo \in Seq(Steps)
  BY DEF TypeOK
<1>2. /\ Head(todo) \in Steps /\ Tail(todo) \in Seq(Steps)
      /\ Head(todo) = todo[1] /\ 1 \in DOMAIN todo
      /\ \A i \in DOMAIN Tail(todo) : i + 1 \in DOMAIN todo /\ Tail(todo)[i] = todo[i + 1]
      /\ \A i \in DOMAIN todo :
            i = 1 \/ (i - 1 \in DOMAIN Tail(todo) /\ Tail(todo)[i - 1] = todo[i])
  BY <1>1, TailKeeps
<1>3. ASSUME Planned(steps)' PROVE Planned(steps)
  BY <1>2, <1>3 DEF Planned, Has
<1>4. ASSUME Planned(steps) PROVE Planned(steps)' \/ Head(todo) \in steps
  BY <1>2, <1>4 DEF Planned, Has
<1>5. ASSUME Head(todo) \in steps PROVE Planned(steps)
  BY <1>2, <1>5 DEF Planned, Has
<1> QED
  BY <1>2, <1>3, <1>4, <1>5

LEMMA NothingPlanned ==
    ASSUME NEW steps
    PROVE  (todo = <<>> => ~Planned(steps)) /\ (todo' = <<>> => ~Planned(steps)')
BY DEF Planned, Has

(* The plans the machine makes.                                              *)
LEMMA RestorePlans ==
    \A plan \in {<<"terminate", "check">>, <<"check">>, <<"release_session", "stop_comp", "check">>} :
        plan \in Seq(Steps) /\ Has(plan, Restores) /\ ~Has(plan, Launch)
<1>1. TAKE plan \in {<<"terminate", "check">>, <<"check">>,
                    <<"release_session", "stop_comp", "check">>}
<1>2. /\ plan \in Seq({"terminate", "release_session", "stop_comp", "check"})
      /\ Len(plan) \in DOMAIN plan /\ plan[Len(plan)] = "check"
  <2>1. CASE plan = <<"terminate", "check">>
    BY <2>1
  <2>2. CASE plan = <<"check">>
    BY <2>2
  <2>3. CASE plan = <<"release_session", "stop_comp", "check">>
    BY <2>3
  <2> QED
    BY <1>1, <2>1, <2>2, <2>3
<1>3. \A i \in DOMAIN plan : plan[i] \in {"terminate", "release_session", "stop_comp", "check"}
  BY <1>2
<1>4. plan \in Seq(Steps)
  <2>1. {"terminate", "release_session", "stop_comp", "check"} \subseteq Steps
    BY DEF Steps, Restores
  <2> QED
    BY <1>2, <2>1
<1>5. Has(plan, Restores)
  <2>1. plan[Len(plan)] \in Restores
    BY <1>2 DEF Restores
  <2> QED
    BY <1>2, <2>1 DEF Has
<1>6. ~Has(plan, Launch)
  BY <1>3 DEF Has, Launch
<1> QED
  BY <1>4, <1>5, <1>6

LEMMA LaunchPlan == <<"begin", "start_target", "start_comp", "start_app">> \in Seq(Steps)
BY DEF Steps

LEMMA HasBoth ==
    ASSUME NEW S, NEW s \in Seq(S), NEW t \in Seq(S), NEW steps
    PROVE  Has(s \o t, steps) <=> Has(s, steps) \/ Has(t, steps)
<1>1. /\ \A i \in DOMAIN s : i \in DOMAIN (s \o t) /\ (s \o t)[i] = s[i]
      /\ \A i \in DOMAIN t : i + Len(s) \in DOMAIN (s \o t) /\ (s \o t)[i + Len(s)] = t[i]
      /\ \A i \in DOMAIN (s \o t) :
            \/ i \in DOMAIN s /\ (s \o t)[i] = s[i]
            \/ i - Len(s) \in DOMAIN t /\ (s \o t)[i] = t[i - Len(s)]
  BY ConcatKeeps
<1> QED
  BY <1>1 DEF Has

(* A termination in front of a plan changes neither.                         *)
LEMMA SwitchPlans ==
    ASSUME NEW before \in {<<>>, <<"terminate">>}, NEW to \in Owners,
           NEW plan, plan = before \o StartForeground(to)
    PROVE  /\ plan \in Seq(Steps)
           /\ to = Stock => Has(plan, Restores) /\ ~Has(plan, Launch)
           /\ to # Stock => to \in Apps
<1>1. before \in Seq(Steps) /\ ~Has(before, Launch)
  <2>1. CASE before = <<>>
    BY <2>1 DEF Has
  <2>2. CASE before = <<"terminate">>
    <3>1. before \in Seq(Steps)
      BY <2>2 DEF Steps
    <3>2. \A i \in DOMAIN before : before[i] = "terminate"
      BY <2>2
    <3> QED
      BY <3>1, <3>2 DEF Has, Launch
  <2> QED
    BY <2>1, <2>2
<1>2. /\ StartForeground(to) \in Seq(Steps)
      /\ to = Stock => Has(StartForeground(to), Restores) /\ ~Has(StartForeground(to), Launch)
  BY RestorePlans, LaunchPlan DEF StartForeground
<1>3. plan \in Seq(Steps)
  BY <1>1, <1>2, ConcatKeeps
<1>4. /\ Has(StartForeground(to), Restores) => Has(plan, Restores)
      /\ ~Has(StartForeground(to), Launch) => ~Has(plan, Launch)
  BY <1>1, <1>2, HasBoth
<1> QED
  BY <1>2, <1>3, <1>4 DEF Owners

-----------------------------------------------------------------------------
(* Handling an event. *)

MachineOK ==
    /\ state \in {"stock", "switching", "foreground", "recovering", "failed"}
    /\ foreground \in Owners
    /\ pending \in Pending \cup {None} /\ recovery \in Recovery \cup {None}
    /\ failures \in Nat /\ spent \in BOOLEAN

(* What handling an event comes to: nothing, a restore, a launch or the end. *)
Quiet == todo' = <<>> /\ (TowardsStock' => TowardsStock) /\ Head(events).kind # "restore_failed"
Restoring == todo' \in Seq(Steps) /\ Has(todo', Restores) /\ ~Has(todo', Launch)
Launching ==
    /\ todo' \in Seq(Steps)
    /\ state' = "switching" /\ pending'.target \in Apps
    /\ ~spent'
Leaving == todo' \in {<<>>, <<"halt">>} /\ ~TowardsStock'

LEMMA HandledWell ==
    ASSUME ConstantsAssumption, ControlInv, NEW kinds, Handles(kinds), MachineOK',
           Quiet \/ Restoring \/ Launching \/ Leaving
    PROVE  ControlInv'
<1>1. /\ events \in Seq(Events) /\ events # <<>> /\ events' = Tail(events) /\ todo = <<>>
      /\ host = "running" /\ phase = "handle" /\ TypeOK
      /\ UNCHANGED <<host, phase, queued, unit, incoming, world, control, restore, recent, faults>>
  BY DEF ControlInv, TypeOK, Handles
<1>2. events' \in Seq(Events)
  BY <1>1, TailKeeps
<1>3. todo' \in Seq(Steps)
  <2>1. <<>> \in Seq(Steps) /\ <<"halt">> \in Seq(Steps)
    BY DEF Steps
  <2> QED
    BY <2>1 DEF Quiet, Restoring, Launching, Leaving
<1>4. TypeOK'
  BY <1>1, <1>2, <1>3 DEF TypeOK, MachineOK, world, control, restore
<1>5. NothingLeft'
  BY <1>1 DEF NothingLeft
<1>6. CASE Quiet
  <2>1. ~Planned(Launch)' /\ ~Planned({"start_target"})'
    BY <1>6, NothingPlanned DEF Quiet
  <2>2. TowardsStock' => StockActive \/ ToldOfFailure(queued) \/ ToldOfFailure(events)
    BY <1>1, <1>6, NothingPlanned DEF Quiet, ControlInv, Accounted
  <2>3. ToldOfFailure(events) => ToldOfFailure(events')
    BY <1>1, <1>6, StillTold DEF Quiet
  <2>4. Accounted'
    BY <1>1, <2>2, <2>3 DEF Accounted, StockActive, world
  <2> QED
    BY <1>4, <1>5, <2>1, <2>4 DEF ControlInv, LaunchInv, SpentInv
<1>7. CASE Restoring
  <2>1. ~Planned(Launch)' /\ ~Planned({"start_target"})'
    BY <1>7 DEF Restoring, Planned, Has, Launch
  <2>2. Accounted'
    BY <1>7 DEF Restoring, Accounted, Planned
  <2> QED
    BY <1>4, <1>5, <2>1, <2>2 DEF ControlInv, LaunchInv, SpentInv
<1>8. CASE Launching
  <2>1. ~TowardsStock'
    BY <1>8 DEF Launching, TowardsStock, ConstantsAssumption
  <2> QED
    BY <1>4, <1>5, <1>8, <2>1 DEF Launching, ControlInv, LaunchInv, SpentInv, Accounted, Planned
<1>9. CASE Leaving
  <2>1. ~Planned(Launch)' /\ ~Planned({"start_target"})'
    BY <1>9 DEF Leaving, Planned, Has, Launch
  <2> QED
    BY <1>4, <1>5, <1>9, <2>1 DEF Leaving, ControlInv, LaunchInv, SpentInv, Accounted
<1> QED
  BY <1>6, <1>7, <1>8, <1>9

LEMMA IgnoreIsQuiet ==
    ASSUME ControlInv, NEW kinds, Handles(kinds), Ignore, "restore_failed" \notin kinds
    PROVE  MachineOK' /\ Quiet
<1>1. Head(events).kind # "restore_failed"
  BY DEF Handles
<1> QED
  BY <1>1 DEF Ignore, MachineOK, Quiet, ControlInv, TypeOK, machine, Handles, TowardsStock

LEMMA RecoveryRestores ==
    ASSUME ControlInv, NEW kinds, Handles(kinds), EnterRecovery, "restore_failed" \notin kinds,
           foreground' = foreground, failures' \in Nat, spent' \in BOOLEAN
    PROVE  MachineOK' /\ (Quiet \/ Restoring)
<1>1. Head(events).kind # "restore_failed" /\ host' = host
  BY DEF Handles
<1>2. CASE state = "recovering"
  BY <1>1, <1>2 DEF EnterRecovery, MachineOK, Quiet, ControlInv, TypeOK, TowardsStock
<1>3. CASE state # "recovering"
  <2>1. Restoring
    BY <1>3, RestorePlans DEF EnterRecovery, Restoring
  <2>2. [attempt |-> 1, late |-> FALSE] \in Recovery
    BY DEF Recovery
  <2>3. /\ state' = "recovering" /\ pending' = None /\ recovery' \in Recovery
        /\ foreground' \in Owners
    BY <1>3, <2>2 DEF EnterRecovery, ControlInv, TypeOK
  <2>4. MachineOK'
    BY <2>3 DEF MachineOK
  <2> QED
    BY <2>1, <2>4
<1> QED
  BY <1>2, <1>3

LEMMA SwitchBegins ==
    ASSUME ConstantsAssumption, ControlInv, NEW kinds, Handles(kinds), NEW to \in Owners, BeginSwitch(to),
           "restore_failed" \notin kinds
    PROVE  MachineOK' /\ (Quiet \/ Restoring \/ Launching)
<1>1. CASE state = "recovering" \/ (to # Stock /\ spent) \/ (foreground = to /\ pending = None)
  BY <1>1, IgnoreIsQuiet DEF BeginSwitch
<1>2. CASE ~(state = "recovering" \/ (to # Stock /\ spent) \/ (foreground = to /\ pending = None))
  <2>1. /\ pending' = NewPending(to) /\ state' = "switching"
        /\ todo' = (IF state = "foreground" THEN <<"terminate">> ELSE <<>>) \o StartForeground(to)
        /\ UNCHANGED <<foreground, recovery, failures, spent>>
    BY <1>2 DEF BeginSwitch
  <2>2. NewPending(to) \in Pending /\ NewPending(to).target = to
    BY DEF NewPending, Pending
  <2>3. MachineOK'
    BY <2>1, <2>2 DEF MachineOK, ControlInv, TypeOK
  <2>4. /\ todo' \in Seq(Steps)
        /\ to = Stock => Has(todo', Restores) /\ ~Has(todo', Launch)
        /\ to # Stock => to \in Apps
    BY <2>1, SwitchPlans
  <2>5. CASE to = Stock
    BY <2>3, <2>4, <2>5 DEF Restoring
  <2>6. CASE to # Stock
    <3>1. ~spent'
      BY <1>2, <2>1, <2>6
    <3> QED
      BY <2>1, <2>2, <2>3, <2>4, <2>6, <3>1 DEF Launching
  <2> QED
    BY <2>3, <2>5, <2>6
<1> QED
  BY <1>1, <1>2

LEMMA ObservedQuietly ==
    ASSUME ControlInv, NEW kinds, Handles(kinds), "restore_failed" \notin kinds,
           pending # None, NEW p \in Pending, p.target = pending.target, Observe(p)
    PROVE  MachineOK' /\ Quiet
<1>1. Head(events).kind # "restore_failed" /\ host' = host
  BY DEF Handles
<1>2. pending \in Pending /\ pending.target \in Owners /\ p.target \in Owners
  BY DEF ControlInv, TypeOK, Pending
<1>3. CASE Arrived(p)
  <2>1. /\ foreground' = p.target /\ pending' = None
        /\ state' = (IF p.target = Stock THEN "stock" ELSE "foreground")
        /\ failures' = (IF p.target = Stock THEN 0 ELSE failures)
        /\ todo' = <<>> /\ UNCHANGED <<recovery, spent>>
    BY <1>3 DEF Observe
  <2>2. MachineOK'
    BY <1>2, <2>1 DEF MachineOK, ControlInv, TypeOK
  <2>3. Quiet
    BY <1>1, <2>1 DEF Quiet, TowardsStock
  <2> QED
    BY <2>2, <2>3
<1>4. CASE ~Arrived(p)
  <2>1. pending' = p /\ todo' = <<>> /\ UNCHANGED <<foreground, state, failures, recovery, spent>>
    BY <1>4 DEF Observe
  <2>2. MachineOK'
    BY <2>1 DEF MachineOK, ControlInv, TypeOK
  <2>3. Quiet
    BY <1>1, <2>1 DEF Quiet, TowardsStock
  <2> QED
    BY <2>2, <2>3
<1> QED
  BY <1>3, <1>4

LEMMA FailureEnds ==
    ASSUME ConstantsAssumption, ControlInv, RestoreFails
    PROVE  MachineOK' /\ (Restoring \/ Leaving)
<1> DEFINE attempt == IF recovery = None THEN 1 ELSE recovery.attempt
<1>1. attempt \in Nat
  BY DEF ControlInv, TypeOK, Recovery
<1>2. CASE attempt >= RestoreAttempts
  BY <1>2 DEF RestoreFails, MachineOK, ControlInv, TypeOK, Leaving, TowardsStock
<1>3. CASE ~(attempt >= RestoreAttempts)
  <2>1. /\ recovery' = [attempt |-> attempt + 1, late |-> FALSE] /\ todo' = <<"check">>
        /\ UNCHANGED <<state, foreground, pending, failures, spent>>
    BY <1>3 DEF RestoreFails
  <2>2. recovery' \in Recovery
    BY <1>1, <2>1 DEF Recovery
  <2> QED
    BY <2>1, <2>2, RestorePlans DEF MachineOK, ControlInv, TypeOK, Restoring
<1> QED
  BY <1>2, <1>3

LEMMA HandleStep ==
    ASSUME ConstantsAssumption, ControlInv, HandleNext
    PROVE  ControlInv'
<1>1. ASSUME SwitchRequested PROVE ControlInv'
  <2>1. Handles({"switch"}) /\ BeginSwitch(Head(events).owner)
    BY <1>1 DEF SwitchRequested
  <2>2. Head(events) \in Events
    BY <2>1, TailKeeps DEF ControlInv, TypeOK, Handles
  <2>3. Head(events).owner \in Owners
    BY <2>1, <2>2 DEF Events, Handles
  <2> QED
    BY <2>1, <2>3, SwitchBegins, HandledWell
<1>2. ASSUME ProcessReady PROVE ControlInv'
  <2> DEFINE p == [pending EXCEPT !.process_ready = @ \/ pending.target = Head(events).owner]
  <2>1. Handles({"ready"})
    BY <1>2 DEF ProcessReady
  <2>2. CASE pending # None
    <3>1. Observe(p)
      BY <1>2, <2>2 DEF ProcessReady
    <3>2. p \in Pending /\ p.target = pending.target
      BY <2>2 DEF ControlInv, TypeOK, Pending
    <3> HIDE DEF p
    <3> QED
      BY <2>1, <2>2, <3>1, <3>2, ObservedQuietly, HandledWell
  <2>3. CASE pending = None
    BY <1>2, <2>1, <2>3, IgnoreIsQuiet, HandledWell DEF ProcessReady
  <2> QED
    BY <2>2, <2>3
<1>3. ASSUME DisplayOwned PROVE ControlInv'
  <2> DEFINE p == [pending EXCEPT !.display_owned = @ \/ pending.target = Head(events).owner]
  <2>1. Handles({"owned"})
    BY <1>3 DEF DisplayOwned
  <2>2. CASE pending # None
    <3>1. Observe(p)
      BY <1>3, <2>2 DEF DisplayOwned
    <3>2. p \in Pending /\ p.target = pending.target
      BY <2>2 DEF ControlInv, TypeOK, Pending
    <3> HIDE DEF p
    <3> QED
      BY <2>1, <2>2, <3>1, <3>2, ObservedQuietly, HandledWell
  <2>3. CASE pending = None
    BY <1>3, <2>1, <2>3, IgnoreIsQuiet, HandledWell DEF DisplayOwned
  <2> QED
    BY <2>2, <2>3
<1>4. ASSUME DisplayReleased PROVE ControlInv'
  <2> DEFINE p == [pending EXCEPT !.display_released = TRUE]
  <2>1. Handles({"released"})
    BY <1>4 DEF DisplayReleased
  <2>2. CASE pending # None
    <3>1. Observe(p)
      BY <1>4, <2>2 DEF DisplayReleased
    <3>2. p \in Pending /\ p.target = pending.target
      BY <2>2 DEF ControlInv, TypeOK, Pending
    <3> HIDE DEF p
    <3> QED
      BY <2>1, <2>2, <3>1, <3>2, ObservedQuietly, HandledWell
  <2>3. CASE pending = None
    BY <1>4, <2>1, <2>3, IgnoreIsQuiet, HandledWell DEF DisplayReleased
  <2> QED
    BY <2>2, <2>3
<1>5. ASSUME StockRunning PROVE ControlInv'
  <2> DEFINE p == [pending EXCEPT !.stock_running = TRUE]
  <2>1. Handles({"stock"})
    BY <1>5 DEF StockRunning
  <2>2. CASE state = "recovering"
    <3>1. /\ state' = "stock" /\ foreground' = Stock /\ pending' = None /\ recovery' = None
          /\ todo' = <<>> /\ UNCHANGED <<failures, spent>>
      BY <1>5, <2>2 DEF StockRunning
    <3>2. MachineOK'
      BY <3>1 DEF MachineOK, ControlInv, TypeOK, Owners
    <3>3. Quiet
      BY <2>1, <2>2, <3>1 DEF Quiet, TowardsStock, Handles
    <3> QED
      BY <2>1, <3>2, <3>3, HandledWell
  <2>3. CASE state # "recovering" /\ pending # None
    <3>1. Observe(p)
      BY <1>5, <2>3 DEF StockRunning
    <3>2. p \in Pending /\ p.target = pending.target
      BY <2>3 DEF ControlInv, TypeOK, Pending
    <3> HIDE DEF p
    <3> QED
      BY <2>1, <2>3, <3>1, <3>2, ObservedQuietly, HandledWell
  <2>4. CASE state # "recovering" /\ pending = None
    BY <1>5, <2>1, <2>4, IgnoreIsQuiet, HandledWell DEF StockRunning
  <2> QED
    BY <2>2, <2>3, <2>4
<1>6. ASSUME SessionExitedClean PROVE ControlInv'
  <2>1. Handles({"clean"})
    BY <1>6 DEF SessionExitedClean
  <2>2. CASE Ours(Head(events).owner)
    BY <1>6, <2>1, <2>2, SwitchBegins, HandledWell DEF SessionExitedClean, Owners
  <2>3. CASE ~Ours(Head(events).owner)
    BY <1>6, <2>1, <2>3, IgnoreIsQuiet, HandledWell DEF SessionExitedClean
  <2> QED
    BY <2>2, <2>3
<1>7. ASSUME SessionExitedFailed PROVE ControlInv'
  <2>1. Handles({"failed"})
    BY <1>7 DEF SessionExitedFailed
  <2>2. CASE Ours(Head(events).owner)
    <3>1. PICK n \in 1 .. failures + 1 :
            /\ failures' = n /\ spent' = (spent \/ n >= SessionFailures)
            /\ EnterRecovery /\ UNCHANGED foreground
      BY <1>7, <2>2 DEF SessionExitedFailed
    <3>2. failures' \in Nat /\ spent' \in BOOLEAN
      BY <3>1 DEF ControlInv, TypeOK
    <3> QED
      BY <2>1, <3>1, <3>2, RecoveryRestores, HandledWell
  <2>3. CASE ~Ours(Head(events).owner)
    BY <1>7, <2>1, <2>3, IgnoreIsQuiet, HandledWell DEF SessionExitedFailed
  <2> QED
    BY <2>2, <2>3
<1>8. ASSUME ProgressStalled PROVE ControlInv'
  <2>1. Handles({"stalled"})
    BY <1>8 DEF ProgressStalled
  <2>2. CASE foreground = Head(events).owner /\ state = "foreground"
    <3>1. EnterRecovery /\ foreground' = foreground /\ failures' \in Nat /\ spent' \in BOOLEAN
      BY <1>8, <2>2 DEF ProgressStalled, ControlInv, TypeOK
    <3> QED
      BY <2>1, <3>1, RecoveryRestores, HandledWell
  <2>3. CASE ~(foreground = Head(events).owner /\ state = "foreground")
    BY <1>8, <2>1, <2>3, IgnoreIsQuiet, HandledWell DEF ProgressStalled
  <2> QED
    BY <2>2, <2>3
<1>9. ASSUME DisplayHostLost PROVE ControlInv'
  <2>1. Handles({"lost"})
    BY <1>9 DEF DisplayHostLost
  <2>2. CASE state # "stock"
    <3>1. EnterRecovery /\ foreground' = foreground /\ failures' \in Nat /\ spent' \in BOOLEAN
      BY <1>9, <2>2 DEF DisplayHostLost, ControlInv, TypeOK
    <3> QED
      BY <2>1, <3>1, RecoveryRestores, HandledWell
  <2>3. CASE state = "stock"
    BY <1>9, <2>1, <2>3, IgnoreIsQuiet, HandledWell DEF DisplayHostLost
  <2> QED
    BY <2>2, <2>3
<1>10. ASSUME RestoreFailed PROVE ControlInv'
  BY <1>10, FailureEnds, HandledWell DEF RestoreFailed
<1>11. ASSUME Tick PROVE ControlInv'
  <2>1. Handles({"tick"})
    BY <1>11 DEF Tick
  <2>2. CASE pending # None /\ pending.late
    <3>1. EnterRecovery /\ foreground' = foreground /\ failures' \in Nat /\ spent' \in BOOLEAN
      BY <1>11, <2>2 DEF Tick, ControlInv, TypeOK
    <3> QED
      BY <2>1, <3>1, RecoveryRestores, HandledWell
  <2>3. CASE ~(pending # None /\ pending.late) /\ recovery # None /\ recovery.late
    BY <1>11, <2>1, <2>3, FailureEnds, HandledWell DEF Tick
  <2>4. CASE ~(pending # None /\ pending.late) /\ ~(recovery # None /\ recovery.late)
    BY <1>11, <2>1, <2>4, IgnoreIsQuiet, HandledWell DEF Tick
  <2> QED
    BY <2>2, <2>3, <2>4
<1> QED
  BY <1>1, <1>2, <1>3, <1>4, <1>5, <1>6, <1>7, <1>8, <1>9, <1>10, <1>11 DEF HandleNext

-----------------------------------------------------------------------------
(* Doing what a plan says. *)

(* A step that is done.  Only one of a launch may take stock down.           *)
LEMMA StepDone ==
    ASSUME ConstantsAssumption, ControlInv, TypeOK', host = "running", todo # <<>>,
           UNCHANGED <<machine, host, phase, queued, events>>, todo' = Tail(todo),
           Head(todo) \notin Restores, StockActive => StockActive' \/ Head(todo) \in Launch
    PROVE  ControlInv'
<1>1. /\ Planned(Launch)' => Planned(Launch)
      /\ Planned({"start_target"})' => Planned({"start_target"})
      /\ Planned(Restores) => Planned(Restores)' \/ Head(todo) \in Restores
      /\ Head(todo) \in Launch => Planned(Launch)
  BY PlanShrinks DEF ControlInv
<1>3. /\ UNCHANGED <<state, pending, spent, host, phase, queued, events>> /\ phase = "handle"
  BY DEF machine, ControlInv, NothingLeft, TypeOK
<1>4. LaunchInv'
  BY <1>1, <1>3 DEF ControlInv, LaunchInv
<1>5. SpentInv'
  BY <1>1, <1>3 DEF ControlInv, SpentInv
<1>6. Accounted'
  <2>1. TowardsStock' => TowardsStock
    BY <1>3 DEF TowardsStock
  <2>2. Head(todo) \in Launch => ~TowardsStock
    BY <1>1 DEF ControlInv, LaunchInv, TowardsStock, ConstantsAssumption
  <2> QED
    BY <1>1, <1>3, <2>1, <2>2 DEF ControlInv, Accounted
<1> QED
  BY <1>3, <1>4, <1>5, <1>6 DEF ControlInv, NothingLeft

(* A launch that is given up: nobody was on the way to stock.                *)
LEMMA LaunchGivenUp ==
    ASSUME ConstantsAssumption, ControlInv, TypeOK', host = "running", todo # <<>>,
           UNCHANGED <<machine, host, phase, events>>, todo' = <<>>, Head(todo) \in Launch
    PROVE  ControlInv'
<1>1. todo \in Seq(Steps) /\ Head(todo) = todo[1] /\ 1 \in DOMAIN todo
  BY TailKeeps DEF ControlInv, TypeOK
<1>2. Planned(Launch)
  BY <1>1 DEF Planned, Has
<1>3. UNCHANGED <<state, pending, spent, host, phase>> /\ phase = "handle"
  BY DEF machine, ControlInv, NothingLeft, TypeOK
<1>4. ~TowardsStock'
  BY <1>2, <1>3 DEF ControlInv, LaunchInv, TowardsStock, ConstantsAssumption
<1> QED
  BY <1>3, <1>4, NothingPlanned DEF ControlInv, NothingLeft, LaunchInv, SpentInv, Accounted

LEMMA LeftIsState ==
    ASSUME TypeOK, NEW a \in Apps, NEW stopped \in {"off", "dead"}
    PROVE  Left(a, stopped) \in {"off", "on", "hung", "dead"}
BY DEF Left, TypeOK

LEMMA StoppedTargetIsTyped ==
    ASSUME TypeOK, StopTarget
    PROVE  target' \in BOOLEAN /\ comp' \in BOOLEAN /\ apps' \in [Apps -> {"off", "on", "hung", "dead"}]
<1>1. CASE target
  BY <1>1, LeftIsState DEF StopTarget
<1>2. CASE ~target
  BY <1>2 DEF StopTarget, TypeOK
<1> QED
  BY <1>1, <1>2

LEMMA LaunchKnowsItsOwner ==
    ASSUME ControlInv, NEW step \in Launch, Does(step)
    PROVE  pending.target \in Apps /\ Head(todo) \in Launch
<1>1. Head(todo) = todo[1] /\ 1 \in DOMAIN todo
  BY TailKeeps DEF ControlInv, TypeOK, Does
<1>2. Planned(Launch)
  BY <1>1 DEF Does, Planned, Has
<1> QED
  BY <1>2 DEF ControlInv, LaunchInv, Does

LEMMA GivesUpTyped ==
    ASSUME TypeOK, NEW o \in Apps, GiveUp("failed", o)
    PROVE  queued' \in Seq(Events) /\ todo' \in Seq(Steps)
<1>1. Event("failed", o) \in Events
  BY EventIsEvent DEF Kinds, Owners
<1>2. queued \in Seq(Events)
  BY DEF TypeOK
<1> QED
  BY <1>1, <1>2 DEF GiveUp

LEMMA ExecuteStep ==
    ASSUME ConstantsAssumption, ControlInv, ExecuteNext
    PROVE  ControlInv'
<1> USE DEF world, control, restore
<1>a. TypeOK
  BY DEF ControlInv
<1>1. ASSUME Terminate PROVE ControlInv'
  <2>1. Does("terminate") /\ Done /\ UNCHANGED <<unit, incoming, stock, target, comp, shown, rescue, rescues, recent, faults>>
    BY <1>1 DEF Terminate
  <2>2. todo' \in Seq(Steps)
    BY <1>a, <2>1, PlanShrinks DEF Does, Done
  <2>3. apps' \in [Apps -> {"off", "on", "hung", "dead"}] /\ onfail' \in BOOLEAN
    <3>1. CASE unit # None /\ Active(unit)
      <4>1. PICK stopped \in {"off", "dead"} :
              /\ apps' = [apps EXCEPT ![unit] = Left(unit, stopped)]
              /\ onfail' = (onfail \/ apps[unit] = "hung")
        BY <1>1, <3>1 DEF Terminate
      <4>2. unit \in Apps
        BY <1>a, <3>1 DEF TypeOK
      <4>3. Left(unit, stopped) \in {"off", "on", "hung", "dead"}
        BY <1>a, <4>2, LeftIsState
      <4> QED
        BY <1>a, <4>1, <4>3 DEF TypeOK
    <3>2. CASE ~(unit # None /\ Active(unit))
      BY <1>1, <1>a, <3>2 DEF Terminate, TypeOK
    <3> QED
      BY <3>1, <3>2
  <2>4. TypeOK'
    BY <1>a, <2>1, <2>2, <2>3 DEF TypeOK, Does, Done, machine
  <2> QED
    BY <2>1, <2>4, StepDone DEF Does, Done, Restores, StockActive
<1>2. ASSUME ReleaseSession PROVE ControlInv'
  <2>1. /\ Does("release_session") /\ Done /\ unit' = None /\ incoming' = Stock
        /\ UNCHANGED <<world, restore, recent, faults>>
    BY <1>2 DEF ReleaseSession
  <2>2. todo' \in Seq(Steps)
    BY <1>a, <2>1, PlanShrinks DEF Does, Done
  <2>3. TypeOK'
    BY <1>a, <2>1, <2>2 DEF TypeOK, Does, Done, machine, Owners
  <2> QED
    BY <2>1, <2>3, StepDone DEF Does, Done, Restores, StockActive
<1>3. ASSUME StopCompositor PROVE ControlInv'
  <2>1. /\ Does("stop_comp") /\ Done /\ comp' = FALSE
        /\ UNCHANGED <<unit, incoming, stock, target, shown, apps, restore, recent, faults>>
    BY <1>3 DEF StopCompositor
  <2>2. todo' \in Seq(Steps)
    BY <1>a, <2>1, PlanShrinks DEF Does, Done
  <2>a. comp' \in BOOLEAN /\ UNCHANGED <<unit, incoming, stock, target, shown, apps, restore, recent, faults>>
    BY <2>1
  <2>b. Does("stop_comp") /\ Done
    BY <2>1
  <2>3. TypeOK'
    BY <1>a, <2>a, <2>b, <2>2 DEF TypeOK, Does, Done, machine
  <2>4. /\ host = "running" /\ todo # <<>> /\ todo' = Tail(todo) /\ Head(todo) \notin Restores
        /\ UNCHANGED <<machine, host, phase, queued, events>> /\ stock' = stock
    BY <2>1 DEF Does, Done, Restores
  <2> QED
    BY <2>3, <2>4, StepDone DEF StockActive
<1>4. ASSUME BeginSession PROVE ControlInv'
  <2>1. /\ Does("begin") /\ incoming' = pending.target /\ UNCHANGED <<world, restore, recent, faults>>
    BY <1>4 DEF BeginSession
  <2>2. pending.target \in Apps /\ Head(todo) \in Launch
    BY <2>1, LaunchKnowsItsOwner DEF Launch
  <2>3. CASE recent < StartBudget
    <3>1. unit' = pending.target /\ Done
      BY <1>4, <2>3 DEF BeginSession
    <3>2. todo' \in Seq(Steps)
      BY <1>a, <2>1, <3>1, PlanShrinks DEF Does, Done
    <3>3. TypeOK'
      BY <1>a, <2>1, <2>2, <3>1, <3>2 DEF TypeOK, Does, Done, machine, Owners
    <3> QED
      BY <2>1, <3>1, <3>3, StepDone DEF Does, Done, Restores, StockActive
  <2>4. CASE ~(recent < StartBudget)
    <3>1. unit' = unit /\ GiveUp("failed", pending.target)
      BY <1>4, <2>4 DEF BeginSession
    <3>2. TypeOK'
      BY <1>a, <2>1, <2>2, <3>1, GivesUpTyped DEF TypeOK, Does, machine, Owners
    <3> QED
      BY <2>1, <2>2, <3>1, <3>2, LaunchGivenUp DEF Does, GiveUp
  <2> QED
    BY <2>3, <2>4
<1>5. ASSUME StartSessionTarget PROVE ControlInv'
  <2>1. /\ Does("start_target") /\ Done /\ StartTarget
        /\ UNCHANGED <<unit, incoming, onfail, rescues, recent, faults>>
    BY <1>5 DEF StartSessionTarget
  <2>2. Head(todo) \in Launch
    BY <2>1, LaunchKnowsItsOwner DEF Launch
  <2>3. todo' \in Seq(Steps)
    BY <1>a, <2>1, PlanShrinks DEF Does, Done
  <2>4. TypeOK'
    BY <1>a, <2>1, <2>3 DEF TypeOK, Does, Done, machine, StartTarget
  <2> QED
    BY <2>1, <2>2, <2>4, StepDone DEF Does, Done, Restores, StockActive
<1>6. ASSUME StartCompositor PROVE ControlInv'
  <2>1. /\ Does("start_comp") /\ Done /\ comp' = TRUE
        /\ UNCHANGED <<unit, incoming, stock, target, shown, apps, restore, recent, faults>>
    BY <1>6 DEF StartCompositor
  <2>2. todo' \in Seq(Steps)
    BY <1>a, <2>1, PlanShrinks DEF Does, Done
  <2>3. TypeOK'
    BY <1>a, <2>1, <2>2 DEF TypeOK, Does, Done, machine
  <2> QED
    BY <2>1, <2>3, StepDone DEF Does, Done, Restores, StockActive
<1>7. ASSUME StartApp PROVE ControlInv'
  <2>1. /\ Does("start_app") /\ Done
        /\ apps' = [apps EXCEPT ![unit] = IF Active(unit) THEN @ ELSE "on"]
        /\ UNCHANGED <<unit, incoming, stock, target, comp, shown, restore, recent, faults>>
    BY <1>7 DEF StartApp
  <2>2. todo' \in Seq(Steps)
    BY <1>a, <2>1, PlanShrinks DEF Does, Done
  <2>3. apps' \in [Apps -> {"off", "on", "hung", "dead"}]
    BY <1>a, <2>1 DEF TypeOK
  <2>4. TypeOK'
    BY <1>a, <2>1, <2>2, <2>3 DEF TypeOK, Does, Done, machine
  <2> QED
    BY <2>1, <2>4, StepDone DEF Does, Done, Restores, StockActive
<1>8. ASSUME SystemdRefuses PROVE ControlInv'
  <2>1. PICK step \in {"start_target", "start_comp", "start_app"} : Does(step)
    BY <1>8 DEF SystemdRefuses
  <2>2. /\ Refusal /\ GiveUp("failed", pending.target)
        /\ UNCHANGED <<unit, incoming, world, restore, recent>>
    BY <1>8 DEF SystemdRefuses
  <2>3. pending.target \in Apps /\ Head(todo) \in Launch
    BY <2>1, LaunchKnowsItsOwner DEF Launch
  <2>4. TypeOK'
    BY <1>a, <2>1, <2>2, <2>3, GivesUpTyped DEF TypeOK, Does, machine, Owners, Refusal
  <2> QED
    BY <2>1, <2>2, <2>3, <2>4, LaunchGivenUp DEF Does, GiveUp
<1>9. ASSUME Halt PROVE ControlInv'
  <2>1. /\ host' = "exited" /\ todo' = <<>>
        /\ UNCHANGED <<machine, phase, queued, events, unit, incoming, world, control,
                       restore, recent, faults>>
    BY <1>9 DEF Halt
  <2>2. TypeOK'
    BY <1>a, <2>1 DEF TypeOK, machine
  <2> QED
    BY <2>1, <2>2, NothingPlanned
       DEF ControlInv, NothingLeft, LaunchInv, SpentInv, Accounted, TowardsStock
<1> QED
  BY <1>1, <1>2, <1>3, <1>4, <1>5, <1>6, <1>7, <1>8, <1>9 DEF ExecuteNext

-----------------------------------------------------------------------------
(* Restoring stock. *)

(* A restore the supervisor runs goes on.                                    *)
LEMMA RestoreGoesOn ==
    ASSUME ConstantsAssumption, ControlInv, TypeOK', host = "running", todo # <<>>,
           UNCHANGED <<machine, host, phase, queued, events>>,
           NEW step \in Restores, todo' = <<step>> \o Tail(todo)
    PROVE  ControlInv'
<1>1. todo \in Seq(Steps) /\ Tail(todo) \in Seq(Steps) /\ <<step>> \in Seq(Steps)
  BY TailKeeps DEF ControlInv, TypeOK, Steps
<1>2. Has(<<step>>, Restores) /\ ~Has(<<step>>, Launch) /\ ~Has(<<step>>, {"start_target"})
  <2>1. 1 \in DOMAIN <<step>> /\ <<step>>[1] = step /\ \A i \in DOMAIN <<step>> : <<step>>[i] = step
    OBVIOUS
  <2>2. step \in Restores /\ step \notin Launch /\ step # "start_target"
    BY DEF Restores, Launch
  <2> QED
    BY <2>1, <2>2 DEF Has
<1>3. \A i \in DOMAIN Tail(todo) : i + 1 \in DOMAIN todo /\ Tail(todo)[i] = todo[i + 1]
  BY <1>1, TailKeeps
<1>4. /\ Planned(Restores)'
      /\ Planned(Launch)' => Planned(Launch)
      /\ Planned({"start_target"})' => Planned({"start_target"})
  <2>1. /\ Has(Tail(todo), Launch) => Has(todo, Launch)
        /\ Has(Tail(todo), {"start_target"}) => Has(todo, {"start_target"})
    BY <1>3 DEF Has
  <2>2. \A steps : Has(todo', steps) <=> Has(<<step>>, steps) \/ Has(Tail(todo), steps)
    BY <1>1, HasBoth
  <2> QED
    BY <1>2, <2>1, <2>2 DEF Planned
<1>5. UNCHANGED <<state, pending, spent, host, phase>> /\ phase = "handle"
  BY DEF machine, ControlInv, NothingLeft, TypeOK
<1> QED
  BY <1>4, <1>5 DEF ControlInv, NothingLeft, LaunchInv, SpentInv, Accounted

(* It ends, over a stock that runs or with a failure that is queued.         *)
LEMMA RestoreIsOver ==
    ASSUME ConstantsAssumption, ControlInv, TypeOK', host = "running", todo # <<>>,
           UNCHANGED <<machine, host, phase, events>>, todo' = Tail(todo),
           StockActive' \/ ToldOfFailure(queued')
    PROVE  ControlInv'
<1>1. /\ Planned(Launch)' => Planned(Launch)
      /\ Planned({"start_target"})' => Planned({"start_target"})
  BY PlanShrinks DEF ControlInv
<1>2. UNCHANGED <<state, pending, spent, host, phase>> /\ phase = "handle"
  BY DEF machine, ControlInv, NothingLeft, TypeOK
<1> QED
  BY <1>1, <1>2 DEF ControlInv, NothingLeft, LaunchInv, SpentInv, Accounted

(* What the machine and its loop do not take part in.                        *)
LEMMA WorldMoves ==
    ASSUME ControlInv, TypeOK', UNCHANGED <<state, spent, host, phase, queued, events, todo>>,
           pending = None <=> pending' = None, pending'.target = pending.target,
           StockActive => StockActive'
    PROVE  ControlInv'
BY DEF ControlInv, NothingLeft, LaunchInv, SpentInv, Accounted, TowardsStock, Planned, Has

LEMMA ObservationsAreEvents ==
    Restored \in Seq(Events) /\ NotRestored \in Seq(Events) /\ ToldOfFailure(NotRestored)
<1>1. /\ Event("stock", None) \in Events /\ Event("released", None) \in Events
      /\ Event("restore_failed", None) \in Events
  BY EventIsEvent DEF Kinds
<1>2. Restored \in Seq(Events) /\ NotRestored \in Seq(Events)
  BY <1>1 DEF Restored, NotRestored
<1>3. 1 \in DOMAIN NotRestored /\ NotRestored[1].kind = "restore_failed"
  BY DEF NotRestored, Event
<1> QED
  BY <1>2, <1>3 DEF ToldOfFailure

LEMMA StartsStockTyped ==
    ASSUME TypeOK, StartStock
    PROVE  /\ target' \in BOOLEAN /\ comp' \in BOOLEAN /\ shown' \in BOOLEAN
           /\ apps' \in [Apps -> {"off", "on", "hung", "dead"}]
           /\ stock' \in {"down", "starting", "up", "dark"}
           /\ StockActive => StockActive'
<1>1. StopTarget /\ stock' = (IF stock = "down" THEN "starting" ELSE stock) /\ shown' = shown
  BY DEF StartStock
<1> QED
  BY <1>1, StoppedTargetIsTyped DEF TypeOK, StockActive

(* How a step of a restore leaves the plan of whoever runs it.               *)
RestoreMoved(who) ==
    \/ \E step \in Restores : RestoreGoes(who, step)
    \/ RestoreEnds(who, Restored) /\ StockActive'
    \/ RestoreEnds(who, NotRestored)

LEMMA RestoreKeeps ==
    ASSUME ConstantsAssumption, ControlInv, NEW who \in {"host", "unit"},
           NEW step \in Restores, At(who, step), RestoreUnchanged, RestoreMoved(who),
           StockActive => StockActive',
           target' \in BOOLEAN, comp' \in BOOLEAN, shown' \in BOOLEAN,
           apps' \in [Apps -> {"off", "on", "hung", "dead"}],
           stock' \in {"down", "starting", "up", "dark"},
           onfail' \in BOOLEAN, recent' \in Nat, faults' \in Nat
    PROVE  ControlInv'
<1>a. /\ TypeOK
      /\ UNCHANGED <<state, foreground, pending, recovery, failures, spent, host, phase, events,
                     unit, incoming, command, stop, commands, rescues>>
  BY DEF ControlInv, RestoreUnchanged, machine, control
<1>1. CASE who = "host"
  <2>1. host = "running" /\ todo # <<>> /\ UNCHANGED <<machine, host, phase, events>>
    BY <1>1 DEF At, RestoreUnchanged
  <2>2. todo \in Seq(Steps) /\ Tail(todo) \in Seq(Steps) /\ queued \in Seq(Events)
    BY <2>1, <1>a, TailKeeps DEF TypeOK
  <2>3. ASSUME NEW next \in Restores, RestoreGoes(who, next) PROVE ControlInv'
    <3>1. todo' = <<next>> \o Tail(todo) /\ UNCHANGED <<queued, rescue>>
      BY <1>1, <2>3 DEF RestoreGoes
    <3>2. <<next>> \in Seq(Steps)
      BY DEF Steps
    <3>3. todo' \in Seq(Steps)
      BY <2>2, <3>1, <3>2, ConcatKeeps
    <3>4. TypeOK'
      BY <1>a, <3>1, <3>3 DEF TypeOK
    <3> QED
      BY <2>1, <3>1, <3>4, RestoreGoesOn
  <2>4. CASE RestoreEnds(who, Restored) /\ StockActive'
    <3>1. todo' = Tail(todo) /\ queued' = queued \o Restored /\ rescue' = rescue
      BY <1>1, <2>4 DEF RestoreEnds
    <3>2. queued' \in Seq(Events)
      BY <2>2, <3>1, ObservationsAreEvents, ToldAlso
    <3>3. TypeOK'
      BY <1>a, <2>2, <3>1, <3>2 DEF TypeOK
    <3> QED
      BY <2>1, <2>4, <3>1, <3>3, RestoreIsOver
  <2>5. CASE RestoreEnds(who, NotRestored)
    <3>1. todo' = Tail(todo) /\ queued' = queued \o NotRestored /\ rescue' = rescue
      BY <1>1, <2>5 DEF RestoreEnds
    <3>2. queued' \in Seq(Events) /\ ToldOfFailure(queued')
      BY <2>2, <3>1, ObservationsAreEvents, ToldAlso
    <3>3. TypeOK'
      BY <1>a, <2>2, <3>1, <3>2 DEF TypeOK
    <3> QED
      BY <2>1, <3>1, <3>2, <3>3, RestoreIsOver
  <2> QED
    BY <2>3, <2>4, <2>5 DEF RestoreMoved
<1>2. CASE who = "unit"
  <2>1. /\ UNCHANGED <<todo, queued>> /\ rescue' \in Restores \cup {"idle"}
    BY <1>2 DEF RestoreMoved, RestoreGoes, RestoreEnds
  <2>2. TypeOK'
    BY <1>a, <2>1 DEF TypeOK
  <2> QED
    BY <1>a, <2>1, <2>2, WorldMoves
<1> QED
  BY <1>1, <1>2

LEMMA RestoreStep ==
    ASSUME ConstantsAssumption, ControlInv, NEW who \in {"host", "unit"}, RestoreNext(who)
    PROVE  ControlInv'
<1>a. TypeOK
  BY DEF ControlInv
<1>b. {"check", "start1", "wait1", "start2", "wait2"} = Restores
  BY DEF Restores
<1>c. recent' = (IF recent < StartBudget THEN recent + 1 ELSE recent) => recent' \in Nat
  BY <1>a DEF TypeOK
<1>1. ASSUME RestoreCheck(who) PROVE ControlInv'
  <2>1. /\ At(who, "check") /\ RestoreUnchanged
        /\ UNCHANGED <<stock, target, shown, apps, recent, faults, onfail>>
    BY <1>1 DEF RestoreCheck
  <2>2. RestoreMoved(who) /\ comp' \in BOOLEAN
    <3>1. CASE StockActive
      BY <1>1, <1>a, <2>1, <3>1 DEF RestoreCheck, RestoreMoved, StockActive, TypeOK
    <3>2. CASE ~StockActive
      <4>1. RestoreGoes(who, "start1") /\ comp' = FALSE
        BY <1>1, <3>2 DEF RestoreCheck
      <4>2. comp' \in BOOLEAN
        BY <4>1
      <4> QED
        BY <4>1, <4>2, <1>b DEF RestoreMoved
    <3> QED
      BY <3>1, <3>2
  <2>3. /\ target' \in BOOLEAN /\ shown' \in BOOLEAN /\ stock' \in {"down", "starting", "up", "dark"}
        /\ apps' \in [Apps -> {"off", "on", "hung", "dead"}]
        /\ onfail' \in BOOLEAN /\ recent' \in Nat /\ faults' \in Nat
        /\ StockActive => StockActive'
    BY <1>a, <2>1 DEF TypeOK, StockActive
  <2> QED
    BY <1>b, <2>1, <2>2, <2>3, RestoreKeeps
<1>2. ASSUME RestoreStart(who) PROVE ControlInv'
  <2>1. /\ StartStock /\ RecordStart /\ RestoreUnchanged /\ faults' = faults
        /\ onfail' = (onfail \/ StopFailsAUnit)
    BY <1>2 DEF RestoreStart
  <2>2. PICK step \in Restores : At(who, step) /\ \E next \in Restores : RestoreGoes(who, next)
    BY <1>2, <1>b DEF RestoreStart
  <2>3. onfail' \in BOOLEAN /\ recent' \in Nat /\ faults' \in Nat
    BY <1>a, <1>c, <2>1 DEF TypeOK, RecordStart
  <2> QED
    BY <1>a, <2>1, <2>2, <2>3, StartsStockTyped, RestoreKeeps DEF RestoreMoved
<1>3. ASSUME RestoreRefused(who) PROVE ControlInv'
  <2>1. /\ Refusal /\ RecordStart /\ RestoreUnchanged /\ RestoreEnds(who, NotRestored)
        /\ UNCHANGED <<stock, target, comp, shown, apps, onfail>>
    BY <1>3 DEF RestoreRefused, world
  <2>2. PICK step \in Restores : At(who, step)
    BY <1>3, <1>b DEF RestoreRefused
  <2>3. recent' \in Nat /\ faults' \in Nat
    BY <1>a, <1>c, <2>1 DEF TypeOK, RecordStart, Refusal
  <2>4. /\ target' \in BOOLEAN /\ comp' \in BOOLEAN /\ shown' \in BOOLEAN
        /\ stock' \in {"down", "starting", "up", "dark"}
        /\ apps' \in [Apps -> {"off", "on", "hung", "dead"}]
        /\ onfail' \in BOOLEAN
        /\ StockActive => StockActive'
    BY <1>a, <2>1 DEF TypeOK, StockActive
  <2> QED
    BY <2>1, <2>2, <2>3, <2>4, RestoreKeeps DEF RestoreMoved
<1>4. ASSUME RestoreUp(who) PROVE ControlInv'
  <2>1. /\ RestoreUnchanged /\ StockActive
        /\ RestoreEnds(who, IF stock = "dark" THEN NotRestored ELSE Restored)
        /\ UNCHANGED <<stock, target, comp, shown, apps, onfail, recent, faults>>
    BY <1>4 DEF RestoreUp, world
  <2>2. PICK step \in Restores : At(who, step)
    BY <1>4, <1>b DEF RestoreUp
  <2>3. /\ target' \in BOOLEAN /\ comp' \in BOOLEAN /\ shown' \in BOOLEAN
        /\ stock' \in {"down", "starting", "up", "dark"}
        /\ apps' \in [Apps -> {"off", "on", "hung", "dead"}]
        /\ onfail' \in BOOLEAN /\ recent' \in Nat /\ faults' \in Nat /\ StockActive'
    BY <1>a, <2>1 DEF TypeOK, StockActive
  <2>4. RestoreMoved(who)
    BY <2>1, <2>3 DEF RestoreMoved
  <2> QED
    BY <2>1, <2>2, <2>3, <2>4, RestoreKeeps
<1>5. ASSUME RestoreTimesOut(who) PROVE ControlInv'
  <2>1. /\ RestoreUnchanged
        /\ UNCHANGED <<stock, target, comp, shown, apps, onfail, recent, faults>>
    BY <1>5 DEF RestoreTimesOut, world
  <2>2. PICK step \in Restores : At(who, step)
    BY <1>5, <1>b DEF RestoreTimesOut
  <2>3. /\ target' \in BOOLEAN /\ comp' \in BOOLEAN /\ shown' \in BOOLEAN
        /\ stock' \in {"down", "starting", "up", "dark"}
        /\ apps' \in [Apps -> {"off", "on", "hung", "dead"}]
        /\ onfail' \in BOOLEAN /\ recent' \in Nat /\ faults' \in Nat
        /\ StockActive => StockActive'
    BY <1>a, <2>1 DEF TypeOK, StockActive
  <2>4. RestoreMoved(who)
    BY <1>5, <1>b DEF RestoreMoved, RestoreTimesOut
  <2> QED
    BY <2>1, <2>2, <2>3, <2>4, RestoreKeeps
<1> QED
  BY <1>1, <1>2, <1>3, <1>4, <1>5 DEF RestoreNext

-----------------------------------------------------------------------------
(* A pass begins and ends. *)

LEMMA OwnerIsOwner == TypeOK => owner \in Owners
BY DEF TypeOK, owner

LEMMA CollectedAreEvents ==
    ASSUME TypeOK
    PROVE  /\ <<Event("tick", None)>> \in Seq(Events) /\ CommandEvents \in Seq(Events)
           /\ SessionEvents \in Seq(Events) /\ StockEvents \in Seq(Events)
<1>1. /\ <<Event("tick", None)>> \in Seq(Events) /\ <<Event("lost", None)>> \in Seq(Events)
      /\ <<Event("stock", None)>> \in Seq(Events)
  BY EventIsEvent DEF Kinds
<1>2. /\ <<Event("ready", owner)>> \in Seq(Events) /\ <<Event("owned", owner)>> \in Seq(Events)
      /\ <<Event("stalled", owner)>> \in Seq(Events) /\ <<Event("clean", owner)>> \in Seq(Events)
      /\ <<Event("failed", owner)>> \in Seq(Events)
  BY OwnerIsOwner, EventIsEvent DEF Kinds
<1>3. CommandEvents \in Seq(Events)
  <2>1. CASE command = None
    BY <2>1 DEF CommandEvents
  <2>2. CASE command # None
    <3>1. command \in Owners
      BY <2>2 DEF TypeOK
    <3> QED
      BY <2>2, <3>1, EventIsEvent DEF CommandEvents, Kinds
  <2> QED
    BY <2>1, <2>2
<1>4. <<>> \in Seq(Events)
  OBVIOUS
<1>5. <<Event("ready", owner)>> \o (IF shown THEN <<Event("owned", owner)>> ELSE <<>>) \in Seq(Events)
  BY <1>2, <1>4, ToldAlso
<1>6. SessionEvents \in Seq(Events)
  BY <1>1, <1>2, <1>4, <1>5 DEF SessionEvents
<1>7. StockEvents \in Seq(Events)
  BY <1>1, <1>4 DEF StockEvents
<1> QED
  BY <1>1, <1>3, <1>6, <1>7

LEMMA PassStep ==
    ASSUME ConstantsAssumption, ControlInv, Collect \/ EndPass
    PROVE  ControlInv'
<1>a. TypeOK
  BY DEF ControlInv
<1>1. ASSUME Collect PROVE ControlInv'
  <2>1. /\ events' = queued \o <<Event("tick", None)>> \o CommandEvents \o SessionEvents \o StockEvents
        /\ queued' = <<>> /\ command' = None /\ phase' = "handle"
        /\ UNCHANGED <<state, foreground, pending, recovery, failures, spent, host, todo, unit,
                       incoming, stock, target, comp, shown, apps, stop, commands, rescue, onfail,
                       rescues, recent, faults>>
        /\ host = "running" /\ phase = "collect"
    BY <1>1 DEF Collect, machine, world, restore
  <2>2. /\ queued \in Seq(Events)
        /\ <<Event("tick", None)>> \in Seq(Events) /\ CommandEvents \in Seq(Events)
        /\ SessionEvents \in Seq(Events) /\ StockEvents \in Seq(Events)
    BY <1>a, CollectedAreEvents DEF TypeOK
  <2>3. events' \in Seq(Events) /\ (ToldOfFailure(queued) => ToldOfFailure(events'))
    <3>1. /\ queued \o <<Event("tick", None)>> \in Seq(Events)
          /\ ToldOfFailure(queued) => ToldOfFailure(queued \o <<Event("tick", None)>>)
      BY <2>2, ToldAlso
    <3> DEFINE s1 == queued \o <<Event("tick", None)>>
    <3> HIDE DEF s1
    <3>2. /\ s1 \o CommandEvents \in Seq(Events)
          /\ ToldOfFailure(s1) => ToldOfFailure(s1 \o CommandEvents)
      BY <2>2, <3>1, ToldAlso DEF s1
    <3> DEFINE s2 == s1 \o CommandEvents
    <3> HIDE DEF s2
    <3>3. /\ s2 \o SessionEvents \in Seq(Events)
          /\ ToldOfFailure(s2) => ToldOfFailure(s2 \o SessionEvents)
      BY <2>2, <3>2, ToldAlso DEF s2
    <3> DEFINE s3 == s2 \o SessionEvents
    <3> HIDE DEF s3
    <3>4. /\ s3 \o StockEvents \in Seq(Events)
          /\ ToldOfFailure(s3) => ToldOfFailure(s3 \o StockEvents)
      BY <2>2, <3>3, ToldAlso DEF s3
    <3>5. events' = s3 \o StockEvents
      BY <2>1 DEF s1, s2, s3
    <3> QED
      BY <3>1, <3>2, <3>3, <3>4, <3>5 DEF s1, s2, s3
  <2>4. TypeOK'
    <3>1. queued' \in Seq(Events)
      BY <2>1
    <3> QED
      BY <1>a, <2>1, <2>3, <3>1 DEF TypeOK
  <2>5. events = <<>> /\ todo = <<>>
    BY <2>1 DEF ControlInv, NothingLeft
  <2>6. ~ToldOfFailure(events)
    BY <2>5 DEF ToldOfFailure
  <2>7. Accounted'
    BY <2>1, <2>3, <2>6
       DEF ControlInv, Accounted, TowardsStock, StockActive, Planned, Has
  <2> QED
    BY <2>1, <2>4, <2>7 DEF ControlInv, NothingLeft, LaunchInv, SpentInv, Planned, Has
<1>2. ASSUME EndPass PROVE ControlInv'
  <2>1. /\ events = <<>> /\ todo = <<>>
        /\ \/ host' = "exited" /\ phase' = phase
           \/ host' = host /\ phase' = "collect"
        /\ UNCHANGED <<state, foreground, pending, recovery, failures, spent, queued, events, todo,
                       unit, incoming, stock, target, comp, shown, apps, command, stop, commands,
                       rescue, onfail, rescues, recent, faults>>
    BY <1>2 DEF EndPass, machine, world, control, restore
  <2>2. TypeOK'
    BY <1>a, <2>1 DEF TypeOK
  <2>3. Accounted'
    BY <2>1 DEF ControlInv, Accounted, TowardsStock, StockActive, Planned, Has, ToldOfFailure
  <2> QED
    BY <2>1, <2>2, <2>3 DEF ControlInv, NothingLeft, LaunchInv, SpentInv, Planned, Has
<1> QED
  BY <1>1, <1>2

-----------------------------------------------------------------------------
(* The machine around the supervisor. *)

LEMMA WorldStep ==
    ASSUME ConstantsAssumption, ControlInv, WorldNext
    PROVE  ControlInv'
<1> USE DEF machine, loop, world, control, restore, hostAndMachine
<1>a. TypeOK
  BY DEF ControlInv
<1>1. ASSUME RescueStarts PROVE ControlInv'
  <2>1. /\ UNCHANGED <<hostAndMachine, stock, shown, recent, faults>> /\ onfail' = FALSE
        /\ \/ StopTarget /\ rescue' = "check" /\ rescues' = rescues + 1
           \/ UNCHANGED <<target, comp, apps, rescue, rescues>>
    BY <1>1 DEF RescueStarts
  <2>2. /\ target' \in BOOLEAN /\ comp' \in BOOLEAN
        /\ apps' \in [Apps -> {"off", "on", "hung", "dead"}]
    BY <1>a, <2>1, StoppedTargetIsTyped DEF TypeOK
  <2>a. onfail' \in BOOLEAN
    BY <2>1
  <2>3. rescue' \in Restores \cup {"idle"} /\ rescues' \in Nat
    BY <1>a, <2>1 DEF TypeOK, Restores
  <2>b. UNCHANGED <<hostAndMachine, stock, shown, recent, faults>>
    BY <2>1
  <2>4. TypeOK'
    BY <1>a, <2>a, <2>b, <2>2, <2>3 DEF TypeOK
  <2> QED
    BY <2>1, <2>4, WorldMoves DEF StockActive
<1>2. ASSUME RestoreNext("unit") PROVE ControlInv'
  BY <1>2, RestoreStep
<1>3. ASSUME StockAnswers PROVE ControlInv'
  <2>1. TypeOK'
    BY <1>3, <1>a DEF TypeOK, StockAnswers
  <2> QED
    BY <1>3, <2>1, WorldMoves DEF StockActive, StockAnswers
<1>4. ASSUME CompositorWrites PROVE ControlInv'
  <2>1. TypeOK'
    BY <1>4, <1>a DEF TypeOK, CompositorWrites
  <2> QED
    BY <1>4, <2>1, WorldMoves DEF StockActive, CompositorWrites
<1>5. ASSUME NEW a \in Apps, AppExits(a) \/ AppCrashes(a) \/ AppHangs(a) PROVE ControlInv'
  <2>1. /\ apps' \in [Apps -> {"off", "on", "hung", "dead"}] /\ onfail' \in BOOLEAN /\ faults' \in Nat
        /\ UNCHANGED <<hostAndMachine, stock, target, comp, shown, rescue, rescues, recent>>
    <3>1. CASE AppExits(a)
      BY <1>a, <3>1 DEF TypeOK, AppExits
    <3>2. CASE AppCrashes(a)
      <4>1. onfail' \in BOOLEAN
        BY <3>2 DEF AppCrashes
      <4> QED
        BY <1>a, <3>2, <4>1 DEF TypeOK, AppCrashes, Fault
    <3>3. CASE AppHangs(a)
      BY <1>a, <3>3 DEF TypeOK, AppHangs, Fault
    <3> QED
      BY <1>5, <3>1, <3>2, <3>3
  <2>2. TypeOK'
    BY <1>a, <2>1 DEF TypeOK
  <2> QED
    BY <2>1, <2>2, WorldMoves DEF StockActive
<1>6. ASSUME CompositorCrashes PROVE ControlInv'
  <2>1. /\ comp' \in BOOLEAN /\ onfail' \in BOOLEAN /\ faults' \in Nat
        /\ UNCHANGED <<hostAndMachine, stock, target, shown, apps, rescue, rescues, recent>>
    <3>1. comp' \in BOOLEAN /\ onfail' \in BOOLEAN
      BY <1>6 DEF CompositorCrashes
    <3> QED
      BY <1>6, <1>a, <3>1 DEF TypeOK, CompositorCrashes, Fault
  <2>2. TypeOK'
    BY <1>a, <2>1 DEF TypeOK
  <2> QED
    BY <2>1, <2>2, WorldMoves DEF StockActive
<1>7. ASSUME HostKilled PROVE ControlInv'
  <2>1. /\ host' = "killed" /\ todo' = <<>> /\ onfail' \in BOOLEAN /\ faults' \in Nat
        /\ UNCHANGED <<machine, phase, queued, events, unit, incoming, world, control,
                       rescue, rescues, recent>>
    BY <1>7, <1>a DEF TypeOK, HostKilled, Fault
  <2>2. todo' \in Seq(Steps)
    BY <2>1
  <2>3. TypeOK'
    BY <1>a, <2>1, <2>2 DEF TypeOK
  <2> QED
    BY <2>1, <2>3, NothingPlanned
       DEF ControlInv, NothingLeft, LaunchInv, SpentInv, Accounted, TowardsStock
<1>8. ASSUME SwitchExpires PROVE ControlInv'
  <2>1. pending \in Pending /\ pending # None /\ pending' = [pending EXCEPT !.late = TRUE]
    BY <1>8, <1>a DEF TypeOK, SwitchExpires
  <2>2. pending' \in Pending /\ pending'.target = pending.target
    BY <2>1 DEF Pending
  <2>3. UNCHANGED <<state, foreground, recovery, failures, spent, loop, world, control, restore,
                    recent, faults>>
    BY <1>8 DEF SwitchExpires
  <2>4. TypeOK'
    BY <1>a, <2>2, <2>3 DEF TypeOK
  <2>5. TowardsStock' => TowardsStock
    BY <2>1, <2>2, <2>3 DEF TowardsStock
  <2> QED
    BY <2>2, <2>3, <2>4, <2>5
       DEF ControlInv, NothingLeft, LaunchInv, SpentInv, Accounted, StockActive, Planned, Has
<1>9. ASSUME RestoreExpires PROVE ControlInv'
  <2>1. recovery \in Recovery /\ recovery' = [recovery EXCEPT !.late = TRUE]
    BY <1>9, <1>a DEF TypeOK, RestoreExpires
  <2>2. recovery' \in Recovery
    BY <2>1 DEF Recovery
  <2>3. UNCHANGED <<state, foreground, pending, failures, spent, loop, world, control, restore,
                    recent, faults>>
    BY <1>9 DEF RestoreExpires
  <2>4. TypeOK'
    BY <1>a, <2>2, <2>3 DEF TypeOK
  <2> QED
    BY <2>3, <2>4, WorldMoves DEF StockActive
<1>10. ASSUME WindowPasses PROVE ControlInv'
  <2>1. TypeOK'
    BY <1>10, <1>a DEF TypeOK, WindowPasses
  <2> QED
    BY <1>10, <2>1, WorldMoves DEF StockActive, WindowPasses
<1>11. ASSUME NEW to \in Owners, WriteCommand(to) PROVE ControlInv'
  <2>1. TypeOK'
    BY <1>11, <1>a DEF TypeOK, WriteCommand
  <2> QED
    BY <1>11, <2>1, WorldMoves DEF StockActive, WriteCommand
<1>12. ASSUME RequestStop PROVE ControlInv'
  <2>1. /\ stop' \in BOOLEAN /\ StopTarget /\ onfail' \in BOOLEAN
        /\ UNCHANGED <<machine, loop, stock, shown, command, commands, rescue, rescues, recent,
                       faults>>
    BY <1>12, <1>a DEF TypeOK, RequestStop
  <2>2. TypeOK'
    BY <1>a, <2>1, StoppedTargetIsTyped DEF TypeOK
  <2> QED
    BY <2>1, <2>2, WorldMoves DEF StockActive
<1> QED
  BY <1>1, <1>2, <1>3, <1>4, <1>5, <1>6, <1>7, <1>8, <1>9, <1>10, <1>11, <1>12 DEF WorldNext

-----------------------------------------------------------------------------
(* The theorems. *)

LEMMA ControlHoldsAtFirst == ConstantsAssumption /\ Init => ControlInv
<1> SUFFICES ASSUME ConstantsAssumption, Init PROVE ControlInv
  OBVIOUS
<1>1. queued \in Seq(Events) /\ events \in Seq(Events) /\ todo \in Seq(Steps)
  BY DEF Init
<1>2. TypeOK
  BY <1>1 DEF Init, TypeOK, Owners
<1>3. ~Planned(Launch) /\ ~Planned({"start_target"})
  BY NothingPlanned DEF Init
<1> QED
  BY <1>2, <1>3
     DEF Init, ControlInv, NothingLeft, LaunchInv, SpentInv, Accounted, StockActive

LEMMA ControlIsKept ==
    ConstantsAssumption /\ ControlInv /\ [Next]_vars => ControlInv'
<1> SUFFICES ASSUME ConstantsAssumption, ControlInv, [Next]_vars PROVE ControlInv'
  OBVIOUS
<1>1. CASE HostNext
  BY <1>1, PassStep, HandleStep, ExecuteStep, RestoreStep DEF HostNext
<1>2. CASE WorldNext
  BY <1>2, WorldStep
<1>3. CASE UNCHANGED vars
  BY <1>3 DEF vars, machine, loop, world, control, restore, ControlInv, TypeOK, NothingLeft,
              LaunchInv, SpentInv, Accounted, TowardsStock, StockActive, ToldOfFailure, Planned,
              Has
<1> QED
  BY <1>1, <1>2, <1>3 DEF Next

(* What a supervisor that started at stock comes to satisfies it as well.     *)
LEMMA ControlHoldsInSession == SessionUp => ControlInv
<1> SUFFICES ASSUME SessionUp PROVE ControlInv
  OBVIOUS
<1>1. queued \in Seq(Events) /\ events \in Seq(Events) /\ todo \in Seq(Steps)
  BY DEF SessionUp
<1>2. TypeOK
  BY <1>1, HomeAssumption DEF SessionUp, TypeOK, Owners
<1>3. ~Planned(Launch) /\ ~Planned({"start_target"})
  BY NothingPlanned DEF SessionUp
<1>4. ~TowardsStock
  BY DEF SessionUp, TowardsStock
<1> QED
  BY <1>2, <1>3, <1>4
     DEF SessionUp, ControlInv, NothingLeft, LaunchInv, SpentInv, Accounted

LEMMA ControlHolds == AnySpec => []ControlInv
<1>1. Init \/ SessionUp => ControlInv
  BY ConstantsAssumption, ControlHoldsAtFirst, ControlHoldsInSession
<1>2. ControlInv /\ [Next]_vars => ControlInv'
  BY ConstantsAssumption, ControlIsKept
<1> QED
  BY <1>1, <1>2, PTL DEF AnySpec

(* The supervisor's variables keep their types: in particular no event and    *)
(* no plan names an owner that is not one (state.rs, runtime.rs).             *)
THEOREM TypeCorrect == AnySpec => []TypeOK
<1>1. ControlInv => TypeOK
  BY DEF ControlInv
<1> QED
  BY <1>1, ControlHolds, PTL

(* A supervisor that ends a pass at stock has stock running or a failed        *)
(* restore queued for the next pass (state.rs stock_running and settle,        *)
(* runtime.rs collect and restore).                                            *)
THEOREM StockIsAccountedFor == AnySpec => []StockTruth
<1>1. ControlInv => StockTruth
  <2> SUFFICES ASSUME ControlInv, host = "running", phase = "collect", state = "stock"
               PROVE  StockActive \/ ToldOfFailure(queued)
    BY DEF StockTruth
  <2>1. events = <<>> /\ todo = <<>>
    BY DEF ControlInv, NothingLeft
  <2>2. ~ToldOfFailure(events) /\ ~Planned(Restores)
    BY <2>1 DEF ToldOfFailure, Planned, Has
  <2> QED
    BY <2>2 DEF ControlInv, Accounted, TowardsStock
<1> QED
  BY <1>1, ControlHolds, PTL

(* A spent failure budget is obeyed for good: nothing that is asked for or     *)
(* happens afterwards starts the session target (state.rs begin_switch).       *)
THEOREM SpentBudgetIsFinal == AnySpec => SpentStaysAtStock
<1>1. ControlInv /\ [Next]_vars => [spent => (target' => target)]_vars
  <2> SUFFICES ASSUME ControlInv, Next, spent, target' PROVE target
    BY DEF vars
  <2> USE DEF world
  <2>1. CASE Collect \/ EndPass
    BY <2>1 DEF Collect, EndPass
  <2>2. CASE HandleNext
    BY <2>2 DEF HandleNext, SwitchRequested, ProcessReady, DisplayOwned, DisplayReleased,
                StockRunning, SessionExitedClean, SessionExitedFailed, ProgressStalled,
                DisplayHostLost, RestoreFailed, Tick, Handles
  <2>3. CASE ExecuteNext
    <3>1. ~Does("start_target")
      <4>1. ASSUME Does("start_target") PROVE FALSE
        <5>1. Head(todo) = todo[1] /\ 1 \in DOMAIN todo
          BY <4>1, TailKeeps DEF ControlInv, TypeOK, Does
        <5> QED
          BY <4>1, <5>1 DEF Does, ControlInv, SpentInv, Planned, Has
      <4> QED
        BY <4>1
    <3> QED
      BY <2>3, <3>1 DEF ExecuteNext, Terminate, ReleaseSession, StopCompositor, BeginSession,
                        StartSessionTarget, StartCompositor, StartApp, SystemdRefuses, Halt
  <2>4. CASE RestoreNext("host") \/ RestoreNext("unit")
    <3>1. StopTarget => target
      BY DEF StopTarget
    <3> QED
      BY <2>4, <3>1 DEF RestoreNext, RestoreCheck, RestoreStart, RestoreRefused, RestoreUp,
                        RestoreTimesOut, StartStock
  <2>5. CASE WorldNext
    <3>1. StopTarget => target
      BY DEF StopTarget
    <3> QED
      BY <2>4, <2>5, <3>1 DEF WorldNext, RescueStarts, StockAnswers, CompositorWrites, AppExits,
              AppCrashes, AppHangs, CompositorCrashes, HostKilled, SwitchExpires, RestoreExpires,
              WindowPasses, WriteCommand, RequestStop
  <2> QED
    BY <2>1, <2>2, <2>3, <2>4, <2>5 DEF Next, HostNext
<1> QED
  BY <1>1, ControlHolds, PTL DEF AnySpec, SpentStaysAtStock

=============================================================================
