------------------------ MODULE CaptureLifecycle_proofs ------------------------
(***************************************************************************)
(* Proofs about CaptureLifecycle, for any calendar, number of days and of  *)
(* mishaps: capture and sweep never meet on the files of a date, and a     *)
(* maintenance that was granted is quiet.                                  *)
(***************************************************************************)
EXTENDS CaptureLifecycle, SequenceTheorems, TLAPS

\* All that a tick can have decided on, and what is left of it.
Plans == {<<>>, <<"FETCH">>, <<"START">>, <<"STOP">>, <<"RUN_EOD">>,
          <<"FETCH", "START">>, <<"FETCH", "STOP">>, <<"STOP", "RUN_EOD">>}

\* TypeOK, with the plans there are.
Typed ==
  /\ day \in 1..MaxDay /\ part \in 1..4
  /\ up \in BOOLEAN /\ exiting \in {"no", "asked", "closing"}
  /\ task \in {"none", "live", "done"} /\ failed \in BOOLEAN
  /\ draining \in BOOLEAN /\ orphaned \in BOOLEAN
  /\ holder \in {"nobody", "automation", "maintenance", "shutdown"}
  /\ plan \in Plans /\ eodDone \in 0..MaxDay /\ eodBusy \in 0..MaxDay
  /\ session \in {"none", "unready", "ready"}
  /\ lease \in BOOLEAN /\ grant \in {"none", "awaited", "known", "lost"}
  /\ trouble \in 0..MaxTrouble

\* Writers go on without their task only after a failure, and nothing is started
\* after one, or where a lost session left them: a stop that succeeds leaves nothing
\* else writing.
QuietInv ==
  /\ draining => failed \/ orphaned
  /\ Running => ~failed
  /\ holder = "automation" => Dispatching("STOP")
  /\ SweepOnlyWhenQuiet
  /\ MaintenanceIsQuiet

\* A date is swept in its evening at the earliest, and a start still to be
\* dispatched was decided on before that: no later tick has decided on a sweep.
DateInv ==
  /\ eodDone <= day /\ eodBusy <= day
  /\ eodDone = day \/ eodBusy = day => part = 4
  /\ plan \in {<<"START">>, <<"FETCH", "START">>} => eodDone < day
  /\ SweptDayIsOver

IInv == Typed /\ QuietInv /\ DateInv

----------------------------------------------------------------------------
(* Plans. *)

\* One action after another.
LEMMA TwoActions ==
  ASSUME NEW a \in Actions, NEW b \in Actions
  PROVE  <<a>> \o <<b>> = <<a, b>>
<1>1. <<a>> \in Seq(Actions) /\ <<b>> \in Seq(Actions) /\ <<a, b>> \in Seq(Actions)
  OBVIOUS
<1> DEFINE s == <<a>> \o <<b>>
<1>2. s \in Seq(Actions) /\ Len(s) = 2 /\ s[1] = a /\ s[2] = b
  BY <1>1, ConcatProperties
<1>3. Len(s) = Len(<<a, b>>) /\ \A i \in 1..Len(s) : s[i] = <<a, b>>[i]
  BY <1>2
<1> HIDE DEF s
<1>4. s = <<a, b>>
  BY <1>1, <1>2, <1>3, SeqEqual
<1> QED
  BY <1>4 DEF s

\* One action alone.
LEMMA OneAction ==
  ASSUME NEW a \in Actions
  PROVE  Head(<<a>>) = a /\ Tail(<<a>>) = <<>>
<1>1. <<a>> \in Seq(Actions) /\ <<a>> # <<>>
  OBVIOUS
<1>2. Tail(<<a>>) \in Seq(Actions) /\ Len(Tail(<<a>>)) = 0
  BY <1>1, HeadTailProperties
<1> QED
  BY <1>2, EmptySeq

\* What is left of a plan is one, and what its first action tells of it.
LEMMA PlanRest ==
  ASSUME NEW p \in Plans, p # <<>>
  PROVE  /\ Tail(p) \in Plans
         /\ Head(p) = "FETCH" => Tail(p) \in {<<>>, <<"START">>, <<"STOP">>}
         /\ Head(p) = "FETCH" /\ Tail(p) = <<"START">> => p = <<"FETCH", "START">>
         /\ Head(p) = "START" => p = <<"START">>
         /\ Head(p) = "STOP" => Tail(p) \in {<<>>, <<"RUN_EOD">>}
         /\ Head(p) = "RUN_EOD" => p = <<"RUN_EOD">>
         /\ Head(p) \in Actions
<1>1. CASE p \in {<<"FETCH">>, <<"START">>, <<"STOP">>, <<"RUN_EOD">>}
  <2>1. \A a \in Actions : p = <<a>> => Head(p) = a /\ Tail(p) = <<>>
    BY OneAction
  <2> QED
    BY <1>1, <2>1 DEF Plans, Actions
<1>2. CASE p = <<"FETCH", "START">>
  <2>1. Head(p) = "FETCH" /\ Tail(p) = <<"START">>
    BY <1>2
  <2> QED
    BY <1>2, <2>1 DEF Plans, Actions
<1>3. CASE p = <<"FETCH", "STOP">>
  <2>1. Head(p) = "FETCH" /\ Tail(p) = <<"STOP">>
    BY <1>3
  <2>2. <<"STOP">> # <<"START">>
    OBVIOUS
  <2> QED
    BY <1>3, <2>1, <2>2 DEF Plans, Actions
<1>4. CASE p = <<"STOP", "RUN_EOD">>
  <2>1. Head(p) = "STOP" /\ Tail(p) = <<"RUN_EOD">>
    BY <1>4
  <2> QED
    BY <1>4, <2>1 DEF Plans, Actions
<1> QED
  BY <1>1, <1>2, <1>3, <1>4 DEF Plans

\* A plan is a sequence of actions.
LEMMA PlansTyped == Plans \subseteq Seq(Actions)
  BY DEF Plans, Actions

\* The parts of a day by number.
LEMMA PartsOfDay ==
  /\ Len(Parts) = 4
  /\ \A p \in 1..4 : (Parts[p] = "window" <=> p = 2) /\ (Parts[p] = "evening" <=> p = 4)
                     /\ (Parts[p] = "auth" <=> p = 1)
  BY DEF Parts

\* A tick decides on a plan that begins with no sweep; a start is decided on in
\* the capture window, and a sweep with a stop before it.
LEMMA Decided ==
  ASSUME Typed, NEW due \in BOOLEAN
  PROVE  /\ Decide(due) \in Plans /\ Decide(due) # <<"RUN_EOD">>
         /\ Decide(due) \in {<<"START">>, <<"FETCH", "START">>} => part = 2
<1> DEFINE F == If(Fetch(due), "FETCH")
           S == If(InWindow /\ session = "ready" /\ ~Running, "START")
           T == If(~InWindow /\ (Running \/ RunEod), "STOP")
           E == If(RunEod, "RUN_EOD")
<1>1. CASE ~TradingDay
  BY <1>1 DEF Decide, If, Plans
<1>2. CASE TradingDay
  <2>1. Decide(due) = ((F \o S) \o T) \o E
    BY <1>2 DEF Decide
  <2>2. /\ F \in {<<>>, <<"FETCH">>} /\ S \in {<<>>, <<"START">>}
        /\ T \in {<<>>, <<"STOP">>} /\ E \in {<<>>, <<"RUN_EOD">>}
    BY DEF If
  <2>3. /\ S # <<>> => part = 2 /\ T = <<>>
        /\ E # <<>> => F = <<>> /\ S = <<>> /\ T = <<"STOP">>
    BY PartsOfDay DEF If, InWindow, RunEod, Fetch, Typed
  <2> HIDE DEF F, S, T, E
  <2>4. \A s \in Seq(Actions): s \o <<>> = s /\ <<>> \o s = s
    OBVIOUS
  <2>5. /\ <<"STOP">> \o <<"RUN_EOD">> = <<"STOP", "RUN_EOD">>
        /\ <<"FETCH">> \o <<"START">> = <<"FETCH", "START">>
        /\ <<"FETCH">> \o <<"STOP">> = <<"FETCH", "STOP">>
    BY TwoActions DEF Actions
  <2>6. /\ {<<>>, <<"FETCH">>, <<"START">>, <<"STOP">>, <<"RUN_EOD">>} \subseteq Seq(Actions)
        /\ <<"FETCH", "START">> \in Seq(Actions) /\ <<"FETCH", "STOP">> \in Seq(Actions)
    BY DEF Actions
  <2>7. /\ <<"STOP">> # <<>> /\ <<"RUN_EOD">> # <<>> /\ <<"START">> # <<>>
        /\ \A s \in {<<>>, <<"FETCH">>, <<"STOP">>, <<"FETCH", "STOP">>, <<"STOP", "RUN_EOD">>} :
              s # <<"START">> /\ s # <<"FETCH", "START">> /\ s # <<"RUN_EOD">>
        /\ <<"START">> # <<"RUN_EOD">> /\ <<"FETCH", "START">> # <<"RUN_EOD">>
    OBVIOUS
  <2>8. CASE E # <<>>
    <3>1. Decide(due) = <<"STOP", "RUN_EOD">>
      <4>1. F = <<>> /\ S = <<>> /\ T = <<"STOP">> /\ E = <<"RUN_EOD">>
        BY <2>2, <2>3, <2>8
      <4> QED
        BY <2>1, <4>1, <2>4, <2>5, <2>6
    <3> QED
      BY <3>1, <2>7 DEF Plans
  <2>9. CASE E = <<>> /\ S # <<>>
    <3>1. Decide(due) = F \o <<"START">> /\ part = 2
      BY <2>1, <2>2, <2>3, <2>4, <2>5, <2>6, <2>9
    <3> QED
      BY <3>1, <2>2, <2>4, <2>5, <2>6, <2>7 DEF Plans
  <2>10. CASE E = <<>> /\ S = <<>>
    <3>1. Decide(due) = F \o T
      BY <2>1, <2>2, <2>4, <2>5, <2>6, <2>10
    <3>2. Decide(due) \in {<<>>, <<"FETCH">>, <<"STOP">>, <<"FETCH", "STOP">>}
      BY <3>1, <2>2, <2>4, <2>5, <2>6
    <3> QED
      BY <3>2, <2>7 DEF Plans
  <2> QED
    BY <2>8, <2>9, <2>10
<1> QED
  BY <1>1, <1>2

----------------------------------------------------------------------------
(* The steps. *)

\* What the steps need to know of plans, in one place.
PlanFacts ==
  /\ plan # <<>> =>
       /\ Tail(plan) \in Plans
       /\ Head(plan) = "FETCH" => Tail(plan) \in {<<>>, <<"START">>, <<"STOP">>}
       /\ Head(plan) = "FETCH" /\ Tail(plan) = <<"START">> => plan = <<"FETCH", "START">>
       /\ Head(plan) = "START" => plan = <<"START">> /\ Tail(plan) = <<>>
       /\ Head(plan) = "STOP" => Tail(plan) \in {<<>>, <<"RUN_EOD">>}
       /\ Head(plan) = "RUN_EOD" => Tail(plan) = <<>>
  /\ <<>> \in Plans
  /\ \A p \in {<<>>, <<"STOP">>, <<"RUN_EOD">>} : p # <<"START">> /\ p # <<"FETCH", "START">>
  /\ <<"START">> # <<"FETCH", "START">>
  /\ Head(<<"START">>) = "START" /\ Head(<<"STOP">>) = "STOP"

\* Every plan there can be is one of which this holds.
LEMMA PlanIsKnown == Typed => PlanFacts
<1> SUFFICES ASSUME Typed PROVE PlanFacts
  OBVIOUS
<1>1. plan \in Plans /\ <<>> \in Plans
  BY DEF Typed, Plans
<1>2. \A a \in Actions : Head(<<a>>) = a /\ Tail(<<a>>) = <<>>
  BY OneAction
<1>3. /\ \A p \in {<<>>, <<"STOP">>, <<"RUN_EOD">>} : p # <<"START">> /\ p # <<"FETCH", "START">>
      /\ <<"START">> # <<"FETCH", "START">>
  OBVIOUS
<1>4. {"START", "STOP", "RUN_EOD"} \subseteq Actions
  BY DEF Actions
<1> QED
  BY <1>1, <1>2, <1>3, <1>4, PlanRest DEF PlanFacts

\* The first day begins with nothing planned, swept or running.
LEMMA InitIInv == Init => IInv
<1> SUFFICES ASSUME Init PROVE IInv
  OBVIOUS
<1>1. Typed
  <2>1. plan \in Plans
    BY DEF Init, Plans
  <2>2. /\ up \in BOOLEAN /\ failed \in BOOLEAN /\ draining \in BOOLEAN /\ lease \in BOOLEAN
    BY DEF Init
  <2>3. /\ day \in 1..MaxDay /\ part \in 1..4 /\ trouble \in 0..MaxTrouble
        /\ eodDone \in 0..MaxDay /\ eodBusy \in 0..MaxDay
    BY CaptureLifecycleAssumption DEF Init
  <2> QED
    BY <2>1, <2>2, <2>3 DEF Init, Typed
<1>2. QuietInv
  BY DEF Init, QuietInv, Running, Sweeping, Dispatching, SweepOnlyWhenQuiet, Quiet,
     MaintenanceIsQuiet
<1>3. DateInv
  BY <1>1, PlanIsKnown DEF Init, DateInv, PlanFacts, SweptDayIsOver
<1> QED
  BY <1>1, <1>2, <1>3 DEF IInv

\* Time passes no date by: what was swept stays in the past.
LEMMA TimeKeeps == IInv /\ TimePasses => IInv'
<1> SUFFICES ASSUME IInv, TimePasses PROVE IInv'
  OBVIOUS
<1>1. /\ day' \in 1..MaxDay /\ part' \in 1..4 /\ day' >= day
      /\ day' = day => part' > part
      /\ session' \in {session, "none"}
      /\ UNCHANGED <<process, controller, automation, maintenance, trouble>>
  BY CaptureLifecycleAssumption, PartsOfDay DEF TimePasses, IInv, Typed
<1>2. Typed'
  BY <1>1 DEF IInv, Typed, process, writers, controller, automation, maintenance
<1>3. QuietInv'
  BY <1>1 DEF IInv, QuietInv, process, writers, controller, automation, maintenance,
     Running, Sweeping, Dispatching, SweepOnlyWhenQuiet, Quiet, MaintenanceIsQuiet
<1>4. DateInv'
  BY <1>1 DEF IInv, Typed, DateInv, SweptDayIsOver, Running, controller, automation
<1> QED
  BY <1>2, <1>3, <1>4 DEF IInv

\* A tick decides on no sweep without a stop before it, nor on a start in the evening.
LEMMA TickKeeps == IInv /\ Tick => IInv'
<1> SUFFICES ASSUME IInv, Tick PROVE IInv'
  OBVIOUS
<1>1. PICK due \in BOOLEAN : plan' = Decide(due)
  BY DEF Tick
<1>2. /\ plan' \in Plans /\ plan' # <<"RUN_EOD">>
      /\ plan' \in {<<"START">>, <<"FETCH", "START">>} => part = 2
  BY <1>1, Decided DEF IInv
<1>3. /\ eodBusy' \in {eodBusy, day} /\ (eodBusy' # eodBusy => part = 4)
      /\ UNCHANGED <<day, part, task, failed, draining, orphaned, holder, eodDone, lease>>
      /\ UNCHANGED <<up, exiting, session, grant, trouble>>
      /\ plan = <<>>
  BY PartsOfDay DEF Tick, IInv, Typed, RunEod, clock, process, writers, controller,
     maintenance
<1>4. Typed'
  BY <1>2, <1>3 DEF IInv, Typed
<1>5. ~Sweeping'
  BY <1>2, PlanRest DEF Sweeping, Dispatching
<1>6. QuietInv'
  BY <1>3, <1>5 DEF IInv, QuietInv, Running, Dispatching, SweepOnlyWhenQuiet, Quiet,
     MaintenanceIsQuiet
<1>7. DateInv'
  BY <1>2, <1>3 DEF IInv, Typed, DateInv, SweptDayIsOver, Running
<1> QED
  BY <1>4, <1>6, <1>7 DEF IInv

\* The other actions of the tick: a start finds no sweep done, a sweep nobody writing.
LEMMA DispatchKeeps ==
  ASSUME IInv, FetchReturns \/ LogIn \/ StartCapture \/ StartRefused \/ StartFails
               \/ SweepEnds \/ SweepFails
  PROVE  IInv'
<1>0. Typed /\ QuietInv /\ DateInv
  BY DEF IInv
<1>1. PlanFacts
  BY <1>0, PlanIsKnown
<1>2. CASE FetchReturns
  <2>0. /\ plan' \in {<<>>, <<"START">>, <<"STOP">>} /\ plan' \in Plans
        /\ plan' = <<"START">> => eodDone < day
        /\ holder # "automation" /\ ~Sweeping'
    BY <1>0, <1>1, <1>2 DEF FetchReturns, Typed, QuietInv, DateInv, PlanFacts,
       Dispatching, Sweeping
  <2>1. Typed'
    BY <1>0, <1>2, <2>0 DEF FetchReturns, Typed, clock, process, writers, controller,
       automation, maintenance
  <2>2. QuietInv'
    BY <1>0, <1>2, <2>0 DEF FetchReturns, QuietInv, Running, Sweeping, Dispatching,
       SweepOnlyWhenQuiet, Quiet, MaintenanceIsQuiet, clock, process, writers, controller,
       automation, maintenance
  <2>3. DateInv'
    <3>1. UNCHANGED <<day, part, eodDone, eodBusy, up, task>>
      BY <1>2 DEF FetchReturns, clock, process, writers, controller
    <3>2. SweptDayIsOver'
      BY <1>0, <3>1 DEF DateInv, SweptDayIsOver, Running
    <3>3. plan' \in {<<"START">>, <<"FETCH", "START">>} => eodDone' < day'
      <4>1. /\ <<"START">> # <<>> /\ <<"START">> # <<"STOP">>
            /\ \A s \in {<<>>, <<"START">>, <<"STOP">>} : s # <<"FETCH", "START">>
        OBVIOUS
      <4> QED
        BY <2>0, <3>1, <4>1
    <3> QED
      BY <1>0, <3>1, <3>2, <3>3 DEF DateInv
  <2> QED
    BY <2>1, <2>2, <2>3 DEF IInv
<1>3. CASE LogIn
  <2>1. Typed'
    BY <1>0, <1>3 DEF LogIn, Typed, clock, process, writers, controller, automation,
       maintenance
  <2>2. QuietInv'
    BY <1>0, <1>3 DEF LogIn, QuietInv, Running, Sweeping, Dispatching, SweepOnlyWhenQuiet,
       Quiet, MaintenanceIsQuiet, clock, process, writers, controller, automation,
       maintenance
  <2>3. DateInv'
    BY <1>0, <1>3 DEF LogIn, Typed, DateInv, SweptDayIsOver, Running, clock, process,
       writers, controller, automation, maintenance
  <2> QED
    BY <2>1, <2>2, <2>3 DEF IInv
<1>4. CASE StartCapture
  <2>0. plan = <<"START">> /\ plan' = <<>> /\ holder = "nobody"
    BY <1>1, <1>4 DEF StartCapture, PlanFacts, Dispatching
  <2>1. Typed'
    BY <1>0, <1>4, <1>1, <2>0 DEF PlanFacts, StartCapture, Startable, Typed, clock,
       process, writers, controller, automation, maintenance
  <2>2. QuietInv'
    BY <1>0, <1>4, <1>1, <2>0 DEF PlanFacts, StartCapture, Startable, QuietInv, Running,
       Sweeping, Dispatching, SweepOnlyWhenQuiet, Quiet, MaintenanceIsQuiet, clock,
       process, writers, controller, automation, maintenance
  <2>3. DateInv'
    BY <1>0, <1>4, <1>1, <2>0 DEF PlanFacts, StartCapture, Startable, Typed, DateInv,
       SweptDayIsOver, Running, clock, process, writers, controller, automation,
       maintenance
  <2> QED
    BY <2>1, <2>2, <2>3 DEF IInv
<1>5. CASE StartRefused
  <2>0. plan = <<"START">> /\ plan' = <<>> /\ holder = "nobody"
    BY <1>1, <1>5 DEF StartRefused, PlanFacts, Dispatching
  <2>1. Typed'
    BY <1>0, <1>5, <1>1, <2>0 DEF PlanFacts, StartRefused, Typed, clock, process, writers,
       controller, automation, maintenance
  <2>2. QuietInv'
    BY <1>0, <1>5, <1>1, <2>0 DEF PlanFacts, StartRefused, QuietInv, Running, Sweeping,
       Dispatching, SweepOnlyWhenQuiet, Quiet, MaintenanceIsQuiet, clock, process,
       writers, controller, automation, maintenance
  <2>3. DateInv'
    BY <1>0, <1>5, <1>1, <2>0 DEF PlanFacts, StartRefused, Typed, DateInv, SweptDayIsOver,
       Running, clock, process, writers, controller, automation, maintenance
  <2> QED
    BY <2>1, <2>2, <2>3 DEF IInv
<1>6. CASE StartFails
  <2>0. plan = <<"START">> /\ plan' = <<>> /\ holder = "nobody"
    BY <1>1, <1>6 DEF StartFails, PlanFacts, Dispatching
  <2>1. Typed'
    BY <1>0, <1>6, <1>1, <2>0, CaptureLifecycleAssumption DEF PlanFacts, StartFails,
       Mishap, Typed, clock, process, writers, controller, automation, maintenance
  <2>2. QuietInv'
    BY <1>0, <1>6, <1>1, <2>0 DEF PlanFacts, StartFails, Mishap, QuietInv, Running,
       Sweeping, Dispatching, SweepOnlyWhenQuiet, Quiet, MaintenanceIsQuiet, clock,
       process, writers, controller, automation, maintenance
  <2>3. DateInv'
    BY <1>0, <1>6, <1>1, <2>0 DEF PlanFacts, StartFails, Mishap, Typed, DateInv,
       SweptDayIsOver, Running, clock, process, writers, controller, automation,
       maintenance
  <2> QED
    BY <2>1, <2>2, <2>3 DEF IInv
<1>7. CASE SweepEnds
  <2>0. plan' = <<>> /\ holder # "automation" /\ ~Running /\ (draining => orphaned)
    BY <1>0, <1>1, <1>7 DEF SweepEnds, QuietInv, SweepOnlyWhenQuiet, Quiet, PlanFacts,
       Dispatching, Sweeping
  <2>numbers. eodDone' = eodBusy /\ eodBusy' = 0 /\ trouble' = trouble /\ plan' \in Plans
    BY <1>1, <1>7, <2>0 DEF SweepEnds, PlanFacts
  <2>1. Typed'
    BY <1>0, <1>7, <2>0, <2>numbers, CaptureLifecycleAssumption DEF SweepEnds, Typed,
       clock, process, writers, controller, automation, maintenance
  <2>2. QuietInv'
    BY <1>0, <1>7, <1>1, <2>0 DEF SweepEnds, QuietInv, Running, Sweeping, Dispatching,
       SweepOnlyWhenQuiet, Quiet, MaintenanceIsQuiet, clock, process, writers, controller,
       automation, maintenance
  <2>3. DateInv'
    BY <1>0, <1>7, <1>1, <2>0, CaptureLifecycleAssumption DEF SweepEnds, Typed, DateInv,
       SweptDayIsOver, Running, clock, process, writers, controller, automation,
       maintenance
  <2> QED
    BY <2>1, <2>2, <2>3 DEF IInv
<1>8. CASE SweepFails
  <2>0. plan' = <<>> /\ holder # "automation" /\ ~Running /\ (draining => orphaned)
    BY <1>0, <1>1, <1>8 DEF SweepFails, QuietInv, SweepOnlyWhenQuiet, Quiet, PlanFacts,
       Dispatching, Sweeping
  <2>1. Typed'
    BY <1>0, <1>8, <1>1, <2>0, CaptureLifecycleAssumption DEF PlanFacts, SweepFails,
       Mishap, Typed, clock, process, writers, controller, automation, maintenance
  <2>2. QuietInv'
    BY <1>0, <1>8, <1>1, <2>0 DEF PlanFacts, SweepFails, Mishap, QuietInv, Running,
       Sweeping, Dispatching, SweepOnlyWhenQuiet, Quiet, MaintenanceIsQuiet, clock,
       process, writers, controller, automation, maintenance
  <2>3. DateInv'
    BY <1>0, <1>8, <1>1, <2>0, CaptureLifecycleAssumption DEF PlanFacts, SweepFails,
       Mishap, Typed, DateInv, SweptDayIsOver, Running, clock, process, writers,
       controller, automation, maintenance
  <2> QED
    BY <2>1, <2>2, <2>3 DEF IInv
<1> QED
  BY <1>2, <1>3, <1>4, <1>5, <1>6, <1>7, <1>8

\* Whoever stops capture learns of what may still be writing.
LEMMA StopKeeps ==
  ASSUME IInv, AutomationStops \/ AcquireMaintenance \/ ShutdownStops \/ StopReturns \/ StopTimesOut
  PROVE  IInv'
<1>0. Typed /\ QuietInv /\ DateInv
  BY DEF IInv
<1>1. PlanFacts
  BY <1>0, PlanIsKnown
<1>2. CASE AutomationStops
  <2>1. Typed'
    BY <1>0, <1>2 DEF AutomationStops, Typed, clock, process, writers, controller,
       automation, maintenance
  <2>2. QuietInv'
    BY <1>0, <1>2 DEF AutomationStops, QuietInv, Running, Sweeping, Dispatching,
       SweepOnlyWhenQuiet, Quiet, MaintenanceIsQuiet, clock, process, writers, controller,
       automation, maintenance
  <2>3. DateInv'
    BY <1>0, <1>2 DEF AutomationStops, Typed, DateInv, SweptDayIsOver, Running, clock,
       process, writers, controller, automation, maintenance
  <2> QED
    BY <2>1, <2>2, <2>3 DEF IInv
<1>3. CASE AcquireMaintenance
  <2>1. Typed'
    BY <1>0, <1>3, CaptureLifecycleAssumption DEF AcquireMaintenance, Mishap, Typed,
       clock, process, writers, controller, automation, maintenance
  <2>2. QuietInv'
    BY <1>0, <1>3 DEF AcquireMaintenance, Mishap, QuietInv, Running, Sweeping,
       Dispatching, SweepOnlyWhenQuiet, Quiet, MaintenanceIsQuiet, clock, process,
       writers, controller, automation, maintenance
  <2>3. DateInv'
    BY <1>0, <1>3 DEF AcquireMaintenance, Mishap, Typed, DateInv, SweptDayIsOver, Running,
       clock, process, writers, controller, automation, maintenance
  <2> QED
    BY <2>1, <2>2, <2>3 DEF IInv
<1>4. CASE ShutdownStops
  <2>1. Typed'
    BY <1>0, <1>4 DEF ShutdownStops, Typed, clock, process, writers, controller,
       automation, maintenance
  <2>2. QuietInv'
    BY <1>0, <1>4 DEF ShutdownStops, QuietInv, Running, Sweeping, Dispatching,
       SweepOnlyWhenQuiet, Quiet, MaintenanceIsQuiet, clock, process, writers, controller,
       automation, maintenance
  <2>3. DateInv'
    BY <1>0, <1>4 DEF ShutdownStops, Typed, DateInv, SweptDayIsOver, Running, clock,
       process, writers, controller, automation, maintenance
  <2> QED
    BY <2>1, <2>2, <2>3 DEF IInv
<1>5. CASE StopReturns
  <2>0. /\ holder \in {"automation", "maintenance", "shutdown"} /\ holder' = "nobody"
        /\ UNCHANGED <<day, part, up, exiting, session>> /\ trouble' \in 0..MaxTrouble
        /\ task' = "none" /\ failed' \in BOOLEAN /\ draining' \in BOOLEAN
        /\ orphaned' \in BOOLEAN /\ (draining' => failed' \/ orphaned')
        /\ ~Running'
    BY <1>0, <1>5, CaptureLifecycleAssumption DEF StopReturns, Typed, QuietInv, Running,
       clock, process, writers
  <2>1. /\ plan' \in {plan, <<>>, Tail(plan)} /\ plan' \in Plans
        /\ plan' # plan => holder = "automation"
        /\ plan' \in {<<"START">>, <<"FETCH", "START">>} => plan' = plan
        /\ Sweeping' => Sweeping \/ ~failed'
        /\ eodDone' \in {eodDone, 0} /\ eodBusy' \in {eodBusy, 0}
        /\ lease' = lease /\ grant' \in {grant, "known", "lost"}
        /\ grant' = "known" => grant = "known" \/ ~failed'
    BY <1>0, <1>1, <1>5, <2>0 DEF StopReturns, Answer, Typed, QuietInv, PlanFacts,
       Dispatching, Sweeping, automation, maintenance
  <2>2. Typed'
    BY <1>0, <2>0, <2>1, CaptureLifecycleAssumption DEF Typed
  <2>3. UNCHANGED <<draining, orphaned>>
    BY <1>5 DEF StopReturns, writers
  <2>4. QuietInv'
    BY <1>0, <2>0, <2>1, <2>3 DEF QuietInv, Running, SweepOnlyWhenQuiet, Quiet,
       MaintenanceIsQuiet
  <2>5. DateInv'
    <3>1. /\ eodDone' <= day /\ eodBusy' <= day
          /\ (eodDone' = day => eodDone = day) /\ (eodBusy' = day => eodBusy = day)
      BY <1>0, <2>1, CaptureLifecycleAssumption DEF Typed, DateInv
    <3>2. ~Running'
      BY <2>0 DEF Running
    <3>3. plan' \in {<<"START">>, <<"FETCH", "START">>} => eodDone' < day
      BY <1>0, <2>1, CaptureLifecycleAssumption DEF Typed, DateInv
    <3> QED
      BY <1>0, <2>0, <3>1, <3>2, <3>3 DEF DateInv, SweptDayIsOver
  <2> QED
    BY <2>2, <2>4, <2>5 DEF IInv
<1>6. CASE StopTimesOut
  <2>0. /\ holder \in {"automation", "maintenance", "shutdown"} /\ holder' = "nobody"
        /\ UNCHANGED <<day, part, up, exiting, session>> /\ trouble' \in 0..MaxTrouble
        /\ task' = "none" /\ failed' \in BOOLEAN /\ draining' \in BOOLEAN
        /\ orphaned' \in BOOLEAN /\ (draining' => failed' \/ orphaned')
        /\ ~Running'
    <3>1. /\ failed' = TRUE /\ draining' \in {draining, TRUE} /\ orphaned' = orphaned
          /\ draining \in BOOLEAN /\ orphaned \in BOOLEAN
      BY <1>0, <1>6 DEF StopTimesOut, Typed
    <3>2. failed' \in BOOLEAN /\ draining' \in BOOLEAN /\ orphaned' \in BOOLEAN
      BY <3>1, Zenon
    <3> QED
      BY <1>0, <1>6, <3>1, <3>2, CaptureLifecycleAssumption DEF StopTimesOut, Mishap,
         Typed, Running, clock, process
  <2>1. /\ plan' \in {plan, <<>>, Tail(plan)} /\ plan' \in Plans
        /\ plan' # plan => holder = "automation"
        /\ plan' \in {<<"START">>, <<"FETCH", "START">>} => plan' = plan
        /\ Sweeping' => Sweeping \/ ~failed'
        /\ eodDone' \in {eodDone, 0} /\ eodBusy' \in {eodBusy, 0}
        /\ lease' = lease /\ grant' \in {grant, "known", "lost"}
        /\ grant' = "known" => grant = "known" \/ ~failed'
    BY <1>0, <1>1, <1>6, <2>0 DEF StopTimesOut, Answer, Typed, QuietInv, PlanFacts,
       Dispatching, Sweeping, automation, maintenance
  <2>2. Typed'
    BY <1>0, <2>0, <2>1, CaptureLifecycleAssumption DEF Typed
  <2>3. Running /\ failed' = TRUE
    BY <1>6 DEF StopTimesOut
  <2>4. QuietInv'
    BY <1>0, <2>0, <2>1, <2>3 DEF QuietInv, Running, SweepOnlyWhenQuiet, Quiet,
       MaintenanceIsQuiet
  <2>5. DateInv'
    <3>1. /\ eodDone' <= day /\ eodBusy' <= day
          /\ (eodDone' = day => eodDone = day) /\ (eodBusy' = day => eodBusy = day)
      BY <1>0, <2>1, CaptureLifecycleAssumption DEF Typed, DateInv
    <3>2. ~Running'
      BY <2>0 DEF Running
    <3>3. plan' \in {<<"START">>, <<"FETCH", "START">>} => eodDone' < day
      BY <1>0, <2>1, CaptureLifecycleAssumption DEF Typed, DateInv
    <3> QED
      BY <1>0, <2>0, <3>1, <3>2, <3>3 DEF DateInv, SweptDayIsOver
  <2> QED
    BY <2>2, <2>4, <2>5 DEF IInv
<1> QED
  BY <1>2, <1>3, <1>4, <1>5, <1>6

\* The task, the lease and the process: only a task that ran leaves writers behind.
LEMMA RestKeeps ==
  ASSUME IInv, TaskStops \/ TaskLosesSession \/ TaskCrashes \/ DrainingEnds
               \/ ReleaseMaintenance \/ LeaseExpires
               \/ OperatorTerminates \/ CloseLifespan \/ Exit \/ Killed \/ Boot
  PROVE  IInv'
<1>0. Typed /\ QuietInv /\ DateInv
  BY DEF IInv
<1>1. PlanFacts
  BY <1>0, PlanIsKnown
<1>2. CASE TaskStops
  <2>1. Typed'
    BY <1>0, <1>2 DEF TaskStops, Typed, clock, process, writers, controller, automation,
       maintenance
  <2>2. QuietInv'
    BY <1>0, <1>2 DEF TaskStops, QuietInv, Running, Sweeping, Dispatching,
       SweepOnlyWhenQuiet, Quiet, MaintenanceIsQuiet, clock, process, writers, controller,
       automation, maintenance
  <2>3. DateInv'
    BY <1>0, <1>2 DEF TaskStops, Typed, DateInv, SweptDayIsOver, Running, clock, process,
       writers, controller, automation, maintenance
  <2> QED
    BY <2>1, <2>2, <2>3 DEF IInv
<1>3. CASE TaskLosesSession
  <2>flags. failed' \in BOOLEAN
    BY <1>3 DEF TaskLosesSession
  <2>numbers. /\ plan' \in Plans /\ trouble' \in 0..MaxTrouble
        /\ eodDone' \in 0..MaxDay /\ eodBusy' \in 0..MaxDay
    BY <1>0, <1>1, <1>3, CaptureLifecycleAssumption DEF TaskLosesSession, Mishap,
       PlanFacts, Typed, automation
  <2>1. Typed'
    BY <1>0, <1>3, <2>flags, <2>numbers DEF TaskLosesSession, Mishap, Typed, clock,
       process, writers, controller, automation, maintenance
  <2>2. QuietInv'
    BY <1>0, <1>3 DEF TaskLosesSession, Mishap, QuietInv, Running, Sweeping, Dispatching,
       SweepOnlyWhenQuiet, Quiet, MaintenanceIsQuiet, clock, process, writers, controller,
       automation, maintenance
  <2>3. DateInv'
    BY <1>0, <1>3 DEF TaskLosesSession, Mishap, Typed, DateInv, SweptDayIsOver, Running,
       clock, process, writers, controller, automation, maintenance
  <2> QED
    BY <2>1, <2>2, <2>3 DEF IInv
<1>4. CASE TaskCrashes
  <2>flags. failed' \in BOOLEAN /\ draining' \in BOOLEAN
    <3>1. failed' = TRUE /\ draining' \in {draining, TRUE} /\ draining \in BOOLEAN
      BY <1>0, <1>4 DEF TaskCrashes, Typed
    <3> QED
      BY <3>1, Zenon
  <2>1. Typed'
    BY <1>0, <1>4, <2>flags, CaptureLifecycleAssumption DEF TaskCrashes, Mishap, Typed,
       clock, process, controller, automation, maintenance
  <2>2. QuietInv'
    BY <1>0, <1>4 DEF TaskCrashes, Mishap, QuietInv, Running, Sweeping, Dispatching,
       SweepOnlyWhenQuiet, Quiet, MaintenanceIsQuiet, clock, process, writers, controller,
       automation, maintenance
  <2>3. DateInv'
    BY <1>0, <1>4 DEF TaskCrashes, Mishap, Typed, DateInv, SweptDayIsOver, Running, clock,
       process, writers, controller, automation, maintenance
  <2> QED
    BY <2>1, <2>2, <2>3 DEF IInv
<1>5. CASE DrainingEnds
  <2>1. Typed'
    <3>1. /\ draining' = FALSE /\ orphaned' = FALSE
          /\ UNCHANGED <<day, part, up, exiting, task, failed, holder, plan, eodDone, eodBusy,
                         session, lease, grant, trouble>>
      BY <1>5 DEF DrainingEnds, clock, process, writers, automation, maintenance
    <3>2. /\ up' \in BOOLEAN /\ failed' \in BOOLEAN /\ lease' \in BOOLEAN
          /\ draining' \in BOOLEAN /\ orphaned' \in BOOLEAN
      BY <1>0, <3>1, Zenon DEF Typed
    <3> QED
      BY <1>0, <3>1, <3>2, Zenon DEF Typed
  <2>2. QuietInv'
    BY <1>0, <1>5 DEF DrainingEnds, QuietInv, Running, Sweeping, Dispatching,
       SweepOnlyWhenQuiet, Quiet, MaintenanceIsQuiet, clock, process, writers, controller,
       automation, maintenance
  <2>3. DateInv'
    BY <1>0, <1>5 DEF DrainingEnds, Typed, DateInv, SweptDayIsOver, Running, clock,
       process, writers, controller, automation, maintenance
  <2> QED
    BY <2>1, <2>2, <2>3 DEF IInv
<1>6. CASE ReleaseMaintenance
  <2>1. Typed'
    BY <1>0, <1>6 DEF ReleaseMaintenance, Typed, clock, process, writers, controller,
       automation, maintenance
  <2>2. QuietInv'
    BY <1>0, <1>6 DEF ReleaseMaintenance, QuietInv, Running, Sweeping, Dispatching,
       SweepOnlyWhenQuiet, Quiet, MaintenanceIsQuiet, clock, process, writers, controller,
       automation, maintenance
  <2>3. DateInv'
    BY <1>0, <1>6 DEF ReleaseMaintenance, Typed, DateInv, SweptDayIsOver, Running, clock,
       process, writers, controller, automation, maintenance
  <2> QED
    BY <2>1, <2>2, <2>3 DEF IInv
<1>7. CASE LeaseExpires
  <2>1. Typed'
    BY <1>0, <1>7 DEF LeaseExpires, Typed, clock, process, writers, controller,
       automation, maintenance
  <2>2. QuietInv'
    BY <1>0, <1>7 DEF LeaseExpires, QuietInv, Running, Sweeping, Dispatching,
       SweepOnlyWhenQuiet, Quiet, MaintenanceIsQuiet, clock, process, writers, controller,
       automation, maintenance
  <2>3. DateInv'
    BY <1>0, <1>7 DEF LeaseExpires, Typed, DateInv, SweptDayIsOver, Running, clock,
       process, writers, controller, automation, maintenance
  <2> QED
    BY <2>1, <2>2, <2>3 DEF IInv
<1>8. CASE OperatorTerminates
  <2>1. Typed'
    BY <1>0, <1>8, CaptureLifecycleAssumption DEF OperatorTerminates, Mishap, Typed,
       clock, process, writers, controller, automation, maintenance
  <2>2. QuietInv'
    BY <1>0, <1>8 DEF OperatorTerminates, Mishap, QuietInv, Running, Sweeping,
       Dispatching, SweepOnlyWhenQuiet, Quiet, MaintenanceIsQuiet, clock, process,
       writers, controller, automation, maintenance
  <2>3. DateInv'
    BY <1>0, <1>8 DEF OperatorTerminates, Mishap, Typed, DateInv, SweptDayIsOver, Running,
       clock, process, writers, controller, automation, maintenance
  <2> QED
    BY <2>1, <2>2, <2>3 DEF IInv
<1>9. CASE CloseLifespan
  <2>1. Typed'
    BY <1>0, <1>9 DEF CloseLifespan, Typed, clock, process, writers, controller,
       automation, maintenance
  <2>2. QuietInv'
    BY <1>0, <1>9 DEF CloseLifespan, QuietInv, Running, Sweeping, Dispatching,
       SweepOnlyWhenQuiet, Quiet, MaintenanceIsQuiet, clock, process, writers, controller,
       automation, maintenance
  <2>3. DateInv'
    BY <1>0, <1>9 DEF CloseLifespan, Typed, DateInv, SweptDayIsOver, Running, clock,
       process, writers, controller, automation, maintenance
  <2> QED
    BY <2>1, <2>2, <2>3 DEF IInv
<1>10. CASE Exit \/ Killed
  <2>0. trouble' \in 0..MaxTrouble /\ LoseProcess
    BY <1>0, <1>10, CaptureLifecycleAssumption DEF Exit, Killed, Mishap, Typed
  <2>flags. up' \in BOOLEAN /\ failed' \in BOOLEAN /\ draining' \in BOOLEAN
    BY <1>10, <2>0 DEF LoseProcess
  <2>numbers. /\ plan' \in Plans /\ trouble' \in 0..MaxTrouble
        /\ eodDone' \in 0..MaxDay /\ eodBusy' \in 0..MaxDay
    BY <1>0, <1>1, <1>10, <2>0, CaptureLifecycleAssumption DEF LoseProcess, PlanFacts,
       Typed, automation
  <2>1. Typed'
    BY <1>0, <1>10, <2>0, <2>flags, <2>numbers DEF LoseProcess, Typed, clock, process,
       writers, controller, automation, maintenance
  <2>2. QuietInv'
    BY <1>0, <1>10, <1>1, <2>0 DEF LoseProcess, QuietInv, Running, Sweeping, Dispatching,
       SweepOnlyWhenQuiet, Quiet, MaintenanceIsQuiet, clock, process, writers, controller,
       automation, maintenance
  <2>3. DateInv'
    BY <1>0, <1>10, <1>1, <2>0, CaptureLifecycleAssumption DEF LoseProcess, Typed,
       DateInv, SweptDayIsOver, Running, clock, process, writers, controller, automation,
       maintenance
  <2> QED
    BY <2>1, <2>2, <2>3 DEF IInv
<1>11. CASE Boot
  <2>1. Typed'
    BY <1>0, <1>11 DEF Boot, Typed, clock, process, writers, controller, automation,
       maintenance
  <2>2. QuietInv'
    BY <1>0, <1>11 DEF Boot, QuietInv, Running, Sweeping, Dispatching, SweepOnlyWhenQuiet,
       Quiet, MaintenanceIsQuiet, clock, process, writers, controller, automation,
       maintenance
  <2>3. DateInv'
    BY <1>0, <1>11 DEF Boot, Typed, DateInv, SweptDayIsOver, Running, clock, process,
       writers, controller, automation, maintenance
  <2> QED
    BY <2>1, <2>2, <2>3 DEF IInv
<1> QED
  BY <1>2, <1>3, <1>4, <1>5, <1>6, <1>7, <1>8, <1>9, <1>10, <1>11

----------------------------------------------------------------------------
(* The theorems. *)

\* IInv is inductive.
THEOREM InductiveInvariant == Spec => []IInv
<1>1. Init => IInv
  BY InitIInv
<1>2. IInv /\ [Next]_vars => IInv'
  <2> SUFFICES ASSUME IInv, [Next]_vars PROVE IInv'
    OBVIOUS
  <2>1. CASE UNCHANGED vars
    BY <2>1 DEF IInv, Typed, QuietInv, DateInv, Dispatching, Sweeping, Running,
       SweepOnlyWhenQuiet, Quiet, MaintenanceIsQuiet, SweptDayIsOver,
       vars, clock, process, writers, controller, automation, maintenance
  <2> QED
    BY <2>1, TimeKeeps, TickKeeps, DispatchKeeps, StopKeeps, RestKeeps DEF Next, End
<1> QED
  BY <1>1, <1>2, PTL DEF Spec

\* Capture and sweep never meet on the files of a date: neither while the sweep
\* runs, whatever stop, crash or writer left behind preceded it, nor after it.
THEOREM SweepAndCaptureApart == Spec => []CaptureApartFromSweep
<1>1. IInv => CaptureApartFromSweep
  BY PartsOfDay, PlansTyped DEF IInv, Typed, QuietInv, DateInv, CaptureApartFromSweep,
     TypeOK, CapturesAlone, SweepOnlyWhenQuiet, Quiet
<1> QED
  BY <1>1, InductiveInvariant, PTL

\* While a granted maintenance lease is valid nothing captures or writes, across
\* restarts of the process.
THEOREM GrantedMaintenanceIsQuiet == Spec => []MaintenanceIsQuiet
<1>1. IInv => MaintenanceIsQuiet
  BY DEF IInv, QuietInv
<1> QED
  BY <1>1, InductiveInvariant, PTL
=============================================================================
