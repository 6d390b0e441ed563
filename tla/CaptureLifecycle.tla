--------------------------- MODULE CaptureLifecycle ---------------------------
(***************************************************************************)
(* The service process around the capture task: DailyAutomationService     *)
(* decides every few seconds what the time of day calls for and dispatches *)
(* it, CaptureController starts and stops the one capture task under a     *)
(* lifecycle lock, the release manager drains capture with a persisted     *)
(* maintenance lease, and a capture task that crashes takes the process    *)
(* down so that the container is restarted.                                *)
(*                                                                         *)
(* Only stop() awaits anything while it holds the lifecycle lock: start()  *)
(* is one step of the event loop.  A session is the file of today's date.  *)
(***************************************************************************)
EXTENDS Naturals, Sequences

CONSTANTS
  Holidays,      \* days without trading
  MaxDay,        \* bound: days
  MaxTrouble     \* bound: crashes, failures, timeouts, restarts, leases

ASSUME CaptureLifecycleAssumption ==
  /\ MaxDay \in Nat \ {0} /\ MaxTrouble \in Nat
  /\ Holidays \subseteq 1..MaxDay

VARIABLES
  day, part,     \* the date, and the time of day
  up,            \* is the process running?
  exiting,       \* SIGTERM: "no", "asked", "closing" (the lifespan shuts down)
  task,          \* _task: "none", "live" or "done"
  failed,        \* _has_failed
  draining,      \* are writer threads of an abandoned task still writing?
  orphaned,      \* history: some were left with no failure recorded
  holder,        \* who holds the lifecycle lock in stop()
  plan,          \* actions of the automation's tick not yet dispatched
  eodDone,       \* eod_completed_date, 0 for None
  eodBusy,       \* eod_in_progress_date
  session,       \* today's session: "none", "unready" (no rate) or "ready"
  lease,         \* is an unexpired maintenance lease on disk?
  grant,         \* what the release manager has of it
  trouble

clock == <<day, part>>
process == <<up, exiting>>
writers == <<draining, orphaned>>
controller == <<task, failed, writers, holder>>
automation == <<plan, eodDone, eodBusy>>
maintenance == <<lease, grant>>
vars == <<clock, process, controller, automation, session, maintenance, trouble>>

Parts == <<"auth", "window", "tail", "evening">>
Running == task = "live"
Dispatching(action) == plan # <<>> /\ Head(plan) = action
Sweeping == Dispatching("RUN_EOD")
Mishap == trouble < MaxTrouble /\ trouble' = trouble + 1

Init ==
  /\ day = 1 /\ part = 1
  /\ up = TRUE /\ exiting = "no"
  /\ task = "none" /\ failed = FALSE /\ holder = "nobody"
  /\ draining = FALSE /\ orphaned = FALSE
  /\ plan = <<>> /\ eodDone = 0 /\ eodBusy = 0
  /\ session = "none" /\ lease = FALSE /\ grant = "none" /\ trouble = 0

----------------------------------------------------------------------------
(* decide_automation. *)

TradingDay == day \notin Holidays
InWindow == Parts[part] = "window"

Fetch(due) == due /\ Parts[part] \in {"auth", "window"} /\ session = "none"
RunEod ==
  TradingDay /\ Parts[part] = "evening" /\ eodDone # day /\ eodBusy # day /\ ~Running

If(condition, action) == IF condition THEN <<action>> ELSE <<>>

\* Plausible slips, kept to show that the properties below notice them.
DecideRestarts(due) ==
  IF ~TradingDay THEN If(Running, "STOP")
  ELSE If(Fetch(due), "FETCH")
       \o If(InWindow /\ session = "ready" /\ Running, "START")
       \o If(~InWindow /\ (Running \/ RunEod), "STOP")
       \o If(RunEod, "RUN_EOD")

\* due: a poll of the broker is due again (broker_retry_interval_s).
Decide(due) ==
  IF ~TradingDay THEN If(Running, "STOP")
  ELSE If(Fetch(due), "FETCH")
       \o If(InWindow /\ session = "ready" /\ ~Running, "START")
       \o If(~InWindow /\ (Running \/ RunEod), "STOP")
       \o If(RunEod, "RUN_EOD")

----------------------------------------------------------------------------
(* Time. *)

TimePasses ==
  /\ IF part < Len(Parts) THEN part' = part + 1 /\ UNCHANGED <<day, session>>
     ELSE day < MaxDay /\ part' = 1 /\ day' = day + 1 /\ session' = "none"
  /\ UNCHANGED <<process, controller, automation, maintenance, trouble>>

----------------------------------------------------------------------------
(* The automation's tick: one at a time, its actions in order, up to the     *)
(* first that raises.                                                        *)

Tick ==
  /\ up /\ exiting # "closing" /\ plan = <<>>
  /\ \E due \in BOOLEAN : plan' = Decide(due)
  /\ plan' # <<>>
  /\ eodBusy' = IF RunEod THEN day ELSE eodBusy
  /\ UNCHANGED <<clock, process, controller, eodDone, session, maintenance, trouble>>

\* acquire_broker_session in a thread: a session already there is kept, otherwise
\* one is obtained, with or without a rate, or none is to be had.
FetchReturns ==
  /\ Dispatching("FETCH")
  /\ session' \in IF session = "none" THEN {"none", "unready", "ready"} ELSE {session}
  /\ plan' \in {Tail(plan)} \cup (IF session' = "none" THEN {<<>>} ELSE {})
  /\ UNCHANGED <<clock, process, controller, eodDone, eodBusy, maintenance, trouble>>

\* Somebody logs in at the browser.
LogIn ==
  /\ up /\ session = "none"
  /\ session' = "ready"
  /\ UNCHANGED <<clock, process, controller, automation, maintenance, trouble>>

\* CaptureController.start: refused under a lease, after a failure, when running
\* and without a session that is ready.
Startable == ~lease /\ ~failed /\ ~Running /\ session = "ready"

StartIgnoresLease ==
  /\ Dispatching("START") /\ holder = "nobody"
  /\ ~failed /\ ~Running /\ session = "ready"
  /\ task' = "live" /\ plan' = Tail(plan)
  /\ UNCHANGED <<clock, process, failed, writers, holder, eodDone, eodBusy, session,
                 maintenance, trouble>>

StartCapture ==
  /\ Dispatching("START") /\ holder = "nobody"
  /\ Startable
  /\ task' = "live" /\ plan' = Tail(plan)
  /\ UNCHANGED <<clock, process, failed, writers, holder, eodDone, eodBusy, session,
                 maintenance, trouble>>

StartRefused ==
  /\ Dispatching("START") /\ holder = "nobody"
  /\ ~Startable
  /\ plan' = <<>>
  /\ UNCHANGED <<clock, process, controller, eodDone, eodBusy, session, maintenance,
                 trouble>>

\* bootstrap_capture raises; an authentication error invalidates the session.
StartFails ==
  /\ Dispatching("START") /\ holder = "nobody"
  /\ Startable /\ Mishap
  /\ session' \in {session, "none"}
  /\ plan' = <<>>
  /\ UNCHANGED <<clock, process, controller, eodDone, eodBusy, maintenance>>

\* RUN_EOD has compressed what it could.
SweepEnds ==
  /\ Sweeping
  /\ eodDone' = eodBusy /\ eodBusy' = 0
  /\ plan' = Tail(plan)
  /\ UNCHANGED <<clock, process, controller, session, maintenance, trouble>>

SweepFailsSilently ==
  /\ Sweeping /\ Mishap
  /\ plan' = <<>>
  /\ UNCHANGED <<clock, process, controller, eodDone, eodBusy, session, maintenance>>

\* The sweep as a whole raises: it is due again at the next tick.
SweepFails ==
  /\ Sweeping /\ Mishap
  /\ eodDone' = 0 /\ eodBusy' = 0
  /\ plan' = <<>>
  /\ UNCHANGED <<clock, process, controller, session, maintenance>>

----------------------------------------------------------------------------
(* CaptureController.stop, called by the automation, by acquire_maintenance and *)
(* by the lifespan's shutdown.                                                  *)

\* The lock is taken and the stop event set.
AutomationStops ==
  /\ Dispatching("STOP") /\ holder = "nobody"
  /\ holder' = "automation"
  /\ UNCHANGED <<clock, process, task, failed, writers, automation, session,
                 maintenance, trouble>>

\* acquire_maintenance writes the lease first.
AcquireMaintenance ==
  /\ up /\ exiting = "no" /\ holder = "nobody" /\ ~lease /\ Mishap
  /\ lease' = TRUE /\ grant' = "awaited"
  /\ holder' = "maintenance"
  /\ UNCHANGED <<clock, process, task, failed, writers, automation, session>>

ShutdownStops ==
  /\ exiting = "closing" /\ plan = <<>> /\ holder = "nobody" /\ Running
  /\ holder' = "shutdown"
  /\ UNCHANGED <<clock, process, task, failed, writers, automation, session,
                 maintenance, trouble>>

\* What the caller makes of stop() returning (ok) or raising.
Answer(ok) ==
  CASE holder = "automation" ->
         /\ IF ok THEN plan' = Tail(plan) /\ UNCHANGED <<eodDone, eodBusy>>
            ELSE plan' = <<>> /\ eodDone' = 0 /\ eodBusy' = 0
         /\ UNCHANGED maintenance
    [] holder = "maintenance" ->
         /\ grant' = IF ok THEN "known" ELSE "lost"
         /\ UNCHANGED <<lease, automation>>
    [] OTHER -> UNCHANGED <<automation, maintenance>>

StopReportsSuccess ==
  /\ holder # "nobody" /\ ~Running
  /\ Answer(TRUE)
  /\ task' = "none" /\ holder' = "nobody"
  /\ UNCHANGED <<clock, process, failed, writers, session, trouble>>

\* The task is over: stop() raises if capture has failed, now or before.
StopReturns ==
  /\ holder # "nobody" /\ ~Running
  /\ Answer(~failed)
  /\ task' = "none" /\ holder' = "nobody"
  /\ UNCHANGED <<clock, process, failed, writers, session, trouble>>

\* STOP_TIMEOUT_S passes: the task is cancelled, and its writers may go on.
StopTimesOut ==
  /\ holder # "nobody" /\ Running /\ Mishap
  /\ failed' = TRUE /\ draining' \in {draining, TRUE}
  /\ Answer(FALSE)
  /\ task' = "none" /\ holder' = "nobody"
  /\ UNCHANGED <<clock, process, orphaned, session>>

----------------------------------------------------------------------------
(* The capture task. *)

\* run_capture returns once the stop event is set.
TaskStops ==
  /\ Running /\ holder # "nobody"
  /\ task' = "done"
  /\ UNCHANGED <<clock, process, failed, writers, holder, automation, session,
                 maintenance, trouble>>

\* KiteAuthenticationError: the session is invalidated, unless it was replaced, and
\* nothing has failed.  When the engine is in its finally clause already, stopping
\* its writers in a thread, the engine is cancelled there and the thread left alone.
TaskLosesSession ==
  /\ Running /\ Mishap
  /\ task' = "done" /\ failed' = FALSE /\ session' \in {session, "none"}
  /\ \E left \in BOOLEAN :
        draining' = (draining \/ left) /\ orphaned' = (orphaned \/ left)
  /\ UNCHANGED <<clock, process, holder, automation, maintenance>>

\* Any other exception, a writer that did not stop in time among them: the fatal
\* handler raises SIGTERM.
TaskCrashes ==
  /\ Running /\ Mishap
  /\ task' = "done" /\ failed' = TRUE /\ draining' \in {draining, TRUE}
  /\ exiting' = IF exiting = "no" THEN "asked" ELSE exiting
  /\ UNCHANGED <<clock, up, orphaned, holder, automation, session, maintenance>>

DrainingEnds ==
  /\ draining
  /\ draining' = FALSE /\ orphaned' = FALSE
  /\ UNCHANGED <<clock, process, task, failed, holder, automation, session,
                 maintenance, trouble>>

----------------------------------------------------------------------------
(* The maintenance lease. *)

ReleaseMaintenance ==
  /\ up /\ exiting = "no" /\ holder = "nobody" /\ lease /\ grant = "known"
  /\ lease' = FALSE /\ grant' = "none"
  /\ UNCHANGED <<clock, process, controller, automation, session, trouble>>

\* Its time to live, longer than a stop can take, is over.
LeaseExpires ==
  /\ lease /\ grant # "awaited"
  /\ lease' = FALSE /\ grant' = "none"
  /\ UNCHANGED <<clock, process, controller, automation, session, trouble>>

----------------------------------------------------------------------------
(* The process. *)

\* The operator, or a deployment, sends SIGTERM.
OperatorTerminates ==
  /\ up /\ exiting = "no" /\ Mishap
  /\ exiting' = "asked"
  /\ UNCHANGED <<clock, up, controller, automation, session, maintenance>>

\* The lifespan's finally clause: automation.stop lets the current tick end.
CloseLifespan ==
  /\ exiting = "asked"
  /\ exiting' = "closing"
  /\ UNCHANGED <<clock, up, controller, automation, session, maintenance, trouble>>

LoseProcess ==
  /\ up' = FALSE /\ exiting' = "no"
  /\ task' = "none" /\ failed' = FALSE /\ holder' = "nobody"
  /\ draining' = FALSE /\ orphaned' = FALSE
  /\ plan' = <<>> /\ eodDone' = 0 /\ eodBusy' = 0
  /\ grant' = IF grant = "awaited" THEN "lost" ELSE grant
  /\ UNCHANGED <<clock, session, lease>>

Exit ==
  /\ exiting = "closing" /\ plan = <<>> /\ holder = "nobody" /\ ~Running
  /\ LoseProcess
  /\ UNCHANGED trouble

Killed ==
  /\ up /\ Mishap
  /\ LoseProcess

\* restart: unless-stopped.
Boot ==
  /\ ~up
  /\ up' = TRUE
  /\ UNCHANGED <<clock, exiting, controller, automation, session, maintenance, trouble>>

\* The last day is over.
End == day = MaxDay /\ part = Len(Parts) /\ UNCHANGED vars

Next ==
  \/ TimePasses
  \/ Tick \/ FetchReturns \/ LogIn \/ StartCapture \/ StartRefused \/ StartFails
  \/ SweepEnds \/ SweepFails
  \/ AutomationStops \/ AcquireMaintenance \/ ShutdownStops
  \/ StopReturns \/ StopTimesOut
  \/ TaskStops \/ TaskLosesSession \/ TaskCrashes \/ DrainingEnds
  \/ ReleaseMaintenance \/ LeaseExpires
  \/ OperatorTerminates \/ CloseLifespan \/ Exit \/ Killed \/ Boot
  \/ End

Spec == Init /\ [][Next]_vars

\* The event loop runs what is ready, a stop ends by itself or by its timeout, and
\* the container runtime restarts the process.
FairSpec ==
  /\ Spec
  /\ WF_vars(Tick) /\ WF_vars(FetchReturns) /\ WF_vars(StartCapture \/ StartRefused)
  /\ WF_vars(SweepEnds) /\ WF_vars(AutomationStops) /\ WF_vars(ShutdownStops)
  /\ WF_vars(StopReturns) /\ WF_vars(TaskStops \/ StopTimesOut)
  /\ WF_vars(CloseLifespan) /\ WF_vars(Exit) /\ WF_vars(Boot)

----------------------------------------------------------------------------
(* Properties. *)

Actions == {"FETCH", "START", "STOP", "RUN_EOD"}

\* Type invariant.
TypeOK ==
  /\ day \in 1..MaxDay /\ part \in 1..Len(Parts)
  /\ up \in BOOLEAN /\ exiting \in {"no", "asked", "closing"}
  /\ task \in {"none", "live", "done"} /\ failed \in BOOLEAN
  /\ draining \in BOOLEAN /\ orphaned \in BOOLEAN
  /\ holder \in {"nobody", "automation", "maintenance", "shutdown"}
  /\ plan \in Seq(Actions) /\ eodDone \in 0..MaxDay /\ eodBusy \in 0..MaxDay
  /\ session \in {"none", "unready", "ready"}
  /\ lease \in BOOLEAN /\ grant \in {"none", "awaited", "known", "lost"}
  /\ trouble \in 0..MaxTrouble

\* Nothing captures, and nothing writes but what a session lost while the writers
\* were being stopped has left behind.
Quiet == ~Running /\ (draining => orphaned)

\* The sweep that removes raw files runs only when no frame can still be on its way
\* to them (automation.py:105): no task is live, and no writer of a task given up
\* after a timeout or a crash is writing, whatever happened since the tick decided
\* on it.  Writers that a lost session left while they were being stopped are the
\* exception: nothing records them, so the sweep may begin beside them.
SweepOnlyWhenQuiet == Sweeping => Quiet

\* Once maintenance was granted, and until the lease is released or has expired,
\* nothing captures: through restarts of the process and whatever the automation
\* had already decided to start.  The exception is the same.
MaintenanceIsQuiet == lease /\ grant = "known" => Quiet

\* One capture at a time: a new one begins beside no writers of the last, with the
\* same exception.
CapturesAlone == Running => (draining => orphaned)

\* A date whose end of day is done is never captured into again by this process,
\* however long a start decided in the capture window waited for the lock.
SweptDayIsOver == eodDone = day => ~Running

\* Types, and neither a sweep nor another capture meets a capture on the files of a
\* date: neither while it runs nor after it.
CaptureApartFromSweep ==
  TypeOK /\ SweepOnlyWhenQuiet /\ SweptDayIsOver /\ CapturesAlone

\* The end of day of every trading day is done, unless the process is lost or its
\* capture failed: a failing sweep or stop leaves no mark that prevents a retry.
EodRuns ==
  \A d \in (1..MaxDay) \ Holidays :
    day = d /\ Parts[part] = "evening" ~> eodDone = d \/ failed \/ ~up \/ day # d

\* In the capture window a session that is ready is captured with.
CaptureRuns ==
  day = MaxDay /\ TradingDay /\ InWindow /\ session = "ready"
    ~> Running \/ lease \/ failed \/ ~up \/ ~InWindow \/ session # "ready"

\* What api/capture.py:62 says of a capture that failed: it is unrecoverable in
\* this process, "so the app itself must exit to trigger recovery".  Refuted by a
\* stop that times out, which only sets the flag.
FailedProcessExits == failed ~> ~up
=============================================================================
