----------------------------- MODULE CaptureGrid -----------------------------
(***************************************************************************)
(* The 1 Hz grid of CaptureEngine.run and its bookkeeping: which grid      *)
(* seconds become due, which of them are written, suppressed or given up,  *)
(* what is counted for each, and what of the day's counts a process that   *)
(* is started again gets back from the files and from the last telemetry   *)
(* snapshot.                                                               *)
(*                                                                         *)
(* Time is counted in clock units, Interval of them to a grid second.      *)
(* A frame handed to the writers counts as on disk: BinWriters is about    *)
(* the way there.                                                          *)
(***************************************************************************)
EXTENDS Integers

CONSTANTS
  Interval,            \* clock units from one grid second to the next
  MaxCatchup,          \* grid seconds made up for in one pass
  OpenAt, CloseAt,     \* a frame is expected at ts iff OpenAt <= ts < CloseAt
  StaleAfter,          \* FreshnessMonitor.stale_after_ms
  SuppressStale,       \* suppress_stale_writes
  MaxTime,             \* bound: the clock
  MaxBoots             \* bound: processes started over the day

ASSUME CaptureGridAssumption ==
  /\ Interval \in Nat \ {0} /\ MaxCatchup \in Nat \ {0}
  /\ OpenAt \in Nat /\ CloseAt \in Nat /\ StaleAfter \in Nat \ {0}
  /\ SuppressStale \in BOOLEAN
  /\ MaxTime \in Nat /\ MaxBoots \in Nat

VARIABLES
  now,                 \* the clock
  pc,                  \* "down", "booting", "wait" for the grid, "emit"
  boots,
  nextTick,            \* next_tick of the run loop
  cursor, until,       \* the pass at hand still has cursor, cursor + Interval, ... < until
  ticked,              \* has any batch arrived?
  contentRef,          \* when the content last changed, or the loop started
  captures, staleSeconds, awaitingSeconds, unscheduledSeconds,
  gridGaps, secondsLost, downtime,
  firstGrid,           \* first_grid_ms
  frames, firstFrame, lastFrame,   \* on disk: how many, first and last timestamp
  saved,               \* the persisted telemetry snapshot
  dayFirst,            \* history: grid second at which the day's first loop began
  gridFirst,           \* history: ... and this process's
  emitted, lostHere, stalls  \* history: seconds emitted and lost by this process

Never == 0

feed == <<ticked, contentRef>>
counters == <<captures, staleSeconds, awaitingSeconds, unscheduledSeconds>>
losses == <<gridGaps, secondsLost, downtime>>
disk == <<frames, firstFrame, lastFrame>>
pass == <<nextTick, cursor, until>>
history == <<dayFirst, gridFirst, emitted, lostHere, stalls>>
vars == <<now, pc, boots, pass, feed, counters, losses, firstGrid, disk, saved,
          history>>

SecondOf(t) == t \div Interval

Init ==
  /\ now \in 1..MaxTime /\ pc = "down" /\ boots = 0
  /\ nextTick = 0 /\ cursor = 0 /\ until = 0
  /\ ticked = FALSE /\ contentRef = 0
  /\ captures = 0 /\ staleSeconds = 0 /\ awaitingSeconds = 0 /\ unscheduledSeconds = 0
  /\ gridGaps = 0 /\ secondsLost = 0 /\ downtime = 0 /\ firstGrid = Never
  /\ frames = 0 /\ firstFrame = Never /\ lastFrame = Never
  /\ saved = [gaps |-> 0, lost |-> 0, stale |-> 0, firstGrid |-> Never]
  /\ dayFirst = 0 /\ gridFirst = 0 /\ emitted = 0 /\ lostHere = 0 /\ stalls = 0

----------------------------------------------------------------------------
(* Plausible slips, kept to show that the properties below notice them. *)

SameSecondAgain(t) == SecondOf(t) * Interval
OwedButTheFirst == SecondOf(now - nextTick)
StaleTooLate == cursor - contentRef > StaleAfter
HoleBelowZero == IF frames > 0 THEN SecondOf(now - lastFrame) - 1 ELSE 0

DowntimeAsLoss ==
  /\ pc = "down" /\ boots < MaxBoots
  /\ pc' = "booting" /\ boots' = boots + 1
  /\ captures' = frames
  /\ staleSeconds' = saved.stale
  /\ secondsLost' = saved.lost + (IF frames > 0 THEN SecondOf(now - lastFrame) ELSE 0)
  /\ awaitingSeconds' = 0 /\ unscheduledSeconds' = 0 /\ downtime' = 0
  /\ gridGaps' = saved.gaps /\ firstGrid' = saved.firstGrid
  /\ ticked' = FALSE /\ contentRef' = 0
  /\ UNCHANGED <<now, pass, disk, saved, history>>

----------------------------------------------------------------------------
(* The clock, the feed and the life of the process. *)

ClockTick ==
  /\ now < MaxTime
  /\ now' = now + 1
  /\ UNCHANGED <<pc, boots, pass, feed, counters, losses, firstGrid, disk, saved,
                 history>>

\* The consumer applies a batch between two passes: FreshnessMonitor.observe.
\* The first one always counts as changed.
ApplyBatch(changed) ==
  /\ pc = "wait" /\ (changed \/ ticked)
  /\ ticked' = TRUE
  /\ contentRef' = IF changed THEN now ELSE contentRef
  /\ UNCHANGED <<now, pc, boots, pass, counters, losses, firstGrid, disk, saved,
                 history>>

\* A new engine restores the day's counters (resume_from_disk): captures and the
\* first timestamp from the files, gaps, lost and stale seconds from the snapshot.
\* bootstrap hands over neither the seconds awaiting a first tick nor downtime.
Hole == IF frames > 0 THEN SecondOf(now - lastFrame) ELSE 0

ElapsedFrom ==
  IF frames = 0 THEN Never
  ELSE IF saved.firstGrid # Never /\ saved.firstGrid < firstFrame
       THEN saved.firstGrid ELSE firstFrame

Resume ==
  /\ pc = "down" /\ boots < MaxBoots
  /\ pc' = "booting" /\ boots' = boots + 1
  /\ captures' = frames
  /\ staleSeconds' = saved.stale /\ secondsLost' = saved.lost
  /\ awaitingSeconds' = 0 /\ unscheduledSeconds' = 0
  /\ downtime' = Hole
  /\ gridGaps' = saved.gaps + (IF Hole > 0 THEN 1 ELSE 0)
  /\ firstGrid' = ElapsedFrom
  /\ ticked' = FALSE /\ contentRef' = 0
  /\ UNCHANGED <<now, pass, disk, saved, history>>

\* run() aligns its grid to the next whole second.
AlignedAfter(t) == (SecondOf(t) + 1) * Interval

StartGrid ==
  /\ pc = "booting"
  /\ pc' = "wait"
  /\ nextTick' = AlignedAfter(now)
  /\ contentRef' = now
  /\ gridFirst' = SecondOf(now) + 1
  /\ dayFirst' = IF dayFirst = 0 THEN SecondOf(now) + 1 ELSE dayFirst
  /\ emitted' = 0 /\ lostHere' = 0 /\ stalls' = 0
  /\ UNCHANGED <<now, boots, cursor, until, ticked, counters, losses, firstGrid,
                 disk, saved>>

Telemetry ==
  [gaps |-> gridGaps, lost |-> secondsLost, stale |-> staleSeconds,
   firstGrid |-> firstGrid]

\* The throttled snapshot of the broadcaster.
PersistTelemetry ==
  /\ pc \in {"wait", "emit"}
  /\ saved' = Telemetry
  /\ UNCHANGED <<now, pc, boots, pass, feed, counters, losses, firstGrid, disk,
                 history>>

\* run() ends: a stop, an escalation, a dead consumer or a writer's error.  Its
\* finally clause tries to persist the telemetry.
EndRun ==
  /\ pc \in {"wait", "emit"}
  /\ pc' = "down"
  /\ saved' \in {Telemetry, saved}
  /\ UNCHANGED <<now, boots, pass, feed, counters, losses, firstGrid, disk, history>>

\* The process dies, or its bootstrap fails.
Crash ==
  /\ pc # "down"
  /\ pc' = "down"
  /\ UNCHANGED <<now, boots, pass, feed, counters, losses, firstGrid, disk, saved,
                 history>>

----------------------------------------------------------------------------
(* A pass of the grid loop. *)

\* Whole seconds that became due since nextTick.
Owed == SecondOf(now - nextTick) + 1
Due == IF Owed > MaxCatchup THEN MaxCatchup ELSE Owed

\* _due_ticks: every second up to now, MaxCatchup of them at most; behind by more
\* than that, the rest is lost and the grid goes on one Interval after now.
Wake ==
  /\ pc = "wait" /\ now >= nextTick
  /\ pc' = "emit"
  /\ cursor' = nextTick /\ until' = nextTick + Due * Interval
  /\ IF Owed > Due
       THEN /\ nextTick' = now + Interval
            /\ gridGaps' = gridGaps + 1 /\ secondsLost' = secondsLost + (Owed - Due)
            /\ lostHere' = lostHere + (Owed - Due) /\ stalls' = stalls + 1
       ELSE nextTick' = until' /\ UNCHANGED <<gridGaps, secondsLost, lostHere, stalls>>
  /\ UNCHANGED <<now, boots, feed, counters, downtime, firstGrid, disk, saved,
                 dayFirst, gridFirst, emitted>>

Scheduled == OpenAt <= cursor /\ cursor < CloseAt
Stale == cursor - contentRef >= StaleAfter

\* capture_snapshot of the next due second; _track_grid_second if it is owed.
Emit ==
  /\ pc = "emit" /\ cursor < until
  /\ cursor' = cursor + Interval
  /\ emitted' = emitted + 1
  /\ firstGrid' = IF Scheduled /\ firstGrid = Never THEN cursor ELSE firstGrid
  /\ UNCHANGED <<now, pc, boots, nextTick, until, feed, losses, saved,
                 dayFirst, gridFirst, lostHere, stalls>>

SkipUnscheduled ==
  /\ ~Scheduled /\ Emit
  /\ unscheduledSeconds' = unscheduledSeconds + 1
  /\ UNCHANGED <<captures, staleSeconds, awaitingSeconds, disk>>

SkipAwaitingFirstTick ==
  /\ Scheduled /\ ~ticked /\ Emit
  /\ awaitingSeconds' = awaitingSeconds + 1
  /\ UNCHANGED <<captures, staleSeconds, unscheduledSeconds, disk>>

SkipStale ==
  /\ Scheduled /\ ticked /\ Stale /\ SuppressStale /\ Emit
  /\ staleSeconds' = staleSeconds + 1
  /\ UNCHANGED <<captures, awaitingSeconds, unscheduledSeconds, disk>>

WriteFrame ==
  /\ Scheduled /\ ticked /\ ~(Stale /\ SuppressStale) /\ Emit
  /\ captures' = captures + 1
  /\ frames' = frames + 1 /\ lastFrame' = cursor
  /\ firstFrame' = IF frames = 0 THEN cursor ELSE firstFrame
  /\ UNCHANGED <<staleSeconds, awaitingSeconds, unscheduledSeconds>>

PassDone ==
  /\ pc = "emit" /\ cursor >= until
  /\ pc' = "wait"
  /\ UNCHANGED <<now, boots, pass, feed, counters, losses, firstGrid, disk, saved,
                 history>>

\* The bounds are used up.
DayOver == now = MaxTime /\ pc = "down" /\ boots = MaxBoots /\ UNCHANGED vars

Next ==
  \/ ClockTick \/ \E changed \in BOOLEAN : ApplyBatch(changed)
  \/ Resume \/ StartGrid \/ PersistTelemetry \/ EndRun \/ Crash
  \/ Wake \/ SkipUnscheduled \/ SkipAwaitingFirstTick \/ SkipStale \/ WriteFrame
  \/ PassDone \/ DayOver

Spec == Init /\ [][Next]_vars

----------------------------------------------------------------------------
(* Properties. *)

Up == pc \in {"wait", "emit"}

\* Type invariant.
TypeOK ==
  /\ now \in Nat /\ pc \in {"down", "booting", "wait", "emit"} /\ boots \in 0..MaxBoots
  /\ nextTick \in Nat /\ cursor \in Nat /\ until \in Nat
  /\ ticked \in BOOLEAN /\ contentRef \in Nat
  /\ captures \in Nat /\ staleSeconds \in Nat
  /\ awaitingSeconds \in Nat /\ unscheduledSeconds \in Nat
  /\ gridGaps \in Nat /\ secondsLost \in Nat /\ downtime \in Nat /\ firstGrid \in Nat
  /\ frames \in Nat /\ firstFrame \in Nat /\ lastFrame \in Nat
  /\ saved \in [gaps : Nat, lost : Nat, stale : Nat, firstGrid : Nat]
  /\ dayFirst \in Nat /\ gridFirst \in Nat
  /\ emitted \in Nat /\ lostHere \in Nat /\ stalls \in Nat

\* "Guarantees no grid second is skipped" (engine.py:886): between two passes, all
\* grid seconds since the loop began were emitted or counted as lost, each once;
\* after a stall the grid is late by less than one second per stall.
EverySecondAccounted ==
  pc = "wait" =>
    LET reached == Interval * (gridFirst + emitted + lostHere) IN
      /\ reached <= nextTick
      /\ nextTick <= reached + (Interval - 1) * stalls

\* Without a stall every timestamp of a process lies on the second.
OnTheSecondUntilStall == Up /\ stalls = 0 => nextTick % Interval = 0

\* The grid neither skips nor repeats a second, and stays on the second as long as
\* it is not stalled.
SecondsAccounted == EverySecondAccounted /\ OnTheSecondUntilStall

\* Over all restarts of a day, the seconds reported as captured, stale, awaiting
\* a first tick or lost are never more than the seconds that have begun since
\* capture first started: restoring the counters counts nothing twice.
Reported == captures + staleSeconds + awaitingSeconds + secondsLost
CountedOnce ==
  IF dayFirst = 0 THEN Reported = 0 ELSE dayFirst + Reported <= SecondOf(now) + 1

\* A frame is stamped later than every frame on disk, restarts and catching up
\* included: what makes a file a log for BinWriters.
FramesAdvance == [][lastFrame' # lastFrame => lastFrame' > lastFrame]_vars

\* No frame on disk was stamped StaleAfter or more after the content last changed.
NoFrozenFrame ==
  SuppressStale /\ Up /\ captures > 0 => lastFrame < contentRef + StaleAfter

\* What engine.py:218 says of the restart downtime: it is kept apart so that the
\* figures are "never summed into a figure larger than the hole".  Refuted when the
\* feed was stale before the restart.
HoleNotOverstated ==
  dayFirst # 0 => dayFirst + Reported + downtime <= SecondOf(now) + 1
=============================================================================
