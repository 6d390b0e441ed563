-------------------------- MODULE CaptureGrid_proofs --------------------------
(***************************************************************************)
(* Proofs about CaptureGrid, for every Interval, catch-up limit, session   *)
(* window, staleness threshold and number of restarts: its type invariant, *)
(* that the grid accounts for every second, that restarts count no second  *)
(* twice, and that timestamps only advance.                                *)
(*                                                                         *)
(* The properties speak of the moments between two passes, or of the       *)
(* clock; the inductive invariant IInv says what they come from in the     *)
(* middle of a pass: how far the seconds still to be emitted reach.        *)
(***************************************************************************)
EXTENDS CaptureGrid, TLAPS

\* What the pass at hand has still to emit, in clock units.
Ahead == IF pc = "emit" THEN until - cursor ELSE 0

\* The grid is never more than one interval ahead of the clock, frames on disk
\* lie behind it, and a pass ends exactly where its last due second does.
GridInv ==
  /\ lastFrame <= now
  /\ Up => nextTick <= now + Interval
  /\ pc = "wait" => lastFrame < nextTick
  /\ pc = "emit" =>
       /\ lastFrame < cursor /\ until <= nextTick
       /\ \E n \in Nat : until = cursor + n * Interval

Reach == Interval * (gridFirst + emitted + lostHere) + Ahead

ReachInv ==
  Up => Reach <= nextTick /\ nextTick <= Reach + (Interval - 1) * stalls

\* What the files and the snapshot hold is never more than was counted.
CountInv ==
  /\ captures = frames
  /\ saved.stale <= staleSeconds /\ saved.lost <= secondsLost
  /\ dayFirst = 0 => Reported = 0 /\ ~Up
  /\ dayFirst # 0 => Interval * (dayFirst + Reported) <= now + Interval
  /\ Up => Interval * (dayFirst + Reported) + Ahead <= nextTick

IInv ==
  /\ TypeOK /\ GridInv /\ ReachInv /\ CountInv
  /\ OnTheSecondUntilStall /\ NoFrozenFrame

----------------------------------------------------------------------------
(* Arithmetic. *)

\* A clock value lies in the grid second that division assigns it to.
LEMMA SecondBounds ==
  ASSUME NEW t \in Nat, NEW I \in Nat \ {0}
  PROVE  /\ t \div I \in Nat
         /\ I * (t \div I) <= t /\ t < I * (t \div I) + I
  OBVIOUS

\* So many whole seconds fit in no more than this.
LEMMA SecondsFit ==
  ASSUME NEW q \in Nat, NEW I \in Nat \ {0}, NEW t \in Nat, I * q <= t + I
  PROVE  q <= (t \div I) + 1
  OBVIOUS

\* A whole number of intervals is on the grid.
LEMMA AlignedMultiple ==
  ASSUME NEW q \in Nat, NEW I \in Nat \ {0}
  PROVE  (q * I) % I = 0
  OBVIOUS

\* From a time on the grid, any number of intervals leads to a time on the grid.
LEMMA AlignedStep ==
  ASSUME NEW a \in Nat, NEW k \in Nat, NEW I \in Nat \ {0}, a % I = 0
  PROVE  (a + k * I) % I = 0
<1> DEFINE q == a \div I
<1>1. q \in Nat /\ a = q * I
  OBVIOUS
<1>2. a + k * I = (q + k) * I
  BY <1>1
<1>3. q + k \in Nat
  BY <1>1
<1> HIDE DEF q
<1>4. ((q + k) * I) % I = 0
  BY <1>3, AlignedMultiple
<1> QED
  BY <1>2, <1>4

\* A bound on the end of some seconds also holds with fewer of them.
LEMMA FewerSeconds ==
  ASSUME NEW d \in Nat, NEW a \in Nat, NEW b \in Nat, NEW I \in Nat \ {0}, NEW t \in Nat,
         a <= b, I * (d + b) <= t + I
  PROVE  I * (d + a) <= t + I
  OBVIOUS

\* Counting one second more moves the end of the seconds by one interval.
LEMMA OneMoreSecond ==
  ASSUME NEW d \in Nat, NEW a \in Nat, NEW b \in Nat, NEW I \in Nat \ {0}, b <= a + 1
  PROVE  I * (d + b) <= I * (d + a) + I
<1>1. d + b <= d + a + 1
  OBVIOUS
<1>2. I * (d + b) <= I * (d + a + 1)
  BY <1>1
<1> QED
  BY <1>2

\* The end of some seconds is a natural number.
LEMMA ProductNat ==
  ASSUME NEW d \in Nat, NEW a \in Nat, NEW I \in Nat \ {0}
  PROVE  I * (d + a) \in Nat
  OBVIOUS

\* A bound on a sum bounds its left summand.
LEMMA LeftSummand ==
  ASSUME NEW x \in Nat, NEW y \in Nat, NEW m \in Nat, NEW t \in Nat, NEW I \in Nat \ {0},
         x + y <= m, m <= t + I
  PROVE  x <= t + I
  OBVIOUS

\* Multiplication by a natural number preserves order.
LEMMA TimesMonotone ==
  ASSUME NEW a \in Nat, NEW b \in Nat, NEW I \in Nat \ {0}, a <= b
  PROVE  I * a <= I * b
  OBVIOUS

----------------------------------------------------------------------------
(* The seconds a pass makes up for. *)

\* Owed is the number of seconds from nextTick up to the clock; the first that
\* is not owed lies after it, by an interval at most.
LEMMA OwedBounds ==
  ASSUME TypeOK, CaptureGridAssumption, now >= nextTick
  PROVE  /\ Owed \in Nat \ {0} /\ Due \in 1..Owed /\ Due <= MaxCatchup
         /\ Owed > Due \/ Owed = Due
         /\ now < nextTick + Owed * Interval
         /\ nextTick + Owed * Interval <= now + Interval
<1> DEFINE d == now - nextTick
           s == d \div Interval
<1>1. d \in Nat /\ Interval \in Nat \ {0}
  BY DEF TypeOK, CaptureGridAssumption
<1>2. s \in Nat /\ Interval * s <= d /\ d < Interval * s + Interval
  BY <1>1, SecondBounds
<1>3. Owed = s + 1
  BY DEF Owed, SecondOf
<1>4. Owed * Interval = Interval * s + Interval
  BY <1>1, <1>2, <1>3
<1>5. now < nextTick + Owed * Interval /\ nextTick + Owed * Interval <= now + Interval
  BY <1>1, <1>2, <1>4 DEF TypeOK
<1> QED
  BY <1>2, <1>3, <1>5 DEF Due, CaptureGridAssumption

----------------------------------------------------------------------------
(* The inductive step, one action at a time. *)

\* The initial states satisfy the inductive invariant.
LEMMA InitIInv == Init /\ CaptureGridAssumption => IInv
<1> SUFFICES ASSUME Init, CaptureGridAssumption PROVE IInv
  OBVIOUS
<1>1. TypeOK
  <2>1. saved \in [gaps : Nat, lost : Nat, stale : Nat, firstGrid : Nat]
    BY DEF Init, Never
  <2>2. now \in Nat /\ boots \in 0..MaxBoots
    BY DEF Init, CaptureGridAssumption
  <2>3. ticked \in BOOLEAN
    BY DEF Init
  <2> QED
    BY <2>1, <2>2, <2>3 DEF Init, TypeOK, Never
<1>2. GridInv /\ ReachInv /\ CountInv /\ OnTheSecondUntilStall /\ NoFrozenFrame
  BY DEF Init, GridInv, ReachInv, CountInv, Reported, OnTheSecondUntilStall,
         NoFrozenFrame, Up, Never
<1> QED
  BY <1>1, <1>2 DEF IInv

\* The clock only adds room to every bound.
LEMMA ClockTickIInv == IInv /\ CaptureGridAssumption /\ ClockTick => IInv'
  BY DEF ClockTick, CaptureGridAssumption, IInv, TypeOK, GridInv, ReachInv, Reach, Ahead,
         CountInv, Reported, OnTheSecondUntilStall, NoFrozenFrame, Up,
         pass, feed, counters, losses, disk, history

\* A batch of ticks moves the content reference up to the clock and nothing else.
LEMMA ApplyBatchIInv ==
  ASSUME IInv, CaptureGridAssumption, NEW changed \in BOOLEAN, ApplyBatch(changed)
  PROVE  IInv'
  BY DEF ApplyBatch, CaptureGridAssumption, IInv, TypeOK, GridInv, ReachInv, Reach, Ahead,
         CountInv, Reported, OnTheSecondUntilStall, NoFrozenFrame, Up,
         pass, feed, counters, losses, disk, history

\* A snapshot taken while the counters satisfy their bound satisfies it too.
LEMMA PersistIInv == IInv /\ CaptureGridAssumption /\ PersistTelemetry => IInv'
<1> SUFFICES ASSUME IInv, CaptureGridAssumption, PersistTelemetry PROVE IInv'
  OBVIOUS
<1> USE DEF PersistTelemetry, pass, feed, counters, losses, disk, history
<1>1. /\ saved' \in [gaps : Nat, lost : Nat, stale : Nat, firstGrid : Nat]
      /\ saved'.stale = staleSeconds /\ saved'.lost = secondsLost
  BY DEF IInv, TypeOK, Telemetry
<1>2. TypeOK'
  BY <1>1 DEF IInv, TypeOK
<1>3. CountInv'
  BY <1>1 DEF IInv, TypeOK, CountInv, Reported, Ahead, Up
<1> QED
  BY <1>2, <1>3 DEF IInv, GridInv, ReachInv, Reach, Ahead, OnTheSecondUntilStall,
                    NoFrozenFrame, Up

\* A loop that ends leaves counters and snapshot as bounded as they were.
LEMMA EndRunIInv == IInv /\ CaptureGridAssumption /\ EndRun => IInv'
<1> SUFFICES ASSUME IInv, CaptureGridAssumption, EndRun PROVE IInv'
  OBVIOUS
<1> USE DEF EndRun, pass, feed, counters, losses, disk, history
<1>1. /\ saved' \in [gaps : Nat, lost : Nat, stale : Nat, firstGrid : Nat]
      /\ saved'.stale <= staleSeconds /\ saved'.lost <= secondsLost
  BY DEF IInv, TypeOK, CountInv, Telemetry
<1>2. TypeOK'
  BY <1>1 DEF IInv, TypeOK
<1>3. CountInv'
  BY <1>1 DEF IInv, TypeOK, CountInv, Reported, Up
<1> QED
  BY <1>2, <1>3 DEF IInv, GridInv, ReachInv, OnTheSecondUntilStall, NoFrozenFrame, Up

\* A crash keeps files and snapshot; the counters in memory are given up.
LEMMA CrashIInv == IInv /\ CaptureGridAssumption /\ Crash => IInv'
  BY DEF Crash, IInv, TypeOK, GridInv, ReachInv, CountInv, Reported,
         OnTheSecondUntilStall, NoFrozenFrame, Up,
         pass, feed, counters, losses, disk, history

\* What Resume restores is bounded by what was reported when it was saved.
LEMMA ResumeIInv == IInv /\ CaptureGridAssumption /\ Resume => IInv'
<1> SUFFICES ASSUME IInv, CaptureGridAssumption, Resume PROVE IInv'
  OBVIOUS
<1> USE DEF Resume, pass, disk, history
<1>1. Hole \in Nat
  <2>1. now - lastFrame \in Nat /\ Interval \in Nat \ {0}
    BY DEF IInv, TypeOK, GridInv, CaptureGridAssumption
  <2> QED
    BY <2>1, SecondBounds DEF Hole, SecondOf
<1>2. ElapsedFrom \in Nat
  BY DEF IInv, TypeOK, ElapsedFrom, Never
<1>3. TypeOK'
  <2>1. saved.gaps \in Nat /\ saved.lost \in Nat /\ saved.stale \in Nat
    BY DEF IInv, TypeOK
  <2>2. boots' \in 0..MaxBoots /\ gridGaps' \in Nat
    BY <1>1, <2>1 DEF IInv, TypeOK, CaptureGridAssumption
  <2> QED
    BY <1>1, <1>2, <2>1, <2>2 DEF IInv, TypeOK
<1>4. CountInv'
  <2>1. Reported' \in Nat /\ Reported \in Nat /\ Reported' <= Reported
    BY DEF IInv, TypeOK, CountInv, Reported
  <2>2. ASSUME dayFirst # 0 PROVE Interval * (dayFirst + Reported') <= now + Interval
    <3>1. dayFirst \in Nat /\ now \in Nat /\ Interval \in Nat \ {0}
      BY DEF IInv, TypeOK, CaptureGridAssumption
    <3>2. Interval * (dayFirst + Reported) <= now + Interval
      BY <2>2 DEF IInv, CountInv
    <3> QED
      BY <2>1, <3>1, <3>2, FewerSeconds
  <2>3. dayFirst = 0 => Reported' = 0
    <3>1. dayFirst = 0 => Reported = 0
      BY DEF IInv, CountInv
    <3> QED
      BY ONLY <2>1, <3>1
  <2>4. saved.stale <= staleSeconds' /\ saved.lost <= secondsLost'
    BY DEF IInv, TypeOK
  <2> QED
    BY <2>2, <2>3, <2>4 DEF CountInv, Up
<1> QED
  BY <1>3, <1>4 DEF IInv, GridInv, ReachInv, OnTheSecondUntilStall, NoFrozenFrame, Up

\* A new loop starts its grid on the second, after everything on disk.
LEMMA StartGridIInv == IInv /\ CaptureGridAssumption /\ StartGrid => IInv'
<1> SUFFICES ASSUME IInv, CaptureGridAssumption, StartGrid PROVE IInv'
  OBVIOUS
<1> DEFINE s == SecondOf(now)
<1> USE DEF StartGrid, counters, losses, disk
<1>1. /\ s \in Nat
      /\ Interval * s <= now /\ now < Interval * s + Interval
  BY SecondBounds DEF IInv, TypeOK, CaptureGridAssumption, SecondOf
<1>2. nextTick' = Interval * s + Interval /\ nextTick' = (s + 1) * Interval
  BY <1>1 DEF AlignedAfter, CaptureGridAssumption
<1> HIDE DEF s
<1>3. TypeOK'
  BY <1>1, <1>2 DEF IInv, TypeOK, CaptureGridAssumption, s
<1>4. GridInv'
  BY <1>1, <1>2 DEF IInv, TypeOK, GridInv, Up, CaptureGridAssumption
<1>5. ReachInv'
  BY <1>1, <1>2 DEF IInv, TypeOK, ReachInv, Reach, Ahead, Up, CaptureGridAssumption, s
<1>6. CountInv'
  <2>1. dayFirst' \in Nat \ {0} /\ Reported' = Reported /\ Reported \in Nat
    BY <1>1 DEF IInv, TypeOK, Reported, s
  <2>2. dayFirst' + Reported <= s + 1
    <3>1. CASE dayFirst = 0
      BY <1>1, <3>1 DEF IInv, CountInv, s
    <3>2. CASE dayFirst # 0
      BY <3>2, <2>1, SecondsFit DEF IInv, TypeOK, CountInv, CaptureGridAssumption, SecondOf, s
    <3> QED
      BY <3>1, <3>2
  <2>3. Interval * (dayFirst' + Reported) <= Interval * (s + 1)
    BY <2>1, <2>2, <1>1, TimesMonotone DEF CaptureGridAssumption
  <2>4. Interval * (dayFirst' + Reported') <= nextTick' /\ nextTick' <= now + Interval
    BY <2>1, <2>3, <1>1, <1>2 DEF IInv, TypeOK, CaptureGridAssumption
  <2> QED
    BY <2>1, <2>4, <1>1, <1>2 DEF IInv, TypeOK, CountInv, Ahead, Up, CaptureGridAssumption
<1>7. OnTheSecondUntilStall'
  BY <1>1, <1>2, AlignedMultiple DEF OnTheSecondUntilStall, CaptureGridAssumption
<1>8. NoFrozenFrame'
  BY DEF IInv, TypeOK, GridInv, NoFrozenFrame, CaptureGridAssumption
<1> QED
  BY <1>3, <1>4, <1>5, <1>6, <1>7, <1>8 DEF IInv

\* A wake-up plans seconds that are owed, each once, and gives up the rest.
LEMMA WakeIInv == IInv /\ CaptureGridAssumption /\ Wake => IInv'
<1> SUFFICES ASSUME IInv, CaptureGridAssumption, Wake PROVE IInv'
  OBVIOUS
<1> DEFINE owed == Owed
           due == Due
<1>1. /\ owed \in Nat \ {0} /\ due \in 1..owed
      /\ owed > due \/ owed = due
      /\ now < nextTick + owed * Interval
      /\ nextTick + owed * Interval <= now + Interval
  BY OwedBounds DEF IInv, Wake
<1>2. /\ now \in Nat /\ nextTick \in Nat /\ stalls \in Nat /\ Interval \in Nat \ {0}
      /\ secondsLost \in Nat /\ lostHere \in Nat /\ gridGaps \in Nat
  BY DEF IInv, TypeOK, CaptureGridAssumption
<1>3. /\ cursor' = nextTick /\ until' = nextTick + due * Interval
      /\ pc = "wait" /\ pc' = "emit" /\ now >= nextTick
      /\ UNCHANGED <<now, boots, feed, counters, downtime, firstGrid, disk, saved,
                     dayFirst, gridFirst, emitted>>
  BY DEF Wake
<1>4. \/ /\ owed > due
         /\ nextTick' = now + Interval
         /\ gridGaps' = gridGaps + 1 /\ secondsLost' = secondsLost + (owed - due)
         /\ lostHere' = lostHere + (owed - due) /\ stalls' = stalls + 1
      \/ /\ owed = due
         /\ nextTick' = until'
         /\ UNCHANGED <<gridGaps, secondsLost, lostHere, stalls>>
  BY <1>1 DEF Wake
<1> HIDE DEF owed, due
<1> USE DEF feed, counters, disk
<1>5. due * Interval \in Nat /\ due * Interval <= owed * Interval
  BY <1>1, <1>2
<1>6. until' <= nextTick'
  BY <1>1, <1>2, <1>3, <1>4, <1>5
<1>7. nextTick' <= now + Interval /\ nextTick + owed * Interval <= nextTick'
  BY <1>1, <1>2, <1>3, <1>4, <1>5
<1>8. TypeOK'
  <2>1. nextTick' \in Nat /\ until' \in Nat /\ cursor' \in Nat
    BY <1>1, <1>2, <1>3, <1>4, <1>5
  <2>2. secondsLost' \in Nat /\ lostHere' \in Nat /\ gridGaps' \in Nat /\ stalls' \in Nat
    BY <1>1, <1>2, <1>4
  <2> QED
    BY <1>3, <2>1, <2>2 DEF IInv, TypeOK
<1>9. GridInv'
  <2>1. lastFrame' < cursor' /\ lastFrame' <= now'
    BY <1>3 DEF IInv, TypeOK, GridInv
  <2>2. \E n \in Nat : until' = cursor' + n * Interval
    BY <1>1, <1>3
  <2> QED
    BY <2>1, <2>2, <1>3, <1>6, <1>7 DEF GridInv, Up
<1> DEFINE before == gridFirst + emitted + lostHere
<1>10. ReachInv'
  <2>1. before \in Nat /\ Interval * before <= nextTick
        /\ nextTick <= Interval * before + (Interval - 1) * stalls
    BY <1>3 DEF IInv, TypeOK, ReachInv, Reach, Ahead, Up
  <2>2. Ahead' = due * Interval
    BY <1>1, <1>2, <1>3 DEF Ahead
  <2> HIDE DEF before
  <2>3. CASE owed = due
    <3>1. (gridFirst + emitted + lostHere)' = before /\ stalls' = stalls
          /\ nextTick' = nextTick + due * Interval
      BY <2>3, <1>1, <1>3, <1>4 DEF before
    <3>2. Reach' = Interval * before + due * Interval
      BY <2>2, <3>1, <1>3 DEF Reach
    <3> QED
      BY <2>1, <3>1, <3>2, <1>2, <1>5 DEF ReachInv
  <2>4. CASE owed > due
    <3>1. (gridFirst + emitted + lostHere)' = before + (owed - due)
          /\ stalls' = stalls + 1 /\ nextTick' = now + Interval
      BY <2>4, <1>1, <1>2, <1>3, <1>4 DEF before, IInv, TypeOK
    <3>2. Reach' = Interval * (before + (owed - due)) + due * Interval
      BY <2>2, <3>1, <1>3 DEF Reach
    <3>3. Interval * (before + (owed - due)) + due * Interval
            = Interval * before + owed * Interval
      BY <2>1, <1>1, <1>2
    <3>4. (Interval - 1) * (stalls + 1) = (Interval - 1) * stalls + (Interval - 1)
      BY <1>2
    <3>5. Reach' <= nextTick'
      BY <2>1, <3>1, <3>2, <3>3, <1>1, <1>2
    <3>6. nextTick' <= Reach' + (Interval - 1) * stalls'
      BY <2>1, <3>1, <3>2, <3>3, <3>4, <1>1, <1>2
    <3> QED
      BY <3>5, <3>6 DEF ReachInv
  <2> QED
    BY <2>3, <2>4, <1>1
<1>11. CountInv'
  <2> DEFINE reported == dayFirst + Reported
  <2>1. /\ captures = frames /\ saved.stale <= staleSeconds /\ saved.lost <= secondsLost
        /\ saved.lost \in Nat /\ dayFirst # 0 /\ reported \in Nat
        /\ Interval * reported <= nextTick
    BY <1>3 DEF IInv, TypeOK, CountInv, Reported, Ahead, Up
  <2>2. Ahead' = due * Interval
    BY <1>1, <1>2, <1>3 DEF Ahead
  <2> HIDE DEF reported
  <2>3. CASE owed = due
    <3>1. (dayFirst + Reported)' = reported /\ nextTick' = nextTick + due * Interval
          /\ secondsLost' = secondsLost
      BY <2>3, <1>1, <1>3, <1>4 DEF reported, Reported
    <3>2. Interval * (dayFirst + Reported)' + Ahead' <= nextTick'
      BY <3>1, <2>1, <2>2, <1>2, <1>5
    <3> QED
      BY <3>1, <3>2, <2>1, <1>2, <1>3, <1>7 DEF CountInv
  <2>4. CASE owed > due
    <3>1. (dayFirst + Reported)' = reported + (owed - due)
          /\ secondsLost' = secondsLost + (owed - due)
      BY <2>4, <1>1, <1>2, <1>3, <1>4 DEF reported, Reported, IInv, TypeOK
    <3>2. Interval * (reported + (owed - due)) + due * Interval
            = Interval * reported + owed * Interval
      BY <2>1, <1>1, <1>2
    <3>3. Interval * (dayFirst + Reported)' + Ahead' <= nextTick'
      <4>1. Interval * (dayFirst + Reported)' + Ahead'
              = Interval * reported + owed * Interval
        BY <3>1, <3>2, <2>2
      <4>2. Interval * reported \in Nat /\ owed * Interval \in Nat /\ nextTick' \in Nat
        BY <2>1, <1>1, <1>2, <1>4, <2>4
      <4> QED
        BY <4>1, <4>2, <2>1, <1>2, <1>7
    <3> QED
      BY <3>1, <3>3, <2>1, <2>2, <1>1, <1>2, <1>3, <1>5, <1>7 DEF CountInv
  <2> QED
    BY <2>3, <2>4, <1>1
<1>12. OnTheSecondUntilStall'
  <2>1. CASE owed = due
    <3>1. nextTick' = nextTick + due * Interval /\ stalls' = stalls
      BY <2>1, <1>1, <1>3, <1>4
    <3>2. stalls = 0 => nextTick % Interval = 0
      BY <1>3 DEF IInv, OnTheSecondUntilStall, Up
    <3>3. nextTick % Interval = 0 => (nextTick + due * Interval) % Interval = 0
      <4>1. due \in Nat /\ nextTick \in Nat /\ Interval \in Nat \ {0}
        BY <1>1, <1>2
      <4> QED
        BY ONLY <4>1, AlignedStep, Zenon
    <3> QED
      BY <3>1, <3>2, <3>3 DEF OnTheSecondUntilStall
  <2>2. CASE owed > due
    <3>1. stalls' = stalls + 1
      BY <2>2, <1>1, <1>4
    <3> QED
      BY <3>1, <1>2 DEF OnTheSecondUntilStall
  <2> QED
    BY <2>1, <2>2, <1>1
<1>13. NoFrozenFrame'
  BY <1>3 DEF IInv, NoFrozenFrame, Up
<1> QED
  BY <1>8, <1>9, <1>10, <1>11, <1>12, <1>13 DEF IInv

\* What the four outcomes of a due second have in common.
LEMMA EmitCommon ==
  ASSUME IInv, CaptureGridAssumption, Emit
  PROVE  /\ cursor' \in Nat /\ emitted' \in Nat /\ firstGrid' \in Nat
         /\ cursor' = cursor + Interval /\ cursor <= now /\ lastFrame < cursor
         /\ until - cursor' \in Nat
         /\ \E n \in Nat : until' = cursor' + n * Interval
         /\ Ahead = (until - cursor') + Interval /\ Ahead' = until - cursor'
         /\ ReachInv' /\ OnTheSecondUntilStall'
<1>1. /\ cursor \in Nat /\ until \in Nat /\ nextTick \in Nat /\ now \in Nat
      /\ Interval \in Nat \ {0} /\ emitted \in Nat /\ firstGrid \in Nat
      /\ gridFirst \in Nat /\ lostHere \in Nat /\ stalls \in Nat
  BY DEF IInv, TypeOK, CaptureGridAssumption
<1>2. /\ pc = "emit" /\ pc' = "emit" /\ cursor < until /\ cursor' = cursor + Interval
      /\ emitted' = emitted + 1
      /\ UNCHANGED <<now, nextTick, until, gridFirst, lostHere, stalls>>
  BY DEF Emit
<1>3. firstGrid' \in Nat
  BY <1>1 DEF Emit
<1>4. lastFrame < cursor /\ until <= nextTick /\ nextTick <= now + Interval
  BY <1>2 DEF IInv, GridInv, Up
<1>5. PICK n \in Nat : until = cursor + n * Interval
  BY <1>2 DEF IInv, GridInv
<1>6. n # 0
  BY <1>1, <1>2, <1>5
<1>7. n - 1 \in Nat /\ until = cursor' + (n - 1) * Interval
  BY <1>1, <1>2, <1>5, <1>6
<1>8. (n - 1) * Interval \in Nat
  BY <1>1, <1>7
<1>9. until - cursor' \in Nat /\ cursor' <= until
  BY <1>1, <1>2, <1>7, <1>8
<1>10. cursor <= now
  BY <1>1, <1>2, <1>4, <1>9
<1>11. Ahead = (until - cursor') + Interval /\ Ahead' = until - cursor'
  BY <1>1, <1>2 DEF Ahead
<1>12. Reach' = Reach
  <2> DEFINE others == gridFirst + emitted + lostHere
  <2>1. others \in Nat /\ (gridFirst + emitted + lostHere)' = others + 1
    BY <1>1, <1>2
  <2>2. Reach = Interval * others + Ahead /\ Reach' = Interval * (others + 1) + Ahead'
    BY <2>1, <1>2 DEF Reach
  <2> HIDE DEF others
  <2>3. Interval * (others + 1) = Interval * others + Interval
    BY <2>1, <1>1
  <2> QED
    BY <2>1, <2>2, <2>3, <1>1, <1>9, <1>11
<1>13. ReachInv'
  BY <1>2, <1>12 DEF IInv, ReachInv, Up
<1>14. OnTheSecondUntilStall'
  BY <1>2 DEF IInv, OnTheSecondUntilStall, Up
<1> QED
  BY <1>1, <1>2, <1>3, <1>4, <1>7, <1>9, <1>10, <1>11, <1>13, <1>14

\* A second given up or written is reported in one place more; an unscheduled
\* one in none.
LEMMA EmitCountInv ==
  ASSUME IInv, CaptureGridAssumption, Emit,
         captures' = frames', saved' = saved,
         staleSeconds' \in Nat, staleSeconds <= staleSeconds',
         Reported' \in Nat, Reported <= Reported', Reported' <= Reported + 1
  PROVE  CountInv'
<1>1. /\ dayFirst \in Nat \ {0} /\ Reported \in Nat /\ now \in Nat /\ nextTick \in Nat
      /\ Interval \in Nat \ {0} /\ saved.stale \in Nat /\ staleSeconds \in Nat
      /\ saved.stale <= staleSeconds /\ saved.lost <= secondsLost
      /\ Interval * (dayFirst + Reported) + Ahead <= nextTick
      /\ nextTick <= now + Interval
  BY DEF IInv, TypeOK, CaptureGridAssumption, CountInv, GridInv, Reported, Up, Emit
<1>2. /\ pc' = "emit"
      /\ UNCHANGED <<now, nextTick, dayFirst, secondsLost>>
  BY DEF Emit, losses
<1>3. until - cursor' \in Nat /\ Ahead = (until - cursor') + Interval
      /\ Ahead' = until - cursor'
  BY EmitCommon
<1>4. Interval * (dayFirst + Reported') <= Interval * (dayFirst + Reported) + Interval
  BY <1>1, OneMoreSecond
<1>5. Interval * (dayFirst + Reported') \in Nat /\ Interval * (dayFirst + Reported) \in Nat
  BY <1>1, ProductNat
<1>6. Interval * (dayFirst + Reported') + Ahead' <= nextTick
  BY <1>1, <1>3, <1>4, <1>5
<1>7. Ahead' \in Nat
  BY <1>3
<1>8. Interval * (dayFirst + Reported') <= now + Interval
  BY <1>1, <1>5, <1>6, <1>7, LeftSummand
<1>9. saved.stale <= staleSeconds' /\ saved.lost <= secondsLost'
  BY <1>1, <1>2
<1> QED
  BY <1>1, <1>2, <1>6, <1>8, <1>9 DEF CountInv, Up

\* A grid second that is skipped, for whichever of the three reasons, is still
\* one emitted second and one count (the `continue` branches of run's pass).
LEMMA SkipIInv ==
  ASSUME IInv, CaptureGridAssumption,
         SkipUnscheduled \/ SkipAwaitingFirstTick \/ SkipStale
  PROVE  IInv'
<1> USE DEF SkipUnscheduled, SkipAwaitingFirstTick, SkipStale, disk, feed
<1>1. Emit /\ UNCHANGED <<now, pc, boots, nextTick, until, feed, losses, saved,
                          dayFirst, gridFirst, lostHere, stalls, captures, disk>>
  BY DEF Emit
<1>2. /\ staleSeconds' \in Nat /\ staleSeconds <= staleSeconds'
      /\ awaitingSeconds' \in Nat /\ unscheduledSeconds' \in Nat
      /\ Reported' \in Nat /\ Reported <= Reported' /\ Reported' <= Reported + 1
  BY <1>1 DEF IInv, TypeOK, Reported, losses
<1>3. TypeOK'
  BY <1>1, <1>2, EmitCommon DEF IInv, TypeOK, losses
<1>4. GridInv'
  BY <1>1, EmitCommon DEF IInv, TypeOK, GridInv, Up, CaptureGridAssumption
<1>5. CountInv'
  BY <1>1, <1>2, EmitCountInv DEF IInv, CountInv
<1>6. NoFrozenFrame'
  BY <1>1 DEF IInv, NoFrozenFrame, Up
<1> QED
  BY <1>1, <1>3, <1>4, <1>5, <1>6, EmitCommon DEF IInv

\* Writing the second's frame keeps the invariant: the stamp is past lastFrame
\* and short of StaleAfter.
LEMMA WriteFrameIInv == IInv /\ CaptureGridAssumption /\ WriteFrame => IInv'
<1> SUFFICES ASSUME IInv, CaptureGridAssumption, WriteFrame PROVE IInv'
  OBVIOUS
<1> USE DEF WriteFrame
<1>1. /\ Emit /\ captures' = captures + 1 /\ frames' = frames + 1 /\ lastFrame' = cursor
      /\ UNCHANGED <<now, pc, boots, nextTick, until, feed, losses, saved,
                     dayFirst, gridFirst, lostHere, stalls,
                     staleSeconds, awaitingSeconds, unscheduledSeconds>>
  BY DEF Emit
<1>2. /\ captures' \in Nat /\ frames' \in Nat /\ captures' = frames'
      /\ firstFrame' \in Nat /\ lastFrame' \in Nat
      /\ Reported' \in Nat /\ Reported <= Reported' /\ Reported' <= Reported + 1
      /\ staleSeconds \in Nat
  BY <1>1 DEF IInv, TypeOK, Reported, losses, CountInv
<1>3. TypeOK'
  BY <1>1, <1>2, EmitCommon DEF IInv, TypeOK, losses, feed
<1>4. GridInv'
  <2>1. until <= nextTick /\ nextTick <= now + Interval /\ cursor \in Nat /\ now \in Nat
        /\ Interval \in Nat \ {0} /\ pc = "emit"
    BY <1>1 DEF IInv, TypeOK, GridInv, Up, CaptureGridAssumption, Emit
  <2>2. lastFrame' <= now /\ lastFrame' < cursor'
    BY <1>1, <2>1, EmitCommon
  <2> QED
    BY <1>1, <2>1, <2>2, EmitCommon DEF GridInv, Up
<1>5. CountInv'
  BY <1>1, <1>2, EmitCountInv
<1>6. NoFrozenFrame'
  BY <1>1 DEF IInv, TypeOK, NoFrozenFrame, Stale, feed, CaptureGridAssumption
<1> QED
  BY <1>1, <1>3, <1>4, <1>5, <1>6, EmitCommon DEF IInv

\* A pass is over exactly when its last second was emitted.
LEMMA PassDoneIInv == IInv /\ CaptureGridAssumption /\ PassDone => IInv'
<1> SUFFICES ASSUME IInv, CaptureGridAssumption, PassDone PROVE IInv'
  OBVIOUS
<1> USE DEF PassDone, pass, feed, counters, losses, disk, history
<1>1. cursor \in Nat /\ until \in Nat /\ Interval \in Nat \ {0} /\ lastFrame \in Nat
      /\ nextTick \in Nat
  BY DEF IInv, TypeOK, CaptureGridAssumption
<1>2. cursor = until
  <2>1. PICK n \in Nat : until = cursor + n * Interval
    BY DEF IInv, GridInv
  <2>2. n * Interval \in Nat
    BY <1>1
  <2> QED
    BY <1>1, <2>1, <2>2
<1>3. Ahead = 0 /\ Ahead' = 0
  BY <1>1, <1>2 DEF Ahead
<1>4. TypeOK'
  BY DEF IInv, TypeOK
<1>5. GridInv'
  BY <1>1, <1>2 DEF IInv, GridInv, Up
<1>6. ReachInv'
  BY <1>3 DEF IInv, ReachInv, Reach, Up
<1>7. CountInv'
  BY <1>3 DEF IInv, CountInv, Reported, Up
<1> QED
  BY <1>4, <1>5, <1>6, <1>7 DEF IInv, OnTheSecondUntilStall, NoFrozenFrame, Up

\* A step that changes nothing keeps the invariant.
LEMMA StutterIInv == IInv /\ UNCHANGED vars => IInv'
  BY DEF vars, IInv, TypeOK, GridInv, ReachInv, Reach, Ahead, CountInv, Reported,
         OnTheSecondUntilStall, NoFrozenFrame, Up,
         pass, feed, counters, losses, disk, history

----------------------------------------------------------------------------
(* The theorems. *)

\* The inductive invariant holds of every reachable state.
THEOREM InductiveInvariant == Spec => []IInv
<1>1. Init => IInv
  BY InitIInv, CaptureGridAssumption
<1>2. IInv /\ [Next]_vars => IInv'
  <2> SUFFICES ASSUME IInv, [Next]_vars PROVE IInv'
    OBVIOUS
  <2> USE CaptureGridAssumption
  <2>1. CASE ClockTick
    BY <2>1, ClockTickIInv
  <2>2. ASSUME NEW changed \in BOOLEAN, ApplyBatch(changed) PROVE IInv'
    BY <2>2, ApplyBatchIInv
  <2>3. CASE Resume
    BY <2>3, ResumeIInv
  <2>4. CASE StartGrid
    BY <2>4, StartGridIInv
  <2>5. CASE PersistTelemetry
    BY <2>5, PersistIInv
  <2>6. CASE EndRun
    BY <2>6, EndRunIInv
  <2>7. CASE Crash
    BY <2>7, CrashIInv
  <2>8. CASE Wake
    BY <2>8, WakeIInv
  <2>9. CASE SkipUnscheduled \/ SkipAwaitingFirstTick \/ SkipStale
    BY <2>9, SkipIInv
  <2>10. CASE WriteFrame
    BY <2>10, WriteFrameIInv
  <2>11. CASE PassDone
    BY <2>11, PassDoneIInv
  <2>12. CASE DayOver \/ UNCHANGED vars
    BY <2>12, StutterIInv DEF DayOver
  <2> QED
    BY <2>1, <2>2, <2>3, <2>4, <2>5, <2>6, <2>7, <2>8, <2>9, <2>10, <2>11, <2>12 DEF Next
<1> QED
  BY <1>1, <1>2, PTL DEF Spec

\* Every variable keeps its type: in particular no counter and no hole computed
\* from two timestamps is ever negative.
THEOREM TypeCorrect == Spec => []TypeOK
<1>1. IInv => TypeOK
  BY DEF IInv
<1> QED
  BY <1>1, InductiveInvariant, PTL

\* _due_ticks skips no grid second: between two passes all of them were emitted
\* or counted as lost, and the grid is late by less than a second per stall.
THEOREM NoSecondSkipped == Spec => []EverySecondAccounted
<1>1. IInv => EverySecondAccounted
  <2> SUFFICES ASSUME IInv, pc = "wait" PROVE EverySecondAccounted
    BY DEF EverySecondAccounted
  <2>1. Reach = Interval * (gridFirst + emitted + lostHere)
    <3>1. gridFirst \in Nat /\ emitted \in Nat /\ lostHere \in Nat /\ Interval \in Nat
      BY CaptureGridAssumption DEF IInv, TypeOK, CaptureGridAssumption
    <3> QED
      BY <3>1 DEF Reach, Ahead
  <2> QED
    BY <2>1 DEF IInv, ReachInv, Up, EverySecondAccounted
<1> QED
  BY <1>1, InductiveInvariant, PTL

\* Restoring the counters after a restart reports no grid second twice.
THEOREM RestartsCountOnce == Spec => []CountedOnce
<1>1. IInv => CountedOnce
  <2> SUFFICES ASSUME IInv PROVE CountedOnce
    OBVIOUS
  <2>1. dayFirst = 0 => Reported = 0
    BY DEF IInv, CountInv
  <2>2. dayFirst # 0 => dayFirst + Reported <= SecondOf(now) + 1
    <3>1. dayFirst + Reported \in Nat /\ now \in Nat /\ Interval \in Nat \ {0}
      BY CaptureGridAssumption DEF IInv, TypeOK, Reported, CaptureGridAssumption
    <3>2. dayFirst # 0 => Interval * (dayFirst + Reported) <= now + Interval
      BY DEF IInv, CountInv
    <3> QED
      BY <3>1, <3>2, SecondsFit DEF SecondOf
  <2> QED
    BY <2>1, <2>2 DEF CountedOnce
<1> QED
  BY <1>1, InductiveInvariant, PTL

\* A process that never stalled stamps every frame on the second.
THEOREM OnTheSecond == Spec => []OnTheSecondUntilStall
<1>1. IInv => OnTheSecondUntilStall
  BY DEF IInv
<1> QED
  BY <1>1, InductiveInvariant, PTL

\* Both together, as the run checks them: late wake-ups and catching up cost no second
\* of the grid, and nothing but a stall moves it off the second.
THEOREM GridAccounted == Spec => []SecondsAccounted
<1>1. EverySecondAccounted /\ OnTheSecondUntilStall => SecondsAccounted
  BY DEF SecondsAccounted
<1> QED
  BY <1>1, NoSecondSkipped, OnTheSecond, PTL

\* With suppression on, no frame is stamped StaleAfter past the last change.
THEOREM NothingFrozenWritten == Spec => []NoFrozenFrame
<1>1. IInv => NoFrozenFrame
  BY DEF IInv
<1> QED
  BY <1>1, InductiveInvariant, PTL

\* Timestamps on disk only advance, restarts and catching up included.
THEOREM TimestampsAdvance == Spec => FramesAdvance
<1>1. IInv /\ [Next]_vars => [lastFrame' # lastFrame => lastFrame' > lastFrame]_vars
  <2> SUFFICES ASSUME IInv, Next, lastFrame' # lastFrame PROVE lastFrame' > lastFrame
    OBVIOUS
  <2>1. WriteFrame
    BY DEF Next, ClockTick, ApplyBatch, Resume, StartGrid, PersistTelemetry, EndRun, Crash,
           Wake, SkipUnscheduled, SkipAwaitingFirstTick, SkipStale, PassDone, DayOver,
           vars, disk
  <2>2. lastFrame' = cursor /\ pc = "emit" /\ cursor \in Nat /\ lastFrame \in Nat
    BY <2>1 DEF WriteFrame, Emit, IInv, TypeOK
  <2> QED
    BY <2>2 DEF IInv, GridInv
<1> QED
  BY <1>1, InductiveInvariant, PTL DEF Spec, FramesAdvance
=============================================================================
