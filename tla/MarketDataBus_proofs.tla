-------------------------- MODULE MarketDataBus_proofs --------------------------
(***************************************************************************)
(* Proofs about MarketDataBus, for queues and pipes of any size and any    *)
(* number of runs, restarts and faults: overflow never costs the newest    *)
(* ticks, what is in transit is in order and ahead of what was read, and   *)
(* what a reader counts as missed was lost.                                *)
(***************************************************************************)
EXTENDS MarketDataBus, SequenceTheorems, FiniteSetTheorems, TLAPS

Hands == [kind: {"none", "ticks", "session"}, left: 0..MaxChunks]
Publisher == [queue: Seq({"ticks", "session"}), hand: Hands, sequence: Nat]

CountInv == run \in Runs /\ sessions \in 0..MaxSessions /\ faults \in 0..MaxFaults

\* While batches wait, the last of them is the newest; when none does, the newest
\* has been applied.  That it has been applied earlier would not do: an older one
\* still waiting would then overwrite it.
TickInv ==
    /\ arrived \in 0..MaxBatches /\ applied \in 0..arrived
    /\ tickQ \in Seq(1..arrived) /\ Len(tickQ) <= TickCap
    /\ IF tickQ = <<>> THEN applied = arrived ELSE tickQ[Len(tickQ)] = arrived

\* What a publisher with n as its last number can have in transit.
PipeSound(s, n) == s \in Seq(1..n) /\ Len(s) <= PipeCap /\ Increasing(s)

PubInv ==
    /\ pub \in [Runs -> Publisher]
    /\ pipe \in [Runs -> Seq(Nat)]
    /\ \A r \in Runs: Len(pub[r].queue) <= QueueCap /\ PipeSound(pipe[r], pub[r].sequence)

\* The order of numbers across starts of the bus.
Earlier(e, n, f, m) == e < f \/ (e = f /\ n < m)

\* What is in transit behind the bus is in order, not beyond the bus's own number
\* and ahead of what the subscriber has had.
OutSound(s, b, t) ==
    /\ s \in Seq(Epochs \X Nat) /\ Len(s) <= PipeCap
    /\ \A i, j \in 1..Len(s): i < j => Earlier(s[i][1], s[i][2], s[j][1], s[j][2])
    /\ \A i \in 1..Len(s): /\ ~Earlier(b.epoch, b.sequence, s[i][1], s[i][2])
                           /\ Earlier(t.epoch, t.last, s[i][1], s[i][2])
    /\ ~Earlier(b.epoch, b.sequence, t.epoch, t.last)

Buses == [epoch: Epochs, sequence: Nat, from: 0..MaxRuns, seen: Nat, missed: Nat]
Trackers == [epoch: 0..MaxEpochs, last: Nat, missed: Nat]

OutInv == bus \in Buses /\ tracker \in Trackers /\ OutSound(out, bus, tracker)

\* The last number of run r that has left its pipe, for the bus or lost.
Passed(r) == pub[r].sequence - Len(pipe[r])

\* What the bus counted as missed: as many numbers that were lost, none of them ahead
\* of what it has had of the run.
Counted(lost) ==
    /\ Cardinality(lost) = bus.missed
    /\ \A m \in lost: /\ m \in Runs \X Nat /\ m[2] <= Passed(m[1])
                      /\ m[1] = bus.from => m[2] <= bus.seen

\* What is in a pipe is numbered without a gap up to the last number used; and what
\* has left the pipe of the run that the bus listens to after the number it saw last was
\* lost.
HopInv ==
    /\ \A r \in Runs: /\ Passed(r) \in Nat
                      /\ \A i \in 1..Len(pipe[r]): pipe[r][i] = Passed(r) + i
    /\ bus.from # 0 => /\ bus.seen <= Passed(bus.from)
                       /\ \A n \in (bus.seen + 1)..Passed(bus.from): <<bus.from, n>> \in lostIn
    /\ IsFiniteSet(lostIn)
    /\ \E lost \in SUBSET lostIn: Counted(lost)

\* Lost between two messages of an epoch that the subscriber had.
Between ==
    {m \in lostOut: \E a, b \in heard: a[1] = m[1] /\ b[1] = m[1] /\ a[2] < m[2] /\ m[2] < b[2]}

\* Whatever the bus numbered is somewhere.
Settled == heard \cup lostOut \cup {out[i] : i \in 1..Len(out)}

HeardInv ==
    /\ lostOut \subseteq Epochs \X Nat /\ heard \subseteq Epochs \X Nat
    /\ heard \cap lostOut = {} /\ \A i \in 1..Len(out): out[i] \notin lostOut
    /\ \A m \in lostOut: ~Earlier(bus.epoch, bus.sequence, m[1], m[2])
    /\ \A m \in heard: ~Earlier(tracker.epoch, tracker.last, m[1], m[2])
    /\ tracker.epoch # 0 => <<tracker.epoch, tracker.last>> \in heard
    /\ \A n \in 1..bus.sequence: <<bus.epoch, n>> \in Settled
    /\ \A i \in 1..Len(out): \A n \in 1..out[i][2]: <<out[i][1], n>> \in Settled
    /\ IsFiniteSet(Between) /\ Cardinality(Between) = tracker.missed

IInv == CountInv /\ TickInv /\ PubInv /\ OutInv /\ HopInv /\ HeardInv

-----------------------------------------------------------------------------
(* Sequences. *)

\* Nothing in transit is sound.
LEMMA PipeEmpty == \A n \in Nat: PipeSound(<<>>, n)
  BY ConstantsAssumption, EmptySeq DEF PipeSound, Increasing, ConstantsAssumption

\* One message less in transit is sound.
LEMMA PipeTail ==
  ASSUME NEW n \in Nat, NEW s, PipeSound(s, n), s # <<>>
  PROVE  PipeSound(Tail(s), n) /\ Head(s) \in 1..n
<1>1. s \in Seq(1..n) /\ Len(s) \in Nat /\ Len(s) > 0
  BY EmptySeq DEF PipeSound
<1>2. /\ Tail(s) \in Seq(1..n) /\ Len(Tail(s)) = Len(s) - 1 /\ Head(s) \in 1..n
      /\ \A i \in 1..Len(Tail(s)): Tail(s)[i] = s[i + 1]
  BY <1>1, HeadTailProperties
<1>3. ASSUME NEW i \in 2..Len(Tail(s)) PROVE Tail(s)[i - 1] < Tail(s)[i]
  <2>1. Tail(s)[i - 1] = s[i] /\ Tail(s)[i] = s[i + 1]
    BY <1>1, <1>2
  <2>2. i + 1 \in 2..Len(s) /\ (i + 1) - 1 = i
    BY <1>1, <1>2
  <2> QED
    BY <2>1, <2>2 DEF PipeSound, Increasing
<1> QED
  BY <1>1, <1>2, <1>3, ConstantsAssumption DEF PipeSound, Increasing, ConstantsAssumption

\* So is one more, under the next number.
LEMMA PipeAppend ==
  ASSUME NEW n \in Nat, NEW s, PipeSound(s, n), Len(s) < PipeCap
  PROVE  PipeSound(Append(s, n + 1), n + 1)
<1>1. s \in Seq(1..n) /\ s \in Seq(1..(n + 1)) /\ Len(s) \in Nat
  BY SeqMonotonic DEF PipeSound
<1>2. /\ Append(s, n + 1) \in Seq(1..(n + 1)) /\ Len(Append(s, n + 1)) = Len(s) + 1
      /\ \A i \in 1..Len(s): Append(s, n + 1)[i] = s[i]
      /\ Append(s, n + 1)[Len(s) + 1] = n + 1
  BY <1>1, AppendProperties
<1>3. ASSUME NEW i \in 2..(Len(s) + 1) PROVE Append(s, n + 1)[i - 1] < Append(s, n + 1)[i]
  <2>1. Append(s, n + 1)[i - 1] = s[i - 1] /\ s[i - 1] \in 1..n
    BY <1>1, <1>2, ElementOfSeq
  <2>2. CASE i = Len(s) + 1
    BY <1>2, <2>1, <2>2
  <2>3. CASE i # Len(s) + 1
    BY <1>1, <1>2, <2>1, <2>3 DEF PipeSound, Increasing
  <2> QED
    BY <2>2, <2>3
<1>4. Len(Append(s, n + 1)) <= PipeCap
  BY <1>1, <1>2, ConstantsAssumption DEF ConstantsAssumption
<1>5. Increasing(Append(s, n + 1))
  BY <1>2, <1>3 DEF Increasing
<1> QED
  BY <1>2, <1>4, <1>5 DEF PipeSound

\* What the subscriber reads was the earliest, and the rest is ahead of it.
LEMMA OutTail ==
  ASSUME NEW b \in Buses, NEW t \in Trackers, NEW s, OutSound(s, b, t), s # <<>>,
         NEW u \in Trackers, u.epoch = s[1][1], u.last = s[1][2]
  PROVE  OutSound(Tail(s), b, u)
<1>1. s \in Seq(Epochs \X Nat) /\ Len(s) \in Nat /\ Len(s) > 0
  BY EmptySeq DEF OutSound
<1>2. /\ Tail(s) \in Seq(Epochs \X Nat) /\ Len(Tail(s)) = Len(s) - 1
      /\ \A i \in 1..Len(Tail(s)): Tail(s)[i] = s[i + 1]
  BY <1>1, HeadTailProperties
<1>3. \A i \in 1..Len(Tail(s)): i + 1 \in 1..Len(s) /\ 1 < i + 1
  BY <1>1, <1>2
<1>4. \A i, j \in 1..Len(Tail(s)): i < j => i + 1 < j + 1
  BY <1>1, <1>2
<1>5. 1 \in 1..Len(s)
  BY <1>1
<1>6. Len(Tail(s)) <= PipeCap
  BY <1>1, <1>2, ConstantsAssumption DEF OutSound, ConstantsAssumption
<1> HIDE DEF Earlier
<1> QED
  BY <1>2, <1>3, <1>4, <1>5, <1>6 DEF OutSound

\* What the bus sends comes after all it has sent.
LEMMA OutAppend ==
  ASSUME NEW b \in Buses, NEW t \in Trackers, NEW s, OutSound(s, b, t), Len(s) < PipeCap,
         NEW c \in Buses, c.epoch = b.epoch, c.sequence = b.sequence + 1
  PROVE  OutSound(Append(s, <<b.epoch, b.sequence + 1>>), c, t)
<1> DEFINE m == <<b.epoch, b.sequence + 1>>
<1>1. s \in Seq(Epochs \X Nat) /\ Len(s) \in Nat /\ m \in Epochs \X Nat
      /\ m[1] = b.epoch /\ m[2] = b.sequence + 1
  BY DEF OutSound, Buses
<1>2. /\ Append(s, m) \in Seq(Epochs \X Nat) /\ Len(Append(s, m)) = Len(s) + 1
      /\ \A i \in 1..Len(s): Append(s, m)[i] = s[i]
      /\ Append(s, m)[Len(s) + 1] = m
  BY <1>1, AppendProperties
<1>3. \A i \in 1..Len(s): s[i][1] \in Nat /\ s[i][2] \in Nat
  <2>1. \A i \in 1..Len(s): s[i] \in Epochs \X Nat
    BY <1>1, ElementOfSeq
  <2> QED
    BY <2>1 DEF Epochs
<1>4. /\ b.epoch \in Nat /\ b.sequence \in Nat /\ t.epoch \in Nat /\ t.last \in Nat
  BY DEF Buses, Trackers, Epochs
<1>5. \A i \in 1..Len(s): Earlier(s[i][1], s[i][2], b.epoch, b.sequence + 1)
  <2> SUFFICES ASSUME NEW i \in 1..Len(s)
               PROVE  Earlier(s[i][1], s[i][2], b.epoch, b.sequence + 1)
    OBVIOUS
  <2>1. ~Earlier(b.epoch, b.sequence, s[i][1], s[i][2])
    BY DEF OutSound
  <2> QED
    BY <2>1, <1>3, <1>4 DEF Earlier
<1>6. Earlier(t.epoch, t.last, b.epoch, b.sequence + 1)
  BY <1>4 DEF OutSound, Earlier
<1>7. \A i \in 1..Len(s): ~Earlier(c.epoch, c.sequence, s[i][1], s[i][2])
  BY <1>3, <1>4 DEF OutSound, Earlier
<1>8. /\ ~Earlier(c.epoch, c.sequence, b.epoch, b.sequence + 1)
      /\ ~Earlier(c.epoch, c.sequence, t.epoch, t.last)
  BY <1>4 DEF OutSound, Earlier
<1> HIDE DEF m
<1>9. ASSUME NEW i \in 1..(Len(s) + 1)
      PROVE  /\ Append(s, m)[i] = IF i = Len(s) + 1 THEN m ELSE s[i]
             /\ i # Len(s) + 1 => i \in 1..Len(s)
  BY <1>1, <1>2
<1>10. ASSUME NEW i \in 1..(Len(s) + 1), NEW j \in 1..(Len(s) + 1), i < j
       PROVE  Earlier(Append(s, m)[i][1], Append(s, m)[i][2], Append(s, m)[j][1], Append(s, m)[j][2])
  <2>1. i \in 1..Len(s) /\ Append(s, m)[i] = s[i]
    BY <1>1, <1>2, <1>10
  <2>2. CASE j = Len(s) + 1
    BY <1>1, <1>2, <1>5, <2>1, <2>2
  <2>3. CASE j # Len(s) + 1
    BY <1>1, <1>9, <1>10, <2>1, <2>3 DEF OutSound
  <2> QED
    BY <2>2, <2>3
<1>11. ASSUME NEW i \in 1..(Len(s) + 1)
       PROVE  /\ ~Earlier(c.epoch, c.sequence, Append(s, m)[i][1], Append(s, m)[i][2])
              /\ Earlier(t.epoch, t.last, Append(s, m)[i][1], Append(s, m)[i][2])
  <2>1. CASE i = Len(s) + 1
    BY <1>1, <1>9, <1>6, <1>8, <2>1
  <2>2. CASE i # Len(s) + 1
    BY <1>9, <1>7, <2>2 DEF OutSound
  <2> QED
    BY <2>1, <2>2
<1>12. Len(s) + 1 <= PipeCap
  BY <1>1, ConstantsAssumption DEF ConstantsAssumption
<1>13. OutSound(Append(s, m), c, t)
  BY <1>2, <1>8, <1>10, <1>11, <1>12 DEF OutSound
<1> QED
  BY <1>13 DEF m

\* The bus may count on without sending.
LEMMA OutLater ==
  ASSUME NEW b \in Buses, NEW t \in Trackers, NEW s, OutSound(s, b, t),
         NEW c \in Buses, ~Earlier(c.epoch, c.sequence, b.epoch, b.sequence)
  PROVE  OutSound(s, c, t) /\ OutSound(<<>>, c, t)
<1>1. \A i \in 1..Len(s): s[i] \in Epochs \X Nat
  BY ElementOfSeq DEF OutSound
<1>2. \A i \in 1..Len(s): s[i][1] \in Nat /\ s[i][2] \in Nat
  BY <1>1 DEF Epochs
<1>3. /\ b.epoch \in Nat /\ b.sequence \in Nat /\ t.epoch \in Nat /\ t.last \in Nat
      /\ c.epoch \in Nat /\ c.sequence \in Nat
  BY DEF Buses, Trackers, Epochs
<1>4. /\ \A i \in 1..Len(s): ~Earlier(c.epoch, c.sequence, s[i][1], s[i][2])
      /\ ~Earlier(c.epoch, c.sequence, t.epoch, t.last)
  <2>1. \A e, n \in Nat: ~Earlier(b.epoch, b.sequence, e, n) => ~Earlier(c.epoch, c.sequence, e, n)
    BY <1>3 DEF Earlier
  <2>2. /\ \A i \in 1..Len(s): ~Earlier(b.epoch, b.sequence, s[i][1], s[i][2])
        /\ ~Earlier(b.epoch, b.sequence, t.epoch, t.last)
    BY DEF OutSound
  <2> QED
    BY <1>2, <1>3, <2>1, <2>2
<1>5. <<>> \in Seq(Epochs \X Nat) /\ Len(<<>>) = 0 /\ 0 <= PipeCap
  BY EmptySeq, ConstantsAssumption DEF ConstantsAssumption
<1> QED
  BY <1>4, <1>5 DEF OutSound

-----------------------------------------------------------------------------
(* The steps. *)

\* Nothing has been numbered, lost or heard.
LEMMA InitLosses == Init => HopInv /\ HeardInv
<1> SUFFICES ASSUME Init PROVE HopInv /\ HeardInv
  OBVIOUS
<1>1. HopInv
  <2>1. \A r \in Runs: Passed(r) = 0 /\ Len(pipe[r]) = 0
    BY EmptySeq DEF Init, Passed, Fresh
  <2>2. lostIn = {} /\ bus.from = 0 /\ bus.missed = 0
    BY DEF Init
  <2>3. Counted({}) /\ IsFiniteSet(lostIn)
    BY <2>2, FS_EmptySet DEF Counted
  <2>4. \E lost \in SUBSET lostIn: Counted(lost)
    BY <2>3
  <2> QED
    BY <2>1, <2>2, <2>3, <2>4 DEF HopInv
<1>2. HeardInv
  <2>1. /\ lostOut = {} /\ heard = {} /\ out = <<>> /\ Len(out) = 0 /\ tracker.epoch = 0
        /\ tracker.missed = 0 /\ bus.sequence = 0
    BY EmptySeq DEF Init, Unheard
  <2>2. Between = {}
    BY <2>1 DEF Between
  <2>3. IsFiniteSet(Between) /\ Cardinality(Between) = 0
    BY <2>2, FS_EmptySet
  <2> QED
    BY <2>1, <2>3 DEF HeardInv
<1> QED
  BY <1>1, <1>2

\* Nothing has happened.
LEMMA InitIInv == Init => IInv
<1> SUFFICES ASSUME Init PROVE IInv
  OBVIOUS
<1>1. {MaxRuns, MaxEpochs, MaxChunks, TickCap, QueueCap, PipeCap} \subseteq Nat \ {0}
      /\ {MaxBatches, MaxSessions, MaxFaults} \subseteq Nat
  BY ConstantsAssumption DEF ConstantsAssumption
<1>2. CountInv
  BY <1>1 DEF Init, CountInv, Runs
<1>3. TickInv
  BY <1>1, EmptySeq DEF Init, TickInv
<1>4. Fresh \in Publisher
  BY <1>1, EmptySeq DEF Fresh, Publisher, Empty, Hands
<1>5. PubInv
  <2>1. pub \in [Runs -> Publisher] /\ pipe \in [Runs -> Seq(Nat)]
    BY <1>4, EmptySeq DEF Init
  <2>2. ASSUME NEW r \in Runs
        PROVE  Len(pub[r].queue) <= QueueCap /\ PipeSound(pipe[r], pub[r].sequence)
    <3>1. pub[r] = Fresh /\ pipe[r] = <<>>
      BY DEF Init
    <3>2. Fresh.queue = <<>> /\ Fresh.sequence = 0
      BY DEF Fresh
    <3> QED
      BY <1>1, <3>1, <3>2, EmptySeq, PipeEmpty
  <2> QED
    BY <2>1, <2>2 DEF PubInv
<1>6. OutInv
  <2>1. bus \in Buses /\ tracker \in Trackers
    BY <1>1 DEF Init, Buses, Trackers, Epochs, Unheard
  <2>2. out = <<>> /\ bus.epoch = 1 /\ bus.sequence = 0 /\ tracker.epoch = 0 /\ tracker.last = 0
    BY DEF Init, Unheard
  <2>3. out \in Seq(Epochs \X Nat) /\ Len(out) = 0 /\ Len(out) <= PipeCap
    BY <1>1, <2>2, EmptySeq
  <2> QED
    BY <2>1, <2>2, <2>3 DEF OutInv, OutSound, Earlier
<1> QED
  BY <1>2, <1>3, <1>5, <1>6, InitLosses DEF IInv

\* Runs, token maps and faults stay within their bounds.
LEMMA CountStep == CountInv /\ [Next]_vars => CountInv'
<1> SUFFICES ASSUME CountInv, [Next]_vars PROVE CountInv'
  OBVIOUS
<1>1. run' \in {run, run + 1} /\ (run' # run => run < MaxRuns)
      /\ sessions' \in {sessions, sessions + 1} /\ (sessions' # sessions => sessions < MaxSessions)
      /\ faults' \in {faults, faults + 1} /\ (faults' # faults => faults < MaxFaults)
  BY DEF Next, vars, ingest, TicksArrive, ApplyTicks, PublishSession, NextRun, WorkerTakes,
     WorkerSends, WorkerRefused, WorkerFault, TransitLoses, Ingest, Republish, RepublishRefused,
     BusRestarts, Receive, Fault
<1> QED
  BY <1>1, ConstantsAssumption DEF CountInv, Runs, ConstantsAssumption

\* The ingestion queue gives up its oldest, and the engine takes the oldest.
LEMMA TickStep == TickInv /\ [Next]_vars => TickInv'
<1> SUFFICES ASSUME TickInv, [Next]_vars PROVE TickInv'
  OBVIOUS
<1>0. TickCap \in Nat \ {0} /\ MaxBatches \in Nat /\ arrived \in Nat /\ Len(tickQ) \in Nat
  BY ConstantsAssumption DEF TickInv, ConstantsAssumption
<1>1. CASE TicksArrive
  <2>1. arrived' = arrived + 1 /\ arrived < MaxBatches /\ applied' = applied
        /\ tickQ' = Enqueue(arrived + 1)
    BY <1>1 DEF TicksArrive
  <2> DEFINE kept == IF Len(tickQ) = TickCap THEN Tail(tickQ) ELSE tickQ
  <2>2. kept \in Seq(1..arrived) /\ Len(kept) \in Nat /\ Len(kept) < TickCap
    <3>1. CASE Len(tickQ) = TickCap
      <4>1. tickQ # <<>>
        BY <1>0, <3>1, EmptySeq
      <4>2. Tail(tickQ) \in Seq(1..arrived) /\ Len(Tail(tickQ)) = Len(tickQ) - 1
        BY <4>1, HeadTailProperties DEF TickInv
      <4> QED
        BY <1>0, <3>1, <4>2
    <3>2. CASE Len(tickQ) # TickCap
      BY <1>0, <3>2 DEF TickInv
    <3> QED
      BY <3>1, <3>2
  <2>3. tickQ' = Append(kept, arrived + 1)
    BY <2>1 DEF Enqueue
  <2>4. kept \in Seq(1..(arrived + 1)) /\ arrived + 1 \in 1..(arrived + 1)
    BY <1>0, <2>2, SeqMonotonic
  <2> HIDE DEF kept
  <2>5. /\ tickQ' \in Seq(1..(arrived + 1)) /\ tickQ' # <<>>
        /\ Len(tickQ') = Len(kept) + 1 /\ tickQ'[Len(kept) + 1] = arrived + 1
    BY <2>3, <2>4, AppendProperties
  <2> QED
    BY <1>0, <2>1, <2>2, <2>5 DEF TickInv
<1>2. CASE ApplyTicks
  <2>1. tickQ # <<>> /\ applied' = Head(tickQ) /\ tickQ' = Tail(tickQ) /\ arrived' = arrived
    BY <1>2 DEF ApplyTicks
  <2>2. Head(tickQ) = tickQ[1]
    BY <2>1 DEF TickInv
  <2>3. /\ tickQ' \in Seq(1..arrived) /\ Len(tickQ') = Len(tickQ) - 1 /\ applied' \in 1..arrived
        /\ \A i \in 1..Len(tickQ'): tickQ'[i] = tickQ[i + 1]
    BY <2>1, HeadTailProperties DEF TickInv
  <2>4. Len(tickQ) > 0
    BY <1>0, <2>1, EmptySeq DEF TickInv
  <2>5. CASE tickQ' = <<>>
    <3>1. Len(tickQ) = 1
      BY <1>0, <2>3, <2>5, EmptySeq
    <3>2. applied' = arrived
      BY <2>1, <2>2, <3>1 DEF TickInv
    <3>3. tickQ' = <<>> /\ applied' = arrived /\ arrived' = arrived
      BY <2>1, <2>5, <3>2
    <3> QED
      BY <1>0, <3>3, EmptySeq DEF TickInv
  <2>6. CASE tickQ' # <<>>
    <3>1. Len(tickQ') \in 1..Len(tickQ')
      BY <1>0, <2>3, <2>4, <2>6, EmptySeq
    <3>2. tickQ'[Len(tickQ')] = tickQ[Len(tickQ)]
      BY <1>0, <2>3, <3>1
    <3> QED
      BY <1>0, <2>1, <2>3, <2>6, <3>2 DEF TickInv
  <2> QED
    BY <2>5, <2>6
<1>3. CASE \E newProcess, lost \in BOOLEAN: NextRun(newProcess, lost)
  <2>1. tickQ' = <<>> /\ applied' = arrived /\ arrived' = arrived
    BY <1>3 DEF NextRun
  <2> QED
    BY <1>0, <2>1, EmptySeq DEF TickInv
<1>4. CASE UNCHANGED ingest
  BY <1>4 DEF TickInv, ingest
<1> QED
  BY <1>1, <1>2, <1>3, <1>4 DEF Next, vars, PublishSession, WorkerTakes,
     WorkerSends, WorkerRefused, WorkerFault, TransitLoses, Ingest, BusRestarts, Receive

\* Offering an item fills the queue of the current run at most.
LEMMA OfferKeeps ==
  ASSUME CountInv, PubInv, NEW item \in {"ticks", "session"}, Offer(item) \/ UNCHANGED pub,
         UNCHANGED pipe
  PROVE  PubInv'
<1>1. CASE UNCHANGED pub
  BY <1>1 DEF PubInv
<1>2. CASE pub' # pub
  <2> DEFINE q == Append(pub[run].queue, item)
             p == [pub[run] EXCEPT !.queue = q]
  <2>1. Len(pub[run].queue) < QueueCap /\ pub' = [pub EXCEPT ![run] = p]
    BY <1>2 DEF Offer
  <2>2. run \in Runs /\ pub[run] \in Publisher /\ pub[run].queue \in Seq({"ticks", "session"})
    BY DEF CountInv, PubInv, Publisher
  <2>3. q \in Seq({"ticks", "session"}) /\ Len(q) = Len(pub[run].queue) + 1
    BY <2>2, AppendProperties
  <2>4. Len(q) <= QueueCap
    BY <2>1, <2>2, <2>3, ConstantsAssumption DEF ConstantsAssumption
  <2> HIDE DEF q
  <2>5. p \in Publisher /\ p.queue = q /\ p.sequence = pub[run].sequence
    BY <2>2, <2>3 DEF Publisher
  <2> HIDE DEF p
  <2>6. pub' \in [Runs -> Publisher]
    BY <2>1, <2>2, <2>5 DEF PubInv
  <2>7. ASSUME NEW r \in Runs
        PROVE  Len(pub'[r].queue) <= QueueCap /\ PipeSound(pipe[r], pub'[r].sequence)
    <3>1. pub'[r] = IF r = run THEN p ELSE pub[r]
      BY <2>1, <2>2 DEF PubInv
    <3> QED
      BY <2>4, <2>5, <3>1 DEF PubInv
  <2> QED
    BY <2>6, <2>7 DEF PubInv
<1> QED
  BY <1>1, <1>2

\* A publisher with less in its queue or its hands, and nothing sent, is sound.
LEMMA PublisherMoves ==
  ASSUME PubInv, NEW r \in Runs, NEW p \in Publisher, NEW s,
         Len(p.queue) <= QueueCap, PipeSound(s, p.sequence),
         pub' = [pub EXCEPT ![r] = p], pipe' = [pipe EXCEPT ![r] = s]
  PROVE  PubInv'
<1>1. s \in Seq(Nat)
  <2>1. s \in Seq(1..p.sequence) /\ 1..p.sequence \subseteq Nat
    BY DEF PipeSound, Publisher
  <2> QED
    BY <2>1, SeqMonotonic
<1>2. pub' \in [Runs -> Publisher] /\ pipe' \in [Runs -> Seq(Nat)]
  BY <1>1 DEF PubInv
<1>3. ASSUME NEW q \in Runs
      PROVE  Len(pub'[q].queue) <= QueueCap /\ PipeSound(pipe'[q], pub'[q].sequence)
  <2>1. CASE q = r
    <3>1. pub'[q] = p /\ pipe'[q] = s
      BY <2>1 DEF PubInv
    <3> QED
      BY <3>1
  <2>2. CASE q # r
    <3>1. pub'[q] = pub[q] /\ pipe'[q] = pipe[q]
      BY <2>2 DEF PubInv
    <3> QED
      BY <3>1 DEF PubInv
  <2> QED
    BY <2>1, <2>2
<1> QED
  BY <1>2, <1>3 DEF PubInv

\* Publishers number what they send, and pipes only lose what is oldest in them.
LEMMA PubStep == CountInv /\ PubInv /\ [Next]_vars => PubInv'
<1> SUFFICES ASSUME CountInv, PubInv, [Next]_vars PROVE PubInv'
  OBVIOUS
<1>0. \A r \in Runs: /\ pub[r] \in Publisher /\ pub[r].queue \in Seq({"ticks", "session"})
                     /\ Len(pub[r].queue) <= QueueCap /\ Len(pub[r].queue) \in Nat
                     /\ pub[r].hand \in Hands /\ pub[r].sequence \in Nat
                     /\ PipeSound(pipe[r], pub[r].sequence)
  BY DEF PubInv, Publisher
<1>constants. {MaxChunks, QueueCap} \subseteq Nat \ {0}
  BY ConstantsAssumption DEF ConstantsAssumption
<1>empty. Empty \in Hands
  BY <1>constants DEF Empty, Hands
<1>1. CASE ApplyTicks \/ PublishSession
  <2>1. PICK item \in {"ticks", "session"}: Offer(item) \/ UNCHANGED pub
    BY <1>1 DEF ApplyTicks, PublishSession, NoneAccepted
  <2> QED
    BY <1>1, <2>1, OfferKeeps DEF ApplyTicks, PublishSession
<1>2. ASSUME NEW newProcess \in BOOLEAN, NEW lost \in BOOLEAN, NextRun(newProcess, lost)
      PROVE  PubInv'
  <2> DEFINE gone(r) == [pub[r] EXCEPT !.queue = <<>>, !.hand = Empty]
  <2>1. \A r \in Runs: gone(r) \in Publisher /\ gone(r).queue = <<>>
                       /\ gone(r).sequence = pub[r].sequence
    BY <1>0, <1>empty, EmptySeq DEF Publisher
  <2>2. pub' = pub \/ pub' = [r \in Runs |-> gone(r)]
    BY <1>2 DEF NextRun
  <2> HIDE DEF gone
  <2>3. pub' \in [Runs -> Publisher] /\ \A r \in Runs: /\ pub'[r].sequence = pub[r].sequence
                                                       /\ pub'[r].queue \in {pub[r].queue, <<>>}
    BY <2>1, <2>2 DEF PubInv
  <2>4. pipe' = pipe \/ pipe' = [r \in Runs |-> <<>>]
    BY <1>2 DEF NextRun
  <2>5. pipe' \in [Runs -> Seq(Nat)] /\ \A r \in Runs: pipe'[r] \in {pipe[r], <<>>}
    BY <2>4, EmptySeq DEF PubInv
  <2>6. ASSUME NEW r \in Runs
        PROVE  Len(pub'[r].queue) <= QueueCap /\ PipeSound(pipe'[r], pub'[r].sequence)
    <3>1. Len(pub'[r].queue) <= QueueCap
      BY <1>0, <1>constants, <2>3, EmptySeq
    <3>2. PipeSound(pipe'[r], pub[r].sequence)
      BY <1>0, <2>5, PipeEmpty
    <3> QED
      BY <2>3, <3>1, <3>2
  <2> QED
    BY <2>3, <2>5, <2>6 DEF PubInv
<1>3. ASSUME NEW r \in Runs, WorkerTakes(r) PROVE PubInv'
  <2>1. PICK n \in Messages(Head(pub[r].queue)):
             pub' = [pub EXCEPT ![r].queue = Tail(@),
                                ![r].hand = [kind |-> Head(pub[r].queue), left |-> n]]
    BY <1>3 DEF WorkerTakes
  <2> DEFINE p == [pub[r] EXCEPT !.queue = Tail(@),
                                 !.hand = [kind |-> Head(pub[r].queue), left |-> n]]
  <2>2. n \in 0..MaxChunks
    BY <1>constants, <2>1 DEF Messages
  <2>3. /\ Head(pub[r].queue) \in {"ticks", "session"} /\ Tail(pub[r].queue) \in Seq({"ticks", "session"})
        /\ Len(Tail(pub[r].queue)) = Len(pub[r].queue) - 1
    BY <1>0, <1>3, HeadTailProperties DEF WorkerTakes
  <2>4. [kind |-> Head(pub[r].queue), left |-> n] \in Hands
    BY <2>2, <2>3 DEF Hands
  <2>5. p \in Publisher /\ p.queue = Tail(pub[r].queue) /\ p.sequence = pub[r].sequence
    BY <1>0, <2>3, <2>4 DEF Publisher
  <2>6. pub' = [pub EXCEPT ![r] = p] /\ pipe' = [pipe EXCEPT ![r] = pipe[r]]
    BY <1>3, <2>1 DEF WorkerTakes, PubInv
  <2> HIDE DEF p
  <2>7. Len(p.queue) <= QueueCap
    BY <1>0, <1>constants, <2>3, <2>5
  <2>8. PipeSound(pipe[r], p.sequence)
    BY <1>0, <2>5
  <2> QED
    BY <2>5, <2>6, <2>7, <2>8, PublisherMoves
<1>4. ASSUME NEW r \in Runs, WorkerSends(r) PROVE PubInv'
  <2> DEFINE n == pub[r].sequence + 1
             h == Rest(pub[r].hand)
             p == [pub[r] EXCEPT !.hand = h, !.sequence = n]
  <2>1. h \in Hands
    <3>1. pub[r].hand \in Hands /\ pub[r].hand.left > 0
      BY <1>0, <1>4 DEF WorkerSends
    <3> QED
      BY <1>constants, <1>empty, <3>1 DEF Rest, Hands
  <2>number. n \in Nat
    BY <1>0
  <2> HIDE DEF h, n
  <2>2. p \in Publisher /\ p.queue = pub[r].queue /\ p.sequence = n
    BY <1>0, <2>1, <2>number DEF Publisher
  <2>3. pub' = [pub EXCEPT ![r] = p] /\ pipe' = [pipe EXCEPT ![r] = Append(pipe[r], n)]
    BY <1>4 DEF WorkerSends, h, n
  <2>4. PipeSound(Append(pipe[r], n), n)
    BY <1>0, <1>4, PipeAppend DEF WorkerSends, n
  <2> HIDE DEF p
  <2> QED
    BY <1>0, <2>2, <2>3, <2>4, PublisherMoves
<1>5. ASSUME NEW r \in Runs, WorkerRefused(r) \/ WorkerFault(r) PROVE PubInv'
  <2>1. PICK h \in {Rest(pub[r].hand), Empty}: pub' = [pub EXCEPT ![r].hand = h]
    BY <1>5 DEF WorkerRefused, WorkerFault
  <2> DEFINE p == [pub[r] EXCEPT !.hand = h]
  <2>2. pub[r].hand.left > 0
    BY <1>5 DEF WorkerRefused, WorkerFault
  <2>3. h \in Hands
    BY <1>0, <1>constants, <1>empty, <2>1, <2>2 DEF Rest, Hands
  <2>4. p \in Publisher /\ p.queue = pub[r].queue /\ p.sequence = pub[r].sequence
    BY <1>0, <2>3 DEF Publisher
  <2>5. pub' = [pub EXCEPT ![r] = p] /\ pipe' = [pipe EXCEPT ![r] = pipe[r]]
    BY <1>5, <2>1 DEF WorkerRefused, WorkerFault, PubInv
  <2> HIDE DEF p
  <2> QED
    BY <1>0, <2>4, <2>5, PublisherMoves
<1>6. ASSUME NEW r \in Runs, TransitLoses(r) \/ Ingest(r) PROVE PubInv'
  <2>1. pipe[r] # <<>> /\ pipe' = [pipe EXCEPT ![r] = Tail(pipe[r])] /\ pub' = pub
    BY <1>6 DEF TransitLoses, Ingest
  <2>2. PipeSound(Tail(pipe[r]), pub[r].sequence)
    BY <1>0, <2>1, PipeTail
  <2>3. pub' = [pub EXCEPT ![r] = pub[r]]
    BY <2>1 DEF PubInv
  <2> QED
    BY <1>0, <2>1, <2>2, <2>3, PublisherMoves
<1>7. ASSUME NEW lost \in BOOLEAN, BusRestarts(lost) PROVE PubInv'
  <2>1. pub' = pub /\ (pipe' = pipe \/ pipe' = [r \in Runs |-> <<>>])
    BY <1>7 DEF BusRestarts
  <2>2. pipe' \in [Runs -> Seq(Nat)] /\ \A r \in Runs: pipe'[r] \in {pipe[r], <<>>}
    BY <2>1, EmptySeq DEF PubInv
  <2>3. \A r \in Runs: PipeSound(pipe'[r], pub[r].sequence)
    BY <1>0, <2>2, PipeEmpty
  <2> QED
    BY <1>0, <2>1, <2>2, <2>3 DEF PubInv
<1>8. CASE UNCHANGED <<pub, pipe>>
  BY <1>8 DEF PubInv
<1> QED
  BY <1>1, <1>2, <1>3, <1>4, <1>5, <1>6, <1>7, <1>8 DEF Next, vars, TicksArrive, Receive

\* A bus that takes a message in has the same number, or sent it under the next.
LEMMA TrackTyped ==
  ASSUME bus \in Buses, NEW r \in Runs, NEW n \in Nat
  PROVE  /\ Track(r, n) \in Buses
         /\ Track(r, n).epoch = bus.epoch /\ Track(r, n).sequence = bus.sequence
<1>1. MaxRuns \in Nat /\ r \in 0..MaxRuns
  BY ConstantsAssumption DEF ConstantsAssumption, Runs
<1>2. CASE bus.from # r
  BY <1>1, <1>2 DEF Track, Buses
<1>3. CASE bus.from = r
  <2> DEFINE seen == IF n > bus.seen THEN n ELSE bus.seen
             missed == bus.missed + (IF n > bus.seen + 1 THEN n - bus.seen - 1 ELSE 0)
  <2>1. seen \in Nat /\ missed \in Nat
    BY DEF Buses
  <2>2. Track(r, n) = [bus EXCEPT !.seen = seen, !.missed = missed]
    BY <1>3 DEF Track
  <2> HIDE DEF seen, missed
  <2> QED
    BY <2>1, <2>2 DEF Buses
<1> QED
  BY <1>2, <1>3

\* The bus numbers what it sends and a new start of it comes after the last; the
\* subscriber reads the earliest.
LEMMA OutStep == PubInv /\ OutInv /\ [Next]_vars => OutInv'
<1> SUFFICES ASSUME PubInv, OutInv, [Next]_vars PROVE OutInv'
  OBVIOUS
<1>0. bus \in Buses /\ tracker \in Trackers /\ OutSound(out, bus, tracker)
  BY DEF OutInv
<1>1. ASSUME NEW r \in Runs, Ingest(r) PROVE OutInv'
  <2> DEFINE n == Head(pipe[r])
             t == Track(r, n)
             b == [t EXCEPT !.sequence = bus.sequence + 1]
  <2>1. n \in Nat
    <3>1. pipe[r] # <<>> /\ PipeSound(pipe[r], pub[r].sequence) /\ pub[r].sequence \in Nat
      BY <1>1 DEF Ingest, PubInv, Publisher
    <3> QED
      BY <3>1, PipeTail
  <2> HIDE DEF n
  <2>2. t \in Buses /\ t.epoch = bus.epoch /\ t.sequence = bus.sequence
    BY <1>0, <2>1, TrackTyped
  <2>3. Republish(t) \/ RepublishRefused(t)
    BY <1>1 DEF Ingest, n
  <2>4. tracker' = tracker
    BY <1>1 DEF Ingest
  <2> HIDE DEF t
  <2>5. b \in Buses /\ b.epoch = bus.epoch /\ b.sequence = bus.sequence + 1
    BY <1>0, <2>2 DEF Buses
  <2>6. CASE RepublishRefused(t)
    <3>1. bus' = t /\ out' = out
      BY <2>6 DEF RepublishRefused
    <3>2. ~Earlier(t.epoch, t.sequence, bus.epoch, bus.sequence)
      BY <1>0, <2>2 DEF Buses, Epochs, Earlier
    <3> QED
      BY <1>0, <2>2, <2>4, <3>1, <3>2, OutLater DEF OutInv
  <2>7. CASE Republish(t)
    <3>1. bus' = b
      BY <2>7 DEF Republish
    <3>2. out' = out \/ (out' = Append(out, <<bus.epoch, bus.sequence + 1>>) /\ Len(out) < PipeCap)
      BY <2>7 DEF Republish, Header
    <3> HIDE DEF b
    <3>3. CASE out' = out
      <4>1. ~Earlier(b.epoch, b.sequence, bus.epoch, bus.sequence)
        BY <1>0, <2>5 DEF Buses, Epochs, Earlier
      <4> QED
        BY <1>0, <2>4, <2>5, <3>1, <3>3, <4>1, OutLater DEF OutInv
    <3>4. CASE out' = Append(out, <<bus.epoch, bus.sequence + 1>>) /\ Len(out) < PipeCap
      BY <1>0, <2>4, <2>5, <3>1, <3>4, OutAppend DEF OutInv
    <3> QED
      BY <3>2, <3>3, <3>4
  <2> QED
    BY <2>3, <2>6, <2>7
<1>2. ASSUME NEW lost \in BOOLEAN, BusRestarts(lost) PROVE OutInv'
  <2>1. /\ bus' = [epoch |-> bus.epoch + 1, sequence |-> 0, from |-> 0, seen |-> 0, missed |-> 0]
        /\ bus.epoch < MaxEpochs /\ tracker' = tracker /\ out' \in {out, <<>>}
    BY <1>2 DEF BusRestarts
  <2>2. MaxEpochs \in Nat /\ MaxRuns \in Nat /\ bus.epoch \in Epochs
    BY <1>0, ConstantsAssumption DEF ConstantsAssumption, Buses
  <2>3. bus' \in Buses
    BY <2>1, <2>2 DEF Buses, Epochs
  <2>4. ~Earlier(bus'.epoch, bus'.sequence, bus.epoch, bus.sequence)
    BY <2>1, <2>2 DEF Epochs, Earlier
  <2> QED
    BY <1>0, <2>1, <2>3, <2>4, OutLater DEF OutInv
<1>3. CASE Receive
  <2>1. out # <<>> /\ out' = Tail(out) /\ bus' = bus
        /\ tracker' = Observe(tracker, Head(out)[1], Head(out)[2])
    BY <1>3 DEF Receive
  <2>2. Head(out) = out[1] /\ out[1] \in Epochs \X Nat
    <3>1. out \in Seq(Epochs \X Nat)
      BY <1>0 DEF OutSound
    <3> QED
      BY <2>1, <3>1, HeadTailProperties
  <2> DEFINE e == out[1][1]
             n == out[1][2]
  <2>3. e \in 0..MaxEpochs /\ n \in Nat
    BY <2>2, ConstantsAssumption DEF Epochs, ConstantsAssumption
  <2>4. Earlier(tracker.epoch, tracker.last, e, n)
    <3>1. 1 \in 1..Len(out)
      BY <1>0, <2>1, EmptySeq DEF OutSound
    <3> QED
      BY <1>0, <3>1 DEF OutSound
  <2> HIDE DEF e, n
  <2>5. tracker.epoch \in 0..MaxEpochs /\ tracker.last \in Nat /\ tracker.missed \in Nat
    BY <1>0 DEF Trackers
  <2>6. tracker' \in Trackers /\ tracker'.epoch = e /\ tracker'.last = n
    <3>1. tracker' = Observe(tracker, e, n)
      BY <2>1, <2>2 DEF e, n
    <3>2. CASE e # tracker.epoch
      BY <1>0, <2>3, <3>1, <3>2 DEF Observe, Trackers
    <3>3. CASE e = tracker.epoch
      <4>1. n > tracker.last
        BY <2>3, <2>4, <2>5, <3>3 DEF Earlier
      <4> DEFINE missed == tracker.missed + (IF n > tracker.last + 1 THEN n - tracker.last - 1 ELSE 0)
      <4>2. missed \in Nat
        BY <2>3, <2>5, <4>1
      <4>3. tracker' = [tracker EXCEPT !.last = n, !.missed = missed]
        BY <3>1, <3>3, <4>1 DEF Observe
      <4> HIDE DEF missed
      <4> QED
        BY <1>0, <2>3, <3>3, <4>2, <4>3 DEF Trackers
    <3> QED
      BY <3>2, <3>3
  <2>7. OutSound(Tail(out), bus, tracker')
    BY <1>0, <2>1, <2>6, OutTail DEF e, n
  <2> QED
    BY <1>0, <2>1, <2>6, <2>7 DEF OutInv
<1>4. CASE UNCHANGED <<bus, out, tracker>>
  BY <1>4 DEF OutInv
<1> QED
  BY <1>1, <1>2, <1>3, <1>4 DEF Next, vars, TicksArrive, ApplyTicks, PublishSession, NextRun,
     WorkerTakes, WorkerSends, WorkerRefused, WorkerFault, TransitLoses

-----------------------------------------------------------------------------
(* What the bus misses. *)

\* The figures about a pipe are numbers; what has left it and what is in it make
\* up what its publisher has numbered.
LEMMA PassedTyped ==
  ASSUME PubInv, NEW r \in Runs
  PROVE  /\ pub[r].sequence \in Nat /\ Len(pipe[r]) \in Nat /\ pipe[r] \in Seq(Nat)
         /\ Passed(r) \in Int /\ Passed(r) + Len(pipe[r]) = pub[r].sequence
<1>1. pub[r].sequence \in Nat /\ pipe[r] \in Seq(Nat)
  BY DEF PubInv, Publisher
<1>2. Len(pipe[r]) \in Nat
  BY <1>1, LenProperties
<1> QED
  BY <1>1, <1>2 DEF Passed

\* The message at the head of a pipe is the one after the last that has left it.
LEMMA HeadPassed ==
  ASSUME PubInv, HopInv, NEW r \in Runs, pipe[r] # <<>>, pipe' = [pipe EXCEPT ![r] = Tail(@)],
         \A q \in Runs: pub'[q].sequence = pub[q].sequence
  PROVE  /\ Head(pipe[r]) = Passed(r) + 1
         /\ \A q \in Runs: Passed(q)' = IF q = r THEN Passed(r) + 1 ELSE Passed(q)
         /\ \A q \in Runs: \A i \in 1..Len(pipe'[q]): pipe'[q][i] = Passed(q)' + i
<1>1. /\ pub[r].sequence \in Nat /\ Len(pipe[r]) \in Nat /\ pipe[r] \in Seq(Nat)
      /\ Passed(r) \in Nat
  BY PassedTyped DEF HopInv
<1>2. Len(pipe[r]) > 0
  BY <1>1, EmptySeq
<1>3. /\ Head(pipe[r]) = pipe[r][1] /\ Len(Tail(pipe[r])) = Len(pipe[r]) - 1
      /\ \A i \in 1..Len(Tail(pipe[r])): Tail(pipe[r])[i] = pipe[r][i + 1]
  BY <1>1, HeadTailProperties
<1>4. pipe'[r] = Tail(pipe[r]) /\ \A q \in Runs \ {r}: pipe'[q] = pipe[q]
  BY DEF PubInv
<1>5. Passed(r)' = Passed(r) + 1
  <2>1. pub'[r].sequence = pub[r].sequence
    OBVIOUS
  <2>2. Len(pipe'[r]) = Len(pipe[r]) - 1
    BY <1>3, <1>4
  <2>3. Passed(r)' = pub[r].sequence - (Len(pipe[r]) - 1)
    BY <2>1, <2>2 DEF Passed
  <2>4. Passed(r) = pub[r].sequence - Len(pipe[r])
    BY DEF Passed
  <2>5. \A s, k \in Nat: s - (k - 1) = (s - k) + 1
    OBVIOUS
  <2> QED
    BY <1>1, <2>3, <2>4, <2>5
<1>6. \A q \in Runs \ {r}: Passed(q)' = Passed(q)
  BY <1>4 DEF Passed
<1>7. \A i \in 1..Len(pipe[r]): pipe[r][i] = Passed(r) + i
  BY DEF HopInv
<1>8. ASSUME NEW i \in 1..Len(pipe'[r]) PROVE pipe'[r][i] = Passed(r)' + i
  <2>1. i \in 1..Len(Tail(pipe[r])) /\ i + 1 \in 1..Len(pipe[r])
    <3>1. i \in 1..(Len(pipe[r]) - 1) /\ Len(pipe'[r]) = Len(Tail(pipe[r]))
      BY <1>3, <1>4
    <3>2. \A k \in Nat: \A j \in 1..(k - 1): j + 1 \in 1..k
      OBVIOUS
    <3> QED
      BY <1>1, <3>1, <3>2
  <2>2. pipe'[r][i] = Passed(r) + (i + 1)
    BY <1>3, <1>4, <1>7, <2>1
  <2> QED
    BY <1>1, <1>5, <2>1, <2>2
<1>9. \A q \in Runs \ {r}: \A i \in 1..Len(pipe'[q]): pipe'[q][i] = Passed(q)' + i
  BY <1>4, <1>6 DEF HopInv
<1>10. Head(pipe[r]) = Passed(r) + 1
  <2>1. 1 \in 1..Len(pipe[r])
    BY <1>1, <1>2
  <2> QED
    BY <1>3, <1>7, <2>1
<1> QED
  BY <1>5, <1>6, <1>8, <1>9, <1>10

\* Pipes may lose what is in them, as long as it is known to be lost.
LEMMA HopKeeps ==
  ASSUME OutInv, HopInv, bus' = bus, lostIn \subseteq lostIn', IsFiniteSet(lostIn'),
         \A r \in Runs: /\ Passed(r)' \in Nat /\ Passed(r) <= Passed(r)'
                        /\ \A i \in 1..Len(pipe'[r]): pipe'[r][i] = Passed(r)' + i
                        /\ \A n \in (Passed(r) + 1)..Passed(r)': <<r, n>> \in lostIn'
  PROVE  HopInv'
<1>1. \A r \in Runs: Passed(r) \in Nat /\ Passed(r)' \in Nat /\ Passed(r) <= Passed(r)'
  BY DEF HopInv
<1>2. bus.seen \in Nat /\ (bus.from # 0 => bus.from \in Runs)
  BY ConstantsAssumption DEF OutInv, Buses, Runs, ConstantsAssumption
<1>3. ASSUME bus.from # 0
      PROVE  /\ bus.seen <= Passed(bus.from)'
             /\ \A n \in (bus.seen + 1)..Passed(bus.from)': <<bus.from, n>> \in lostIn'
  <2> DEFINE before == Passed(bus.from)
             after == Passed(bus.from)'
  <2>1. before \in Nat /\ after \in Nat /\ before <= after /\ bus.seen <= before
    BY <1>1, <1>2, <1>3 DEF HopInv
  <2>2. /\ \A n \in (bus.seen + 1)..before: <<bus.from, n>> \in lostIn
        /\ \A n \in (before + 1)..after: <<bus.from, n>> \in lostIn'
    BY <1>2, <1>3 DEF HopInv
  <2> HIDE DEF before, after
  <2>3. ASSUME NEW n \in (bus.seen + 1)..after PROVE <<bus.from, n>> \in lostIn'
    <3>1. n \in (bus.seen + 1)..before \/ n \in (before + 1)..after
      BY <1>2, <2>1
    <3> QED
      BY <2>2, <3>1
  <2>4. bus.seen <= after
    BY <1>2, <2>1
  <2> QED
    BY <2>3, <2>4 DEF after
<1>4. PICK lost \in SUBSET lostIn: Counted(lost)
  BY DEF HopInv
<1>5. ASSUME NEW m \in lost
      PROVE  m \in Runs \X Nat /\ m[2] <= Passed(m[1])' /\ (m[1] = bus.from => m[2] <= bus.seen)
  <2>1. m \in Runs \X Nat /\ m[2] <= Passed(m[1]) /\ (m[1] = bus.from => m[2] <= bus.seen)
    BY <1>4 DEF Counted
  <2>2. m[1] \in Runs /\ m[2] \in Nat
    BY <2>1
  <2>3. Passed(m[1]) \in Nat /\ Passed(m[1])' \in Nat /\ Passed(m[1]) <= Passed(m[1])'
    BY <1>1, <2>2
  <2> QED
    BY <2>1, <2>2, <2>3
<1>6. lost \in SUBSET lostIn' /\ Counted(lost)'
  BY <1>4, <1>5 DEF Counted
<1> QED
  BY <1>3, <1>6 DEF HopInv

\* Emptied pipes have lost what was in transit, which is finite.
LEMMA PipesEmptied ==
  ASSUME PubInv, HopInv, pipe' = [r \in Runs |-> <<>>], lostIn' = lostIn \cup InTransit,
         \A r \in Runs: pub'[r].sequence = pub[r].sequence
  PROVE  /\ lostIn \subseteq lostIn' /\ IsFiniteSet(lostIn')
         /\ \A r \in Runs: /\ Passed(r)' \in Nat /\ Passed(r) <= Passed(r)'
                           /\ \A i \in 1..Len(pipe'[r]): pipe'[r][i] = Passed(r)' + i
                           /\ \A n \in (Passed(r) + 1)..Passed(r)': <<r, n>> \in lostIn'
<1> DEFINE batch == [r \in Runs |-> {r} \X ToSet(pipe[r])]
           batches == {{r} \X ToSet(pipe[r]) : r \in Runs}
<1>1. ASSUME NEW r \in Runs PROVE IsFiniteSet({r} \X ToSet(pipe[r]))
  <2>1. DOMAIN pipe[r] = 1..Len(pipe[r]) /\ pub[r].sequence \in Nat
        /\ pipe[r] \in Seq(1..pub[r].sequence)
    BY LenProperties, PassedTyped DEF PubInv, PipeSound
  <2>2. ToSet(pipe[r]) \in SUBSET (1..pub[r].sequence)
    BY <2>1, ElementOfSeq DEF ToSet
  <2>3. IsFiniteSet(1..pub[r].sequence)
    <3>1. pub[r].sequence \in Int
      BY <2>1
    <3> QED
      BY <3>1, FS_Interval
  <2>4. IsFiniteSet(ToSet(pipe[r]))
    BY <2>2, <2>3, FS_Subset
  <2>5. IsFiniteSet({r})
    BY FS_Singleton
  <2> QED
    BY <2>4, <2>5, FS_Product
<1>2. IsFiniteSet(Runs)
  BY ConstantsAssumption, FS_Interval DEF Runs, ConstantsAssumption
<1>3. batch \in Surjection(Runs, batches)
  BY DEF Surjection
<1>4. IsFiniteSet(batches)
  BY <1>2, <1>3, FS_Surjection
<1>5. \A b \in batches: IsFiniteSet(b)
  BY <1>1
<1> HIDE DEF batch, batches
<1>6. IsFiniteSet(UNION batches)
  BY <1>4, <1>5, FS_UNION
<1>7. IsFiniteSet(lostIn')
  <2>1. lostIn' = lostIn \cup UNION batches
    BY DEF InTransit, batches
  <2>2. IsFiniteSet(lostIn)
    BY DEF HopInv
  <2>3. IsFiniteSet(lostIn \cup UNION batches)
    BY <1>6, <2>2, FS_Union
  <2> QED
    BY <2>1, <2>3
<1>8. ASSUME NEW r \in Runs
      PROVE  /\ Passed(r)' = pub[r].sequence /\ Passed(r)' \in Nat /\ Passed(r) <= Passed(r)'
             /\ Len(pipe'[r]) = 0
             /\ \A n \in (Passed(r) + 1)..Passed(r)': <<r, n>> \in lostIn'
  <2>1. /\ pub[r].sequence \in Nat /\ Len(pipe[r]) \in Nat /\ pipe[r] \in Seq(Nat)
        /\ Passed(r) \in Nat /\ Passed(r) + Len(pipe[r]) = pub[r].sequence
    BY PassedTyped DEF HopInv
  <2>2. Len(pipe'[r]) = 0
    BY EmptySeq
  <2>3. Passed(r)' = pub[r].sequence
    BY <2>1, <2>2 DEF Passed
  <2>4. ASSUME NEW n \in (Passed(r) + 1)..pub[r].sequence PROVE <<r, n>> \in lostIn'
    <3>1. n - Passed(r) \in 1..Len(pipe[r]) /\ Passed(r) + (n - Passed(r)) = n
      BY <2>1
    <3>2. pipe[r][n - Passed(r)] = n
      BY <3>1 DEF HopInv
    <3>3. DOMAIN pipe[r] = 1..Len(pipe[r])
      BY <2>1, LenProperties
    <3>4. n \in ToSet(pipe[r])
      BY <3>1, <3>2, <3>3 DEF ToSet
    <3> QED
      BY <3>4 DEF InTransit
  <2>5. Passed(r) <= pub[r].sequence
    BY <2>1
  <2> QED
    BY <2>1, <2>2, <2>3, <2>4, <2>5
<1> QED
  BY <1>7, <1>8

\* While no publisher numbers anything and no pipe moves, nothing changes.
LEMMA HopStays ==
  ASSUME OutInv, HopInv, bus' = bus, pipe' = pipe, lostIn' = lostIn,
         \A r \in Runs: pub'[r].sequence = pub[r].sequence
  PROVE  HopInv'
<1>1. \A r \in Runs: Passed(r)' = Passed(r) /\ Passed(r) \in Nat
  BY DEF Passed, HopInv
<1>2. \A r \in Runs: \A n \in (Passed(r) + 1)..Passed(r): FALSE
  BY <1>1
<1>3. \A r \in Runs: /\ Passed(r)' \in Nat /\ Passed(r) <= Passed(r)'
                     /\ \A i \in 1..Len(pipe'[r]): pipe'[r][i] = Passed(r)' + i
                     /\ \A n \in (Passed(r) + 1)..Passed(r)': <<r, n>> \in lostIn'
  BY <1>1, <1>2 DEF HopInv
<1>4. lostIn \subseteq lostIn' /\ IsFiniteSet(lostIn')
  BY DEF HopInv
<1> QED
  BY <1>3, <1>4, HopKeeps

\* The bus takes the next message of a run in.  What it counts as missed then left
\* the pipe since the one before, and was counted for the first time.
LEMMA IngestCounts ==
  ASSUME PubInv, OutInv, HopInv, NEW r \in Runs, Ingest(r)
  PROVE  HopInv'
<1> DEFINE n == Passed(r) + 1
<1>0. /\ Passed(r) \in Nat /\ n \in Nat /\ bus \in Buses /\ bus.seen \in Nat
      /\ bus.missed \in Nat /\ lostIn' = lostIn /\ r # 0
  BY DEF HopInv, OutInv, Buses, Ingest, Runs
<1>1. /\ Head(pipe[r]) = n
      /\ \A q \in Runs: Passed(q)' = IF q = r THEN n ELSE Passed(q)
      /\ \A q \in Runs: \A i \in 1..Len(pipe'[q]): pipe'[q][i] = Passed(q)' + i
  <2>1. pipe[r] # <<>> /\ pipe' = [pipe EXCEPT ![r] = Tail(@)]
        /\ \A q \in Runs: pub'[q].sequence = pub[q].sequence
    BY DEF Ingest
  <2> QED
    BY <2>1, HeadPassed
<1>2. /\ Track(r, n) \in Buses /\ bus'.from = Track(r, n).from
      /\ bus'.seen = Track(r, n).seen /\ bus'.missed = Track(r, n).missed
  <2>1. Track(r, n) \in Buses
    BY <1>0, TrackTyped
  <2> DEFINE t == Track(r, n)
  <2>2. Republish(t) \/ RepublishRefused(t)
    BY <1>1 DEF Ingest
  <2> HIDE DEF t, n
  <2>3. bus' = t \/ bus' = [t EXCEPT !.sequence = bus.sequence + 1]
    BY <2>2 DEF Republish, RepublishRefused
  <2>4. t \in Buses
    BY <2>1 DEF t
  <2>5. bus'.from = t.from /\ bus'.seen = t.seen /\ bus'.missed = t.missed
    BY <2>3, <2>4 DEF Buses
  <2> QED
    BY <2>1, <2>5 DEF t
<1>3. PICK lost \in SUBSET lostIn: Counted(lost)
  BY DEF HopInv
<1>4. IsFiniteSet(lost) /\ Cardinality(lost) = bus.missed
  BY <1>3, FS_Subset DEF HopInv, Counted
<1> DEFINE new == IF bus.from = r THEN {r} \X ((bus.seen + 1)..Passed(r)) ELSE {}
<1>5. bus'.from = r /\ bus'.seen = n /\ bus'.missed = Cardinality(lost \cup new)
      /\ new \subseteq lostIn
  <2>1. CASE bus.from # r
    <3>1. Track(r, n) = [bus EXCEPT !.from = r, !.seen = n]
      BY <2>1 DEF Track
    <3>2. bus'.from = r /\ bus'.seen = n /\ bus'.missed = bus.missed
      BY <1>0, <1>2, <3>1 DEF Buses
    <3> QED
      BY <1>4, <2>1, <3>2
  <2>2. CASE bus.from = r
    <3>1. bus.seen <= Passed(r) /\ \A k \in (bus.seen + 1)..Passed(r): <<r, k>> \in lostIn
      BY <1>0, <2>2 DEF HopInv
    <3> DEFINE gap == Passed(r) - bus.seen
    <3>2. n > bus.seen /\ (IF n > bus.seen + 1 THEN n - bus.seen - 1 ELSE 0) = gap /\ gap \in Nat
      BY <1>0, <3>1
    <3> HIDE DEF n
    <3>3. Track(r, n) = [bus EXCEPT !.seen = n, !.missed = bus.missed + gap]
      BY <2>2, <3>2 DEF Track
    <3>4. bus'.from = r /\ bus'.seen = n /\ bus'.missed = bus.missed + gap
      BY <1>0, <1>2, <2>2, <3>3 DEF Buses
    <3>5. IsFiniteSet(new) /\ Cardinality(new) = gap
      <4> DEFINE range == (bus.seen + 1)..Passed(r)
      <4>1. IsFiniteSet(range) /\ Cardinality(range) = gap
        <5>1. /\ IsFiniteSet(range)
              /\ Cardinality(range) = IF bus.seen + 1 > Passed(r) THEN 0
                                      ELSE Passed(r) - (bus.seen + 1) + 1
          <6>1. bus.seen + 1 \in Int /\ Passed(r) \in Int
            BY <1>0
          <6> QED
            BY <6>1, FS_Interval
        <5> HIDE DEF range
        <5> QED
          BY <1>0, <3>1, <5>1
      <4>2. IsFiniteSet({r}) /\ Cardinality({r}) = 1
        BY FS_Singleton
      <4> HIDE DEF range
      <4>3. /\ IsFiniteSet({r} \X range)
            /\ Cardinality({r} \X range) = Cardinality({r}) * Cardinality(range)
        BY <4>1, <4>2, FS_Product
      <4>4. Cardinality({r} \X range) = gap
        <5> HIDE DEF gap
        <5> QED
          BY <3>2, <4>1, <4>2, <4>3
      <4> QED
        BY <2>2, <4>3, <4>4 DEF range
    <3>6. lost \cap new = {}
      <4> SUFFICES ASSUME NEW m \in lost, m \in new PROVE FALSE
        OBVIOUS
      <4>1. m[1] = r /\ m[2] \in (bus.seen + 1)..Passed(r)
        BY <2>2
      <4>2. m[2] <= bus.seen
        BY <1>3, <2>2, <4>1 DEF Counted
      <4> QED
        BY <1>0, <4>1, <4>2
    <3>7. Cardinality(lost \cup new) = bus.missed + gap
      <4>1. Cardinality(lost \cup new) = Cardinality(lost) + Cardinality(new) - Cardinality({})
        BY <1>4, <3>5, <3>6, FS_Union
      <4>2. Cardinality({}) = 0
        BY FS_EmptySet
      <4> HIDE DEF gap
      <4> QED
        BY <1>0, <1>4, <3>2, <3>5, <4>1, <4>2
    <3> QED
      BY <2>2, <3>1, <3>4, <3>7
  <2> QED
    BY <2>1, <2>2
<1>all. PICK all : all = lost \cup new
  OBVIOUS
<1>6. ASSUME NEW m \in lost \cup new
      PROVE  m \in Runs \X Nat /\ m[2] <= Passed(m[1])' /\ (m[1] = r => m[2] <= n)
  <2>1. CASE m \in lost
    <3>1. m \in Runs \X Nat /\ m[2] <= Passed(m[1])
      BY <1>3, <2>1 DEF Counted
    <3>2. m[1] \in Runs /\ m[2] \in Nat
      BY <3>1
    <3>3. CASE m[1] = r
      <4>1. m[2] <= n
        BY <1>0, <3>1, <3>2, <3>3
      <4> QED
        BY <1>1, <3>1, <3>2, <3>3, <4>1
    <3>4. CASE m[1] # r
      BY <1>1, <3>1, <3>2, <3>4
    <3> QED
      BY <3>3, <3>4
  <2>2. CASE m \in new
    <3>1. m \in {r} \X ((bus.seen + 1)..Passed(r))
      BY <2>2
    <3>2. m[1] = r /\ m[2] \in (bus.seen + 1)..Passed(r) /\ m = <<m[1], m[2]>>
      BY <3>1
    <3>3. m[2] \in Nat /\ m[2] <= n
      BY <1>0, <3>2
    <3>4. m \in Runs \X Nat
      BY <3>1, <3>2, <3>3
    <3> QED
      BY <1>1, <3>2, <3>3, <3>4
  <2> QED
    BY <2>1, <2>2
<1>7. all \in SUBSET lostIn' /\ Counted(all)'
  <2> HIDE DEF new, n
  <2>1. all \in SUBSET lostIn' /\ Cardinality(all) = bus'.missed
    BY <1>0, <1>5, <1>all
  <2>2. \A m \in all: /\ m \in Runs \X Nat /\ m[2] <= Passed(m[1])'
                      /\ m[1] = bus'.from => m[2] <= bus'.seen
    BY <1>5, <1>6, <1>all
  <2> QED
    BY <2>1, <2>2 DEF Counted
<1>8. \A q \in Runs: /\ Passed(q)' \in Nat
                     /\ \A i \in 1..Len(pipe'[q]): pipe'[q][i] = Passed(q)' + i
  BY <1>0, <1>1 DEF HopInv
<1>9. /\ bus'.seen <= Passed(bus.from)'
      /\ \A k \in (bus'.seen + 1)..Passed(bus.from)': <<bus'.from, k>> \in lostIn'
  <2>1. Passed(r)' = n
    BY <1>1
  <2>2. Passed(bus.from)' = n
    <3>1. bus'.from = r
      BY <1>5
    <3>2. Passed(bus.from)' = Passed(r)'
      BY <3>1 DEF Passed
    <3> QED
      BY <2>1, <3>2
  <2>3. n <= n /\ \A k \in (n + 1)..n: FALSE
    BY <1>0
  <2> HIDE DEF n
  <2> QED
    BY <1>5, <2>2, <2>3
<1> QED
  BY <1>0, <1>7, <1>8, <1>9 DEF HopInv

\* Every step keeps the account of the first hop.
LEMMA HopStep == PubInv /\ OutInv /\ HopInv /\ [Next]_vars => HopInv'
<1> SUFFICES ASSUME PubInv, OutInv, HopInv, [Next]_vars PROVE HopInv'
  OBVIOUS
<1>0. \A r \in Runs: pub[r] \in Publisher /\ Passed(r) \in Nat
  BY DEF PubInv, HopInv
<1>same. ASSUME \A r \in Runs: pub'[r].sequence = pub[r].sequence, bus' = bus,
                \/ pipe' = pipe /\ lostIn' = lostIn
                \/ pipe' = [r \in Runs |-> <<>>] /\ lostIn' = lostIn \cup InTransit
         PROVE  HopInv'
  BY <1>same, HopStays, PipesEmptied, HopKeeps
<1>1. CASE ApplyTicks \/ PublishSession
  <2>1. PICK item: Offer(item) \/ UNCHANGED pub
    BY <1>1 DEF ApplyTicks, PublishSession, NoneAccepted
  <2>2. \A r \in Runs: pub'[r].sequence = pub[r].sequence
    <3>1. pub \in [Runs -> Publisher]
      BY DEF PubInv
    <3>2. pub' = pub \/ pub' = [pub EXCEPT ![run].queue = Append(@, item)]
      BY <2>1 DEF Offer
    <3>3. \A r \in Runs: pub'[r] = pub[r] \/ pub'[r] = [pub[r] EXCEPT !.queue = Append(@, item)]
      BY <3>1, <3>2
    <3>4. \A r \in Runs: pub[r] \in Publisher
      BY <3>1
    <3> QED
      BY <3>3, <3>4 DEF Publisher
  <2>3. bus' = bus /\ pipe' = pipe /\ lostIn' = lostIn
    BY <1>1 DEF ApplyTicks, PublishSession
  <2> QED
    BY <1>same, <2>2, <2>3
<1>2. ASSUME NEW newProcess \in BOOLEAN, NEW lost \in BOOLEAN, NextRun(newProcess, lost)
      PROVE  HopInv'
  <2>1. \A r \in Runs: pub'[r].sequence = pub[r].sequence
    BY <1>0, <1>2 DEF NextRun, Publisher
  <2>2. bus' = bus /\ \/ pipe' = pipe /\ lostIn' = lostIn
                      \/ pipe' = [r \in Runs |-> <<>>] /\ lostIn' = lostIn \cup InTransit
    BY <1>2 DEF NextRun
  <2> QED
    BY <1>same, <2>1, <2>2
<1>3. ASSUME NEW r \in Runs, WorkerTakes(r) \/ WorkerRefused(r) \/ WorkerFault(r)
      PROVE  HopInv'
  <2>1. \A q \in Runs: pub'[q].sequence = pub[q].sequence
    <3>1. pub \in [Runs -> Publisher]
      BY DEF PubInv
    <3>2. CASE WorkerTakes(r)
      BY <3>1, <3>2 DEF WorkerTakes, Publisher
    <3>3. CASE WorkerRefused(r)
      BY <3>1, <3>3 DEF WorkerRefused, Publisher
    <3>4. CASE WorkerFault(r)
      BY <3>1, <3>4 DEF WorkerFault, Publisher
    <3> QED
      BY <1>3, <3>2, <3>3, <3>4
  <2>2. bus' = bus /\ pipe' = pipe /\ lostIn' = lostIn
    BY <1>3 DEF WorkerTakes, WorkerRefused, WorkerFault
  <2> QED
    BY <1>same, <2>1, <2>2
<1>4. ASSUME NEW r \in Runs, WorkerSends(r) PROVE HopInv'
  <2> DEFINE n == pub[r].sequence + 1
  <2>1. /\ pipe' = [pipe EXCEPT ![r] = Append(@, n)] /\ bus' = bus /\ lostIn' = lostIn
        /\ pub' = [pub EXCEPT ![r].hand = Rest(@), ![r].sequence = n]
    BY <1>4 DEF WorkerSends
  <2>2. /\ pub[r].sequence \in Nat /\ Len(pipe[r]) \in Nat /\ pipe[r] \in Seq(Nat)
        /\ Passed(r) \in Nat /\ Passed(r) + Len(pipe[r]) = pub[r].sequence
    BY <1>0, PassedTyped
  <2>3. /\ pub'[r].sequence = n /\ pipe'[r] = Append(pipe[r], n)
        /\ \A q \in Runs \ {r}: pub'[q] = pub[q] /\ pipe'[q] = pipe[q]
    BY <2>1 DEF PubInv, Publisher
  <2>4. /\ Len(Append(pipe[r], n)) = Len(pipe[r]) + 1
        /\ \A i \in 1..Len(pipe[r]): Append(pipe[r], n)[i] = pipe[r][i]
        /\ Append(pipe[r], n)[Len(pipe[r]) + 1] = n
    BY <2>2, AppendProperties
  <2>5. \A q \in Runs: Passed(q)' = Passed(q)
    <3>1. Passed(r)' = (pub[r].sequence + 1) - (Len(pipe[r]) + 1)
      BY <2>3, <2>4 DEF Passed
    <3>2. Passed(r)' = Passed(r)
      <4>1. Passed(r) = pub[r].sequence - Len(pipe[r])
        BY DEF Passed
      <4>2. \A s, k \in Nat: (s + 1) - (k + 1) = s - k
        OBVIOUS
      <4> QED
        BY <2>2, <3>1, <4>1, <4>2
    <3>3. \A q \in Runs \ {r}: Passed(q)' = Passed(q)
      BY <2>3 DEF Passed
    <3> QED
      BY <3>2, <3>3
  <2>6. ASSUME NEW i \in 1..Len(pipe'[r]) PROVE pipe'[r][i] = Passed(r) + i
    <3>1. i \in 1..Len(pipe[r]) \/ i = Len(pipe[r]) + 1
      <4>1. i \in 1..(Len(pipe[r]) + 1)
        BY <2>3, <2>4
      <4> QED
        BY <2>2, <4>1
    <3>2. CASE i \in 1..Len(pipe[r])
      BY <2>3, <2>4, <3>2 DEF HopInv
    <3>3. CASE i = Len(pipe[r]) + 1
      <4>1. pipe'[r][i] = pub[r].sequence + 1
        BY <2>3, <2>4, <3>3
      <4> QED
        BY <2>2, <3>3, <4>1
    <3> QED
      BY <3>1, <3>2, <3>3
  <2>7. \A q \in Runs: \A i \in 1..Len(pipe'[q]): pipe'[q][i] = Passed(q)' + i
    <3>1. \A i \in 1..Len(pipe'[r]): pipe'[r][i] = Passed(r)' + i
      BY <2>5, <2>6
    <3>2. \A q \in Runs \ {r}: \A i \in 1..Len(pipe'[q]): pipe'[q][i] = Passed(q)' + i
      BY <2>3, <2>5 DEF HopInv
    <3> QED
      BY <3>1, <3>2
  <2>8. \A q \in Runs: \A k \in (Passed(q) + 1)..Passed(q): FALSE
    BY <1>0
  <2>9. \A q \in Runs: /\ Passed(q)' \in Nat /\ Passed(q) <= Passed(q)'
                       /\ \A k \in (Passed(q) + 1)..Passed(q)': <<q, k>> \in lostIn'
    BY <1>0, <2>5, <2>8
  <2>10. lostIn \subseteq lostIn' /\ IsFiniteSet(lostIn')
    BY <2>1 DEF HopInv
  <2> QED
    BY <2>1, <2>7, <2>9, <2>10, HopKeeps
<1>5. ASSUME NEW r \in Runs, TransitLoses(r) PROVE HopInv'
  <2>1. /\ pipe[r] # <<>> /\ pipe' = [pipe EXCEPT ![r] = Tail(@)]
        /\ pub' = pub /\ bus' = bus /\ lostIn' = lostIn \cup {<<r, Head(pipe[r])>>}
    BY <1>5 DEF TransitLoses
  <2>2. /\ Head(pipe[r]) = Passed(r) + 1
        /\ \A q \in Runs: Passed(q)' = IF q = r THEN Passed(r) + 1 ELSE Passed(q)
        /\ \A q \in Runs: \A i \in 1..Len(pipe'[q]): pipe'[q][i] = Passed(q)' + i
    BY <2>1, HeadPassed
  <2>3. IsFiniteSet(lostIn') /\ lostIn \subseteq lostIn' /\ <<r, Passed(r) + 1>> \in lostIn'
    BY <2>1, <2>2, FS_AddElement DEF HopInv
  <2>4. ASSUME NEW q \in Runs
        PROVE  /\ Passed(q)' \in Nat /\ Passed(q) <= Passed(q)'
               /\ \A k \in (Passed(q) + 1)..Passed(q)': <<q, k>> \in lostIn'
    <3>1. \A p \in Nat: /\ p + 1 \in Nat /\ p <= p + 1 /\ p <= p
                        /\ \A k \in (p + 1)..p: FALSE
                        /\ \A k \in (p + 1)..(p + 1): k = p + 1
      OBVIOUS
    <3>2. CASE q = r
      <4>1. Passed(q)' = Passed(q) + 1 /\ <<q, Passed(q) + 1>> \in lostIn'
        BY <2>2, <2>3, <3>2
      <4> QED
        BY <1>0, <3>1, <4>1
    <3>3. CASE q # r
      <4>1. Passed(q)' = Passed(q)
        BY <2>2, <3>3
      <4> QED
        BY <1>0, <3>1, <4>1
    <3> QED
      BY <3>2, <3>3
  <2> QED
    BY <2>1, <2>2, <2>3, <2>4, HopKeeps
<1>6. ASSUME NEW r \in Runs, Ingest(r) PROVE HopInv'
  BY <1>6, IngestCounts
<1>7. ASSUME NEW lost \in BOOLEAN, BusRestarts(lost) PROVE HopInv'
  <2>1. /\ pub' = pub /\ bus'.from = 0 /\ bus'.missed = 0
        /\ \/ pipe' = pipe /\ lostIn' = lostIn
           \/ pipe' = [r \in Runs |-> <<>>] /\ lostIn' = lostIn \cup InTransit
    BY <1>7 DEF BusRestarts
  <2>2. IsFiniteSet(lostIn') /\ \A r \in Runs: /\ Passed(r)' \in Nat
                                               /\ \A i \in 1..Len(pipe'[r]): pipe'[r][i] = Passed(r)' + i
    <3>1. CASE pipe' = pipe /\ lostIn' = lostIn
      <4>1. \A r \in Runs: Passed(r)' = Passed(r)
        BY <2>1, <3>1 DEF Passed
      <4> QED
        BY <3>1, <4>1 DEF HopInv
    <3>2. CASE pipe' = [r \in Runs |-> <<>>] /\ lostIn' = lostIn \cup InTransit
      BY <2>1, <3>2, PipesEmptied
    <3> QED
      BY <2>1, <3>1, <3>2
  <2>3. Counted({})'
    BY <2>1, FS_EmptySet DEF Counted
  <2>4. \E none \in SUBSET lostIn': Counted(none)'
    BY <2>3
  <2> QED
    BY <2>1, <2>2, <2>4 DEF HopInv
<1>8. CASE UNCHANGED <<pub, pipe, bus, lostIn>>
  BY <1>8, <1>same
<1> QED
  BY <1>1, <1>2, <1>3, <1>4, <1>5, <1>6, <1>7, <1>8 DEF Next, vars, TicksArrive, Receive

-----------------------------------------------------------------------------
(* What the subscriber misses. *)

\* The numbers behind the bus are natural, and what was heard, what is in transit
\* and the bus's own number follow each other.
LEMMA HeardTyped ==
  ASSUME OutInv, HeardInv
  PROVE  /\ bus.epoch \in Epochs /\ bus.epoch \in Nat /\ bus.sequence \in Nat
         /\ tracker.epoch \in Nat /\ tracker.last \in Nat
         /\ Len(out) \in Nat /\ out \in Seq(Epochs \X Nat)
         /\ \A i \in 1..Len(out): out[i] \in Epochs \X Nat /\ out[i][1] \in Nat /\ out[i][2] \in Nat
         /\ \A m \in heard \cup lostOut: m \in Epochs \X Nat /\ m[1] \in Nat /\ m[2] \in Nat
<1>1. Epochs \subseteq Nat /\ bus \in Buses /\ tracker \in Trackers /\ out \in Seq(Epochs \X Nat)
  BY DEF Epochs, OutInv, OutSound
<1>2. \A i \in 1..Len(out): out[i] \in Epochs \X Nat
  BY <1>1, ElementOfSeq
<1>3. \A m \in heard \cup lostOut: m \in Epochs \X Nat
  BY DEF HeardInv
<1>4. Len(out) \in Nat
  BY <1>1, LenProperties
<1>5. \A m \in Epochs \X Nat: m[1] \in Nat /\ m[2] \in Nat
  BY <1>1
<1>6. /\ bus.epoch \in Epochs /\ bus.epoch \in Nat /\ bus.sequence \in Nat
      /\ tracker.epoch \in Nat /\ tracker.last \in Nat
  <2>1. bus.epoch \in Epochs /\ bus.sequence \in Nat
    BY <1>1 DEF Buses
  <2>2. tracker.epoch \in Nat /\ tracker.last \in Nat
    BY <1>1 DEF Trackers
  <2> QED
    BY <1>1, <2>1, <2>2
<1> QED
  BY <1>1, <1>2, <1>3, <1>4, <1>5, <1>6

\* What is lost ahead of everything heard is not between two messages heard.
LEMMA LostAhead ==
  ASSUME heard' = heard, lostOut \subseteq lostOut',
         \A m \in lostOut' \ lostOut: \A b \in heard: ~(b[1] = m[1] /\ m[2] < b[2])
  PROVE  Between' = Between
  BY DEF Between

\* The bus numbers a message, which is in transit or lost from then on, or takes the
\* number back.
LEMMA IngestHeard ==
  ASSUME OutInv, HeardInv, PubInv, NEW r \in Runs, Ingest(r)
  PROVE  HeardInv'
<1> DEFINE new == <<bus.epoch, bus.sequence + 1>>
           t == Track(r, Head(pipe[r]))
<1>typed. /\ bus.epoch \in Epochs /\ bus.epoch \in Nat /\ bus.sequence \in Nat
          /\ tracker.epoch \in Nat /\ tracker.last \in Nat
          /\ Len(out) \in Nat /\ out \in Seq(Epochs \X Nat)
          /\ \A i \in 1..Len(out): out[i] \in Epochs \X Nat /\ out[i][1] \in Nat /\ out[i][2] \in Nat
          /\ \A m \in heard \cup lostOut: m \in Epochs \X Nat /\ m[1] \in Nat /\ m[2] \in Nat
  BY HeardTyped
<1>new. new \in Epochs \X Nat /\ new[1] = bus.epoch /\ new[2] = bus.sequence + 1
  BY <1>typed
<1>same. heard' = heard /\ tracker' = tracker
  BY DEF Ingest
<1>t. t \in Buses /\ t.epoch = bus.epoch /\ t.sequence = bus.sequence
  <2>1. pipe[r] # <<>> /\ PipeSound(pipe[r], pub[r].sequence) /\ pub[r].sequence \in Nat
    BY DEF Ingest, PubInv, Publisher
  <2>2. Head(pipe[r]) \in Nat
    BY <2>1, PipeTail
  <2> QED
    BY <2>2, TrackTyped DEF OutInv
<1>steps. Republish(t) \/ RepublishRefused(t)
  BY DEF Ingest
<1>behind. /\ \A m \in heard: ~Earlier(bus.epoch, bus.sequence, m[1], m[2])
           /\ \A i \in 1..Len(out): ~Earlier(bus.epoch, bus.sequence, out[i][1], out[i][2])
           /\ \A m \in lostOut: ~Earlier(bus.epoch, bus.sequence, m[1], m[2])
  <2>1. ~Earlier(bus.epoch, bus.sequence, tracker.epoch, tracker.last)
    BY DEF OutInv, OutSound
  <2>2. ASSUME NEW m \in heard PROVE ~Earlier(bus.epoch, bus.sequence, m[1], m[2])
    <3>1. ~Earlier(tracker.epoch, tracker.last, m[1], m[2])
      BY DEF HeardInv
    <3>2. m[1] \in Nat /\ m[2] \in Nat
      BY <1>typed
    <3> QED
      BY <1>typed, <2>1, <3>1, <3>2 DEF Earlier
  <2> QED
    BY <2>2 DEF HeardInv, OutInv, OutSound
<1>fresh. new \notin heard /\ new \notin lostOut /\ \A i \in 1..Len(out): out[i] # new
  <2>1. Earlier(bus.epoch, bus.sequence, new[1], new[2])
    BY <1>typed, <1>new DEF Earlier
  <2> HIDE DEF new
  <2> QED
    BY <1>behind, <2>1
<1>ahead. \A b \in heard: ~(b[1] = new[1] /\ new[2] < b[2])
  <2> SUFFICES ASSUME NEW b \in heard, b[1] = bus.epoch, bus.sequence + 1 < b[2] PROVE FALSE
    BY <1>new
  <2>1. ~Earlier(bus.epoch, bus.sequence, b[1], b[2]) /\ b[2] \in Nat
    BY <1>behind, <1>typed
  <2> QED
    BY <1>typed, <2>1 DEF Earlier
<1> HIDE DEF t
<1>1. CASE RepublishRefused(t)
  <2>1. /\ bus'.epoch = bus.epoch /\ bus'.sequence = bus.sequence
        /\ out' = out /\ lostOut' = lostOut
    BY <1>1, <1>t DEF RepublishRefused
  <2>2. Between' = Between /\ Settled' = Settled
    BY <1>same, <2>1 DEF Between, Settled
  <2> QED
    BY <1>same, <2>1, <2>2 DEF HeardInv
<1>2. CASE Republish(t)
  <2>1. bus'.epoch = bus.epoch /\ bus'.sequence = bus.sequence + 1
    BY <1>2, <1>t DEF Republish, Buses
  <2>2. \/ out' = Append(out, new) /\ lostOut' = lostOut
        \/ out' = out /\ lostOut' = lostOut \cup {new}
    BY <1>2 DEF Republish, Header
  <2>3. /\ \A i \in 1..Len(out): i \in 1..Len(out') /\ out'[i] = out[i]
        /\ \A i \in 1..Len(out'): i \in 1..Len(out) \/ out'[i] = new
        /\ \A i \in 1..Len(out'): out'[i] = new => new \notin lostOut'
        /\ new \in lostOut' \/ \E i \in 1..Len(out'): out'[i] = new
    <3>1. CASE out' = Append(out, new) /\ lostOut' = lostOut
      <4>1. /\ Len(out') = Len(out) + 1 /\ out'[Len(out) + 1] = new
            /\ \A i \in 1..Len(out): out'[i] = out[i]
        BY <1>typed, <1>new, <3>1, AppendProperties
      <4>2. /\ \A i \in 1..Len(out): i \in 1..Len(out')
            /\ \A i \in 1..Len(out'): i \in 1..Len(out) \/ i = Len(out) + 1
            /\ Len(out) + 1 \in 1..Len(out')
        BY <1>typed, <4>1
      <4> HIDE DEF new
      <4> QED
        BY <1>fresh, <3>1, <4>1, <4>2
    <3>2. CASE out' = out /\ lostOut' = lostOut \cup {new}
      BY <1>fresh, <3>2
    <3> QED
      BY <2>2, <3>1, <3>2
  <2>4. /\ lostOut \subseteq lostOut' /\ lostOut' \subseteq lostOut \cup {new}
    BY <2>2
  <2> HIDE DEF new
  <2>5. Between' = Between
    BY <1>same, <1>ahead, <2>4, LostAhead
  <2>6. Settled \cup {new} \subseteq Settled'
    BY <1>same, <2>3, <2>4 DEF Settled
  <2>7. \A n \in 1..bus'.sequence: <<bus.epoch, n>> \in Settled'
    <3> SUFFICES ASSUME NEW n \in 1..(bus.sequence + 1) PROVE <<bus.epoch, n>> \in Settled'
      BY <2>1
    <3>1. n \in 1..bus.sequence \/ n = bus.sequence + 1
      BY <1>typed
    <3> QED
      BY <2>6, <3>1 DEF HeardInv, new
  <2>8. \A i \in 1..Len(out'): \A n \in 1..out'[i][2]: <<out'[i][1], n>> \in Settled'
    <3> SUFFICES ASSUME NEW i \in 1..Len(out'), NEW n \in 1..out'[i][2]
                 PROVE  <<out'[i][1], n>> \in Settled'
      OBVIOUS
    <3>1. CASE i \in 1..Len(out)
      <4>1. out'[i] = out[i]
        BY <2>3, <3>1
      <4>2. <<out[i][1], n>> \in Settled
        BY <3>1, <4>1 DEF HeardInv
      <4> QED
        BY <2>6, <4>1, <4>2
    <3>2. CASE out'[i] = new
      <4>1. out'[i][1] = bus.epoch /\ out'[i][2] = bus'.sequence
        BY <1>new, <2>1, <3>2
      <4> QED
        BY <2>7, <4>1
    <3> QED
      BY <2>3, <3>1, <3>2
  <2>9. \A m \in lostOut': ~Earlier(bus'.epoch, bus'.sequence, m[1], m[2])
    <3> SUFFICES ASSUME NEW m \in lostOut'
                 PROVE  ~Earlier(bus.epoch, bus.sequence + 1, m[1], m[2])
      BY <2>1
    <3>1. CASE m = new
      BY <1>typed, <1>new, <3>1 DEF Earlier
    <3>2. CASE m \in lostOut
      <4>1. ~Earlier(bus.epoch, bus.sequence, m[1], m[2]) /\ m[1] \in Nat /\ m[2] \in Nat
        BY <1>behind, <1>typed, <3>2
      <4> QED
        BY <1>typed, <4>1 DEF Earlier
    <3> QED
      BY <2>4, <3>1, <3>2
  <2>10. /\ lostOut' \subseteq Epochs \X Nat /\ heard' \subseteq Epochs \X Nat
         /\ heard' \cap lostOut' = {}
    BY <1>new, <1>same, <1>fresh, <2>4 DEF HeardInv
  <2>11. \A i \in 1..Len(out'): out'[i] \notin lostOut'
    <3> SUFFICES ASSUME NEW i \in 1..Len(out') PROVE out'[i] \notin lostOut'
      OBVIOUS
    <3>1. CASE i \in 1..Len(out)
      BY <1>fresh, <2>3, <2>4, <3>1 DEF HeardInv
    <3>2. CASE out'[i] = new
      BY <2>3, <3>2
    <3> QED
      BY <2>3, <3>1, <3>2
  <2> QED
    BY <1>same, <2>1, <2>5, <2>7, <2>8, <2>9, <2>10, <2>11 DEF HeardInv
<1> QED
  BY <1>steps, <1>1, <1>2

\* A new start of the bus begins its numbers after all there were; what was in
\* transit, if it is lost, is lost ahead of what was heard.
LEMMA RestartHeard ==
  ASSUME OutInv, HeardInv, NEW lost \in BOOLEAN, BusRestarts(lost)
  PROVE  HeardInv'
<1>typed. /\ bus.epoch \in Epochs /\ bus.epoch \in Nat /\ bus.sequence \in Nat
          /\ tracker.epoch \in Nat /\ tracker.last \in Nat
          /\ Len(out) \in Nat /\ out \in Seq(Epochs \X Nat)
          /\ \A i \in 1..Len(out): out[i] \in Epochs \X Nat /\ out[i][1] \in Nat /\ out[i][2] \in Nat
          /\ \A m \in heard \cup lostOut: m \in Epochs \X Nat /\ m[1] \in Nat /\ m[2] \in Nat
  BY HeardTyped
<1>same. heard' = heard /\ tracker' = tracker /\ bus'.epoch = bus.epoch + 1 /\ bus'.sequence = 0
  BY DEF BusRestarts
<1> DEFINE transit == {out[i] : i \in 1..Len(out)}
<1>ahead. ASSUME NEW i \in 1..Len(out), NEW b \in heard
          PROVE  out[i] # b /\ ~(b[1] = out[i][1] /\ out[i][2] < b[2])
  <2>1. /\ Earlier(tracker.epoch, tracker.last, out[i][1], out[i][2])
        /\ ~Earlier(tracker.epoch, tracker.last, b[1], b[2])
    BY DEF OutInv, OutSound, HeardInv
  <2>2. out[i][1] \in Nat /\ out[i][2] \in Nat /\ b[1] \in Nat /\ b[2] \in Nat
    BY <1>typed
  <2> QED
    BY <1>typed, <2>1, <2>2 DEF Earlier
<1>behind. /\ \A i \in 1..Len(out): ~Earlier(bus'.epoch, bus'.sequence, out[i][1], out[i][2])
           /\ \A m \in lostOut: ~Earlier(bus'.epoch, bus'.sequence, m[1], m[2])
  <2>1. \A e, n \in Nat: ~Earlier(bus.epoch, bus.sequence, e, n) => ~Earlier(bus.epoch + 1, 0, e, n)
    BY <1>typed DEF Earlier
  <2>2. /\ \A i \in 1..Len(out): ~Earlier(bus.epoch, bus.sequence, out[i][1], out[i][2])
        /\ \A m \in lostOut: ~Earlier(bus.epoch, bus.sequence, m[1], m[2])
    BY DEF OutInv, OutSound, HeardInv
  <2> QED
    BY <1>typed, <1>same, <2>1, <2>2
<1>1. \/ out' = out /\ lostOut' = lostOut
      \/ out' = <<>> /\ Len(out') = 0 /\ lostOut' = lostOut \cup transit
  <2>1. ToSet(out) = transit
    BY <1>typed, LenProperties DEF ToSet
  <2> QED
    BY <2>1, EmptySeq DEF BusRestarts
<1>2. Settled' = Settled
  BY <1>1, <1>same DEF Settled
<1>3. Between' = Between
  <2>1. \A m \in lostOut' \ lostOut: \A b \in heard: ~(b[1] = m[1] /\ m[2] < b[2])
    BY <1>1, <1>ahead
  <2>2. lostOut \subseteq lostOut'
    BY <1>1
  <2> QED
    BY <1>same, <2>1, <2>2, LostAhead
<1>4. /\ lostOut' \subseteq Epochs \X Nat /\ heard' \subseteq Epochs \X Nat
      /\ heard' \cap lostOut' = {}
  <2>1. lostOut' \subseteq lostOut \cup transit
    BY <1>1
  <2>2. transit \subseteq Epochs \X Nat
    BY <1>typed
  <2>3. heard \cap transit = {}
    BY <1>ahead
  <2> HIDE DEF transit
  <2> QED
    BY <1>same, <2>1, <2>2, <2>3 DEF HeardInv
<1>5. \A i \in 1..Len(out'): out'[i] = out[i] /\ i \in 1..Len(out) /\ lostOut' = lostOut
  BY <1>1
<1>6. \A m \in lostOut': ~Earlier(bus'.epoch, bus'.sequence, m[1], m[2])
  BY <1>1, <1>behind
<1>7. \A n \in 1..bus'.sequence: <<bus'.epoch, n>> \in Settled'
  BY <1>same
<1>8. \A i \in 1..Len(out'): \A n \in 1..out'[i][2]: <<out'[i][1], n>> \in Settled'
  BY <1>2, <1>5 DEF HeardInv
<1>9. \A i \in 1..Len(out'): out'[i] \notin lostOut'
  BY <1>5 DEF HeardInv
<1> QED
  BY <1>same, <1>3, <1>4, <1>6, <1>7, <1>8, <1>9 DEF HeardInv

\* The subscriber hears the first message in transit.  What it counts as missed was
\* lost between that message and the one it heard last.
LEMMA ReceiveHeard ==
  ASSUME OutInv, HeardInv, Receive
  PROVE  HeardInv'
<1>typed. /\ bus.epoch \in Epochs /\ bus.epoch \in Nat /\ bus.sequence \in Nat
          /\ tracker.epoch \in Nat /\ tracker.last \in Nat
          /\ Len(out) \in Nat /\ out \in Seq(Epochs \X Nat)
          /\ \A i \in 1..Len(out): out[i] \in Epochs \X Nat /\ out[i][1] \in Nat /\ out[i][2] \in Nat
          /\ \A m \in heard \cup lostOut: m \in Epochs \X Nat /\ m[1] \in Nat /\ m[2] \in Nat
  BY HeardTyped
<1>same. bus' = bus /\ lostOut' = lostOut /\ out # <<>> /\ out' = Tail(out)
         /\ heard' = heard \cup {Head(out)}
  BY DEF Receive
<1>tail. /\ 1 \in 1..Len(out) /\ Head(out) = out[1]
         /\ \A i \in 1..Len(out'): i + 1 \in 1..Len(out) /\ 1 < i + 1 /\ out'[i] = out[i + 1]
         /\ \A i \in 1..Len(out): i = 1 \/ (i - 1 \in 1..Len(out') /\ out'[i - 1] = out[i])
  <2>1. Len(out) > 0
    BY <1>typed, <1>same, EmptySeq
  <2>2. /\ Head(out) = out[1] /\ Len(Tail(out)) = Len(out) - 1
        /\ \A i \in 1..Len(Tail(out)): Tail(out)[i] = out[i + 1]
    BY <1>typed, <1>same, HeadTailProperties
  <2>3. \A k \in Nat: \A i \in 1..(k - 1): i + 1 \in 1..k /\ 1 < i + 1
    OBVIOUS
  <2>4. \A k \in Nat: \A i \in 1..k: i = 1 \/ (i - 1 \in 1..(k - 1) /\ (i - 1) + 1 = i)
    OBVIOUS
  <2>5. 1 \in 1..Len(out)
    BY <1>typed, <2>1
  <2>6. \A i \in 1..Len(out'): i + 1 \in 1..Len(out) /\ 1 < i + 1 /\ out'[i] = out[i + 1]
    BY <1>typed, <1>same, <2>2, <2>3
  <2>7. \A i \in 1..Len(out): i = 1 \/ (i - 1 \in 1..Len(out') /\ out'[i - 1] = out[i])
    BY <1>typed, <1>same, <2>2, <2>4
  <2> QED
    BY <2>2, <2>5, <2>6, <2>7
<1> DEFINE e == out[1][1]
           n == out[1][2]
<1>first. /\ out[1] = <<e, n>> /\ e \in Nat /\ n \in Nat /\ e # 0
          /\ Earlier(tracker.epoch, tracker.last, e, n)
          /\ out[1] \notin lostOut
  BY <1>typed, <1>tail DEF OutInv, OutSound, HeardInv, Epochs
<1>observed. tracker' = Observe(tracker, e, n)
  BY <1>tail DEF Receive
<1>tracker. /\ tracker'.epoch = e /\ tracker'.last = n
            /\ tracker'.missed = tracker.missed +
                 (IF e = tracker.epoch THEN n - tracker.last - 1 ELSE 0)
  <2>1. tracker \in Trackers /\ tracker.missed \in Nat
    BY DEF OutInv, Trackers
  <2>2. CASE e # tracker.epoch
    <3>1. tracker' = [tracker EXCEPT !.epoch = e, !.last = n]
      BY <1>observed, <2>2 DEF Observe
    <3> HIDE DEF e, n
    <3> QED
      BY <2>1, <2>2, <3>1 DEF Trackers
  <2>3. CASE e = tracker.epoch
    <3> HIDE DEF e, n
    <3>1. n > tracker.last
      BY <1>typed, <1>first, <2>3 DEF Earlier
    <3> DEFINE gap == n - tracker.last - 1
    <3>2. (IF n > tracker.last + 1 THEN n - tracker.last - 1 ELSE 0) = gap
      BY <1>typed, <1>first, <3>1
    <3> HIDE DEF gap
    <3>3. tracker' = [tracker EXCEPT !.last = n, !.missed = tracker.missed + gap]
      BY <1>observed, <2>3, <3>1, <3>2 DEF Observe
    <3>4. tracker'.epoch = tracker.epoch /\ tracker'.last = n /\ tracker'.missed = tracker.missed + gap
      BY <2>1, <3>3 DEF Trackers
    <3> QED
      BY <2>3, <3>4 DEF gap
  <2> QED
    BY <2>2, <2>3
<1>past. \A m \in heard: ~Earlier(tracker.epoch, tracker.last, m[1], m[2])
  BY DEF HeardInv
<1>settled. Settled' = Settled
  <2>1. {out[i] : i \in 1..Len(out)} = {out'[i] : i \in 1..Len(out')} \cup {out[1]}
    <3>1. ASSUME NEW i \in 1..Len(out) PROVE out[i] \in {out'[j] : j \in 1..Len(out')} \cup {out[1]}
      <4>1. i = 1 \/ (i - 1 \in 1..Len(out') /\ out'[i - 1] = out[i])
        BY <1>tail
      <4> QED
        BY <4>1
    <3>2. ASSUME NEW i \in 1..Len(out') PROVE out'[i] \in {out[j] : j \in 1..Len(out)}
      BY <1>tail
    <3>3. out[1] \in {out[j] : j \in 1..Len(out)}
      BY <1>tail
    <3> QED
      BY <3>1, <3>2, <3>3
  <2> QED
    BY <1>same, <1>tail, <2>1 DEF Settled
<1> DEFINE gone == IF e = tracker.epoch THEN {e} \X ((tracker.last + 1)..(n - 1)) ELSE {}
<1>gone. gone \subseteq lostOut
  <2> SUFFICES ASSUME e = tracker.epoch, NEW k \in (tracker.last + 1)..(n - 1)
               PROVE  <<e, k>> \in lostOut
    OBVIOUS
  <2> HIDE DEF e, n
  <2>1. k \in Nat /\ k \in 1..n /\ k > tracker.last /\ k < n
    BY <1>typed, <1>first
  <2>2. <<e, k>> \in Settled
    BY <1>tail, <2>1 DEF HeardInv, e, n
  <2>3. <<e, k>> \notin heard
    <3> SUFFICES ASSUME <<e, k>> \in heard PROVE FALSE
      OBVIOUS
    <3>1. ~Earlier(tracker.epoch, tracker.last, e, k)
      BY <1>past
    <3> QED
      BY <2>1, <3>1 DEF Earlier
  <2>4. ASSUME NEW i \in 1..Len(out) PROVE out[i] # <<e, k>>
    <3>1. CASE i = 1
      BY <1>first, <2>1, <3>1
    <3>2. CASE i # 1
      <4>1. 1 < i
        BY <3>2
      <4>2. Earlier(e, n, out[i][1], out[i][2])
        BY <1>tail, <4>1 DEF OutInv, OutSound, e, n
      <4> SUFFICES ASSUME out[i] = <<e, k>> PROVE FALSE
        OBVIOUS
      <4>3. Earlier(e, n, e, k)
        BY <4>2
      <4> QED
        BY <1>first, <2>1, <4>3 DEF Earlier
    <3> QED
      BY <3>1, <3>2
  <2> QED
    BY <2>2, <2>3, <2>4 DEF Settled
<1>count. /\ IsFiniteSet(gone)
          /\ Cardinality(gone) = IF e = tracker.epoch THEN n - tracker.last - 1 ELSE 0
  <2>1. CASE e = tracker.epoch
    <3> HIDE DEF e, n
    <3>1. n > tracker.last
      BY <1>typed, <1>first, <2>1 DEF Earlier
    <3> DEFINE range == (tracker.last + 1)..(n - 1)
               gap == n - tracker.last - 1
    <3>2. tracker.last + 1 \in Int /\ n - 1 \in Int /\ gap \in Nat
      <4>1. \A a, b \in Nat: b > a => a + 1 \in Int /\ b - 1 \in Int /\ b - a - 1 \in Nat
        OBVIOUS
      <4> QED
        BY <1>typed, <1>first, <3>1, <4>1
    <3>3. /\ IsFiniteSet(range)
          /\ Cardinality(range) = IF tracker.last + 1 > n - 1 THEN 0 ELSE (n - 1) - (tracker.last + 1) + 1
      BY <3>2, FS_Interval
    <3>4. (IF tracker.last + 1 > n - 1 THEN 0 ELSE (n - 1) - (tracker.last + 1) + 1) = gap
      <4>1. \A a, b \in Nat: a < b =>
              (IF a + 1 > b - 1 THEN 0 ELSE (b - 1) - (a + 1) + 1) = b - a - 1
        OBVIOUS
      <4> QED
        BY <1>typed, <1>first, <3>1, <4>1
    <3>5. IsFiniteSet({e}) /\ Cardinality({e}) = 1
      BY FS_Singleton
    <3> HIDE DEF range, gap
    <3>6. /\ IsFiniteSet({e} \X range)
          /\ Cardinality({e} \X range) = Cardinality({e}) * Cardinality(range)
      BY <3>3, <3>5, FS_Product
    <3>7. Cardinality({e} \X range) = gap
      BY <3>2, <3>3, <3>4, <3>5, <3>6
    <3> QED
      BY <2>1, <3>6, <3>7 DEF range, gap
  <2>2. CASE e # tracker.epoch
    BY <2>2, FS_EmptySet
  <2> QED
    BY <2>1, <2>2
<1>between. Between' = Between \cup gone /\ Between \cap gone = {}
  <2> HIDE DEF e, n
  <2>heard. heard' = heard \cup {<<e, n>>}
    BY <1>same, <1>tail, <1>first
  <2>lost. \A m \in lostOut: m = <<m[1], m[2]>> /\ m[1] \in Nat /\ m[2] \in Nat
    BY <1>typed
  <2>1. Between \subseteq Between'
    BY <1>same DEF Between
  <2>2. ASSUME NEW m \in gone
        PROVE  m \in Between' /\ m \notin Between
    <3>1. /\ e = tracker.epoch /\ m \in {e} \X ((tracker.last + 1)..(n - 1)) /\ m \in lostOut
      BY <2>2, <1>gone
    <3>2. m[1] = e /\ m[2] \in Nat /\ tracker.last < m[2] /\ m[2] < n
      BY <1>typed, <1>first, <3>1
    <3>3. <<e, tracker.last>> \in heard
      BY <1>first, <3>1 DEF HeardInv
    <3> DEFINE a == <<e, tracker.last>>
               b == <<e, n>>
    <3>4. a[1] = m[1] /\ b[1] = m[1] /\ a[2] < m[2] /\ m[2] < b[2] /\ a \in heard' /\ b \in heard'
      BY <2>heard, <3>2, <3>3
    <3>5. m \in Between'
      BY <1>same, <3>1, <3>4 DEF Between
    <3>6. ASSUME NEW c \in heard, c[1] = m[1], m[2] < c[2] PROVE FALSE
      <4>1. ~Earlier(tracker.epoch, tracker.last, e, c[2]) /\ c[2] \in Nat
        BY <1>past, <1>typed, <3>2, <3>6
      <4> QED
        BY <1>typed, <3>1, <3>2, <3>6, <4>1 DEF Earlier
    <3> QED
      BY <3>5, <3>6 DEF Between
  <2>3. ASSUME NEW m \in Between', m \notin Between PROVE m \in gone
    <3>1. m \in lostOut
      BY <1>same DEF Between
    <3>2. PICK a \in heard', b \in heard': a[1] = m[1] /\ b[1] = m[1] /\ a[2] < m[2] /\ m[2] < b[2]
      BY DEF Between
    <3>3. m[1] \in Nat /\ m[2] \in Nat /\ m = <<m[1], m[2]>>
      BY <2>lost, <3>1
    <3>4. ~(a \in heard /\ b \in heard)
      BY <2>3, <3>1, <3>2 DEF Between
    <3>5. ASSUME NEW c \in heard PROVE /\ c[1] \in Nat /\ c[2] \in Nat
                                       /\ c[1] < e \/ (c[1] = e /\ c[1] = tracker.epoch /\ c[2] <= tracker.last
                                                       /\ tracker.last < n)
      <4>1. ~Earlier(tracker.epoch, tracker.last, c[1], c[2]) /\ c[1] \in Nat /\ c[2] \in Nat
        BY <1>past, <1>typed
      <4> QED
        BY <1>typed, <1>first, <4>1 DEF Earlier
    <3>6. a \in heard \/ a = <<e, n>>
      BY <2>heard
    <3>7. b \in heard \/ b = <<e, n>>
      BY <2>heard
    <3>8. a \in heard /\ b = <<e, n>>
      <4>1. CASE a = <<e, n>> /\ b = <<e, n>>
        <5>1. a[2] = n /\ b[2] = n
          BY <4>1
        <5> QED
          BY <1>first, <3>2, <3>3, <5>1
      <4>2. CASE a = <<e, n>> /\ b \in heard
        <5>1. a[1] = e /\ a[2] = n
          BY <4>2
        <5>2. b[1] = e /\ n < m[2] /\ m[2] < b[2]
          BY <3>2, <5>1
        <5>3. b[2] \in Nat /\ b[2] <= tracker.last /\ tracker.last < n
          BY <1>first, <3>5, <4>2, <5>2
        <5> QED
          BY <1>first, <1>typed, <3>3, <5>2, <5>3
      <4> QED
        BY <3>4, <3>6, <3>7, <4>1, <4>2
    <3>9. m[1] = e /\ m[2] < n /\ a[1] = e
      BY <3>2, <3>8
    <3>10. e = tracker.epoch /\ a[2] <= tracker.last /\ a[2] \in Nat
      BY <1>first, <3>5, <3>8, <3>9
    <3>11. tracker.last < m[2]
      <4>1. tracker.epoch # 0
        BY <1>first, <3>10
      <4>2. <<e, tracker.last>> \in heard /\ heard \cap lostOut = {}
        BY <3>10, <4>1 DEF HeardInv
      <4>3. m[2] # tracker.last
        BY <3>1, <3>3, <3>9, <4>2
      <4>4. ~(m[2] < tracker.last)
        <5> SUFFICES ASSUME m[2] < tracker.last PROVE FALSE
          OBVIOUS
        <5> DEFINE c == <<e, tracker.last>>
        <5>1. c \in heard /\ c[1] = m[1] /\ m[2] < c[2]
          BY <3>9, <4>2
        <5> HIDE DEF c
        <5>2. m \in Between
          BY <3>1, <3>2, <3>8, <5>1 DEF Between
        <5> QED
          BY <2>3, <5>2
      <4> QED
        BY <1>typed, <3>3, <4>3, <4>4
    <3>12. m[2] \in (tracker.last + 1)..(n - 1)
      BY <1>typed, <1>first, <3>3, <3>9, <3>11
    <3>13. m = <<e, m[2]>>
      BY <3>3, <3>9
    <3> QED
      BY <3>10, <3>12, <3>13
  <2> QED
    BY <2>1, <2>2, <2>3
<1> HIDE DEF gone
<1>1. IsFiniteSet(Between') /\ Cardinality(Between') = tracker'.missed
  <2>1. IsFiniteSet(Between) /\ Cardinality(Between) = tracker.missed /\ tracker.missed \in Nat
    BY DEF HeardInv, OutInv, Trackers
  <2>2. /\ IsFiniteSet(Between \cup gone)
        /\ Cardinality(Between \cup gone) = Cardinality(Between) + Cardinality(gone) - Cardinality({})
    BY <1>count, <1>between, <2>1, FS_Union
  <2>3. Cardinality({}) = 0 /\ Cardinality(gone) \in Nat
    BY <1>count, FS_EmptySet, FS_CardinalityType
  <2>4. Cardinality(Between \cup gone) = tracker.missed + Cardinality(gone)
    BY <2>1, <2>2, <2>3
  <2> HIDE DEF e, n
  <2> QED
    BY <1>count, <1>between, <1>tracker, <2>2, <2>4
<1>2. /\ lostOut' \subseteq Epochs \X Nat /\ heard' \subseteq Epochs \X Nat
      /\ heard' \cap lostOut' = {}
  BY <1>typed, <1>same, <1>tail, <1>first DEF HeardInv
<1>3. \A m \in heard': ~Earlier(tracker'.epoch, tracker'.last, m[1], m[2])
  <2> SUFFICES ASSUME NEW m \in heard' PROVE ~Earlier(e, n, m[1], m[2])
    BY <1>tracker
  <2> HIDE DEF e, n
  <2>1. CASE m = <<e, n>>
    BY <1>first, <2>1 DEF Earlier
  <2>2. CASE m \in heard
    <3>1. ~Earlier(tracker.epoch, tracker.last, m[1], m[2]) /\ m[1] \in Nat /\ m[2] \in Nat
      BY <1>past, <1>typed, <2>2
    <3> QED
      BY <1>typed, <1>first, <3>1 DEF Earlier
  <2> QED
    BY <1>same, <1>tail, <1>first, <2>1, <2>2
<1>4. <<tracker'.epoch, tracker'.last>> \in heard'
  BY <1>same, <1>tail, <1>first, <1>tracker
<1>5. \A i \in 1..Len(out'): out'[i] \notin lostOut'
  BY <1>same, <1>tail DEF HeardInv
<1>6. \A i \in 1..Len(out'): \A k \in 1..out'[i][2]: <<out'[i][1], k>> \in Settled'
  BY <1>settled, <1>tail DEF HeardInv
<1>7. /\ \A m \in lostOut': ~Earlier(bus'.epoch, bus'.sequence, m[1], m[2])
      /\ \A k \in 1..bus'.sequence: <<bus'.epoch, k>> \in Settled'
  BY <1>same, <1>settled DEF HeardInv
<1> QED
  BY <1>1, <1>2, <1>3, <1>4, <1>5, <1>6, <1>7 DEF HeardInv

\* Every step keeps the account of the second hop.
LEMMA HeardStep == PubInv /\ OutInv /\ HeardInv /\ [Next]_vars => HeardInv'
<1> SUFFICES ASSUME PubInv, OutInv, HeardInv, [Next]_vars PROVE HeardInv'
  OBVIOUS
<1>1. CASE UNCHANGED <<bus, out, tracker, lostOut, heard>>
  <2>1. bus' = bus /\ out' = out /\ tracker' = tracker /\ lostOut' = lostOut /\ heard' = heard
    BY <1>1
  <2>2. Settled' = Settled /\ Between' = Between
    BY <2>1 DEF Settled, Between
  <2> QED
    BY <2>1, <2>2 DEF HeardInv
<1>2. ASSUME NEW r \in Runs, Ingest(r) PROVE HeardInv'
  BY <1>2, IngestHeard
<1>3. ASSUME NEW lost \in BOOLEAN, BusRestarts(lost) PROVE HeardInv'
  BY <1>3, RestartHeard
<1> QED
  BY <1>1, <1>2, <1>3, ReceiveHeard DEF Next, vars, TicksArrive, ApplyTicks, PublishSession, NextRun,
     WorkerTakes, WorkerSends, WorkerRefused, WorkerFault, TransitLoses

-----------------------------------------------------------------------------
(* The theorems. *)

\* IInv is inductive.
THEOREM InductiveInvariant == Spec => []IInv
<1>1. IInv /\ [Next]_vars => IInv'
  BY CountStep, TickStep, PubStep, OutStep, HopStep, HeardStep DEF IInv
<1> QED
  BY <1>1, InitIInv, PTL DEF Spec

\* However far capture falls behind, what it has not applied ends with the newest batch.
THEOREM NewestNotShed == Spec => []NewestTicksSurvive
<1>1. IInv => NewestTicksSurvive
  BY DEF IInv, TickInv, NewestTicksSurvive, Last
<1> QED
  BY <1>1, InductiveInvariant, PTL

\* What is in transit on either hop is numbered upwards, across restarts of the
\* bus, and ahead of what was read; and everything keeps its type and its bounds.
THEOREM TransitInOrder == Spec => []OrderedInTransit
<1> SUFFICES ASSUME IInv PROVE OrderedInTransit
  BY InductiveInvariant, PTL
<1>1. TypeOK
  <2>1. ASSUME NEW r \in Runs
        PROVE  /\ pub[r].queue \in Seq({"ticks", "session"}) /\ Len(pub[r].queue) <= QueueCap
               /\ pub[r].hand \in [kind: {"none", "ticks", "session"}, left: 0..MaxChunks]
               /\ pub[r].sequence \in Nat
               /\ pipe[r] \in Seq(1..pub[r].sequence) /\ Len(pipe[r]) <= PipeCap
    BY DEF IInv, PubInv, Publisher, Hands, PipeSound
  <2> QED
    BY <2>1 DEF IInv, CountInv, TickInv, OutInv, OutSound, Buses, Trackers, TypeOK
<1>2. \A r \in Runs: Increasing(pipe[r])
  BY DEF IInv, PubInv, PipeSound
<1>3. DOMAIN out = 1..Len(out)
  BY LenProperties DEF IInv, OutInv, OutSound
<1>4. \A i, j \in DOMAIN out: i < j =>
          out[i][1] < out[j][1] \/ (out[i][1] = out[j][1] /\ out[i][2] < out[j][2])
  BY <1>3 DEF IInv, OutInv, OutSound, Earlier
<1>5. \A i \in DOMAIN out: out[i][1] = tracker.epoch => tracker.last < out[i][2]
  <2> SUFFICES ASSUME NEW i \in 1..Len(out), out[i][1] = tracker.epoch
               PROVE  tracker.last < out[i][2]
    BY <1>3
  <2>1. Earlier(tracker.epoch, tracker.last, out[i][1], out[i][2]) /\ tracker.epoch \in Nat
    BY DEF IInv, OutInv, OutSound, Trackers
  <2> QED
    BY <2>1 DEF Earlier
<1> QED
  BY <1>1, <1>2, <1>4, <1>5 DEF OrderedInTransit

\* What the bus and the subscriber report as missed was numbered and lost: for the
\* subscriber exactly what was lost between messages it heard, whatever full queues,
\* refused sends, restarts and publishers side by side there were.
THEOREM GapsCounted == Spec => []GapsAreLosses
<1> SUFFICES ASSUME IInv PROVE GapsAreLosses
  BY InductiveInvariant, PTL
<1>1. bus.missed <= Cardinality(lostIn)
  <2>1. PICK lost \in SUBSET lostIn: Counted(lost)
    BY DEF IInv, HopInv
  <2>2. Cardinality(lost) = bus.missed /\ IsFiniteSet(lostIn)
    BY <2>1 DEF Counted, IInv, HopInv
  <2>3. Cardinality(lost) <= Cardinality(lostIn)
    BY <2>2, FS_Subset
  <2> QED
    BY <2>2, <2>3
<1>2. tracker.missed = Cardinality(Between)
  BY DEF IInv, HeardInv
<1> QED
  BY <1>1, <1>2 DEF GapsAreLosses, Between
=============================================================================
