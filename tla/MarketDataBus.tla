---------------------------- MODULE MarketDataBus ----------------------------
(***************************************************************************)
(* Tick distribution: the ticker's ingestion queue, the engine that        *)
(* applies each batch and mirrors it to BusPublisher, the publisher's      *)
(* queue and worker thread, the bus service that renumbers and fans out,   *)
(* and a subscriber with a SequenceTracker.                                *)
(*                                                                         *)
(* A run is one capture in one process.  Its publisher (epoch r) is built  *)
(* at bootstrap and closed by nobody: in the same process the worker of an *)
(* earlier run goes on with what it has queued, next to the new one's.     *)
(* Queues and pipes are bounded; each hop sheds what does not fit and the  *)
(* numbers are there to tell the reader so.                                *)
(*                                                                         *)
(* A batch is a number on its way to the tables and a "ticks" item after;  *)
(* a "session" item is the token map of its run.  The bus service refuses  *)
(* malformed messages, which nothing modelled here produces.               *)
(***************************************************************************)
EXTENDS Naturals, Sequences, FiniteSets, SequencesExt

CONSTANTS MaxRuns,        \* bound: captures started
          MaxEpochs,      \* bound: starts of the bus service
          MaxBatches,     \* bound: batches the ticker delivers
          MaxSessions,    \* bound: token maps published
          MaxChunks,      \* messages a batch may need
          TickCap,        \* size of the ingestion queue
          QueueCap,       \* queue_maxsize
          PipeCap,        \* SNDHWM, of either socket
          MaxFaults       \* bound: messages that raise, losses and refused sends

ASSUME ConstantsAssumption ==
    /\ {MaxRuns, MaxEpochs, MaxChunks, TickCap, QueueCap, PipeCap} \subseteq Nat \ {0}
    /\ {MaxBatches, MaxSessions, MaxFaults} \subseteq Nat

VARIABLES run,        \* the current run
          arrived,    \* the newest batch the ticker handed to the loop
          tickQ,      \* TickerBridge.queue
          applied,    \* the newest batch in the tables
          sessions,   \* token maps published so far
          pub,        \* per run: queue, item in the worker's hands, sequence
          pipe,       \* per run: PUSH to PULL, in transit
          bus,        \* the service: epoch, sequence, producer seen, producer_missed
          out,        \* PUB to SUB, in transit
          tracker,    \* the subscriber's SequenceTracker
          faults,
          lostIn,     \* history: numbered by a publisher, lost before the bus
          lostOut,    \* history: numbered by the bus, lost before the subscriber
          heard       \* history: what the subscriber received

ingest == <<arrived, tickQ, applied>>
vars == <<run, ingest, sessions, pub, pipe, bus, out, tracker, faults, lostIn, lostOut, heard>>

Runs   == 1..MaxRuns
Epochs == 1..MaxEpochs
Empty  == [kind |-> "none", left |-> 0]
Fresh  == [queue |-> <<>>, hand |-> Empty, sequence |-> 0]
Unheard == [epoch |-> 0, last |-> 0, missed |-> 0]

TypeOK ==
    /\ run \in Runs /\ arrived \in 0..MaxBatches /\ applied \in 0..arrived
    /\ tickQ \in Seq(1..arrived) /\ Len(tickQ) <= TickCap
    /\ sessions \in 0..MaxSessions
    /\ \A r \in Runs:
          /\ pub[r].queue \in Seq({"ticks", "session"}) /\ Len(pub[r].queue) <= QueueCap
          /\ pub[r].hand \in [kind: {"none", "ticks", "session"}, left: 0..MaxChunks]
          /\ pub[r].sequence \in Nat
          /\ pipe[r] \in Seq(1..pub[r].sequence) /\ Len(pipe[r]) <= PipeCap
    /\ bus \in [epoch: Epochs, sequence: Nat, from: 0..MaxRuns, seen: Nat, missed: Nat]
    /\ out \in Seq(Epochs \X Nat) /\ Len(out) <= PipeCap
    /\ tracker \in [epoch: 0..MaxEpochs, last: Nat, missed: Nat]
    /\ faults \in 0..MaxFaults

Init ==
    /\ run = 1 /\ arrived = 0 /\ tickQ = <<>> /\ applied = 0 /\ sessions = 0
    /\ pub = [r \in Runs |-> Fresh]
    /\ pipe = [r \in Runs |-> <<>>]
    /\ bus = [epoch |-> 1, sequence |-> 0, from |-> 0, seen |-> 0, missed |-> 0]
    /\ out = <<>> /\ tracker = Unheard
    /\ faults = 0 /\ lostIn = {} /\ lostOut = {} /\ heard = {}

Fault == faults < MaxFaults /\ faults' = faults + 1

-----------------------------------------------------------------------------
(* TickerBridge and CaptureEngine *)

\* A plausible slip: a full queue turns the new batch away instead.
EnqueueIfRoom(batch) == IF Len(tickQ) = TickCap THEN tickQ ELSE Append(tickQ, batch)

\* _enqueue: a full queue gives up its oldest batch.
Enqueue(batch) == Append(IF Len(tickQ) = TickCap THEN Tail(tickQ) ELSE tickQ, batch)

\* _on_ticks, and the callback it posts to the loop.
TicksArrive ==
    /\ arrived < MaxBatches
    /\ arrived' = arrived + 1
    /\ tickQ' = Enqueue(arrived')
    /\ UNCHANGED <<run, applied, sessions, pub, pipe, bus, out, tracker, faults, lostIn, lostOut, heard>>

\* put_nowait: a full queue drops the new item, and it gets no number.
Offer(item) ==
    IF Len(pub[run].queue) < QueueCap
    THEN pub' = [pub EXCEPT ![run].queue = Append(@, item)]
    ELSE UNCHANGED pub

\* Every tick of the batch was of no owner or malformed, and counted as such.
NoneAccepted == UNCHANGED pub

\* _consume and apply_ticks: the tables first, then the bus.
ApplyTicks ==
    /\ tickQ # <<>>
    /\ applied' = Head(tickQ)
    /\ tickQ' = Tail(tickQ)
    /\ Offer("ticks") \/ NoneAccepted
    /\ UNCHANGED <<run, arrived, sessions, pipe, bus, out, tracker, faults, lostIn, lostOut, heard>>

\* At bootstrap, and _maybe_republish_bus_session.
PublishSession ==
    /\ sessions < MaxSessions
    /\ sessions' = sessions + 1
    /\ Offer("session")
    /\ UNCHANGED <<run, ingest, pipe, bus, out, tracker, faults, lostIn, lostOut, heard>>

InTransit == UNION {{r} \X ToSet(pipe[r]) : r \in Runs}

\* The next capture: a bridge, tables and a publisher of its own.  A new process
\* has nothing of the old publishers, and what their sockets held may be lost.
NextRun(newProcess, lost) ==
    /\ run < MaxRuns
    /\ run' = run + 1
    /\ tickQ' = <<>> /\ applied' = arrived
    /\ pub' = IF newProcess THEN [r \in Runs |-> [pub[r] EXCEPT !.queue = <<>>, !.hand = Empty]]
              ELSE pub
    /\ IF newProcess /\ lost
       THEN pipe' = [r \in Runs |-> <<>>] /\ lostIn' = lostIn \cup InTransit
       ELSE UNCHANGED <<pipe, lostIn>>
    /\ UNCHANGED <<arrived, sessions, bus, out, tracker, faults, lostOut, heard>>

-----------------------------------------------------------------------------
(* BusPublisher's worker *)

\* What an item is encoded to: a token map is one message, a batch one or several.
Messages(item) == IF item = "session" THEN {1} ELSE 1..MaxChunks

\* _drain takes an item.
WorkerTakes(r) ==
    /\ pub[r].hand = Empty /\ pub[r].queue # <<>>
    /\ \E n \in Messages(Head(pub[r].queue)):
          pub' = [pub EXCEPT ![r].queue = Tail(@),
                             ![r].hand = [kind |-> Head(pub[r].queue), left |-> n]]
    /\ UNCHANGED <<run, ingest, sessions, pipe, bus, out, tracker, faults, lostIn, lostOut, heard>>

Rest(hand) == IF hand.left = 1 THEN Empty ELSE [hand EXCEPT !.left = @ - 1]

\* A plausible slip: the number is left for the next message too.
WorkerSendsAgain(r) ==
    /\ pub[r].hand.left > 0 /\ Len(pipe[r]) < PipeCap
    /\ LET n == pub[r].sequence + 1 IN
       /\ pipe' = [pipe EXCEPT ![r] = Append(@, n)]
       /\ pub' = [pub EXCEPT ![r].hand = Rest(@), ![r].sequence = IF @ = 0 THEN 1 ELSE @]
    /\ UNCHANGED <<run, ingest, sessions, bus, out, tracker, faults, lostIn, lostOut, heard>>

\* _send: the number is used up by a message that went out.
WorkerSends(r) ==
    /\ pub[r].hand.left > 0 /\ Len(pipe[r]) < PipeCap
    /\ LET n == pub[r].sequence + 1 IN
       /\ pipe' = [pipe EXCEPT ![r] = Append(@, n)]
       /\ pub' = [pub EXCEPT ![r].hand = Rest(@), ![r].sequence = n]
    /\ UNCHANGED <<run, ingest, sessions, bus, out, tracker, faults, lostIn, lostOut, heard>>

\* The socket is full, or raises: the message is gone, its number is not.
WorkerRefused(r) ==
    /\ pub[r].hand.left > 0
    /\ \/ Len(pipe[r]) = PipeCap /\ UNCHANGED faults
       \/ Len(pipe[r]) < PipeCap /\ Fault
    /\ pub' = [pub EXCEPT ![r].hand = Rest(@)]
    /\ UNCHANGED <<run, ingest, sessions, pipe, bus, out, tracker, lostIn, lostOut, heard>>

\* A plausible slip: the exception ends the thread.
WorkerDies(r) ==
    /\ pub[r].hand.left > 0 /\ Fault
    /\ pub' = [pub EXCEPT ![r].hand.left = 0]
    /\ UNCHANGED <<run, ingest, sessions, pipe, bus, out, tracker, lostIn, lostOut, heard>>

\* Encoding raises: the item is given up, the worker goes on.
WorkerFault(r) ==
    /\ pub[r].hand.left > 0 /\ Fault
    /\ pub' = [pub EXCEPT ![r].hand = Empty]
    /\ UNCHANGED <<run, ingest, sessions, pipe, bus, out, tracker, lostIn, lostOut, heard>>

\* A broken connection takes the oldest of what is in transit with it.
TransitLoses(r) ==
    /\ pipe[r] # <<>> /\ Fault
    /\ lostIn' = lostIn \cup {<<r, Head(pipe[r])>>}
    /\ pipe' = [pipe EXCEPT ![r] = Tail(@)]
    /\ UNCHANGED <<run, ingest, sessions, pub, bus, out, tracker, lostOut, heard>>

-----------------------------------------------------------------------------
(* MarketDataBus *)

\* _track_producer
Track(r, n) ==
    IF bus.from # r
    THEN [bus EXCEPT !.from = r, !.seen = n]
    ELSE [bus EXCEPT !.seen = IF n > @ THEN n ELSE @,
                     !.missed = @ + (IF n > bus.seen + 1 THEN n - bus.seen - 1 ELSE 0)]

\* What a header says of order, on either hop and in either direction of the codec.
Header(epoch, sequence) == <<epoch, sequence>>

\* _republish: the bus's own number, dropped for a subscriber that is behind.
Republish(tracked) ==
    LET n == bus.sequence + 1 IN
    /\ bus' = [tracked EXCEPT !.sequence = n]
    /\ \/ /\ Len(out) < PipeCap
          /\ out' = Append(out, Header(bus.epoch, n))
          /\ UNCHANGED <<lostOut, faults>>
       \/ /\ Len(out) = PipeCap
          /\ lostOut' = lostOut \cup {Header(bus.epoch, n)}
          /\ UNCHANGED <<out, faults>>
       \/ /\ Len(out) < PipeCap /\ Fault
          /\ lostOut' = lostOut \cup {Header(bus.epoch, n)}
          /\ UNCHANGED out

\* A plausible slip: the number stays used.
RefusedNumberKept(tracked) ==
    /\ bus' = [tracked EXCEPT !.sequence = @ + 1] /\ Fault
    /\ UNCHANGED <<out, lostOut>>

\* The socket refuses: the number is taken back.
RepublishRefused(tracked) ==
    /\ bus' = tracked /\ Fault
    /\ UNCHANGED <<out, lostOut>>

\* handle_ingest: one message of whichever connection is served.
Ingest(r) ==
    /\ pipe[r] # <<>>
    /\ pipe' = [pipe EXCEPT ![r] = Tail(@)]
    /\ LET tracked == Track(r, Head(pipe[r]))
       IN  Republish(tracked) \/ RepublishRefused(tracked)
    /\ UNCHANGED <<run, ingest, sessions, pub, tracker, lostIn, heard>>

\* Another start of the service: what was in transit on either side may be lost,
\* what the subscriber remembers is not.
BusRestarts(lost) ==
    /\ bus.epoch < MaxEpochs
    /\ bus' = [epoch |-> bus.epoch + 1, sequence |-> 0, from |-> 0, seen |-> 0, missed |-> 0]
    /\ IF lost
       THEN /\ pipe' = [r \in Runs |-> <<>>] /\ lostIn' = lostIn \cup InTransit
            /\ out' = <<>> /\ lostOut' = lostOut \cup ToSet(out)
       ELSE UNCHANGED <<pipe, lostIn, out, lostOut>>
    /\ UNCHANGED <<run, ingest, sessions, pub, tracker, faults, heard>>

-----------------------------------------------------------------------------
(* SequenceTracker *)

Observe(t, e, n) ==
    IF e # t.epoch
    THEN [t EXCEPT !.epoch = e, !.last = n]
    ELSE [t EXCEPT !.last = IF n > @ THEN n ELSE @,
                   !.missed = @ + (IF n > t.last + 1 THEN n - t.last - 1 ELSE 0)]

Receive ==
    /\ out # <<>>
    /\ LET e == Head(out)[1]
           n == Head(out)[2]
       IN  tracker' = Observe(tracker, e, n)
    /\ heard' = heard \cup {Head(out)}
    /\ out' = Tail(out)
    /\ UNCHANGED <<run, ingest, sessions, pub, pipe, bus, faults, lostIn, lostOut>>

Next ==
    \/ TicksArrive \/ ApplyTicks \/ PublishSession
    \/ \E newProcess, lost \in BOOLEAN: NextRun(newProcess, lost)
    \/ \E r \in Runs: WorkerTakes(r) \/ WorkerSends(r) \/ WorkerRefused(r) \/ WorkerFault(r)
                      \/ TransitLoses(r) \/ Ingest(r)
    \/ \E lost \in BOOLEAN: BusRestarts(lost)
    \/ Receive

\* The event loop, each worker thread and the service's poll loop keep running.
Spec ==
    /\ Init /\ [][Next]_vars
    /\ WF_vars(ApplyTicks) /\ WF_vars(Receive)
    /\ \A r \in Runs: WF_vars(WorkerTakes(r) \/ WorkerSends(r) \/ WorkerRefused(r)) /\ WF_vars(Ingest(r))

-----------------------------------------------------------------------------
(* Properties *)

Increasing(s) == \A i \in 2..Len(s): s[i - 1] < s[i]

\* Both domains of order hold in transit: one publisher's messages and, within an
\* epoch of the bus, its own are numbered upwards and ahead of what was read, so
\* that to a reader "stale" never means a message it has not had.
OrderedInTransit ==
    /\ TypeOK
    /\ \A r \in Runs: Increasing(pipe[r])
    /\ \A i, j \in DOMAIN out: i < j =>
          out[i][1] < out[j][1] \/ (out[i][1] = out[j][1] /\ out[i][2] < out[j][2])
    /\ \A i \in DOMAIN out: out[i][1] = tracker.epoch => tracker.last < out[i][2]

\* However far capture falls behind, what it has not applied yet ends with the
\* newest batch: the ingestion queue sheds old values, never the current ones.
NewestTicksSurvive ==
    \/ applied = arrived
    \/ tickQ # <<>> /\ Last(tickQ) = arrived

\* A gap is a loss: what the bus reports as missed from its publishers was
\* numbered and lost on that hop, and what the subscriber reports is exactly
\* what was lost, in each epoch, between two messages it heard.  A full queue,
\* a refused send, a restart or two publishers at once make no gap of nothing.
GapsAreLosses ==
    /\ bus.missed <= Cardinality(lostIn)
    /\ tracker.missed = Cardinality({m \in lostOut:
           \E a, b \in heard: a[1] = m[1] /\ b[1] = m[1] /\ a[2] < m[2] /\ m[2] < b[2]})

\* Nothing stays behind: each worker outlives its faults and each queue drains,
\* those of publishers that no capture feeds any more included.
QueuesDrain ==
    <>[](/\ tickQ = <<>> /\ out = <<>>
         /\ \A r \in Runs: pub[r].queue = <<>> /\ pub[r].hand = Empty /\ pipe[r] = <<>>)

=============================================================================
