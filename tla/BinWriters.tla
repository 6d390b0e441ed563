------------------------------ MODULE BinWriters ------------------------------
(***************************************************************************)
(* The persistence path of a capture process: the engine enqueues one      *)
(* frame per artifact and grid second, one FileWriterThread per artifact   *)
(* drains its queue into an append-only file of length-prefixed records,   *)
(* fsyncing each one, and a process that starts later re-opens the same    *)
(* files and appends to them.                                              *)
(*                                                                         *)
(* A file is a sequence of cells.  A record is RecLen = 2 cells: its       *)
(* beginning, which is any of its bytes but the last (a part of the length *)
(* prefix, the prefix alone, or the prefix with a part of the payload),    *)
(* and what completes it.  So a write may be cut short at any byte.  The   *)
(* next record then starts where the torn one stopped, and from there on   *)
(* the readers take whatever bytes they meet for lengths and tags.         *)
(***************************************************************************)
EXTENDS Naturals, Sequences, FiniteSets, FiniteSetsExt, SequencesExt

CONSTANTS
  Artifacts,     \* number of files, enqueued to in the order 1..Artifacts
  MaxSecond,     \* bound: grid seconds of the day
  MaxBoots,      \* bound: processes started over the day
  MaxFailures,   \* bound: failed write(), flush() or fsync() calls
  MaxForged      \* bound: frames a scan finds in the bytes behind a tear

ASSUME BinWritersAssumption ==
  /\ Artifacts \in Nat \ {0}
  /\ MaxSecond \in Nat
  /\ MaxBoots \in Nat
  /\ MaxFailures \in Nat
  /\ MaxForged \in Nat

RecLen == 2
Art == 1..Artifacts
Seconds == 1..MaxSecond
Header == 0                   \* the record id of a header, and _STOP in a queue
Stop == 0
Cell == (0..MaxSecond) \X (1..RecLen)

VARIABLES
  file,          \* [Art -> Seq(Cell)]: the bytes of each .bin
  synced,        \* [Art -> Nat]: how many of them fsync made durable
  queue,         \* [Art -> Seq(0..MaxSecond)]: FileWriterThread._queue
  wpc,           \* [Art -> state of the writer thread]
  item,          \* [Art -> frame taken from the queue]
  headerWritten, \* [Art -> BOOLEAN]: _BaseWriter._header_written
  onDisk,        \* [Art -> Nat]: frames_on_disk, scanned at start
  appended,      \* [Art -> Nat]: frames_appended by this process
  epc,           \* state of the engine's run loop
  outcome,       \* how the run loop ended: "none", "clean" or "failed"
  second,        \* last grid second reached
  next,          \* next artifact to enqueue to in this second
  captures,      \* CaptureEngine.captures
  boots, failures,
  acked,         \* history: seconds fsynced, per artifact, over all processes
  accepted       \* history: seconds whose enqueue returned, in this process

engine == <<epc, outcome, second, next, captures>>
thread == <<wpc, item, headerWritten, onDisk, appended>>
disk == <<file, synced>>
vars == <<disk, queue, thread, engine, boots, failures, acked, accepted>>

Dead == {"down", "closed", "failed"}

----------------------------------------------------------------------------
(* Reading a file back. *)

CellOf(f, i, k) == f[(i - 1) * RecLen + k]

\* A record whose cells were all written by one append.
Genuine(f, i) == \A k \in 1..RecLen : CellOf(f, i, k) = <<CellOf(f, i, 1)[1], k>>

\* The readers follow the length prefixes from the head of the file: they find
\* every record as it was appended up to the first one that is made of two.
Intact(f) ==
  LET forged == {i \in 1..(Len(f) \div RecLen) : ~Genuine(f, i)}
  IN  IF forged = {} THEN Len(f) \div RecLen ELSE Min(forged) - 1

\* The seconds of those records; the first one is the header.
Recovered(f) == [i \in 1..(Intact(f) - 1) |-> CellOf(f, i + 1, 1)[1]]

\* Where a record began although the one before it had not ended.
Tears(f) == {i \in 1..(Len(f) - 1) : f[i + 1][2] = 1 /\ f[i][2] # RecLen}
Torn(f) == Tears(f) # {}

\* What scan_frames may count.  Nothing tells it a length from other bytes: behind
\* a tear it may stop at once or count any number of frames that nobody appended.
ScanFrames(f) ==
  LET n == Len(Recovered(f)) IN n..(IF Torn(f) THEN n + MaxForged ELSE n)

----------------------------------------------------------------------------
Init ==
  /\ file = [a \in Art |-> <<>>] /\ synced = [a \in Art |-> 0]
  /\ queue = [a \in Art |-> <<>>]
  /\ wpc = [a \in Art |-> "down"]
  /\ item = [a \in Art |-> Stop]
  /\ headerWritten = [a \in Art |-> FALSE]
  /\ onDisk = [a \in Art |-> 0] /\ appended = [a \in Art |-> 0]
  /\ epc = "down" /\ outcome = "none"
  /\ second = 0 /\ next = 1 /\ captures = 0
  /\ boots = 0 /\ failures = 0
  /\ acked = [a \in Art |-> <<>>] /\ accepted = [a \in Art |-> <<>>]

----------------------------------------------------------------------------
(* Plausible slips, kept to show that the properties below notice them. *)

StopJumpsQueue ==
  /\ epc = "stopping"
  /\ queue' = [a \in Art |-> <<Stop>> \o queue[a]]
  /\ epc' = "joining"
  /\ UNCHANGED <<disk, thread, outcome, second, next, captures,
                 boots, failures, acked, accepted>>

TimeoutIgnored ==
  /\ epc = "joining" /\ \E a \in Art : wpc[a] \notin Dead
  /\ epc' = "exited" /\ outcome' = IF outcome = "failed" THEN outcome ELSE "clean"
  /\ UNCHANGED <<disk, queue, thread, second, next, captures,
                 boots, failures, acked, accepted>>

OpenTruncates(a) ==
  /\ wpc[a] = "opening"
  /\ wpc' = [wpc EXCEPT ![a] = "idle"]
  /\ headerWritten' = [headerWritten EXCEPT ![a] = FALSE]
  /\ file' = [file EXCEPT ![a] = <<>>] /\ synced' = [synced EXCEPT ![a] = 0]
  /\ UNCHANGED <<queue, item, onDisk, appended, engine,
                 boots, failures, acked, accepted>>

WriteErrorSwallowed(a) ==
  /\ wpc[a] \in {"header", "frame"} /\ failures < MaxFailures
  /\ failures' = failures + 1
  /\ wpc' = [wpc EXCEPT ![a] = "idle"]
  /\ \E n \in 0..RecLen :
       file' = [file EXCEPT ![a] = SubSeq(@, 1, Len(@) - n)]
  /\ UNCHANGED <<synced, queue, item, headerWritten, onDisk, appended,
                 engine, boots, acked, accepted>>

FlushOnly(a) ==
  /\ wpc[a] = "frame"
  /\ appended' = [appended EXCEPT ![a] = @ + 1]
  /\ acked' = [acked EXCEPT ![a] = Append(@, item[a])]
  /\ wpc' = [wpc EXCEPT ![a] = "idle"]
  /\ UNCHANGED <<disk, queue, item, headerWritten, onDisk, engine,
                 boots, failures, accepted>>

----------------------------------------------------------------------------
(* The engine. *)

\* build_*_writer scans each file, resume_from_disk takes the largest count as
\* the day's captures, start_writers starts the threads.  The two scans read the
\* same bytes and count the same.
Boot ==
  /\ epc = "down" /\ boots < MaxBoots
  /\ boots' = boots + 1
  /\ onDisk' \in [Art -> UNION {ScanFrames(file[a]) : a \in Art}]
  /\ \A a \in Art : onDisk'[a] \in ScanFrames(file[a])
  /\ captures' = Max({onDisk'[a] : a \in Art})
  /\ wpc' = [a \in Art |-> "opening"]
  /\ epc' = "starting" /\ outcome' = "none"
  /\ UNCHANGED <<disk, queue, item, headerWritten, appended,
                 second, next, failures, acked, accepted>>

\* wait_until_ready returned for every writer: the grid loop begins.
WritersReady ==
  /\ epc = "starting"
  /\ \A a \in Art : wpc[a] # "opening" /\ wpc[a] # "failed"
  /\ epc' = "grid"
  /\ UNCHANGED <<disk, queue, thread, outcome, second, next, captures,
                 boots, failures, acked, accepted>>

\* wait_until_ready raised, for a writer that failed or was too slow:
\* start_writers stops them all and re-raises.
StartRaises ==
  /\ epc = "starting"
  /\ \E a \in Art : wpc[a] \in {"opening", "failed"}
  /\ epc' = "stopping" /\ outcome' = "failed"
  /\ UNCHANGED <<disk, queue, thread, second, next, captures,
                 boots, failures, acked, accepted>>

\* capture_snapshot decides to write this second.
BeginSecond ==
  /\ epc = "grid" /\ second < MaxSecond
  /\ second' = second + 1 /\ next' = 1
  /\ epc' = "enqueue"
  /\ UNCHANGED <<disk, queue, thread, outcome, captures,
                 boots, failures, acked, accepted>>

\* FileWriterThread.enqueue for one artifact: the frame is queued; after the
\* last one the second counts as captured.
Enqueue ==
  /\ epc = "enqueue" /\ wpc[next] # "failed"
  /\ queue' = [queue EXCEPT ![next] = Append(@, second)]
  /\ accepted' = [accepted EXCEPT ![next] = Append(@, second)]
  /\ IF next = Artifacts
       THEN epc' = "grid" /\ captures' = captures + 1 /\ next' = 1
       ELSE next' = next + 1 /\ UNCHANGED <<epc, captures>>
  /\ UNCHANGED <<disk, thread, outcome, second, boots, failures, acked>>

\* check_health raises inside enqueue: the run loop ends, whatever the other
\* artifacts still lacked of this second.
EnqueueRaises ==
  /\ epc = "enqueue" /\ wpc[next] = "failed"
  /\ epc' = "stopping" /\ outcome' = "failed"
  /\ UNCHANGED <<disk, queue, thread, second, next, captures,
                 boots, failures, acked, accepted>>

\* The stop event is set between two grid passes.
StopEvent ==
  /\ epc = "grid"
  /\ epc' = "stopping"
  /\ UNCHANGED <<disk, queue, thread, outcome, second, next, captures,
                 boots, failures, acked, accepted>>

\* stop_writers first asks every thread to stop.
RequestStops ==
  /\ epc = "stopping"
  /\ queue' = [a \in Art |-> Append(queue[a], Stop)]
  /\ epc' = "joining"
  /\ UNCHANGED <<disk, thread, outcome, second, next, captures,
                 boots, failures, acked, accepted>>

\* ... then joins them all and raises if one of them had failed.
JoinAll ==
  /\ epc = "joining" /\ \A a \in Art : wpc[a] \in Dead
  /\ epc' = "exited"
  /\ outcome' = IF outcome = "failed" \/ \E a \in Art : wpc[a] = "failed"
                  THEN "failed" ELSE "clean"
  /\ UNCHANGED <<disk, queue, thread, second, next, captures,
                 boots, failures, acked, accepted>>

\* A join's deadline passes with a writer still draining: WriterShutdownError.
JoinTimesOut ==
  /\ epc = "joining" /\ \E a \in Art : wpc[a] \notin Dead
  /\ epc' = "exited" /\ outcome' = "failed"
  /\ UNCHANGED <<disk, queue, thread, second, next, captures,
                 boots, failures, acked, accepted>>

\* Everything a process holds in memory.
ResetProcess ==
  /\ queue' = [a \in Art |-> <<>>]
  /\ wpc' = [a \in Art |-> "down"]
  /\ item' = [a \in Art |-> Stop]
  /\ headerWritten' = [a \in Art |-> FALSE]
  /\ onDisk' = [a \in Art |-> 0] /\ appended' = [a \in Art |-> 0]
  /\ epc' = "down" /\ outcome' = "none" /\ next' = 1 /\ captures' = 0
  /\ accepted' = [a \in Art |-> <<>>]

\* Of the bytes not yet fsynced, any prefix may be what is left: a write was
\* cut short, or the page cache was lost.
KeepSomePrefix ==
  \E keep \in [Art -> UNION {synced[a]..Len(file[a]) : a \in Art}] :
    /\ \A a \in Art : keep[a] \in synced[a]..Len(file[a])
    /\ file' = [a \in Art |-> SubSeq(file[a], 1, keep[a])]

\* The process ends after its run loop did; a daemon thread that is still
\* writing dies with it.
Exit ==
  /\ epc = "exited"
  /\ KeepSomePrefix
  /\ ResetProcess
  /\ UNCHANGED <<synced, second, boots, failures, acked>>

\* The process is killed, or the machine loses power.
Crash ==
  /\ epc # "down"
  /\ KeepSomePrefix
  /\ ResetProcess
  /\ UNCHANGED <<synced, second, boots, failures, acked>>

----------------------------------------------------------------------------
(* One writer thread. *)

\* FileWriterThread.run: open() looks at the size of the file only.
OpenFile(a) ==
  /\ wpc[a] = "opening"
  /\ wpc' = [wpc EXCEPT ![a] = "idle"]
  /\ headerWritten' = [headerWritten EXCEPT ![a] = file[a] # <<>>]
  /\ UNCHANGED <<disk, queue, item, onDisk, appended, engine,
                 boots, failures, acked, accepted>>

\* open() or bind_header() raises.
OpenFails(a) ==
  /\ wpc[a] = "opening" /\ failures < MaxFailures
  /\ failures' = failures + 1
  /\ wpc' = [wpc EXCEPT ![a] = "failed"]
  /\ UNCHANGED <<disk, queue, item, headerWritten, onDisk, appended,
                 engine, boots, acked, accepted>>

Record(r) == [k \in 1..RecLen |-> <<r, k>>]

\* Take a frame and hand its record to write() and flush(); before the first
\* one of an empty file, the header's (flush_header).
TakeFrame(a) ==
  /\ wpc[a] = "idle" /\ queue[a] # <<>> /\ Head(queue[a]) # Stop
  /\ queue' = [queue EXCEPT ![a] = Tail(@)]
  /\ item' = [item EXCEPT ![a] = Head(queue[a])]
  /\ wpc' = [wpc EXCEPT ![a] = IF headerWritten[a] THEN "frame" ELSE "header"]
  /\ file' = [file EXCEPT ![a] =
       @ \o Record(IF headerWritten[a] THEN Head(queue[a]) ELSE Header)]
  /\ UNCHANGED <<synced, headerWritten, onDisk, appended, engine,
                 boots, failures, acked, accepted>>

\* The _STOP sentinel: the loop ends and close() fsyncs.
TakeStop(a) ==
  /\ wpc[a] = "idle" /\ queue[a] # <<>> /\ Head(queue[a]) = Stop
  /\ queue' = [queue EXCEPT ![a] = Tail(@)]
  /\ wpc' = [wpc EXCEPT ![a] = "closed"]
  /\ synced' = [synced EXCEPT ![a] = Len(file[a])]
  /\ UNCHANGED <<file, item, headerWritten, onDisk, appended, engine,
                 boots, failures, acked, accepted>>

\* os.fsync returns for the header; append_frame writes the frame taken.
FsyncHeader(a) ==
  /\ wpc[a] = "header"
  /\ synced' = [synced EXCEPT ![a] = Len(file[a])]
  /\ headerWritten' = [headerWritten EXCEPT ![a] = TRUE]
  /\ file' = [file EXCEPT ![a] = @ \o Record(item[a])]
  /\ wpc' = [wpc EXCEPT ![a] = "frame"]
  /\ UNCHANGED <<queue, item, onDisk, appended, engine,
                 boots, failures, acked, accepted>>

\* os.fsync returns for a frame: it is durable and counted.
FsyncFrame(a) ==
  /\ wpc[a] = "frame"
  /\ synced' = [synced EXCEPT ![a] = Len(file[a])]
  /\ appended' = [appended EXCEPT ![a] = @ + 1]
  /\ acked' = [acked EXCEPT ![a] = Append(@, item[a])]
  /\ wpc' = [wpc EXCEPT ![a] = "idle"]
  /\ UNCHANGED <<file, queue, item, headerWritten, onDisk, engine,
                 boots, failures, accepted>>

\* write(), flush() or fsync() raises with some of the record in the file (the
\* flush that close() repeats may still push out the rest): the thread ends.
WriteFails(a) ==
  /\ wpc[a] \in {"header", "frame"} /\ failures < MaxFailures
  /\ failures' = failures + 1
  /\ wpc' = [wpc EXCEPT ![a] = "failed"]
  /\ \E n \in 0..RecLen :
       file' = [file EXCEPT ![a] = SubSeq(@, 1, Len(@) - n)]
  /\ UNCHANGED <<synced, queue, item, headerWritten, onDisk, appended,
                 engine, boots, acked, accepted>>

Writer(a) ==
  OpenFile(a) \/ TakeFrame(a) \/ TakeStop(a) \/ FsyncHeader(a) \/ FsyncFrame(a)

Trouble(a) == OpenFails(a) \/ WriteFails(a)

\* No process is started any more.
DayOver == epc = "down" /\ boots = MaxBoots /\ UNCHANGED vars

Next ==
  \/ Boot \/ WritersReady \/ StartRaises \/ BeginSecond \/ Enqueue
  \/ EnqueueRaises \/ StopEvent \/ RequestStops \/ JoinAll \/ JoinTimesOut
  \/ Exit \/ Crash \/ DayOver
  \/ \E a \in Art : Writer(a) \/ Trouble(a)

Spec == Init /\ [][Next]_vars

\* Threads are scheduled, and the run loop never blocks except on the joins.
FairSpec ==
  /\ Spec
  /\ \A a \in Art : WF_vars(Writer(a))
  /\ WF_vars(WritersReady \/ StartRaises \/ Enqueue \/ EnqueueRaises \/
             RequestStops \/ JoinAll)

----------------------------------------------------------------------------
(* Properties. *)

ThreadStates ==
  {"down", "opening", "idle", "header", "frame", "closed", "failed"}
EngineStates ==
  {"down", "starting", "grid", "enqueue", "stopping", "joining", "exited"}

\* What stands intact in the bytes fsync made durable.
Durable == [a \in Art |-> Recovered(SubSeq(file[a], 1, synced[a]))]
Log == INSTANCE AppendOnlyLog WITH log <- Durable, Files <- Art

\* Type invariant.
TypeOK ==
  /\ file \in [Art -> Seq(Cell)] /\ synced \in [Art -> Nat]
  /\ queue \in [Art -> Seq(0..MaxSecond)]
  /\ wpc \in [Art -> ThreadStates]
  /\ item \in [Art -> 0..MaxSecond]
  /\ headerWritten \in [Art -> BOOLEAN]
  /\ onDisk \in [Art -> Nat] /\ appended \in [Art -> Nat]
  /\ epc \in EngineStates /\ outcome \in {"none", "clean", "failed"}
  /\ second \in 0..MaxSecond /\ next \in Art /\ captures \in Nat
  /\ boots \in 0..MaxBoots /\ failures \in 0..MaxFailures
  /\ acked \in [Art -> Seq(Seconds)] /\ accepted \in [Art -> Seq(Seconds)]

\* Restarts never duplicate the header: whatever was cut short or restarted,
\* header bytes stand at the head of a file and nowhere else, and a file that
\* is not empty begins with one (failure-modes.md, "Header is written only
\* when a file is empty").
HeaderOnceAtHead ==
  \A a \in Art : \A i \in 1..Len(file[a]) :
    /\ i = 1 => file[a][i] = <<Header, 1>>
    /\ file[a][i][1] = Header => i <= RecLen

\* Unless a record was torn and then appended to, a reader recovers every
\* second that was acknowledged, whatever crashed or failed since.
AckedAreRecovered ==
  \A a \in Art : ~Torn(file[a]) => ToSet(acked[a]) \subseteq ToSet(Recovered(file[a]))

\* A file is torn at most once for each restart: within one process nothing is ever
\* appended behind a record that was cut short, whichever call failed.
TearsNeedRestarts ==
  \A a \in Art :
    Torn(file[a]) => Cardinality(Tears(file[a])) < boots

\* A shutdown that reports no error has every accepted frame on disk: the
\* sentinel is behind all of them and the threads were joined.
CleanStopDrained ==
  epc = "exited" /\ outcome = "clean" =>
    \A a \in Art : IsSuffix(accepted[a], acked[a])

\* captures, the figure every loss computation starts from, is after a clean
\* shutdown the frame count of the fullest file, as long as none was torn.
CapturesAreOnDisk ==
  epc = "exited" /\ outcome = "clean" /\ (\A a \in Art : ~Torn(file[a])) =>
    captures = Max({Len(Recovered(file[a])) : a \in Art})

\* Types, and the shape of the files: whatever was cut short, restarted or torn,
\* headers stand at the head and only a restart tears a file.
WellFormed == TypeOK /\ HeaderOnceAtHead /\ TearsNeedRestarts

\* A shutdown that reports success has lost nothing, on disk or in its figures.
CleanStop == CleanStopDrained /\ CapturesAreOnDisk

\* The files implement the append-only log.  Its seconds are those of the intact
\* records at the head of the bytes fsync made durable: a torn file freezes, it
\* never loses or reorders what it held.
ImplementsLog == Log!LogSpec

\* A frame handed to a writer is written, or its writer fails, or the process
\* ends: no writer starves.
AcceptedFramesSettle ==
  \A a \in Art : \A s \in Seconds :
    s \in ToSet(accepted[a]) ~>
      s \in ToSet(acked[a]) \/ wpc[a] \in {"down", "failed"}

\* What bin_codec/writer.py:9 and failure-modes.md say: at most the in-flight
\* frame is ever at risk, so an acknowledged second is always recovered.  Refuted by
\* a restart that appends behind a torn record.
OnlyInFlightFrameAtRisk ==
  \A a \in Art : ToSet(acked[a]) \subseteq ToSet(Recovered(file[a]))
=============================================================================
