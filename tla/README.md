# A TLA+ model of market_data_dwndr

`market_data_dwndr` captures one trading day of an exchange's option chains,
stocks and index futures: a websocket feed is applied to tables in memory, a
1 Hz grid writes one frame of every table per second into append-only `.bin`
files, and after the close the files are compressed and the raw ones deleted.
A FastAPI service runs this day after day without an operator.

This directory holds TLA+ modules that model that core, the TLC configurations
that check them on small instances, and TLAPS proofs about all ten components.
`PROJECT.json` lists components, runs, the lines every definition stands for,
hazards, findings and theorems.

## 1. The system

### Components, their state and their operations

| Component | Where (`src/backend/app/` unless said otherwise) | State it keeps | Operations |
|---|---|---|---|
| Frame persistence | `capture/writer_thread.py`, `bin_codec/writer.py`, `scan.py`, `reader.py` | per artifact: a queue, a thread, an open file, `_header_written` | enqueue, take, header, append + fsync, stop/join, scan on start |
| End-of-day archive | `bin_codec/compress.py`, `ops/eod.py` | `.bin` and `.bin.zst` names of a date | list, check existing, compress, verify, rename, sync directory, unlink |
| Capture grid | `capture/engine.py` (`run`, `_due_ticks`, `capture_snapshot`, `resume_from_disk`), `capture/reconnect.py` (`FreshnessMonitor`) | next tick, the day's counters, freshness | wake, write or skip a second, give up seconds, resume |
| Feed health | `capture/engine.py` (`observe_feed_health`, `_try_reconnect`, `_escalate_stale`) | stale spell, reconnect history | reconnect, escalate |
| Ticker bridge | `kite/ticker.py`, `capture/bootstrap.py` (`run_capture`, `_await_live_feed`) | the current ticker, three events, the recovery task | start, confirm, reconnect ladder, reject, stop |
| Capture controller | `api/capture.py`, `capture/maintenance.py` | the capture task, `_has_failed`, the lifecycle lock, the lease file | start, stop, crash handler, acquire and release maintenance |
| Daily automation | `ops/automation.py` | `eod_completed_date`, `eod_in_progress_date`, last poll | decide, dispatch FETCH / START / STOP / RUN_EOD |
| Process | `main.py`, `server.py`, compose file | | lifespan start and shutdown, restart policy |
| Broker session | `session_service.py`, `session.py`, `kite/external_*.py`, `kite/auth.py` | a session file per date, the dates tried, the session lock | acquire, refresh, invalidate, carry the rate over |
| Browser login, `md-login` | `kite/login_flow.py`, `kite/login.py`, `api/auth.py` | one login attempt; the command has a process of its own | start, submit code, complete, cancel, expire; check, write |
| Market sessions, calendar | `ops/sessions.py`, `ops/calendar.py` | none | classify a time |
| Layouts, segments | `bin_codec/layout.py`, `segment` logic of writer and reader | file names by axis | choose or roll a segment |
| Tables | `chain/`, `stocks/`, `index_fno/` | rows per instrument | apply a tick, snapshot |
| Subscription plan | `capture/subscription.py`, `kite/instruments.py` | token list | plan |
| Broadcaster, websocket hub | `capture/broadcaster.py`, `ws/` | latest snapshot, drain task, subscribers by topic | publish latest, drain, send, prune, persist telemetry |
| Topic connection | `src/frontend/lib/wsTopicConnection.ts` | socket, reconnect timer, watchdog, mark of an intentional close | acquire, release, connect, reconnect, force a close |
| Bus publisher | `bus/` | bounded queue, worker thread, epoch and sequence | enqueue or drop, encode, send |
| Bus service and its subscribers | `src/market_data_bus/mdbus/` | bus epoch and sequence, producer seen, gaps | ingest, republish, track |
| Historical jobs | `historical/` | a checkpoint per instrument, token bucket, collected candles | run, fetch window, back off, checkpoint, cancel, resume |
| Completeness, statistics, retention | `ops/completeness.py`, `ops/reconcile_session.py`, `ops/stats_store.py`, `ops/retention.py` | reports | compute, prune |
| Monitor, reconstruction | `capture/monitor.py`, `reconstruct/` | none | format, compute Greeks |
| Rest of the frontend | `src/frontend/` | React state | render, poll |
| Release manager | `src/release_manager/` | deployed version, lease id | drain, deploy, roll back |

### How they interact

- The reactor thread of the websocket SDK calls the bridge's callbacks; they
  reach the event loop only through `call_soon_threadsafe` (a FIFO) or a bounded
  tick queue.
- The grid and the tick consumer share the tables on the event loop; a pass of
  the grid is not interrupted by an await.
- The grid hands frames to the writer threads through one queue per artifact;
  a writer's error comes back only when the next frame is enqueued, or at the join.
- Two capture processes of a day share nothing but the files: the `.bin` files,
  the telemetry snapshot the broadcaster persists, the session file and the
  maintenance lease.
- The automation, the HTTP API, the lease and the lifespan's shutdown all call
  the controller; its lifecycle lock serialises them.
- The session file is written by the service, under its lock, and by `md-login`,
  without; a capture holds the token it was started with, and hands it back when
  the broker refuses it.
- The bridge's batches reach the tables through a bounded queue; the engine mirrors
  each batch to the bus publisher's queue, whose worker thread sends it to the bus
  service, which renumbers it for its subscribers. Every hop may shed, none blocks
  capture.
- Every frame goes to the broadcaster, which keeps one waiting frame at most, and
  sends to one websocket after the other; the pages reconnect by themselves.
- The sweep takes over the files the writers produced, so it must come after
  the last of them.

### What is hard

Processes that die between two writes and come back to the same files; a
deadline that passes while the thing waited for still happens; callbacks of a
connection that has been replaced; decisions taken before an await and acted
on after it; counters put together from sources of different age; a rename
and a deletion with a power loss in between. `PROJECT.json` "hazards" names
each at its line and the properties about it.

### What makes each component correct

- **Persistence**: an acknowledged second is recovered by a reader; the header
  is at the head and nowhere else; a shutdown that reports success has drained
  every queue; no accepted frame starves.
- **Archive**: at every instant each captured frame is in the raw file or in
  the archive; the raw file goes only behind a verified copy, a durable one where the
  directory can be synced; every raw file is swept in the end.
- **Grid**: no second is skipped or counted twice, across late wake-ups, stalls
  and restarts; timestamps on disk only advance; nothing frozen is written.
- **Bridge**: no socket is left open behind the bridge's back; recovery ends and
  an exhausted one escalates; a socket that was never subscribed is replaced; a
  rejected token ends the session.
- **Lifecycle**: the sweep runs only when nothing writes; maintenance is quiet; a
  swept date is not captured into again; each trading day has its capture and
  its end of day.
- **Feed health**: a feed that stays dead, or flickers without ever recovering, is
  escalated; time outside the session and a single frozen dataset never are; socket
  replacements stay within their budget.
- **Session**: a stored session disappears only because its own token was refused or
  replaced, never by an operation that looked at an older one; the rate survives its
  session; a session the broker refuses is replaced in the end.
- **Bus**: overflow costs old ticks, not the newest; what a subscriber counts as
  missed was lost; what is queued is sent.
- **Display**: the newest frame waits, is being published or has been; a page that stays
  open keeps getting frames.
- **Historical jobs**: requests keep within the rate; a checkpoint loses nothing to
  cancellation and resumption; the candles of a window marked as done are somewhere.

## 2. The modules

| Module | Models | Checked by |
|---|---|---|
| `BinWriters` | engine → queues → writer threads → files, over several processes | `MCBinWriters` |
| `AppendOnlyLog` | what the files promise a reader: the abstract specification of `BinWriters` | run `writers` |
| `BinWriters_proofs` | theorems about `BinWriters`, its refinement of `AppendOnlyLog` among them | TLAPS |
| `EodArchive` | the sweep of one date and `compress_file` | `MCEodArchive` |
| `EodArchive_proofs` | theorems about `EodArchive` | TLAPS |
| `CaptureGrid` | the 1 Hz loop, its counters, resume after a restart | `MCCaptureGrid` |
| `CaptureGrid_proofs` | theorems about `CaptureGrid` | TLAPS |
| `CaptureLifecycle` | automation, controller, lease, process | `MCCaptureLifecycle` |
| `CaptureLifecycle_proofs` | theorems about `CaptureLifecycle` | TLAPS |
| `TickerBridge` | bridge, callbacks, ladder, the session around it | `MCTickerBridge` |
| `TickerBridge_proofs` | theorems about `TickerBridge` | TLAPS |
| `FeedHealth` | freshness, stale spells, socket replacement, escalation | `MCFeedHealth` |
| `BrokerSession` | session files, session service, login coordinator, `md-login` | `MCBrokerSession` |
| `MarketDataBus` | tick queue, publisher, bus service, subscriber | `MCMarketDataBus` |
| `MarketDataBus_proofs` | theorems about `MarketDataBus` | TLAPS |
| `Display` | broadcaster, websocket hub, topic connections of pages | `MCDisplay` |
| `Display_proofs` | theorems about `Display` | TLAPS |
| `HistoricalJobs` | download job, checkpoints, client retries, token bucket | `MCHistoricalJobs` |
| `Operations_proofs` | theorems about `HistoricalJobs`, `FeedHealth` and `BrokerSession` | TLAPS |

The modules meet at interfaces. `CaptureGrid` calls a frame "on disk" when it is
handed to the writers, and `BinWriters` is about the way from there;
`FramesAdvance` of the grid is why the seconds `BinWriters` enqueues increase.
`BinWriters` ends with "clean" or "failed", which `CaptureLifecycle` knows as a
task that stopped, crashed or was given up with writers still `draining`.
`SweepOnlyWhenQuiet` of the lifecycle is the reason why `EodArchive` may keep
capture and sweep apart. `TickerBridge` says when the session enters the grid
and how it ends. `FeedHealth` decides when a session in the grid asks the bridge for
another socket (`FeedStale` there) and when it ends for a restart, which to
`CaptureLifecycle` is a crash of the task. `BrokerSession` opens up what the lifecycle
knows as a session that is none, not ready or ready: its `feed` is the token of a
running task, `TickerRejected` what follows `TaskLosesSession`. `MarketDataBus` refines
the one step in which `FeedHealth` and `CaptureGrid` apply a batch, `Display` begins where
a pass of the grid ends.

In every module definitions marked as plausible slips are variants of single
definitions with a bug in them (a guard dropped, a reset forgotten, an
off-by-one). The specification never uses them. They document which mistake
each property would notice, and `PROJECT.json` "mutants" pairs them.

### BinWriters

A file is a sequence of cells, two to a record: its beginning, which is any of its
bytes but the last, and what completes it. That is the least that shows what a
write cut short at any byte does, inside the length prefix or behind it: the next
record is appended at that place, and a reader that follows the length prefixes
then takes other bytes for lengths and tags. `file` is what
a reader of the running system sees, `synced` how much of it fsync made durable;
a crash keeps any prefix between the two. `Boot` is the start of a process
(scan, `resume_from_disk`), `BeginSecond`/`Enqueue`/`EnqueueRaises` are
`capture_snapshot` and `FileWriterThread.enqueue`, one artifact at a time because
the queues are separate and a writer may fail between two of them;
`RequestStops`/`JoinAll`/`JoinTimesOut` are `stop_writers`. Per thread:
`OpenFile`, `TakeFrame`, `FsyncHeader`, `FsyncFrame`, `TakeStop`, `WriteFails`.
`Recovered` is what the readers find as it was appended, up to the first record made of
two. Behind that nothing in `scan.py` or `reader.py` tells a length from other bytes (zeros
advance by four, any tag but a header's is a frame), so `ScanFrames` is a set: the
frames counted there are any number up to `MaxForged`, where the code has only the
file's size as a limit. The model says nothing of what a reader returns behind a tear; a
reader that raises there leaves the file unreadable, and a writer that meets it on opening
fails (`OpenFails`).

### EodArchive

A file is the sequence of its frames, so that "same content" and "shorter" mean
what byte comparison and size mean in the code. Names have two states, the one
processes see and the one a power loss would leave (`rawDurable`,
`archiveDurable`): `os.replace` and `unlink` change the first,
`_fsync_directory` brings the second up to date. `pc` walks through
`compress_file`; `StepFails` may strike at any step, `Killed` and `PowerLoss`
between any two. `CheckUnreadable` and `DirectoryNotOpened` are the two errors
`compress_file` swallows: the first may skip the refusal of a shorter archive (`unread`), the
second, like an archive found in place, lets the raw file go although the archive's name
is not durable (`unsynced`). Capture may start again on the same date after a sweep, which
`md-capture --eod` makes possible.

### CaptureGrid

Time is counted in clock units, `Interval` to the second. `Wake` is `_due_ticks`
(with the stall branch), the four `Skip*`/`WriteFrame` actions are the branches
of `capture_snapshot` in their order, `Resume` is `resume_from_disk` with the
counters `bootstrap_capture` carries over, `PersistTelemetry` the throttled
snapshot, `EndRun` and `Crash` the ways a process ends with and without a last
snapshot. The clock ticks at any moment, also in the middle of a pass.

### CaptureLifecycle

A day is four parts: before the window, the window, the tail after its close,
and the evening when the end of day is due. `Decide` is `decide_automation`;
`Tick` takes a plan, and its actions are dispatched one by one, each possibly
later in the day, or the next day, than it was decided. `holder` is the
lifecycle lock while `stop()` awaits the task; `start()` never awaits anything
that lets another holder in once it has passed its checks, and is one step.
`exiting` follows SIGTERM through the lifespan, `Boot` is the restart policy.
`draining` says that writer threads outlive their task: after a timeout or a crash, which
leave `failed` behind, or, marked by the history `orphaned`, when a session is lost
while `stop_writers` runs in a thread, which leaves nothing behind.

### TickerBridge

Tickers are numbered in the order of their start; `sock` is each one's state as
the SDK and the network make it, `posted` the event loop's FIFO of callbacks
(with the ticker that posted, which the code does not record), `ladder` the
recovery task. A closed ticker's open socket is shut at once, as nothing it does afterwards
matters; its connect may still come through. `phase` is `run_capture`: connecting, in the
grid, over. The histories `stray`, `revived` and `unanswered` mark the situations the code
does not guard against: a confirmation of an older ticker, a recovery that begins after
`stop()`, and one that is dropped because a ladder with its confirmation has not ended yet.

### FeedHealth

What the code stamps with the clock is kept as an age, which stops growing where
no comparison can tell the difference any more, so that days of any length fit in
finitely many states. `Batch` is the tick consumer's step: the tokens an owner
took stamp their artifacts and legs, any batch stamps the transport, and one
that changed stamps the content. After every pass of the grid exactly one of
`PipelineDead` (`check_pipeline_alive`), `NotExpected`, `Wait`, `Reconnect` and `Escalate`
(the branches of `observe_feed_health`) happens; passes may be late but there is one
at most per unit of time. `phase` follows the derivatives session, which all
artifacts belong to; cash legs leave continuous trading when it enters `auction`.
The histories `owed`, `calm` and `tries` count what the code does not: for how long
frames have been owed to this process, how long ago a pass found the feed stale,
and every reconnect of the last hour. `Young` is the filter of
`_reconnect_budget_left`: the list is in the order of the attempts, so that what the
filter keeps is the end of it.

### BrokerSession

Tokens are numbered in the order Kite issues them, and Kite revokes the older ones
with the newer; a rate is the date it is as of, which is what decides between two of
them. `op` is the holder of the session lock and how far it has come: `Acquire*` is
`acquire_broker_session`, `Refresh*` is `refresh_broker_session`; `CompleteLogin` and
`ManualLogin` are the looks at the session under the lock with which the coordinator's
login (`attempt`) and the one by request token end. All are cut at the network calls, at each
look at the disk and at each write, since that is where a kill or another process comes
between: `Matches` reads and compares, `SessionDropped` renames what is there by then
(`Retire`, which keeps its rate on record in `retired`), `ResolveRate` looks the rate up,
`LoginExchanged` has the token, `SessionWritten` writes. `CliChecks` and `CliSaves` are
`md-login`, which takes no lock; `op.raced` says that it has written since the operation
under way began. An operation with `op.expected` and `Killed` end the process, the only
circumstances in which the code asks for a swap.

`RateSurvives` is about the dates that may still be asked for (`AskedFor`): today's and
later ones, and that of the acquisition under way. For a date gone by it is false, which it
takes three dates to see: the second one's file may be the last carrier of the first one's
rate, `md-login` having overwritten the first file without a rate; a login begun on the
second date and completed on the third then puts a newer rate there, which the first date
could not use. Nothing asks for a rate of the first date any more.

### MarketDataBus

A batch is the number of its arrival up to the tables and an item after. `Enqueue` is
the tick queue, which gives up its oldest batch; `Offer` the publisher's, which
turns the new item away before it has a number; `WorkerSends` and `WorkerRefused` show
that a number is used up only by a message the socket took. `Ingest` is the bus service
on one message: `Track` (`_track_producer`), then a number of its own and
`Republish`, which a full subscriber drops. `Receive` is the `SequenceTracker` of a subscriber to all
topics: they share one sequence, so that one that filters by topic would count the messages
of the others as missed. `NextRun`
starts the next capture: in the same process, the earlier publisher's worker keeps its
queue and goes on. `lostIn`, `lostOut` and `heard` are histories: the messages that had
a number and disappeared, and those that arrived.

### Display

Frames are told apart by whether a newer one exists; `latest` and `task` are the
broadcaster's one-place buffer and its drain task, `targets` and `failed` the copy
`ConnectionManager.broadcast` iterates over and the sockets it will prune. A page is a
record with what `createTopicConnection` closes over: its socket, whether somebody
holds it, the mark of an intentional close, the reconnect timer, the watchdog's
arming. A socket the page has given up may still have its `onclose` to come
(`zombie`) and its endpoint on the server (`dead`). An attempt to connect may raise
(`ConnectThrows`), which is caught and leaves neither a socket nor a timer: `thrown` remembers
it until the next attempt. `Silence` lets the watchdog's time
pass for a page that is not served.

### HistoricalJobs

A task goes from `await` to `await`: semaphore, bucket, HTTP, back-off. `Proceed` is the
bottom of the loop over the windows with both writes of the checkpoint; what a run has
collected (`got`) stays in memory until `Returns` hands it over. `Fails` is `gather`
passing the first exception on while the other tasks go on: a later run may meet them.
`Acquire` keeps the bucket's lock through its sleep.

## 3. The runs

| Run | Instance | Shows |
|---|---|---|
| `writers` | 2 files, 2 seconds, 3 processes, 1 failing call, 1 forged frame | `WellFormed`, `CleanStop`, `AckedAreRecovered`, `AcceptedFramesSettle`; `BinWriters` implements `AppendOnlyLog` (`ImplementsLog`) |
| `eod` | 2 files, 3 frames, 3 troubles | `NothingLost`, `RemovalIsSafe`, `RawEventuallyArchived` |
| `eod_resumed` | 2 files, 2 frames, no trouble | violates `ArchivedFramesSurvive` |
| `grid` | 7 seconds of 2 units, catch-up 2, 3 processes | `TypeOK`, `SecondsAccounted`, `CountedOnce`, `NoFrozenFrame`, `FramesAdvance` |
| `lifecycle` | 3 days with a holiday, 4 troubles | `CaptureApartFromSweep`, `MaintenanceIsQuiet`, `EodRuns`, `CaptureRuns` |
| `bridge` | ladder of 2, 7 tickers, 3 troubles | `SocketsAccounted`, `RecoverySettles`, `MuteSocketReplaced`, `RejectionStops` |
| `health` | 2 artifacts, 2 legs, 3 tokens, limits of 1 to 5 units | `ReconnectBudgetKept`, `RestartIsOwed`, `OutageEscalates` |
| `session` | 3 tokens, 2 days | `SessionTypeOK`, `SessionLossExplained`, `SessionNotOverwritten`, `RateSurvives`, `SessionRestored` |
| `session_lost` | as `session` | violates `RefreshKeepsSession` |
| `bus` | 2 captures, 2 starts of the service, 2 batches, queues of 1 and 2, 2 faults | `OrderedInTransit`, `NewestTicksSurvive`, `GapsAreLosses`, `QueuesDrain` |
| `display` | a page on `market-data`, one on `session`, 2 faults | `PageAndServerAgree`, `NewestIsKept`, `StreamsResume` |
| `jobs` | 2 instruments of 2 windows, 1 at a time, a bucket of 1, 1 retry, 2 runs | `BucketAndCheckpointsSound`, `CandlesAccounted`, `CheckpointOnlyGrows`, `TasksEnd` |

Several of these join what belongs together, each part with a name and a comment
of its own in the module: `WellFormed` is `TypeOK`, `HeaderOnceAtHead` and
`TearsNeedRestarts`; `CleanStop` is `CleanStopDrained` and `CapturesAreOnDisk`;
`NothingLost` is `TypeOK` and `EveryFrameHeld`; `RemovalIsSafe` is
`RawRemovedOnlyWhenArchived` and `ArchiveNeverShrinks`; `SecondsAccounted` is
`EverySecondAccounted` and `OnTheSecondUntilStall`; `CaptureApartFromSweep` is `TypeOK`,
`SweepOnlyWhenQuiet`, `SweptDayIsOver` and `CapturesAlone`; `SocketsAccounted` is `TypeOK`,
`ConfirmedBySubscription` and `NoSocketForgotten`; `RecoverySettles` is
`RecoveryConcludes` and `ExhaustionEscalates`; `ReconnectBudgetKept` is `HealthTypeOK` and
`ReconnectsBounded`; `OutageEscalates` is `DeadFeedEscalates` and
`FlickeringFeedEscalates`.

### The bounds, and why they are enough

- *Writers*: two files are the least with which one can fail while the other has
  the second; two seconds let one be queued behind the other. A tear needs a
  process that dies and one that appends behind it, and a third process opens the torn
  file. One forged frame already makes the restored count wrong.
- *Archive*: three frames make an archive shorter than, as long as and longer
  than a raw file that was begun again; three troubles are a swallowed error, a failure
  or kill and a power loss in any order; two files show that one file's failure does not hold up
  the other's sweep.
- *Grid*: two units to the second make a wake-up on, and off, the second; the
  clock runs past `MaxCatchup` twice over; the window opens after the first second
  and closes before the last; `StaleAfter` is three units, so that the limit falls
  between two seconds; three processes restore counters that were restored.
- *Lifecycle*: a holiday between two trading days puts the day's rollover on either
  side of one; four troubles are a timed-out stop, a lease, a crash and a kill.
- *Bridge*: the first ticker and three ladders of two; three troubles are a recovery, a drop
  of the socket it brought and the failure of that socket's second subscription.
- *Feed health*: a cash leg and a derivatives leg in one artifact and an artifact
  without legs, as in the program; the deadline (4) is beyond the confirmation (3),
  which leaves room for flickers, and beyond what the reconnect budget (2) lasts for;
  the hour (5) outlasts a spell.
- *Session*: three tokens are the one a capture holds, the one that replaces it and
  one that another process writes meanwhile; two days bring a token and a rate of the
  day before. No login begins that no token is left for (`MayIssue`), as it could only
  end without one, and `tried` keeps the current date, the only one asked about.
- *Bus*: two captures have their publishers side by side; a queue of one and a pipe of
  two overflow with two batches of up to two messages, and a loss can lie at the
  head, in the middle and at the end of what a subscriber hears; a token map makes
  items of two kinds.
- *Display*: one message of a frame goes to a client before the other's; two faults are
  a stall that gets a client pruned and a lost connection, a failed publish, an attempt to
  connect that raises or a page left and come back to, in either order. A single page with
  five faults gave the same results.
- *Historical jobs*: two instruments share the semaphore, the bucket and a failing
  run; two windows make a contract half done; the second run resumes or overlaps.

Every bound is a constant whose name begins with `Max`; `FeedHealth` needs none.
`MaxRetries`, `MaxConcurrency`, `MaxAttempts`, `MaxCatchup` and `MaxChunks` are the code's
own limits. `BrokerSession`, `MarketDataBus`, `Display` and `HistoricalJobs` do stop where
their bounds are used up, so that their runs do not look for deadlock; in the others
a state without a step is an error.

### Fairness

- `BinWriters`: each writer thread (threads are scheduled, and a disk call returns
  or raises) and the engine's own steps, which only the joins block. `StopEvent`
  and the crash are not fair: nobody has to stop capture.
- `EodArchive`: the close comes, capture is stopped after it, and there is a later
  sweep (the automation runs one every trading day); a sweep under way goes on. Each
  trouble is bounded, as a machine that fails for ever sweeps nothing.
- `CaptureLifecycle`: the automation's poll loop, the dispatch of an action, and a
  stop, which ends by itself or by `STOP_TIMEOUT_S`; the process is started again
  (`restart: unless-stopped`). Time itself is not fair: a property about the end
  of a day is conditional on the evening lasting.
- `TickerBridge`: the loop runs what is posted, and every wait in the ladder and in
  `_await_live_feed` has a timeout. Nothing is assumed of the network.
- `FeedHealth`: time passes, the grid makes its passes, and a process that ended is
  started again. The feed owes nothing, and neither does the session's progress.
- `BrokerSession`: the automation asks for a session and starts capture again and
  again, and is not kept from the lock for ever; a fetch of an acceptable token does not fail
  every time; each step under the lock ends. Logins, `md-login`, the broker's offers and Kite's
  revocations owe nothing; `SessionRestored` is conditional on the broker offering an
  accepted token from some time on, and on kills and failing writes coming to an end.
- `MarketDataBus`: the event loop, each worker thread (in a process that is alive) and
  the service's poll loop keep running. Losses and refusals are bounded.
- `Display`: the grid ticks, tasks are scheduled, a send ends within its timeout,
  timers go off, and a stalled connection either recovers or is found dead by the
  server's pings.
- `HistoricalJobs`: the event loop runs what is ready, every request has an answer, at
  the latest the client's timeout, and time passes.

`CaptureGrid` is checked for safety only.

### Where the code and what is said of it differ

Two differences have a run, as they lose data or a session:

1. `eod_resumed`: the refusal in `compress_file` compares sizes only; a second
   capture of a date that is as long as the first replaces its archive
   (`compress.py:77`).
2. `session_lost`: `refresh_broker_session` removes the stored session before the new
   one is resolved, validated and written, any of which may raise
   (`session_service.py:197`); its documentation says a failed refresh leaves the
   session untouched. `SessionRestored` still holds: the automation gets another.

The following were seen to be violated on small instances; the property is kept in its
module under the name given, and no run checks it:

3. `OnlyInFlightFrameAtRisk` (`BinWriters`): a file with a torn tail is re-opened for
   appending without truncation, so that seconds fsynced after the restart are not
   recovered by a reader (`bin_codec/writer.py:283`; the module doc and
   `failure-modes.md:36` say that at most the in-flight frame is at risk). One such
   tear is enough for the rest of the file: behind it a reader may find any number of
   frames nobody appended, skip those that are there, stop, or raise. What holds is that
   only a restart tears a file (`TearsNeedRestarts`), and that nothing in front of the
   tear is touched (`ImplementsLog`).
4. `HoleNotOverstated` (`CaptureGrid`): stale seconds before a restart are in the restored
   counter and in the downtime (`engine.py:668`).
5. `FailedProcessExits` (`CaptureLifecycle`): a stop that times out marks capture as
   failed without ending the process (`api/capture.py:219`), while the comments say a
   failed capture takes the process down.
6. `ConfirmedIsCurrent` (`TickerBridge`): a confirmation posted by a ticker that has been
   torn down satisfies the wait for its successor (`ticker.py:229`).
7. `OnlyFeedWideRestarts` (`FeedHealth`): `_is_whole_feed_stale` compares the number of stale
   artifacts and legs with the number of artifacts (`engine.py:575`). One stale artifact
   and a stale leg of another restart the process; conversely, a feed whose packets
   arrive while every artifact and leg is stale has too many stale names to count
   as feed-wide.

Others are visible in the definitions, and no property is needed to see them:

8. What a full publisher queue or a full PUSH socket sheds has no number yet, so that the
   bus cannot see it; `market_data_bus/README.md:108` speaks of gaps on the PUSH hop
   (`Offer`, `WorkerRefused`). `queue_dropped` counts the first in the publisher only.
9. Nothing calls `BusPublisher.close`: in one process, the worker and the socket of an
   earlier capture stay, and messages of two epochs reach the service by turns
   (`NextRun`); `_track_producer` then forgets the last number each time.
10. `wsTopicConnection.ts` says a silent topic is reopened once per silence; the
    greeting the endpoint sends on connecting arms the watchdog again, so it is reopened
    every 12 seconds (`Greeting`). Without that, a page pruned a second time would stay
    without a stream: `StreamsResume` depends on it.
11. An `onclose` that is late by one connection clears the mark of an intentional close
    or schedules a second `connect`, which finds a socket and does nothing (`StaleClose`).
12. A run of a historical job that fails, or a process that dies, loses the candles of
    windows its checkpoints list as completed (`jobs.py:182`, described in
    `historical-data.md:92`); tasks left over from it may overwrite the checkpoints of
    the next run (`CheckpointOnlyGrows`). Nothing in the application constructs a job.
13. A session stored without a rate, by `md-login` or by the service when none is to be had,
    is never completed: acquisition takes it for active, and capture does not start on it
    (`AcquireStart`, `CaptureReady`; `SessionRestored` leaves such a session out).
14. `acquire_maintenance` writes the lease before it stops capture; when the stop fails
    the caller never learns the lease's id, and it lasts until it expires
    (`StopTimesOut`).
15. `compress_file` goes on where a directory cannot be opened for the fsync
    (`compress.py:151`), and accepts an archive found in place whose name may never have been
    synced (`compress.py:64`): a power loss after the unlink can then take the archive back,
    and with it the date (`DirectoryNotOpened`, `CheckExisting`). It also goes on where an
    existing archive cannot be read (`compress.py:62`, `:75`) and replaces it without the
    refusal its comment is about, so that a passing read error costs a longer archive
    (`CheckUnreadable`).
16. `run` ends with "Drain + durably persist everything queued before returning (no loss)"
    (`engine.py:1205`). A token rejected while it does so, in a stop or after an exception,
    makes `run_capture` cancel it (`bootstrap.py:557`); the thread that stops the writers goes
    on alone, and `_handle_authentication_failure` records no failure (`api/capture.py:299`).
    The stop then succeeds, and a sweep, a maintenance or another capture may begin while the
    writers drain (`TaskLosesSession`).
17. A socket with nothing subscribed on it "would sit open and silent forever", says
    `_on_connect`, which asks for a recovery (`ticker.py:208`). The request is dropped while a
    ladder runs (`ticker.py:364`), also when that ladder has been handed its confirmation, of an
    earlier subscription of the same socket, and is about to end: then only the stale feed
    brings the next replacement (`RunRecover`).
18. `live-data-pipeline.md:316` says that after `CAPTURE_STALE_EXIT_MAX_RESTARTS` (3)
    escalations of a date the process "stays up and reports `recovery_abandoned`", and
    `:311` that escalation is disarmed for 300 s after the open. In the code the budget only
    decides when to log at CRITICAL (`engine.py:1080`, `config.py:247`), nothing ever sets
    `recovery_abandoned`, and a feed that has delivered in the session arms recovery before
    the delay is over (`engine.py:917`). `OutageEscalates` states what the code does.

19. `invalidate_session` is documented to quarantine "today's exact token"
    (`session.py:139`). It reads and compares the file and then renames it
    (`session.py:149`, `:159`), so a session `md-login` writes in between is taken away
    (`Matches`, `Retire`). In the same way a login or an acquisition that found no session
    overwrites one `md-login` has stored since (`session_service.py:402`,
    `login_flow.py:278`), and with the rate it looked up before (`:276`) an older one can
    take the place of a newer (`ResolveRate`, `SessionWritten`).
20. When `new WebSocket` or the address raises, `connect` reports the page as not connected and
    sets no timer (`wsTopicConnection.ts:227`): unlike after a close, nothing tries again until
    the page is left and come back to, or a late `onclose` sets a timer (`ConnectThrows`).

Properties are stated around these situations, with a variable or a guard that says when one
has occurred, so that everything else is still checked in the same states: `EveryFrameHeld` and
`RemovalIsSafe` (1, 15), `AckedAreRecovered` (3), `CandlesAccounted` and `CheckpointOnlyGrows`
(12), `SessionRestored` (13), `CaptureApartFromSweep` and `MaintenanceIsQuiet` (16),
`NoSocketForgotten` and `MuteSocketReplaced` (6, 17, and a ladder begun after `stop`),
`SessionLossExplained`, `SessionNotOverwritten` and `RateSurvives` (19), `PageAndServerAgree` and
`StreamsResume` (20).

## 4. The proofs

Each `_proofs` module states an inductive invariant `IInv`, one lemma per action or
group of actions that keeps it, and the theorems that follow from it. Every `IInv` was
first checked by TLC on the instance of the module's run. `Operations_proofs` extends three
components that share no variable, `HistoricalJobs`, `FeedHealth` and `BrokerSession`, and has
an invariant for each: hence their `JobsSpec`, `HealthSpec`, `SessionSpec` and the like.

### The files

`BinWriters_proofs` proves, for any number of artifacts, seconds, starts of a process and
failing calls (`BinWritersAssumption`: there is an artifact, the bounds are natural
numbers):

- `FilesAreWellFormed` — `[]WellFormed`;
- `AcknowledgedIsRecovered` — `[]AckedAreRecovered`;
- `CleanStopLosesNothing` — `[]CleanStop`;
- `FilesImplementLog` — `ImplementsLog`, the refinement of `AppendOnlyLog`: the seconds a
  reader recovers from the durable part of each file only ever grow, at their end;
- all from `Invariance` — `[]IInv`.

A reader follows length prefixes and so walks a torn file in a way nobody wrote it. The
lemmas at the head of the module say what that walk finds in terms of cells: in a file that
no torn record was appended to, the frames are the records of two cells each behind the
header; in any file the walk agrees, up to the first record that is not genuine, with the
one over the undamaged beginning. `TearInv` counts: a file has fewer tears than processes were
started, and while a thread may still append, that is so with the record cut short at the
end of its file counted in; a thread that sees its write fail appends nothing after it.
`IInv` joins these to the running program:

- `FileInv`: a file is records behind one header, whole or torn, and what was acknowledged lies
  whole in its durable part. `HeaderInv`: `_header_written` agrees with the file except in the
  middle of `append_frame`, whose record is then the end of the file and not durable.
- `LifeInv`, `DrainInv`, `QueueInv`: what a process appended is the beginning of what it
  accepted and the end of what was ever acknowledged; the queue and the thread's hands hold the
  rest in order and the sentinel behind it. So a thread that closed has drained its queue,
  which `CleanStop` needs and nothing in its statement says.
- `OrderInv`: what is not in a file yet is later than all that is. `CountInv`: the count taken
  at the start and what was written since add up to the frames of the file.
- `EngineInv`: `captures` counts as many seconds as the fullest file would hold with every
  accepted frame written, in the middle of a second as between two.

That a step never touches durable cells is the action `Preserved`, from which the refinement
follows: the recovered seconds of a longer file extend those of its beginning.

### The archive

`EodArchive_proofs` proves, for any set of files and any number of frames, failing steps, kills
and power losses (`EodArchiveAssumption`: the bounds are natural numbers, and `Absent` is not a
file's content):

- `FramesAreHeld` — `[]NothingLost`;
- `StepsRemoveSafely` — `RemovalIsSafe`;
- both from `Invariance` — `[]IInv`.

`StepInv` is what `compress_file` has established at each of its steps, up to the archive
being durable, or marked as not, when the raw file goes. `RawInv` and `BackedInv` are about what a power loss
may bring back: an archive whose name is not durable is backed by a raw file that begins with
all it holds. `KeptInv` says where the frames of a file are: in the raw file, or all in
a durable archive, beside which only the same raw file can reappear. The cases excluded are
those of section 3: by `resumed` the finding of `eod_resumed`, by `unsynced` and `unread`
the errors `compress_file` swallows.

### The bridge

`TickerBridge_proofs` proves, for any number of attempts, tickers and mishaps
(`TickerBridgeAssumption`):

- `SocketsAreAccounted` — `[]SocketsAccounted`, from `Invariance` — `[]IInv`.

A callback does not say which ticker it is of, so the invariant has to follow it through the
queue: `PostedSound` says that one that was posted names a ticker that exists, and a
confirmation one that subscribed. `UnbornInv`, `OffInv` and `LateInv` settle the edges: a
ticker that was not created has no thread to post anything, nothing runs before the
session begins, and a ladder found running after `stop()` was begun after it.

### The grid

`CaptureGrid_proofs` proves, for every interval, catch-up limit, schedule, stale
limit, clock range and number of restarts that satisfy `CaptureGridAssumption`:

- `TypeCorrect` — `[]TypeOK`, in particular that no counter computed from two
  timestamps is negative;
- `NoSecondSkipped` — `[]EverySecondAccounted`, `OnTheSecond` — `[]OnTheSecondUntilStall`,
  and `GridAccounted` — `[]SecondsAccounted`, both together;
- `RestartsCountOnce` — `[]CountedOnce`;
- `NothingFrozenWritten` — `[]NoFrozenFrame`;
- `TimestampsAdvance` — `FramesAdvance`;
- all from `InductiveInvariant` — `[]IInv`.

`CaptureGridAssumption` says that `Interval`, `MaxCatchup` and `StaleAfter` are
positive and the other times natural numbers, which `config.py` and the dataclass
defaults guarantee.

None of the properties is inductive. In the middle of a pass the loop has
already moved `nextTick` on, while the seconds of the pass are still to be
emitted; `Ahead` is the distance between the two, and `IInv` restates the
properties with it:

- `GridInv`: `cursor` lies a whole number of intervals before `until`, which is not
  past `nextTick`; every frame on disk is before `cursor` in a pass and before
  `nextTick` between passes; `nextTick` is at most one interval past the clock.
- `ReachInv`: the seconds begun, emitted and lost, plus `Ahead`, reach `nextTick` up to
  less than an interval per stall. Between passes `Ahead` is zero and this is
  `EverySecondAccounted`.
- `CountInv`: the reported seconds plus `Ahead`, from the day's first second on, do
  not pass `nextTick`; and what is saved is not more than what is counted, so that a
  restart, which goes back to the saved figures and to the frames on disk, counts
  nothing anew.

There is one lemma per action. Products such as `Interval * emitted` are beyond
the SMT backend when left to it, so the lemmas at the head of the module
(monotonicity, one more second, division) state the few facts about them that the
rest cites.

### The lifecycle

`CaptureLifecycle_proofs` proves, for any set of holidays and any number of days and
mishaps (`CaptureLifecycleAssumption`):

- `SweepAndCaptureApart` — `[]CaptureApartFromSweep`, and
- `GrantedMaintenanceIsQuiet` — `[]MaintenanceIsQuiet`, from
- `InductiveInvariant` — `[]IInv`.

That a sweep meets nobody rests on what happened several actions earlier, so `IInv` carries
it along. `Plans` lists the eight plans a tick can leave behind: in all of them a stop comes
before a sweep. `QuietInv` adds that writers go on without their task only after a
failure that stop() will raise or where a lost session orphaned them, that nothing is started
after a failure, and that whoever stops for the automation does so for the stop its plan begins
with; so a stop that succeeds leaves nothing writing but the orphans of item 16 of section 3. `DateInv` is about a start that waited for the lock: no sweep
of that day is done or marked as in progress before the evening, and a start in the plan
means that none has been.

### The bus

`MarketDataBus_proofs` proves, for queues and pipes of any size, any number of runs, starts of
the service, batches, chunks and faults (`ConstantsAssumption`: sizes are positive):

- `NewestNotShed` — `[]NewestTicksSurvive`;
- `TransitInOrder` — `[]OrderedInTransit`;
- `GapsCounted` — `[]GapsAreLosses`;
- all from `InductiveInvariant` — `[]IInv`.

The invariant has one part per stretch of the way, and a step disturbs one or two of them.
`TickInv` is stronger than `NewestTicksSurvive`: while batches wait the last one is the
newest, also when the newest had been applied before, since an older one still waiting would
overwrite it. `PubInv` bounds what a publisher has in transit by the number it
used last. `OutInv` puts in one order the messages behind the bus, the bus's own number
above them and the subscriber's last one below them, over all epochs.

What was counted needs a part for each hop. `HopInv`, for the bus: a pipe is numbered without
a gap up to the last number used, so what has left it beyond the last number the bus saw was
lost; and the bus's count is the size of a set of lost numbers, none ahead of what it has had
of the run it listens to. The next gap therefore adds losses that were not counted before.
`HeardInv`, for the subscriber: every number that a start of the bus used is heard, lost or in
transit. With the order of `OutInv` a message that is heard then finds everything between
it and the last one lost, and what was lost between two messages heard stays finite and as
large as `tracker.missed`. The equality cannot be had without it: a number skipped and never
sent would be counted as missed.

### The display

`Display_proofs` proves, for any clients, topics and number of faults
(`ConstantsAssumption`):

- `NewestNeverLost` — `[]NewestIsKept`;
- `PagesHoldTheirSockets` — `[]PageAndServerAgree`;
- both from `InductiveInvariant` — `[]IInv`.

`FrameInv` says that the publish task holds a frame exactly while it is publishing it, and
which of the waiting, the published and the last frame outdates which: without it a
publish that ends could put an old frame over the newest. `PageInv` adds to
`PageAndServerAgree` that a page somebody holds has not marked its close as intentional, and
that only such a page has a socket: an `onclose` that comes late relies on both.

### The jobs

`Operations_proofs` proves, for any number of contracts, windows, places in the semaphore, tokens
in the bucket, retries and runs (`JobsAssumption`):

- `BucketIsSound` — `[]BucketAndCheckpointsSound`;
- `CandlesAreAccounted` — `[]CandlesAccounted`;
- `CheckpointsGrow` — `CheckpointOnlyGrows`;
- all from `JobsInvariance` — `[]JobsInv`.

A sleeper takes its token without looking whether there is one. `BucketInv` says why there
is: whoever sleeps or has woken holds the lock, so there is one such task in all runs, the bucket
is empty while it sleeps, and the refill that wakes it is not for anybody else. `TaskInv` bounds
what a task may do: one that still makes requests has windows left, so that `done` is reached
only with all of them. `CandleInv` extends `CandlesAccounted` from checkpoints to what each
task takes for done, since that is what the task writes next, in whichever run it was fetched.
`ViewInv` says that a task alone with its checkpoint knows everything on it; the exception of
`CheckpointOnlyGrows` is where that fails.

### The feed's health

For any artifacts, legs and tokens, any horizons and any limit (`FeedHealthAssumption`):

- `ReconnectStaysInBudget` — `[]ReconnectBudgetKept`;
- `RestartsAreOwed` — `RestartIsOwed`;
- both from `HealthInvariance` — `[]HealthInv`, for `HealthSpec` and so for `FairSpec`.

The code drops an attempt from its list only when it next asks for the budget; the history
`tries` drops it as soon as it is an hour old. `BudgetInv` is what relates the two: the list is
in order, and its attempts of the last hour are exactly `tries`. That needs lemmas about `Young`: it is the
end of the list from a first index on, growing older commutes with it, and so does another
attempt at the end. `SpellInv` says that a spell has lasted no longer than frames have been
owed, unless that is for the whole deadline already, and that outside the schedule before
the session there is none; so a deadline that is reached is one that is owed.

### The session

For any number of tokens and dates (`SessionAssumption`):

- `SessionTypes` — `[]SessionTypeOK`;
- `LossesAreExplained` — `SessionLossExplained`;
- `SessionsAreKept` — `SessionNotOverwritten`;
- `RatesSurvive` — `RateSurvives`;
- all from `SessionInvariance` — `[]SessionInv`.

Each step of a holder of the lock relies on what was so when it looked, and others act in
between. `HolderInv` is what stays: an acquisition or a login found no session for today and
there is still none, what is about to be renamed is the session it was compared with, and the
rate about to be written is the day's or the newest on record, each unless `md-login` raced it;
a swap is of the token the capture still runs on, for another. `DatesInv` keeps login attempts and prompts to dates that have come, and rates no younger
than their files. `DiskStep` then says that every step, of whichever actor, does one of
four things to the files: nothing, what `md-login` does, storing a session of the service with
a rate if there is one, or taking the capture's own session away, where the last two carry the
exception of a race. The three action properties
follow from those four cases. `LatestRate` is a maximum: that a bounded set of naturals has
one is proved from the well-foundedness of `<`.

### Only model-checked

Liveness under fairness (`AcceptedFramesSettle`, `QueuesDrain` and the like) and `ENABLED`,
which the prover does not reach. What a recursive definition computes for every input: the modules
use none, and what their filters, folds and maxima yield is proved by least-element arguments.
Every invariant and every action property of a passing run is a theorem.

## 5. Plan

Done: persistence, archive, grid, lifecycle, bridge, feed health, session and logins, bus,
display, historical jobs; the proofs about all of them. Next, in this order:

1. Pure operators checked against reference definitions: the market sessions, the choice
   of segment by row axis, the selection of strikes, completeness and retention.
2. The release manager as a client of the lease.

## 6. Not modelled

- The calendar, the selection of strikes and columns, the subscription plan, completeness,
  reconciliation, statistics and retention: functions without interleaving, which unit
  tests reach well; they come after what they cannot reach (see the plan).
- The release manager's shell scripts, but for the lease they take.
- How a token or a rate is fetched over HTTP, the login's cooldown and password budget
  (they only refuse a start), the reported `auth_state`, which an exception of any kind in
  the validator sets to blocked; what the websocket page displays of its state.
- Malformed bus messages, and a half-open connection that dies before the page has
  had its first message, which nothing on the page would notice.
- Greeks, metrics and spreads (floating point), the column layouts (data), logging,
  configuration, read-only HTTP views, the monitor's formatting.
- The frontend but for its topic connections, the proxy configuration, profiling and screenshot tools.
- Two processes working on the files of one date at the same time: nothing in the
  code prevents it, and it is a deployment error.
- The directories of the archive: `mkdir(parents=True)` creates them and nothing syncs their
  own names; they are taken to last.
- Bytes and sizes: a frame is one element and an archive decompresses to a sequence
  of them; the codec and zstd are taken to be correct.
- The instant at which the operating system flushes: any prefix of what was written
  since the last fsync may survive.
