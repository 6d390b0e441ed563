---------------------------- MODULE HistoricalJobs ----------------------------
(***************************************************************************)
(* Historical download jobs: HistoricalJob.run, its checkpoints under      *)
(* _state/, HistoricalClient's retries and the TokenBucket they share.     *)
(*                                                                         *)
(* A run starts one task per contract and waits for all of them.  A task   *)
(* goes through the windows its checkpoint does not list, one at a time,   *)
(* inside the run's semaphore, and rewrites the checkpoint after each.     *)
(* The candles themselves stay in memory until the run returns them.       *)
(*                                                                         *)
(* The steps are the stretches between two awaits.  A run that fails       *)
(* leaves its other tasks at work: a later run of the same job may overlap *)
(* with them.  What the caller does with the candles is external, and      *)
(* taken to succeed at once.  Row counts, timestamps and the progress      *)
(* callback are left out.                                                  *)
(***************************************************************************)
EXTENDS Integers, FiniteSets, FiniteSetsExt

CONSTANTS Contracts,        \* the job's instrument tokens
          NWindows,         \* the windows of the job's date range
          MaxConcurrency,   \* max_concurrency
          Burst,            \* the bucket's burst
          MaxRetries,       \* MAX_RETRIES
          MaxRuns           \* bound: runs of the job

ASSUME JobsAssumption ==
    /\ {NWindows, MaxConcurrency, Burst, MaxRuns} \subseteq Nat \ {0}
    /\ MaxRetries \in Nat /\ IsFiniteSet(Contracts)

Windows == 1..NWindows
Runs    == 1..MaxRuns
None    == [status |-> "none", done |-> {}]

VARIABLES checkpoint,   \* {job}_{token}.json
          task,         \* one per run and contract
          run,          \* the newest run, and what has become of each
          cancelled,    \* _cancelled of each run's job object
          level,        \* the bucket's whole tokens
          holder,       \* the task inside the bucket's lock
          kept,         \* windows whose candles the caller has
          lost          \* history: windows fetched by a run that never returned

jobsVars == <<checkpoint, task, run, cancelled, level, holder, kept, lost>>

\* done: the task's own view of its checkpoint.  got: the windows collected.
NoTask == [at |-> "off", done |-> {}, got |-> {}, attempt |-> 0]
Nobody == <<0>>

Statuses == {"none", "running", "done", "cancelled"}
InSemaphore == {"bucket", "asleep", "awake", "http", "backoff"}
Over == {"done", "cancelled", "raised"}

JobsTypeOK ==
    /\ checkpoint \in [Contracts -> [status: Statuses, done: SUBSET Windows]]
    /\ task \in [Runs -> [Contracts ->
          [at: {"off", "new", "semaphore"} \cup InSemaphore \cup Over,
           done: SUBSET Windows, got: SUBSET Windows, attempt: 0..MaxRetries]]]
    /\ run \in [Runs -> {"none", "running", "returned", "failed", "killed"}]
    /\ cancelled \in [Runs -> BOOLEAN]
    /\ level \in Int /\ level <= Burst
    /\ holder \in {Nobody} \cup (Runs \X Contracts)
    /\ kept \subseteq Contracts \X Windows /\ lost \subseteq Contracts \X Windows

JobsInit ==
    /\ checkpoint = [c \in Contracts |-> None]
    /\ task = [r \in Runs |-> [c \in Contracts |-> NoTask]]
    /\ run = [r \in Runs |-> "none"]
    /\ cancelled = [r \in Runs |-> FALSE]
    /\ level = Burst /\ holder = Nobody
    /\ kept = {} /\ lost = {}

-----------------------------------------------------------------------------
(* The run *)

Collected(r) == {m \in Contracts \X Windows: m[2] \in task[r][m[1]].got}

\* run(): one task per contract; only one caller runs the job at a time.
StartRun(r) ==
    /\ run[r] = "none"
    /\ \A q \in Runs: run[q] # "running" /\ (q < r => run[q] # "none")
    /\ run' = [run EXCEPT ![r] = "running"]
    /\ task' = [task EXCEPT ![r] = [c \in Contracts |-> [NoTask EXCEPT !.at = "new"]]]
    /\ UNCHANGED <<checkpoint, cancelled, level, holder, kept, lost>>

Cancel(r) ==
    /\ run[r] = "running" /\ ~cancelled[r]
    /\ cancelled' = [cancelled EXCEPT ![r] = TRUE]
    /\ UNCHANGED <<checkpoint, task, run, level, holder, kept, lost>>

\* gather has every result.
Returns(r) ==
    /\ run[r] = "running"
    /\ \A c \in Contracts: task[r][c].at \in {"done", "cancelled"}
    /\ run' = [run EXCEPT ![r] = "returned"]
    /\ kept' = kept \cup Collected(r)
    /\ UNCHANGED <<checkpoint, task, cancelled, level, holder, lost>>

\* gather passes the first exception on; the other tasks go on.
Fails(r) ==
    /\ run[r] = "running"
    /\ \E c \in Contracts: task[r][c].at = "raised"
    /\ run' = [run EXCEPT ![r] = "failed"]
    /\ lost' = lost \cup Collected(r)
    /\ UNCHANGED <<checkpoint, task, cancelled, level, holder, kept>>

\* The process dies: the checkpoints are all that is left.
Crash ==
    /\ \E r \in Runs, c \in Contracts: task[r][c].at \notin Over \cup {"off"}
    /\ run' = [r \in Runs |-> IF run[r] = "running" THEN "killed" ELSE run[r]]
    /\ lost' = lost \cup UNION {Collected(r): r \in {q \in Runs: run[q] = "running"}}
    /\ task' = [r \in Runs |-> [c \in Contracts |-> NoTask]]
    /\ level' = Burst /\ holder' = Nobody
    /\ UNCHANGED <<checkpoint, cancelled, kept>>

-----------------------------------------------------------------------------
(* do_token *)

\* A plausible slip: a cancelled task returns without its results.
ProceedEmptyHanded(r, c, done, got, more) ==
    LET stop == more /\ cancelled[r]
        to   == IF stop THEN "cancelled"
                ELSE IF Windows \subseteq done THEN "done" ELSE "semaphore"
    IN  /\ task' = [task EXCEPT ![r][c] = [at |-> to, done |-> done,
                      got |-> IF stop THEN {} ELSE got, attempt |-> 0]]
        /\ checkpoint' = [checkpoint EXCEPT ![c] =
                      [status |-> IF to = "semaphore" THEN "running" ELSE to,
                       done |-> done]]

\* From the bottom of one loop iteration to the next await: cancelled while
\* iterations are left, through with the windows, or on to the next one.
Proceed(r, c, done, got, more) ==
    LET to == IF more /\ cancelled[r] THEN "cancelled"
              ELSE IF Windows \subseteq done THEN "done" ELSE "semaphore"
    IN  /\ task' = [task EXCEPT ![r][c] =
                      [at |-> to, done |-> done, got |-> got, attempt |-> 0]]
        /\ checkpoint' = [checkpoint EXCEPT ![c] =
                      [status |-> IF to = "semaphore" THEN "running" ELSE to,
                       done |-> done]]

\* A plausible slip: the stored checkpoint is not loaded.
BeginAfresh(r, c) ==
    /\ task[r][c].at = "new"
    /\ Proceed(r, c, {}, {}, TRUE)
    /\ UNCHANGED <<run, cancelled, level, holder, kept, lost>>

\* load_checkpoint, or a new one.
Begin(r, c) ==
    /\ task[r][c].at = "new"
    /\ Proceed(r, c, checkpoint[c].done, {}, TRUE)
    /\ UNCHANGED <<run, cancelled, level, holder, kept, lost>>

Move(r, c, to) == task' = [task EXCEPT ![r][c].at = to]

EnterSemaphore(r, c) ==
    /\ task[r][c].at = "semaphore"
    /\ Cardinality({d \in Contracts: task[r][d].at \in InSemaphore}) < MaxConcurrency
    /\ Move(r, c, "bucket")
    /\ UNCHANGED <<checkpoint, run, cancelled, level, holder, kept, lost>>

\* The window at hand: the first one the task has not completed.
Current(r, c) == Min(Windows \ task[r][c].done)

\* The response is parsed, collected and checkpointed.
Fetched(r, c) ==
    /\ task[r][c].at = "http"
    /\ LET w == Current(r, c)
           t == task[r][c]
       IN  /\ Proceed(r, c, t.done \cup {w}, t.got \cup {w}, w < NWindows)
           /\ lost' = IF run[r] = "running" THEN lost ELSE lost \cup {<<c, w>>}
    /\ UNCHANGED <<run, cancelled, level, holder, kept>>

-----------------------------------------------------------------------------
(* HistoricalClient.fetch_window *)

\* A plausible slip: the attempts are not counted.
BackOffForever(r, c) ==
    /\ task[r][c].at = "http"
    /\ Move(r, c, "backoff")
    /\ UNCHANGED <<checkpoint, run, cancelled, level, holder, kept, lost>>

\* 429 or 5xx, and attempts are left.
BackOff(r, c) ==
    /\ task[r][c].at = "http" /\ task[r][c].attempt < MaxRetries
    /\ task' = [task EXCEPT ![r][c].at = "backoff", ![r][c].attempt = @ + 1]
    /\ UNCHANGED <<checkpoint, run, cancelled, level, holder, kept, lost>>

Retry(r, c) ==
    /\ task[r][c].at = "backoff"
    /\ Move(r, c, "bucket")
    /\ UNCHANGED <<checkpoint, run, cancelled, level, holder, kept, lost>>

\* No attempts left, an error that is not retried, candles that do not parse,
\* or a checkpoint that cannot be written.
Raises(r, c) ==
    /\ task[r][c].at = "http"
    /\ Move(r, c, "raised")
    /\ UNCHANGED <<checkpoint, run, cancelled, level, holder, kept, lost>>

-----------------------------------------------------------------------------
(* TokenBucket: the lock is kept while its holder waits for a token *)

\* A plausible slip: the lock is not kept through the sleep.
AcquireUnlocked(r, c) ==
    /\ task[r][c].at = "bucket"
    /\ IF level > 0
       THEN level' = level - 1 /\ Move(r, c, "http")
       ELSE Move(r, c, "asleep") /\ UNCHANGED level
    /\ UNCHANGED <<checkpoint, run, cancelled, holder, kept, lost>>

\* acquire(): a token is there, or the holder sleeps until there must be one.
Acquire(r, c) ==
    /\ task[r][c].at = "bucket" /\ holder = Nobody
    /\ IF level > 0
       THEN /\ level' = level - 1
            /\ Move(r, c, "http")
            /\ UNCHANGED holder
       ELSE /\ holder' = <<r, c>>
            /\ Move(r, c, "asleep")
            /\ UNCHANGED level
    /\ UNCHANGED <<checkpoint, run, cancelled, kept, lost>>

\* Time passes: a token more, never above the burst, and the sleep is over.
Refill ==
    /\ level < Burst
    /\ level' = level + 1
    /\ task' = [r \in Runs |-> [c \in Contracts |->
                  IF task[r][c].at = "asleep" THEN [task[r][c] EXCEPT !.at = "awake"]
                  ELSE task[r][c]]]
    /\ UNCHANGED <<checkpoint, run, cancelled, holder, kept, lost>>

\* The sleeper takes the token without looking.
TakeAwaited(r, c) ==
    /\ task[r][c].at = "awake"
    /\ level' = level - 1
    /\ holder' = Nobody
    /\ Move(r, c, "http")
    /\ UNCHANGED <<checkpoint, run, cancelled, kept, lost>>

\* What the event loop has ready, or gets from the network.
Progress ==
    \/ \E r \in Runs: Returns(r) \/ Fails(r)
    \/ \E r \in Runs, c \in Contracts:
          \/ Begin(r, c) \/ EnterSemaphore(r, c) \/ Fetched(r, c)
          \/ BackOff(r, c) \/ Retry(r, c) \/ Raises(r, c)
          \/ Acquire(r, c) \/ TakeAwaited(r, c)

JobsNext == Progress \/ Refill \/ Crash \/ \E r \in Runs: StartRun(r) \/ Cancel(r)

\* The event loop keeps running what is ready, every request has an answer
\* (the client's timeout at the latest), and time passes.
JobsSpec == JobsInit /\ [][JobsNext]_jobsVars /\ WF_jobsVars(Progress) /\ WF_jobsVars(Refill)

-----------------------------------------------------------------------------
(* Properties *)

\* The variables stay in their types; the requests of all tasks together never
\* take more from the bucket than it holds; and a contract reported as done has
\* every window on its checkpoint, whoever else has been writing it.
BucketAndCheckpointsSound ==
    /\ JobsTypeOK
    /\ level >= 0
    /\ \A c \in Contracts: checkpoint[c].status = "done" => checkpoint[c].done = Windows

\* A window that a checkpoint lists is never fetched again, so its candles are
\* with the caller, still in a run that can hand them over (cancelled or not),
\* or were in a run that failed or was killed: nothing else loses them.
CandlesAccounted ==
    \A c \in Contracts: \A w \in checkpoint[c].done:
        <<c, w>> \in kept \cup lost \cup UNION {Collected(r): r \in {q \in Runs: run[q] = "running"}}

\* What a checkpoint lists stays listed across cancellations, failures, crashes
\* and resumptions; only a task left over from a failed run may still overwrite
\* what a later run of the same contract has written, or the other way round.
CheckpointOnlyGrows ==
    [][\A c \in Contracts:
          \/ checkpoint[c].done \subseteq checkpoint'[c].done
          \/ \E q, r \in Runs: q # r /\ task[q][c].at \notin {"off", "new"}
                                     /\ task[r][c].at \notin {"off", "new"}]_jobsVars

\* Every task comes to an end, though requests fail again and again, other
\* tasks raise, and all of them wait for one semaphore and one bucket.
TasksEnd ==
    <>[](\A r \in Runs: /\ run[r] # "running"
                        /\ \A c \in Contracts: task[r][c].at \in Over \cup {"off"})

=============================================================================
