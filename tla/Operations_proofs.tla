--------------------------- MODULE Operations_proofs ---------------------------
(***************************************************************************)
(* Proofs about three components around a capture: the download jobs       *)
(* (HistoricalJobs), the health of the feed (FeedHealth) and the broker    *)
(* session (BrokerSession).  They share no variable, and each is proved    *)
(* for itself: for any number of contracts, windows, runs and retries, for *)
(* any horizons and limits, for any number of tokens and dates.            *)
(***************************************************************************)
EXTENDS HistoricalJobs, FeedHealth, BrokerSession, SequenceTheorems,
        WellFoundedInduction, TLAPS

\* A nonempty set of naturals has a least element.
LEMMA LeastElement ==
  ASSUME NEW T, T \subseteq Nat, T # {}
  PROVE  \E x \in T : \A y \in T : x <= y
<1> DEFINE Less == OpToRel(<, Nat)
<1>1. IsWellFoundedOn(Less, Nat)
  BY NatLessThanWellFounded
<1>2. \A x, y \in Nat : y < x => <<y, x>> \in Less
  BY DEF OpToRel
<1> HIDE DEF Less
<1>3. PICK x \in T : \A y \in T : ~ (<<y, x>> \in Less)
  BY <1>1, WFMin
<1>4. ASSUME NEW y \in T PROVE x <= y
  <2>1. x \in Nat /\ y \in Nat
    OBVIOUS
  <2>2. <<y, x>> \notin Less
    BY <1>3
  <2>3. ~(y < x)
    BY <1>2, <2>1, <2>2
  <2> QED
    BY <2>1, <2>3
<1>5. \A y \in T : x <= y
  BY <1>4
<1> QED
  BY <1>5

-----------------------------------------------------------------------------
(* The download jobs                                                       *)

\* What a run's task is.
TaskTypes ==
    [at: {"off", "new", "semaphore"} \cup InSemaphore \cup Over,
     done: SUBSET Windows, got: SUBSET Windows, attempt: 0..MaxRetries]

\* The tasks of a run begin with it, with nothing, and a task that still has requests to make has
\* windows left.
TaskInv ==
    \A r \in Runs, c \in Contracts:
        /\ run[r] = "none" => task[r][c].at = "off"
        /\ task[r][c].at = "new" => task[r][c].got = {}
        /\ task[r][c].at \in {"semaphore"} \cup InSemaphore => task[r][c].done # Windows

\* The lock is kept while its holder waits: nobody else waits for a token, there is
\* none while it sleeps, and the one it awaited is there when it wakes.
BucketInv ==
    /\ level \in 0..Burst
    /\ \A r \in Runs, c \in Contracts:
          /\ task[r][c].at \in {"asleep", "awake"} => holder = <<r, c>>
          /\ task[r][c].at = "asleep" => level = 0
          /\ task[r][c].at = "awake" => level > 0

StatusInv == \A c \in Contracts: checkpoint[c].status = "done" => checkpoint[c].done = Windows

Accounted(c, w) ==
    \/ <<c, w>> \in kept \cup lost
    \/ \E r \in Runs: run[r] = "running" /\ w \in task[r][c].got

\* What some task takes for done is accounted for, too: it may be what that task
\* writes next, whoever fetched it.
CandleInv ==
    \A c \in Contracts: /\ \A w \in checkpoint[c].done: Accounted(c, w)
                        /\ \A r \in Runs: \A w \in task[r][c].done: Accounted(c, w)

Begun(r, c) == task[r][c].at \notin {"off", "new"}

\* A task that is alone with its checkpoint knows everything that is on it.
ViewInv ==
    \A r \in Runs, c \in Contracts: Begun(r, c) =>
        \/ checkpoint[c].done \subseteq task[r][c].done
        \/ \E q \in Runs: q # r /\ Begun(q, c)

JobsInv == JobsTypeOK /\ TaskInv /\ BucketInv /\ StatusInv /\ CandleInv /\ ViewInv


(* What the steps do to the tasks. *)

\* All tasks but this one stay as they are.
OthersStay(r, c) ==
    \A q \in Runs, d \in Contracts: q # r \/ d # c => task'[q][d] = task[q][d]

\* One task becomes t.
Becomes(r, c, t) == task' = [task EXCEPT ![r][c] = t]

\* A change of one task leaves the types and the other tasks.
LEMMA OneTask ==
  ASSUME JobsTypeOK, NEW r \in Runs, NEW c \in Contracts, NEW t \in TaskTypes, Becomes(r, c, t)
  PROVE  /\ task' \in [Runs -> [Contracts -> TaskTypes]]
         /\ task'[r][c] = t /\ OthersStay(r, c)
<1>1. task \in [Runs -> [Contracts -> TaskTypes]]
  BY DEF JobsTypeOK, TaskTypes
<1>2. task[r] \in [Contracts -> TaskTypes]
  BY <1>1
<1>3. task' = [task EXCEPT ![r] = [task[r] EXCEPT ![c] = t]]
  BY DEF Becomes
<1>4. [task[r] EXCEPT ![c] = t] \in [Contracts -> TaskTypes]
  BY <1>2
<1> QED
  BY <1>1, <1>2, <1>3, <1>4 DEF OthersStay

\* Every task has its type.
LEMMA TaskTyped ==
  ASSUME JobsTypeOK, NEW r \in Runs, NEW c \in Contracts
  PROVE  task[r][c] \in TaskTypes
  BY DEF JobsTypeOK, TaskTypes

\* Move changes where one task is, and nothing else of it.
LEMMA Moves ==
  ASSUME JobsTypeOK, NEW r \in Runs, NEW c \in Contracts,
         NEW to \in {"off", "new", "semaphore"} \cup InSemaphore \cup Over, Move(r, c, to)
  PROVE  /\ task' \in [Runs -> [Contracts -> TaskTypes]]
         /\ OthersStay(r, c) /\ task'[r][c].at = to
         /\ task'[r][c].done = task[r][c].done /\ task'[r][c].got = task[r][c].got
<1> DEFINE t == [task[r][c] EXCEPT !.at = to]
<1>1. task[r][c] \in TaskTypes
  BY TaskTyped
<1>2. t \in TaskTypes /\ t.at = to /\ t.done = task[r][c].done /\ t.got = task[r][c].got
  BY <1>1 DEF TaskTypes
<1>3. Becomes(r, c, t)
  BY DEF Move, Becomes
<1> HIDE DEF t
<1>4. /\ task' \in [Runs -> [Contracts -> TaskTypes]]
      /\ task'[r][c] = t /\ OthersStay(r, c)
  BY <1>2, <1>3, OneTask
<1> QED
  BY <1>2, <1>4

\* Where an iteration ends, whether or not another one would have followed.
Ends(r, c, done, got) ==
    \E to \in {"cancelled", "done", "semaphore"}:
        /\ (to = "done" => Windows \subseteq done) /\ (to = "semaphore" => ~(Windows \subseteq done))
        /\ Becomes(r, c, [at |-> to, done |-> done, got |-> got, attempt |-> 0])
        /\ checkpoint' = [checkpoint EXCEPT ![c] =
              [status |-> IF to = "semaphore" THEN "running" ELSE to, done |-> done]]

\* The end of an iteration of _download_contract: the checkpoint is saved with what the
\* task knows, and the task goes on to the semaphore only with windows left to fetch.
LEMMA Proceeds ==
  ASSUME JobsTypeOK, NEW r \in Runs, NEW c \in Contracts, NEW done \in SUBSET Windows,
         NEW got \in SUBSET Windows, Ends(r, c, done, got)
  PROVE  /\ task' \in [Runs -> [Contracts -> TaskTypes]] /\ OthersStay(r, c)
         /\ task'[r][c].done = done /\ task'[r][c].got = got
         /\ task'[r][c].at \in {"semaphore"} \cup Over
         /\ task'[r][c].at = "semaphore" => done # Windows
         /\ checkpoint' \in [Contracts -> [status: Statuses, done: SUBSET Windows]]
         /\ checkpoint'[c].done = done
         /\ checkpoint'[c].status = "done" => done = Windows
         /\ \A d \in Contracts: d # c => checkpoint'[d] = checkpoint[d]
<1>2. PICK to \in {"cancelled", "done", "semaphore"}:
        /\ (to = "done" => Windows \subseteq done) /\ (to = "semaphore" => ~(Windows \subseteq done))
        /\ Becomes(r, c, [at |-> to, done |-> done, got |-> got, attempt |-> 0])
        /\ checkpoint' = [checkpoint EXCEPT ![c] =
              [status |-> IF to = "semaphore" THEN "running" ELSE to, done |-> done]]
  BY DEF Ends
<1> DEFINE t == [at |-> to, done |-> done, got |-> got, attempt |-> 0]
           p == [status |-> IF to = "semaphore" THEN "running" ELSE to, done |-> done]
<1>1. Becomes(r, c, t) /\ checkpoint' = [checkpoint EXCEPT ![c] = p]
  BY <1>2
<1>3. (to = "done" => done = Windows) /\ (to = "semaphore" => done # Windows)
  BY <1>2
<1>4. t \in TaskTypes
  BY JobsAssumption DEF TaskTypes, Over, JobsAssumption
<1>5. p \in [status: Statuses, done: SUBSET Windows]
  BY DEF Statuses
<1>6. t.done = done /\ t.got = got /\ t.at = to /\ p.done = done
      /\ (p.status = "done" => to = "done")
  OBVIOUS
<1> HIDE DEF t, p
<1>7. /\ task' \in [Runs -> [Contracts -> TaskTypes]]
      /\ task'[r][c] = t /\ OthersStay(r, c)
  BY <1>1, <1>4, OneTask
<1>8. /\ checkpoint' \in [Contracts -> [status: Statuses, done: SUBSET Windows]]
      /\ checkpoint'[c] = p
      /\ \A d \in Contracts: d # c => checkpoint'[d] = checkpoint[d]
  BY <1>1, <1>5 DEF JobsTypeOK
<1> QED
  BY <1>3, <1>6, <1>7, <1>8 DEF Over

\* The window a task is at is one that it has not completed.
LEMMA CurrentIsOpen ==
  ASSUME JobsTypeOK, NEW r \in Runs, NEW c \in Contracts,
         task[r][c].done # Windows
  PROVE  Current(r, c) \in Windows
<1> DEFINE open == Windows \ task[r][c].done
<1>1. open \subseteq Nat /\ open # {}
  <2>1. task[r][c].done \subseteq Windows
    BY TaskTyped DEF TaskTypes
  <2>2. Windows \subseteq Nat
    BY JobsAssumption DEF Windows, JobsAssumption
  <2> QED
    BY <2>1, <2>2
<1>2. \E w \in open: \A v \in open: w <= v
  BY <1>1, LeastElement
<1> QED
  BY <1>2 DEF Current, Min


(* What keeps each part of the invariant. *)

\* A step of a task that has begun or begins, in a run that goes on as it was.
TaskStep(r, c) ==
    /\ task' \in [Runs -> [Contracts -> TaskTypes]] /\ OthersStay(r, c)
    /\ task[r][c].at # "off" /\ Begun(r, c)'
    /\ task'[r][c].at \in {"semaphore"} \cup InSemaphore => task'[r][c].done # Windows
    /\ UNCHANGED <<run, cancelled>>

\* A step of one task keeps TaskInv.
LEMMA TaskKept ==
  ASSUME TaskInv, NEW r \in Runs, NEW c \in Contracts, TaskStep(r, c)
  PROVE  TaskInv'
<1> SUFFICES ASSUME NEW q \in Runs, NEW d \in Contracts
             PROVE  (/\ run[q] = "none" => task[q][d].at = "off"
                     /\ task[q][d].at = "new" => task[q][d].got = {}
                     /\ task[q][d].at \in {"semaphore"} \cup InSemaphore => task[q][d].done # Windows)'
  BY DEF TaskInv
<1>1. CASE q = r /\ d = c
  BY <1>1 DEF TaskInv, TaskStep, Begun
<1>2. CASE q # r \/ d # c
  <2>1. task'[q][d] = task[q][d] /\ run' = run
    BY <1>2 DEF TaskStep, OthersStay
  <2> QED
    BY <2>1 DEF TaskInv
<1> QED
  BY <1>1, <1>2

\* A task that does not wait for a token leaves the bucket alone.
LEMMA BucketKept ==
  ASSUME BucketInv, NEW r \in Runs, NEW c \in Contracts, TaskStep(r, c),
         task'[r][c].at \notin {"asleep", "awake"}, UNCHANGED <<level, holder>>
  PROVE  BucketInv'
<1> SUFFICES ASSUME NEW q \in Runs, NEW d \in Contracts
             PROVE  (/\ task[q][d].at \in {"asleep", "awake"} => holder = <<q, d>>
                     /\ task[q][d].at = "asleep" => level = 0
                     /\ task[q][d].at = "awake" => level > 0)'
  BY DEF BucketInv
<1>1. CASE q = r /\ d = c
  BY <1>1
<1>2. CASE q # r \/ d # c
  <2>1. task'[q][d] = task[q][d]
    BY <1>2 DEF TaskStep, OthersStay
  <2> QED
    BY <2>1 DEF BucketInv
<1> QED
  BY <1>1, <1>2

\* What was accounted for stays so while a task keeps what it has got.
LEMMA AccountKept ==
  ASSUME NEW r \in Runs, NEW c \in Contracts, OthersStay(r, c), run' = run,
         kept \subseteq kept', lost \subseteq lost',
         run[r] = "running" => task[r][c].got \subseteq task'[r][c].got,
         NEW d \in Contracts, NEW w \in Windows, Accounted(d, w)
  PROVE  Accounted(d, w)'
<1>1. CASE <<d, w>> \in kept \cup lost
  BY <1>1 DEF Accounted
<1>2. ASSUME NEW q \in Runs, run[q] = "running", w \in task[q][d].got
      PROVE  Accounted(d, w)'
  <2>1. w \in task'[q][d].got
    BY <1>2 DEF OthersStay
  <2> QED
    BY <1>2, <2>1 DEF Accounted
<1> QED
  BY <1>1, <1>2 DEF Accounted

\* Steps that leave the checkpoints and what the tasks know of them.
LEMMA ViewKept ==
  ASSUME ViewInv, NEW r \in Runs, NEW c \in Contracts, TaskStep(r, c), Begun(r, c),
         checkpoint' = checkpoint, task'[r][c].done = task[r][c].done
  PROVE  ViewInv'
<1>1. \A q \in Runs, d \in Contracts:
         (Begun(q, d) <=> Begun(q, d)') /\ task'[q][d].done = task[q][d].done
  BY DEF TaskStep, OthersStay, Begun
<1> QED
  BY <1>1 DEF ViewInv, Begun

\* A task that gets to the end of an iteration has the whole checkpoint, or is not
\* alone with it.
LEMMA ViewWritten ==
  ASSUME ViewInv, NEW r \in Runs, NEW c \in Contracts, TaskStep(r, c),
         checkpoint'[c].done = task'[r][c].done,
         \A d \in Contracts: d # c => checkpoint'[d] = checkpoint[d]
  PROVE  ViewInv'
<1> SUFFICES ASSUME NEW q \in Runs, NEW d \in Contracts, Begun(q, d)'
             PROVE  \/ checkpoint'[d].done \subseteq task'[q][d].done
                    \/ \E p \in Runs: p # q /\ Begun(p, d)'
  BY DEF ViewInv
<1>1. CASE q = r /\ d = c
  BY <1>1
<1>2. CASE q # r /\ d = c
  BY <1>2 DEF TaskStep
<1>3. CASE d # c
  <2>1. checkpoint'[d] = checkpoint[d]
        /\ \A p \in Runs: task'[p][d] = task[p][d] /\ (Begun(p, d) <=> Begun(p, d)')
    BY <1>3 DEF TaskStep, OthersStay, Begun
  <2> QED
    BY <2>1 DEF ViewInv
<1> QED
  BY <1>1, <1>2, <1>3


(* The invariant holds initially and is kept by every step. *)

\* No run has begun, nothing is fetched and the bucket is full.
LEMMA InitJobsInv == ASSUME JobsInit PROVE JobsInv
<1>1. \A r \in Runs, c \in Contracts: task[r][c] = NoTask
  BY DEF JobsInit
<1>2. NoTask \in TaskTypes /\ NoTask.at = "off" /\ NoTask.done = {} /\ NoTask.got = {}
  BY JobsAssumption DEF NoTask, TaskTypes, JobsAssumption
<1>3. JobsTypeOK
  <2>1. None \in [status: Statuses, done: SUBSET Windows]
    BY DEF None, Statuses
  <2>2. task \in [Runs -> [Contracts -> TaskTypes]]
    BY <1>2 DEF JobsInit
  <2> QED
    BY JobsAssumption, <2>1, <2>2 DEF JobsInit, JobsTypeOK, TaskTypes, JobsAssumption
<1>4. TaskInv
  BY <1>1, <1>2 DEF TaskInv, InSemaphore
<1>5. BucketInv
  BY JobsAssumption, <1>1, <1>2 DEF BucketInv, JobsInit, JobsAssumption
<1>6. StatusInv
  BY DEF StatusInv, JobsInit, None
<1>7. CandleInv
  BY <1>1, <1>2 DEF CandleInv, JobsInit, None
<1>8. ViewInv
  BY <1>1, <1>2 DEF ViewInv, Begun
<1> QED
  BY <1>3, <1>4, <1>5, <1>6, <1>7, <1>8 DEF JobsInv

\* Through the semaphore, into a retry and out of it, or out with an error.
LEMMA MoveKeeps ==
  ASSUME JobsInv, NEW r \in Runs, NEW c \in Contracts,
         EnterSemaphore(r, c) \/ BackOff(r, c) \/ Retry(r, c) \/ Raises(r, c)
  PROVE  JobsInv'
<1>0. JobsTypeOK /\ TaskInv /\ BucketInv /\ StatusInv /\ CandleInv /\ ViewInv
  BY DEF JobsInv
<1>1. /\ task[r][c].at \in {"semaphore", "http", "backoff"}
      /\ task' \in [Runs -> [Contracts -> TaskTypes]] /\ OthersStay(r, c)
      /\ task'[r][c].at \in {"bucket", "backoff", "raised"}
      /\ task'[r][c].done = task[r][c].done /\ task'[r][c].got = task[r][c].got
  <2>1. CASE EnterSemaphore(r, c)
    <3>1. task[r][c].at = "semaphore" /\ Move(r, c, "bucket")
      BY <2>1 DEF EnterSemaphore
    <3> QED
      BY <1>0, <3>1, Moves DEF InSemaphore
  <2>2. CASE Retry(r, c)
    <3>1. task[r][c].at = "backoff" /\ Move(r, c, "bucket")
      BY <2>2 DEF Retry
    <3> QED
      BY <1>0, <3>1, Moves DEF InSemaphore
  <2>3. CASE Raises(r, c)
    <3>1. task[r][c].at = "http" /\ Move(r, c, "raised")
      BY <2>3 DEF Raises
    <3> QED
      BY <1>0, <3>1, Moves DEF Over
  <2>4. CASE BackOff(r, c)
    <3> DEFINE t == [task[r][c] EXCEPT !.at = "backoff", !.attempt = @ + 1]
    <3>1. task[r][c] \in TaskTypes /\ task[r][c].attempt < MaxRetries
      BY <1>0, <2>4, TaskTyped DEF BackOff
    <3>5. task[r][c].attempt + 1 \in 0..MaxRetries
      BY JobsAssumption, <3>1 DEF TaskTypes, JobsAssumption
    <3>2. t \in TaskTypes /\ t.at = "backoff" /\ t.done = task[r][c].done
          /\ t.got = task[r][c].got
      BY <3>1, <3>5 DEF TaskTypes, InSemaphore
    <3>3. Becomes(r, c, t)
      BY <2>4 DEF BackOff, Becomes
    <3> HIDE DEF t
    <3> QED
      <4>1. task'[r][c] = t /\ OthersStay(r, c) /\ task' \in [Runs -> [Contracts -> TaskTypes]]
        BY <1>0, <3>2, <3>3, OneTask
      <4>2. task[r][c].at = "http"
        BY <2>4 DEF BackOff
      <4> QED
        BY <3>2, <4>1, <4>2
  <2> QED
    BY <2>1, <2>2, <2>3, <2>4
<1>2. UNCHANGED <<checkpoint, run, cancelled, level, holder, kept, lost>>
  BY DEF EnterSemaphore, BackOff, Retry, Raises
<1>3. TaskStep(r, c) /\ Begun(r, c)
  BY <1>0, <1>1, <1>2 DEF TaskStep, Begun, TaskInv, InSemaphore
<1>4. JobsTypeOK'
  BY <1>0, <1>1, <1>2 DEF JobsTypeOK, TaskTypes
<1>5. TaskInv' /\ BucketInv' /\ ViewInv'
  BY <1>0, <1>1, <1>2, <1>3, TaskKept, BucketKept, ViewKept
<1>6. StatusInv'
  BY <1>0, <1>2 DEF StatusInv
<1>7. CandleInv'
  <2>1. \A q \in Runs, d \in Contracts: task'[q][d].done = task[q][d].done
                                        /\ task'[q][d].got = task[q][d].got
    BY <1>1 DEF OthersStay
  <2>2. \A d \in Contracts: \A w: Accounted(d, w) <=> Accounted(d, w)'
    BY <1>2, <2>1 DEF Accounted
  <2> QED
    BY <1>0, <1>2, <2>1, <2>2 DEF CandleInv
<1> QED
  BY <1>4, <1>5, <1>6, <1>7 DEF JobsInv

\* The end of an iteration, or the first look at the checkpoint.
LEMMA IterationKeeps ==
  ASSUME JobsInv, NEW r \in Runs, NEW c \in Contracts,
         task[r][c].at # "off", NEW done \in SUBSET Windows, NEW got \in SUBSET Windows,
         Ends(r, c, done, got),
         UNCHANGED <<run, cancelled, level, holder, kept>>,
         lost \subseteq lost', lost' \subseteq Contracts \X Windows,
         run[r] = "running" => task[r][c].got \subseteq got,
         \A w \in done: Accounted(c, w)'
  PROVE  JobsInv'
<1>0. JobsTypeOK /\ TaskInv /\ BucketInv /\ StatusInv /\ CandleInv /\ ViewInv
  BY DEF JobsInv
<1>1. /\ task' \in [Runs -> [Contracts -> TaskTypes]] /\ OthersStay(r, c)
      /\ task'[r][c].done = done /\ task'[r][c].got = got
      /\ task'[r][c].at \in {"semaphore"} \cup Over
      /\ task'[r][c].at = "semaphore" => done # Windows
      /\ checkpoint' \in [Contracts -> [status: Statuses, done: SUBSET Windows]]
      /\ checkpoint'[c].done = done
      /\ checkpoint'[c].status = "done" => done = Windows
      /\ \A d \in Contracts: d # c => checkpoint'[d] = checkpoint[d]
  BY <1>0, Proceeds
<1>2. TaskStep(r, c)
  BY <1>1 DEF TaskStep, Begun, InSemaphore, Over
<1>3. JobsTypeOK'
  BY <1>0, <1>1 DEF JobsTypeOK, TaskTypes
<1>4. TaskInv' /\ ViewInv'
  BY <1>0, <1>1, <1>2, TaskKept, ViewWritten
<1>5. BucketInv'
  <2>1. task'[r][c].at \notin {"asleep", "awake"}
    BY <1>1 DEF Over
  <2> QED
    BY <1>0, <1>2, <2>1, BucketKept
<1>6. StatusInv'
  BY <1>0, <1>1 DEF StatusInv
<1>7. CandleInv'
  <2>1. \A d \in Contracts, w \in Windows: Accounted(d, w) => Accounted(d, w)'
    BY <1>1, AccountKept
  <2>2. ASSUME NEW d \in Contracts, NEW w \in checkpoint'[d].done
        PROVE  Accounted(d, w)'
    <3>1. CASE d = c
      BY <1>1, <2>2, <3>1
    <3>2. CASE d # c
      <4>1. w \in checkpoint[d].done /\ checkpoint[d].done \subseteq Windows
        BY <1>0, <1>1, <2>2, <3>2 DEF JobsTypeOK
      <4> QED
        BY <1>0, <2>1, <4>1 DEF CandleInv
    <3> QED
      BY <3>1, <3>2
  <2>3. ASSUME NEW d \in Contracts, NEW q \in Runs, NEW w \in task'[q][d].done
        PROVE  Accounted(d, w)'
    <3>1. CASE q = r /\ d = c
      BY <1>1, <2>3, <3>1
    <3>2. CASE q # r \/ d # c
      <4>1. w \in task[q][d].done
        BY <1>1, <2>3, <3>2 DEF OthersStay
      <4>2. task[q][d].done \subseteq Windows
        BY <1>0, TaskTyped DEF TaskTypes
      <4> QED
        BY <1>0, <2>1, <4>1, <4>2 DEF CandleInv
    <3> QED
      BY <3>1, <3>2
  <2> QED
    BY <2>2, <2>3 DEF CandleInv
<1> QED
  BY <1>3, <1>4, <1>5, <1>6, <1>7 DEF JobsInv

\* The task reads its checkpoint: from then on it knows all that is on it, or is not alone.
LEMMA BeginKeeps ==
  ASSUME JobsInv, NEW r \in Runs, NEW c \in Contracts, Begin(r, c)
  PROVE  JobsInv'
<1>0. JobsTypeOK /\ TaskInv /\ CandleInv
  BY DEF JobsInv
<1>1. task[r][c].at = "new" /\ task[r][c].got = {}
  BY <1>0 DEF Begin, TaskInv
<1>2. /\ checkpoint[c].done \in SUBSET Windows
      /\ Ends(r, c, checkpoint[c].done, {})
      /\ UNCHANGED <<run, cancelled, level, holder, kept, lost>>
  BY <1>0 DEF Begin, JobsTypeOK, Proceed, Ends, Becomes
<1>3. \A w \in checkpoint[c].done: Accounted(c, w)'
  <2>0. {} \in SUBSET Windows
    OBVIOUS
  <2>1. OthersStay(r, c)
    BY <1>0, <1>2, <2>0, Proceeds
  <2>2. ASSUME NEW w \in checkpoint[c].done PROVE Accounted(c, w)'
    <3>1. Accounted(c, w) /\ w \in Windows
      BY <1>0, <1>2 DEF CandleInv
    <3> QED
      BY <1>1, <1>2, <2>1, <3>1, AccountKept
  <2> QED
    BY <2>2
<1>4. lost' \subseteq Contracts \X Windows
  BY <1>0, <1>2 DEF JobsTypeOK
<1> QED
  BY <1>1, <1>2, <1>3, <1>4, IterationKeeps

\* What Proceeds says of the task alone.
LEMMA Ended ==
  ASSUME JobsTypeOK, NEW r \in Runs, NEW c \in Contracts,
         NEW done \in SUBSET Windows, NEW got \in SUBSET Windows, Ends(r, c, done, got)
  PROVE  OthersStay(r, c) /\ task'[r][c].got = got
<1>1. /\ task' \in [Runs -> [Contracts -> TaskTypes]] /\ OthersStay(r, c)
      /\ task'[r][c].done = done /\ task'[r][c].got = got
      /\ task'[r][c].at \in {"semaphore"} \cup Over
      /\ task'[r][c].at = "semaphore" => done # Windows
      /\ checkpoint' \in [Contracts -> [status: Statuses, done: SUBSET Windows]]
      /\ checkpoint'[c].done = done
      /\ checkpoint'[c].status = "done" => done = Windows
      /\ \A d \in Contracts: d # c => checkpoint'[d] = checkpoint[d]
  BY Proceeds, Zenon
<1> QED
  BY <1>1

\* A fetched window is the one new entry of a checkpoint, and its candles are the task's.
LEMMA FetchedKeeps ==
  ASSUME JobsInv, NEW r \in Runs, NEW c \in Contracts, Fetched(r, c)
  PROVE  JobsInv'
<1>0. JobsTypeOK /\ TaskInv /\ CandleInv
  BY DEF JobsInv
<1>1. task[r][c].at = "http" /\ task[r][c].done # Windows
  BY <1>0 DEF Fetched, TaskInv, InSemaphore
<1>2. PICK w \in Windows: w = Current(r, c)
  BY <1>0, <1>1, CurrentIsOpen
<1> DEFINE done == task[r][c].done \cup {w}
           got == task[r][c].got \cup {w}
<1>3. task[r][c].done \subseteq Windows /\ task[r][c].got \subseteq Windows
  BY <1>0, TaskTyped DEF TaskTypes
<1>4. /\ Ends(r, c, done, got)
      /\ lost' = IF run[r] = "running" THEN lost ELSE lost \cup {<<c, w>>}
      /\ UNCHANGED <<run, cancelled, level, holder, kept>>
  BY <1>2 DEF Fetched, Proceed, Ends, Becomes
<1>5. done \in SUBSET Windows /\ got \in SUBSET Windows /\ task[r][c].got \subseteq got
  BY <1>2, <1>3
<1>6. lost \subseteq lost' /\ lost' \subseteq Contracts \X Windows
  BY <1>0, <1>2, <1>4 DEF JobsTypeOK
<1>9. (\A v \in done: v \in task[r][c].done \/ v = w) /\ w \in got
  OBVIOUS
<1> HIDE DEF done, got
<1>7. OthersStay(r, c) /\ task'[r][c].got = got
  <2>1. Ends(r, c, done, got) /\ done \in SUBSET Windows /\ got \in SUBSET Windows
    BY <1>4, <1>5
  <2>2. JobsTypeOK /\ r \in Runs /\ c \in Contracts
    BY <1>0
  <2> QED
    BY <2>1, <2>2, Ended
<1>8. ASSUME NEW v \in done PROVE Accounted(c, v)'
  <2>1. CASE v \in task[r][c].done
    <3>1. Accounted(c, v) /\ v \in Windows
      BY <1>0, <1>3, <2>1 DEF CandleInv
    <3> QED
      BY <1>4, <1>5, <1>6, <1>7, <3>1, AccountKept
  <2>2. CASE v = w
    BY <1>4, <1>7, <1>9, <2>2 DEF Accounted
  <2> QED
    BY <1>9, <2>1, <2>2
<1> QED
  BY <1>1, <1>4, <1>5, <1>6, <1>8, IterationKeeps


(* The bucket *)

\* A task that takes a token or goes to sleep over it has what it had.
LEMMA BucketStep ==
  ASSUME JobsInv, NEW r \in Runs, NEW c \in Contracts, NEW to \in {"http", "asleep"},
         Begun(r, c), task[r][c].at \in InSemaphore, Move(r, c, to),
         UNCHANGED <<checkpoint, run, cancelled, kept, lost>>
  PROVE  /\ task' \in [Runs -> [Contracts -> TaskTypes]] /\ OthersStay(r, c)
         /\ task'[r][c].at = to
         /\ TaskInv' /\ StatusInv' /\ CandleInv' /\ ViewInv'
<1>0. JobsTypeOK /\ TaskInv /\ StatusInv /\ CandleInv /\ ViewInv
  BY DEF JobsInv
<1>1. /\ task' \in [Runs -> [Contracts -> TaskTypes]] /\ OthersStay(r, c)
      /\ task'[r][c].at = to
      /\ task'[r][c].done = task[r][c].done /\ task'[r][c].got = task[r][c].got
  BY <1>0, Moves DEF InSemaphore
<1>2. TaskStep(r, c)
  BY <1>0, <1>1 DEF TaskStep, Begun, TaskInv
<1>3. TaskInv' /\ ViewInv'
  BY <1>0, <1>1, <1>2, TaskKept, ViewKept
<1>4. StatusInv'
  BY <1>0 DEF StatusInv
<1>5. CandleInv'
  <2>1. \A q \in Runs, d \in Contracts: task'[q][d].done = task[q][d].done
                                        /\ task'[q][d].got = task[q][d].got
    BY <1>1 DEF OthersStay
  <2>2. \A d \in Contracts: \A w: Accounted(d, w) <=> Accounted(d, w)'
    BY <2>1 DEF Accounted
  <2> QED
    BY <1>0, <2>1, <2>2 DEF CandleInv
<1> QED
  BY <1>1, <1>3, <1>4, <1>5

\* TokenBucket.acquire: the lock is taken, a token too if there is one.
LEMMA AcquireKeeps ==
  ASSUME JobsInv, NEW r \in Runs, NEW c \in Contracts, Acquire(r, c)
  PROVE  JobsInv'
<1>0. JobsTypeOK /\ BucketInv
  BY DEF JobsInv
<1>1. /\ task[r][c].at \in InSemaphore /\ Begun(r, c) /\ holder = Nobody
      /\ UNCHANGED <<checkpoint, run, cancelled, kept, lost>>
  BY DEF Acquire, InSemaphore, Begun
<1>2. \A q \in Runs, d \in Contracts: task[q][d].at \notin {"asleep", "awake"}
  BY <1>0, <1>1 DEF BucketInv, Nobody
<1>3. CASE level > 0
  <2>1. level' = level - 1 /\ Move(r, c, "http") /\ holder' = holder
    BY <1>3 DEF Acquire
  <2>2. /\ task' \in [Runs -> [Contracts -> TaskTypes]] /\ OthersStay(r, c)
        /\ task'[r][c].at = "http"
        /\ TaskInv' /\ StatusInv' /\ CandleInv' /\ ViewInv'
    BY <1>1, <2>1, BucketStep
  <2>3. level' \in 0..Burst
    BY JobsAssumption, <1>0, <1>3, <2>1 DEF BucketInv, JobsAssumption
  <2>4. BucketInv'
    <3>1. \A q \in Runs, d \in Contracts: task'[q][d].at \notin {"asleep", "awake"}
      BY <1>2, <2>2 DEF OthersStay
    <3> QED
      BY <2>3, <3>1 DEF BucketInv
  <2>5. JobsTypeOK'
    BY JobsAssumption, <1>0, <1>1, <2>1, <2>2, <2>3 DEF JobsTypeOK, TaskTypes,
       JobsAssumption
  <2> QED
    BY <2>2, <2>4, <2>5 DEF JobsInv
<1>4. CASE ~(level > 0)
  <2>1. level' = level /\ Move(r, c, "asleep") /\ holder' = <<r, c>> /\ level = 0
    BY JobsAssumption, <1>0, <1>4 DEF Acquire, BucketInv, JobsAssumption
  <2>2. /\ task' \in [Runs -> [Contracts -> TaskTypes]] /\ OthersStay(r, c)
        /\ task'[r][c].at = "asleep"
        /\ TaskInv' /\ StatusInv' /\ CandleInv' /\ ViewInv'
    BY <1>1, <2>1, BucketStep
  <2>4. BucketInv'
    <3>1. ASSUME NEW q \in Runs, NEW d \in Contracts, task'[q][d].at \in {"asleep", "awake"}
          PROVE  q = r /\ d = c
      BY <1>2, <2>2, <3>1 DEF OthersStay
    <3> QED
      BY <1>0, <2>1, <2>2, <3>1 DEF BucketInv
  <2>5. JobsTypeOK'
    BY <1>0, <1>1, <2>1, <2>2 DEF JobsTypeOK, TaskTypes
  <2> QED
    BY <2>2, <2>4, <2>5 DEF JobsInv
<1> QED
  BY <1>3, <1>4

\* The sleeper takes the token it waited for, which nobody else could.
LEMMA TakeAwaitedKeeps ==
  ASSUME JobsInv, NEW r \in Runs, NEW c \in Contracts, TakeAwaited(r, c)
  PROVE  JobsInv'
<1>0. JobsTypeOK /\ BucketInv
  BY DEF JobsInv
<1>1. /\ task[r][c].at = "awake" /\ level' = level - 1 /\ holder' = Nobody
      /\ Move(r, c, "http")
      /\ UNCHANGED <<checkpoint, run, cancelled, kept, lost>>
  BY DEF TakeAwaited
<1>2. /\ task' \in [Runs -> [Contracts -> TaskTypes]] /\ OthersStay(r, c)
      /\ task'[r][c].at = "http"
      /\ TaskInv' /\ StatusInv' /\ CandleInv' /\ ViewInv'
  BY <1>1, BucketStep DEF InSemaphore, Begun
<1>3. level' \in 0..Burst
  BY JobsAssumption, <1>0, <1>1 DEF BucketInv, JobsAssumption
<1>4. \A q \in Runs, d \in Contracts: task'[q][d].at \notin {"asleep", "awake"}
  <2> TAKE q \in Runs, d \in Contracts
  <2>1. CASE q = r /\ d = c
    BY <1>2, <2>1
  <2>2. CASE q # r \/ d # c
    <3>1. holder = <<r, c>>
      BY <1>0, <1>1 DEF BucketInv
    <3>2. holder # <<q, d>>
      BY <2>2, <3>1
    <3> QED
      BY <1>0, <1>2, <2>2, <3>2 DEF BucketInv, OthersStay
  <2> QED
    BY <2>1, <2>2
<1>5. BucketInv'
  BY <1>3, <1>4 DEF BucketInv
<1>6. JobsTypeOK'
  BY JobsAssumption, <1>0, <1>1, <1>2, <1>3 DEF JobsTypeOK, TaskTypes, JobsAssumption
<1> QED
  BY <1>2, <1>5, <1>6 DEF JobsInv

\* A refill wakes the sleeper, which is the holder.
LEMMA RefillKeeps ==
  ASSUME JobsInv, Refill
  PROVE  JobsInv'
<1>0. JobsTypeOK /\ TaskInv /\ BucketInv /\ StatusInv /\ CandleInv /\ ViewInv
  BY DEF JobsInv
<1>1. /\ level < Burst /\ level' = level + 1
      /\ UNCHANGED <<checkpoint, run, cancelled, holder, kept, lost>>
      /\ task' = [r \in Runs |-> [c \in Contracts |->
                    IF task[r][c].at = "asleep" THEN [task[r][c] EXCEPT !.at = "awake"]
                    ELSE task[r][c]]]
  BY DEF Refill
<1>2. ASSUME NEW r \in Runs, NEW c \in Contracts
      PROVE  /\ task'[r][c] \in TaskTypes
             /\ task'[r][c].done = task[r][c].done /\ task'[r][c].got = task[r][c].got
             /\ \/ task'[r][c].at = task[r][c].at /\ task[r][c].at # "asleep"
                \/ task[r][c].at = "asleep" /\ task'[r][c].at = "awake"
  <2>1. task[r][c] \in TaskTypes
    BY <1>0, TaskTyped
  <2>2. task'[r][c] = IF task[r][c].at = "asleep" THEN [task[r][c] EXCEPT !.at = "awake"]
                      ELSE task[r][c]
    BY <1>1
  <2> QED
    BY <2>1, <2>2 DEF TaskTypes, InSemaphore
<1>3. level' \in 0..Burst /\ level' > 0
  BY JobsAssumption, <1>0, <1>1 DEF BucketInv, JobsAssumption
<1>4. JobsTypeOK'
  <2>1. task' \in [Runs -> [Contracts -> TaskTypes]]
    BY <1>1, <1>2
  <2>2. level' \in Int /\ level' <= Burst
    BY JobsAssumption, <1>0, <1>1 DEF BucketInv, JobsAssumption
  <2> QED
    BY <1>0, <1>1, <2>1, <2>2 DEF JobsTypeOK, TaskTypes
<1>5. BucketInv'
  BY <1>0, <1>1, <1>2, <1>3 DEF BucketInv
<1>6. TaskInv'
  BY <1>0, <1>1, <1>2 DEF TaskInv, InSemaphore
<1>7. StatusInv'
  BY <1>0, <1>1 DEF StatusInv
<1>8. CandleInv'
  <2>1. \A d \in Contracts: \A w: Accounted(d, w) <=> Accounted(d, w)'
    BY <1>1, <1>2 DEF Accounted
  <2> QED
    BY <1>0, <1>1, <1>2, <2>1 DEF CandleInv
<1>9. ViewInv'
  <2>1. \A r \in Runs, c \in Contracts: Begun(r, c) <=> Begun(r, c)'
    BY <1>2 DEF Begun
  <2> QED
    BY <1>0, <1>1, <1>2, <2>1 DEF ViewInv
<1> QED
  BY <1>4, <1>5, <1>6, <1>7, <1>8, <1>9 DEF JobsInv


(* The run *)

\* Steps that leave the tasks and the checkpoints to themselves.
LEMMA OutsideKeeps ==
  ASSUME JobsInv, UNCHANGED <<checkpoint, task, level, holder>>,
         run' \in [Runs -> {"none", "running", "returned", "failed", "killed"}],
         cancelled' \in [Runs -> BOOLEAN],
         kept' \subseteq Contracts \X Windows, lost' \subseteq Contracts \X Windows,
         \A r \in Runs: run'[r] = "none" => run[r] = "none",
         \A c \in Contracts: \A w \in Windows: Accounted(c, w) => Accounted(c, w)'
  PROVE  JobsInv'
<1>0. JobsTypeOK /\ TaskInv /\ BucketInv /\ StatusInv /\ CandleInv /\ ViewInv
  BY DEF JobsInv
<1>1. JobsTypeOK'
  BY <1>0 DEF JobsTypeOK
<1>2. TaskInv'
  BY <1>0 DEF TaskInv
<1>3. BucketInv' /\ StatusInv' /\ ViewInv'
  BY <1>0 DEF BucketInv, StatusInv, ViewInv, Begun
<1>4. CandleInv'
  <2>1. \A c \in Contracts: /\ checkpoint[c].done \subseteq Windows
                            /\ \A r \in Runs: task[r][c].done \subseteq Windows
    BY <1>0, TaskTyped DEF JobsTypeOK, TaskTypes
  <2> QED
    BY <1>0, <2>1 DEF CandleInv
<1> QED
  BY <1>1, <1>2, <1>3, <1>4 DEF JobsInv

\* What a run returns are windows of contracts, all those its tasks have got.
LEMMA CollectedTyped ==
  ASSUME NEW r \in Runs
  PROVE  /\ Collected(r) \subseteq Contracts \X Windows
         /\ \A c \in Contracts: \A w \in Windows: w \in task[r][c].got => <<c, w>> \in Collected(r)
  BY DEF Collected

\* The end of a run keeps or loses, and so accounts for, what its tasks have got.
LEMMA RunStepKeeps ==
  ASSUME JobsInv, NEW r \in Runs, Cancel(r) \/ Returns(r) \/ Fails(r)
  PROVE  JobsInv'
<1>0. JobsTypeOK
  BY DEF JobsInv
<1>1. CASE Cancel(r)
  <2>1. \A c \in Contracts: \A w: Accounted(c, w) => Accounted(c, w)'
    BY <1>1 DEF Cancel, Accounted
  <2>2. cancelled' \in [Runs -> BOOLEAN]
    BY <1>0, <1>1 DEF Cancel, JobsTypeOK
  <2> QED
    BY <1>0, <1>1, <2>1, <2>2, OutsideKeeps DEF Cancel, JobsTypeOK
<1>2. CASE Returns(r) \/ Fails(r)
  <2>1. /\ UNCHANGED <<checkpoint, task, cancelled, level, holder>>
        /\ \/ run' = [run EXCEPT ![r] = "returned"]
           \/ run' = [run EXCEPT ![r] = "failed"]
        /\ run[r] = "running"
        /\ kept \subseteq kept' /\ lost \subseteq lost' /\ Collected(r) \subseteq kept' \cup lost'
        /\ kept' \cup lost' \subseteq kept \cup lost \cup Collected(r)
    BY <1>2 DEF Returns, Fails
  <2>2. run' \in [Runs -> {"none", "running", "returned", "failed", "killed"}]
    BY <1>0, <2>1 DEF JobsTypeOK
  <2>3. \A q \in Runs: /\ run'[q] = "none" => run[q] = "none"
                       /\ q # r => run'[q] = run[q]
    BY <1>0, <2>1 DEF JobsTypeOK
  <2>4. kept' \subseteq Contracts \X Windows /\ lost' \subseteq Contracts \X Windows
    BY <1>0, <2>1, CollectedTyped DEF JobsTypeOK
  <2>5. ASSUME NEW c \in Contracts, NEW w \in Windows, Accounted(c, w)
        PROVE  Accounted(c, w)'
    <3>1. CASE <<c, w>> \in kept \cup lost
      BY <2>1, <3>1 DEF Accounted
    <3>2. ASSUME NEW q \in Runs, run[q] = "running", w \in task[q][c].got
          PROVE  Accounted(c, w)'
      <4>1. CASE q = r
        BY <2>1, <3>2, <4>1, CollectedTyped DEF Accounted
      <4>2. CASE q # r
        BY <2>1, <2>3, <3>2, <4>2 DEF Accounted
      <4> QED
        BY <4>1, <4>2
    <3> QED
      BY <2>5, <3>1, <3>2 DEF Accounted
  <2>6. cancelled' \in [Runs -> BOOLEAN]
    BY <1>0, <2>1 DEF JobsTypeOK
  <2> QED
    BY <2>1, <2>2, <2>3, <2>4, <2>5, <2>6, OutsideKeeps
<1> QED
  BY <1>1, <1>2

\* A new run begins with tasks that know nothing and hold nothing.
LEMMA StartRunKeeps ==
  ASSUME JobsInv, NEW r \in Runs, StartRun(r)
  PROVE  JobsInv'
<1>0. JobsTypeOK /\ TaskInv /\ BucketInv /\ StatusInv /\ CandleInv /\ ViewInv
  BY DEF JobsInv
<1> DEFINE t == [NoTask EXCEPT !.at = "new"]
<1>1. /\ run[r] = "none" /\ \A q \in Runs: run[q] # "running"
      /\ run' = [run EXCEPT ![r] = "running"]
      /\ task' = [task EXCEPT ![r] = [c \in Contracts |-> t]]
      /\ UNCHANGED <<checkpoint, cancelled, level, holder, kept, lost>>
  BY DEF StartRun
<1>2. t \in TaskTypes /\ t.at = "new" /\ t.done = {} /\ t.got = {}
  BY JobsAssumption DEF NoTask, TaskTypes, JobsAssumption
<1> HIDE DEF t
<1>3. /\ task' \in [Runs -> [Contracts -> TaskTypes]]
      /\ \A c \in Contracts: task'[r][c] = t
      /\ \A q \in Runs: q # r => task'[q] = task[q]
  BY <1>0, <1>1, <1>2 DEF JobsTypeOK, TaskTypes
<1>4. /\ run' \in [Runs -> {"none", "running", "returned", "failed", "killed"}]
      /\ run'[r] = "running" /\ \A q \in Runs: q # r => run'[q] = run[q]
  BY <1>0, <1>1 DEF JobsTypeOK
<1>5. JobsTypeOK'
  BY <1>0, <1>1, <1>3, <1>4 DEF JobsTypeOK, TaskTypes
<1>6. TaskInv'
  BY <1>0, <1>2, <1>3, <1>4 DEF TaskInv, InSemaphore
<1>7. BucketInv' /\ StatusInv'
  BY <1>0, <1>1, <1>2, <1>3 DEF BucketInv, StatusInv
<1>8. CandleInv'
  <2>1. \A c \in Contracts: \A w: Accounted(c, w) => Accounted(c, w)'
    BY <1>1 DEF Accounted
  <2>2. \A q \in Runs, c \in Contracts: task'[q][c].done \subseteq task[q][c].done
    BY <1>2, <1>3
  <2> QED
    BY <1>0, <1>1, <2>1, <2>2 DEF CandleInv
<1>9. ViewInv'
  <2>1. \A c \in Contracts: ~Begun(r, c) /\ ~Begun(r, c)'
    BY <1>0, <1>1, <1>2, <1>3 DEF Begun, TaskInv
  <2>2. \A q \in Runs, c \in Contracts: q # r => (Begun(q, c) <=> Begun(q, c)')
    BY <1>3 DEF Begun
  <2> QED
    BY <1>0, <1>1, <1>3, <2>1, <2>2 DEF ViewInv
<1> QED
  BY <1>5, <1>6, <1>7, <1>8, <1>9 DEF JobsInv

\* A crash loses what running tasks have got; the bucket is full again and nobody holds it.
LEMMA CrashKeeps ==
  ASSUME JobsInv, Crash
  PROVE  JobsInv'
<1>0. JobsTypeOK /\ TaskInv /\ BucketInv /\ StatusInv /\ CandleInv /\ ViewInv
  BY DEF JobsInv
<1>1. /\ run' = [r \in Runs |-> IF run[r] = "running" THEN "killed" ELSE run[r]]
      /\ lost' = lost \cup UNION {Collected(r): r \in {q \in Runs: run[q] = "running"}}
      /\ task' = [r \in Runs |-> [c \in Contracts |-> NoTask]]
      /\ level' = Burst /\ holder' = Nobody
      /\ UNCHANGED <<checkpoint, cancelled, kept>>
  BY DEF Crash
<1>2. /\ NoTask \in TaskTypes /\ NoTask.at = "off" /\ NoTask.done = {} /\ NoTask.got = {}
      /\ \A r \in Runs, c \in Contracts: task'[r][c] = NoTask
  BY JobsAssumption, <1>1 DEF NoTask, TaskTypes, JobsAssumption
<1>3. JobsTypeOK'
  <2>1. task' \in [Runs -> [Contracts -> TaskTypes]]
    BY <1>1, <1>2
  <2>2. lost' \subseteq Contracts \X Windows
    BY <1>0, <1>1, CollectedTyped DEF JobsTypeOK
  <2>3. run' \in [Runs -> {"none", "running", "returned", "failed", "killed"}]
    BY <1>0, <1>1 DEF JobsTypeOK
  <2>4. level' \in Int /\ level' <= Burst /\ holder' \in {Nobody} \cup (Runs \X Contracts)
    BY JobsAssumption, <1>1 DEF JobsAssumption
  <2> QED
    BY <1>0, <1>1, <2>1, <2>2, <2>3, <2>4 DEF JobsTypeOK, TaskTypes
<1>4. TaskInv'
  BY <1>2 DEF TaskInv, InSemaphore
<1>5. BucketInv' /\ StatusInv'
  BY JobsAssumption, <1>0, <1>1, <1>2 DEF BucketInv, StatusInv, JobsAssumption
<1>6. CandleInv'
  <2>1. ASSUME NEW c \in Contracts, NEW w \in Windows, Accounted(c, w)
        PROVE  Accounted(c, w)'
    <3>1. CASE <<c, w>> \in kept \cup lost
      BY <1>1, <3>1 DEF Accounted
    <3>2. ASSUME NEW q \in Runs, run[q] = "running", w \in task[q][c].got
          PROVE  Accounted(c, w)'
      <4>1. <<c, w>> \in Collected(q)
        BY <3>2, CollectedTyped
      <4>2. <<c, w>> \in lost'
        BY <1>1, <3>2, <4>1
      <4> QED
        BY <4>2 DEF Accounted
    <3> QED
      BY <2>1, <3>1, <3>2 DEF Accounted
  <2>2. \A c \in Contracts: checkpoint[c].done \subseteq Windows
    BY <1>0 DEF JobsTypeOK
  <2> QED
    BY <1>0, <1>1, <1>2, <2>1, <2>2 DEF CandleInv
<1>7. ViewInv'
  BY <1>2 DEF ViewInv, Begun
<1> QED
  BY <1>3, <1>4, <1>5, <1>6, <1>7 DEF JobsInv


(* Theorems *)

\* Every step of the jobs keeps their invariant, one case per action.
LEMMA StepKeepsJobsInv ==
  ASSUME JobsInv, [JobsNext]_jobsVars
  PROVE  JobsInv'
<1>1. CASE Progress
  <2>1. ASSUME NEW r \in Runs, Returns(r) \/ Fails(r) PROVE JobsInv'
    BY <2>1, RunStepKeeps
  <2>2. ASSUME NEW r \in Runs, NEW c \in Contracts,
               \/ Begin(r, c) \/ EnterSemaphore(r, c) \/ Fetched(r, c)
               \/ BackOff(r, c) \/ Retry(r, c) \/ Raises(r, c)
               \/ Acquire(r, c) \/ TakeAwaited(r, c)
        PROVE  JobsInv'
    BY <2>2, BeginKeeps, FetchedKeeps, MoveKeeps, AcquireKeeps, TakeAwaitedKeeps
  <2> QED
    BY <1>1, <2>1, <2>2 DEF Progress
<1>2. CASE Refill
  BY <1>2, RefillKeeps
<1>3. CASE Crash
  BY <1>3, CrashKeeps
<1>4. ASSUME NEW r \in Runs, StartRun(r) \/ Cancel(r) PROVE JobsInv'
  BY <1>4, StartRunKeeps, RunStepKeeps
<1>5. CASE UNCHANGED jobsVars
  <2>1. \A c \in Contracts: \A w: Accounted(c, w) => Accounted(c, w)'
    BY <1>5 DEF jobsVars, Accounted
  <2> QED
    BY <1>5, <2>1, OutsideKeeps DEF jobsVars, JobsInv, JobsTypeOK
<1> QED
  BY <1>1, <1>2, <1>3, <1>4, <1>5 DEF JobsNext

\* However many contracts, windows, runs and retries, whatever fails, is cancelled or crashes:
\* the strengthening of the jobs' invariants holds throughout.
THEOREM JobsInvariance == JobsSpec => []JobsInv
<1>1. JobsInit => JobsInv
  BY InitJobsInv
<1>2. JobsInv /\ [JobsNext]_jobsVars => JobsInv'
  BY StepKeepsJobsInv
<1> QED
  BY <1>1, <1>2, PTL DEF JobsSpec

\* The limiter never gives out a token it does not have, though it sleeps with its lock held,
\* and a checkpoint says "done" only when every window of its contract is in it.
THEOREM BucketIsSound == JobsSpec => []BucketAndCheckpointsSound
<1>1. JobsInv => BucketAndCheckpointsSound
  BY JobsAssumption DEF JobsInv, BucketInv, StatusInv, BucketAndCheckpointsSound,
     JobsAssumption
<1> QED
  BY <1>1, JobsInvariance, PTL

\* The candles of a window that a checkpoint lists have been returned to a caller, are with a run
\* that can still return them, or were lost with a run that failed or was killed: nothing else
\* loses them.
THEOREM CandlesAreAccounted == JobsSpec => []CandlesAccounted
<1>1. ASSUME JobsInv PROVE CandlesAccounted
  <2> SUFFICES ASSUME NEW c \in Contracts, NEW w \in checkpoint[c].done
               PROVE  <<c, w>> \in kept \cup lost
                        \cup UNION {Collected(r): r \in {q \in Runs: run[q] = "running"}}
    BY DEF CandlesAccounted
  <2>1. Accounted(c, w) /\ w \in Windows
    BY <1>1 DEF JobsInv, CandleInv, JobsTypeOK
  <2>2. ASSUME NEW q \in Runs, run[q] = "running", w \in task[q][c].got
        PROVE  <<c, w>> \in UNION {Collected(r): r \in {p \in Runs: run[p] = "running"}}
    <3>1. <<c, w>> \in Collected(q)
      BY <2>1, <2>2, CollectedTyped
    <3> QED
      BY <2>2, <3>1
  <2> QED
    BY <2>1, <2>2 DEF Accounted
<1> QED
  BY <1>1, JobsInvariance, PTL

\* A saved checkpoint never loses a window, unless tasks of two runs are at work on the same
\* contract: a task reads the checkpoint of jobs.py once, when it begins.
THEOREM CheckpointsGrow == JobsSpec => CheckpointOnlyGrows
<1> DEFINE Grows == \A c \in Contracts:
          \/ checkpoint[c].done \subseteq checkpoint'[c].done
          \/ \E q, r \in Runs: q # r /\ task[q][c].at \notin {"off", "new"}
                                     /\ task[r][c].at \notin {"off", "new"}
<1>1. ASSUME JobsInv, [JobsNext]_jobsVars PROVE Grows
  <2>0. JobsTypeOK /\ TaskInv /\ ViewInv
    BY <1>1 DEF JobsInv
  <2>1. CASE checkpoint' = checkpoint
    BY <2>1
  <2>2. ASSUME NEW r \in Runs, NEW c \in Contracts, NEW done,
               checkpoint'[c].done = done,
               \A d \in Contracts: d # c => checkpoint'[d] = checkpoint[d],
               \/ checkpoint[c].done \subseteq done
               \/ Begun(r, c) /\ task[r][c].done \subseteq done
        PROVE  Grows
    <3>1. \/ checkpoint[c].done \subseteq done
          \/ \E q \in Runs: q # r /\ Begun(q, c) /\ Begun(r, c)
      BY <2>0, <2>2 DEF ViewInv
    <3> QED
      BY <2>2, <3>1 DEF Begun
  <2>3. ASSUME NEW r \in Runs, NEW c \in Contracts, Begin(r, c) PROVE Grows
    <3>1. /\ checkpoint'[c].done = checkpoint[c].done
          /\ \A d \in Contracts: d # c => checkpoint'[d] = checkpoint[d]
      BY <2>0, <2>3 DEF Begin, Proceed, JobsTypeOK
    <3> QED
      BY <2>2, <3>1
  <2>4. ASSUME NEW r \in Runs, NEW c \in Contracts, Fetched(r, c) PROVE Grows
    <3>1. /\ checkpoint'[c].done = task[r][c].done \cup {Current(r, c)}
          /\ \A d \in Contracts: d # c => checkpoint'[d] = checkpoint[d]
      BY <2>0, <2>4 DEF Fetched, Proceed, JobsTypeOK
    <3>2. Begun(r, c)
      BY <2>4 DEF Fetched, Begun
    <3> QED
      BY <2>2, <3>1, <3>2
  <2>5. \/ checkpoint' = checkpoint
        \/ \E r \in Runs, c \in Contracts: Begin(r, c) \/ Fetched(r, c)
    <3>1. CASE UNCHANGED jobsVars
      BY <3>1 DEF jobsVars
    <3>2. CASE Refill \/ Crash \/ \E r \in Runs: StartRun(r) \/ Cancel(r)
      BY <3>2 DEF Refill, Crash, StartRun, Cancel
    <3>3. CASE \E r \in Runs: Returns(r) \/ Fails(r)
      BY <3>3 DEF Returns, Fails
    <3>4. CASE \E r \in Runs, c \in Contracts: EnterSemaphore(r, c) \/ BackOff(r, c) \/ Retry(r, c)
      BY <3>4 DEF EnterSemaphore, BackOff, Retry
    <3>5. CASE \E r \in Runs, c \in Contracts: Raises(r, c) \/ Acquire(r, c) \/ TakeAwaited(r, c)
      BY <3>5 DEF Raises, Acquire, TakeAwaited
    <3> QED
      BY <1>1, <3>1, <3>2, <3>3, <3>4, <3>5 DEF JobsNext, Progress
  <2> QED
    BY <2>1, <2>3, <2>4, <2>5
<1>2. ASSUME JobsInv, [JobsNext]_jobsVars PROVE [Grows]_jobsVars
  BY <1>1, <1>2
<1> QED
  BY <1>2, JobsInvariance, PTL DEF JobsSpec, CheckpointOnlyGrows

-----------------------------------------------------------------------------
(* The health of the feed                                                  *)

\* A list of attempts is in order, oldest first.
InOrder(ages) == \A i, j \in 1..Len(ages) : i < j => ages[i] >= ages[j]

\* The process's list holds, of the reconnects of the last hour, all, and each since it
\* was made: what the code drops it would not count either.
BudgetInv == InOrder(attempts) /\ tries = Young(attempts) /\ ReconnectsBounded

\* A spell has not lasted longer than frames have been owed, and none waits for the session.
SpellInv ==
  /\ phase \in {"bootstrap", "preopen"} /\ ~CaptureExpected => spell = Off
  /\ CaptureExpected => spell <= owed \/ owed = StaleExit

HealthInv == HealthTypeOK /\ BudgetInv /\ SpellInv


(* Ages *)

\* The larger of two naturals.
LEMMA MaxOfTwo ==
  ASSUME NEW a \in Int, NEW b \in Int
  PROVE  Max({a, b}) = IF a >= b THEN a ELSE b
<1> DEFINE m == IF a >= b THEN a ELSE b
<1>1. m \in {a, b} /\ \A y \in {a, b} : m >= y
  OBVIOUS
<1>2. \A x \in {a, b} : (\A y \in {a, b} : x >= y) => x = m
  OBVIOUS
<1>3. Max({a, b}) = m
  BY <1>1, <1>2 DEF Max
<1> QED
  BY <1>3 DEF m

\* The smaller of two naturals.
LEMMA MinOfTwo ==
  ASSUME NEW a \in Int, NEW b \in Int
  PROVE  Min({a, b}) = IF a <= b THEN a ELSE b
<1> DEFINE m == IF a <= b THEN a ELSE b
<1>1. m \in {a, b} /\ \A y \in {a, b} : m <= y
  OBVIOUS
<1>2. \A x \in {a, b} : (\A y \in {a, b} : x <= y) => x = m
  OBVIOUS
<1>3. Min({a, b}) = m
  BY <1>1, <1>2 DEF Min
<1> QED
  BY <1>3 DEF m

\* An age grows by one up to its horizon.
LEMMA Ages ==
  ASSUME NEW horizon \in Nat, NEW age \in Off..horizon
  PROVE  /\ Older(age, horizon) \in Off..horizon
         /\ age = Off => Older(age, horizon) = Off
         /\ age # Off => Older(age, horizon) \in 0..horizon
         /\ age # Off => Older(age, horizon) = IF age < horizon THEN age + 1 ELSE horizon
<1>1. age \in Int /\ horizon \in Int /\ age + 1 \in Int /\ age <= horizon /\ -1 <= age
  BY DEF Off
<1>2. Min({age + 1, horizon}) = IF age + 1 <= horizon THEN age + 1 ELSE horizon
  BY <1>1, MinOfTwo
<1> QED
  BY <1>1, <1>2 DEF Older, Off


(* The ages within the hour *)

\* From i on the ages are within the hour, and none is before.
Cut(ages, i) ==
  /\ i \in 1..(Len(ages) + 1)
  /\ \A j \in 1..Len(ages) : (j < i => ages[j] > Hour) /\ (j >= i => ages[j] <= Hour)

\* Where that is tells what is young.
LEMMA CutIsYoung ==
  ASSUME NEW ages \in Seq(Nat), NEW i, Cut(ages, i)
  PROVE  Young(ages) = SubSeq(ages, i, Len(ages))
<1> DEFINE T == {k \in 1..(Len(ages) + 1) : \A j \in k..Len(ages) : ages[j] <= Hour}
<1>0. Len(ages) \in Nat /\ Hour \in Nat /\ \A j \in 1..Len(ages) : ages[j] \in Nat
  BY FeedHealthAssumption DEF FeedHealthAssumption
<1>1. i \in T
  BY <1>0 DEF Cut
<1>2. \A k \in T : i <= k
  <2> SUFFICES ASSUME NEW k \in T, k < i PROVE FALSE
    BY <1>0 DEF Cut
  <2>1. k \in 1..Len(ages) /\ ages[k] > Hour /\ ages[k] <= Hour
    BY <1>0 DEF Cut
  <2> QED
    BY <1>0, <2>1
<1>3. T \subseteq Int
  BY <1>0
<1>5. \A x \in T : (\A y \in T : x <= y) => x = i
  BY <1>1, <1>2, <1>3
<1> HIDE DEF T
<1>4. Min(T) = i
  BY <1>1, <1>2, <1>5 DEF Min
<1> QED
  BY <1>4 DEF Young, T

\* Ages in order have such a place.
LEMMA CutExists ==
  ASSUME NEW ages \in Seq(Nat), InOrder(ages)
  PROVE  \E i \in 1..(Len(ages) + 1) : Cut(ages, i)
<1> DEFINE T == {k \in 1..(Len(ages) + 1) : \A j \in k..Len(ages) : ages[j] <= Hour}
<1>0. Len(ages) \in Nat /\ Hour \in Nat /\ \A j \in 1..Len(ages) : ages[j] \in Nat
  BY FeedHealthAssumption DEF FeedHealthAssumption
<1>1. Len(ages) + 1 \in T /\ T \subseteq Nat
  BY <1>0
<1>2. PICK i \in T : \A k \in T : i <= k
  <2> HIDE DEF T
  <2> QED
    BY <1>1, LeastElement
<1>3. ASSUME NEW j \in 1..Len(ages), j < i PROVE ages[j] > Hour
  <2> SUFFICES ASSUME ages[j] <= Hour PROVE FALSE
    BY <1>0
  <2>1. \A k \in j..Len(ages) : ages[k] <= ages[j]
    BY <1>0 DEF InOrder
  <2>2. j \in T
    BY <1>0, <2>1
  <2> QED
    BY <1>0, <1>2, <1>3, <2>2
<1>4. \A j \in 1..Len(ages) : j >= i => ages[j] <= Hour
  BY <1>0, <1>2
<1> QED
  BY <1>2, <1>3, <1>4 DEF Cut

\* A function on an initial segment of the naturals is a sequence.
LEMMA FunctionIsSequence ==
  ASSUME NEW T, NEW n \in Nat, NEW f \in [1..n -> T]
  PROVE  f \in Seq(T) /\ Len(f) = n
OBVIOUS

\* What is young is the end of the list.
LEMMA YoungEnd ==
  ASSUME NEW ages \in Seq(Nat), NEW i, Cut(ages, i)
  PROVE  /\ Young(ages) \in Seq(Nat) /\ Len(Young(ages)) = Len(ages) + 1 - i
         /\ \A j \in 1..(Len(ages) + 1 - i) : Young(ages)[j] = ages[i + j - 1] /\ Young(ages)[j] <= Hour
<1>0. Len(ages) \in Nat /\ i \in 1..(Len(ages) + 1)
  BY DEF Cut
<1>1. Young(ages) = SubSeq(ages, i, Len(ages))
  BY CutIsYoung
<1>2. /\ SubSeq(ages, i, Len(ages)) \in Seq(Nat)
      /\ Len(SubSeq(ages, i, Len(ages))) = Len(ages) + 1 - i
      /\ \A j \in 1..(Len(ages) + 1 - i) : SubSeq(ages, i, Len(ages))[j] = ages[i + j - 1]
  BY <1>0, SubSeqProperties
<1>3. \A j \in 1..(Len(ages) + 1 - i) : ages[i + j - 1] <= Hour
  BY <1>0 DEF Cut
<1> QED
  BY <1>1, <1>2, <1>3

\* Ages that are all young stay as they are.
LEMMA AllYoung ==
  ASSUME NEW ages \in Seq(Nat), \A j \in 1..Len(ages) : ages[j] <= Hour
  PROVE  Young(ages) = ages
<1>1. Len(ages) \in Nat /\ Cut(ages, 1)
  BY DEF Cut
<1>2. /\ Young(ages) \in Seq(Nat) /\ Len(Young(ages)) = Len(ages)
      /\ \A j \in 1..Len(ages) : Young(ages)[j] = ages[j]
  BY <1>1, YoungEnd
<1> QED
  BY <1>2, SeqEqual

\* The horizons beyond which ages need not be told apart are long enough.
LEMMA Horizons ==
  /\ LongAgo \in Nat /\ LongAgo > Hour /\ LongAgo >= ReconnectAfter
  /\ LongSpell \in Nat /\ LongSpell >= StaleExit
  /\ \A a \in Nat, b \in Nat : Max({a, b}) \in Nat
<1>1. {StaleAfter, ArtifactStaleAfter, StaleExit, Confirm, ReconnectAfter, Hour} \subseteq Nat
  BY FeedHealthAssumption DEF FeedHealthAssumption
<1>2. LongAgo = IF Hour + 1 >= ReconnectAfter THEN Hour + 1 ELSE ReconnectAfter
  BY <1>1, MaxOfTwo DEF LongAgo
<1>3. LongSpell = IF StaleExit >= ReconnectAfter THEN StaleExit ELSE ReconnectAfter
  BY <1>1, MaxOfTwo DEF LongSpell
<1>4. \A a \in Nat, b \in Nat : Max({a, b}) \in Nat
  BY MaxOfTwo
<1> QED
  BY <1>1, <1>2, <1>3, <1>4

\* A list of ages, each of them older.
Aged(later, ages) ==
  /\ later \in Seq(Nat) /\ Len(later) = Len(ages)
  /\ \A j \in 1..Len(ages) : later[j] = Older(ages[j], LongAgo)

Grown(grown, ages) ==
  /\ grown \in Seq(Nat) /\ Len(grown) = Len(ages)
  /\ \A j \in 1..Len(ages) : grown[j] = ages[j] + 1

\* The young of the list that has aged are the young of those that were young.
StaysYoung(later, grown, ages) ==
  /\ InOrder(later)
  /\ Young(later) = Young(grown)
  /\ \E k \in Nat : /\ Len(Young(grown)) + k = Len(Young(ages))
                    /\ \A j \in 1..Len(Young(grown)) :
                          Young(grown)[j] = Young(ages)[j + k] + 1
  /\ Young(grown) \in Seq(0..Hour)

\* While time passes, what is young is found among what was young.
LEMMA YoungLater ==
  ASSUME NEW ages \in Seq(0..LongAgo), InOrder(ages),
         NEW later, Aged(later, ages), NEW grown, Grown(grown, Young(ages))
  PROVE  StaysYoung(later, grown, ages)
<1>0. LongAgo \in Nat /\ Hour \in Nat /\ LongAgo > Hour
  BY FeedHealthAssumption, Horizons DEF FeedHealthAssumption
<1>a. PICK m \in Nat : /\ m = Len(ages) /\ ages \in [1..m -> 0..LongAgo]
                       /\ DOMAIN ages = 1..m /\ ages \in Seq(Nat)
  <2>1. Len(ages) \in Nat /\ ages \in [1..Len(ages) -> 0..LongAgo]
    BY LenProperties
  <2>2. ages \in Seq(Nat)
    BY <1>0
  <2> QED
    BY <2>1, <2>2
<1>b. \A j \in 1..m : ages[j] \in 0..LongAgo
  BY <1>a
<1>c. ASSUME NEW j \in 1..m
      PROVE  /\ later[j] = IF ages[j] < LongAgo THEN ages[j] + 1 ELSE LongAgo
             /\ later[j] \in 0..LongAgo
  <2>1. ages[j] \in 0..LongAgo /\ later[j] = Older(ages[j], LongAgo)
    BY <1>a, <1>b DEF Aged
  <2>2. ages[j] \in Off..LongAgo /\ ages[j] # Off
    BY <1>0, <2>1 DEF Off
  <2>3. Older(ages[j], LongAgo) = IF ages[j] < LongAgo THEN ages[j] + 1 ELSE LongAgo
    BY <1>0, <2>2, Ages
  <2> QED
    BY <1>0, <2>1, <2>3
<1>1. later \in Seq(Nat) /\ Len(later) = m
  BY <1>a DEF Aged
<1>d. ASSUME NEW j \in 1..m
      PROVE  /\ later[j] <= Hour => later[j] = ages[j] + 1
             /\ ages[j] > Hour => later[j] > Hour
             /\ later[j] > Hour => ages[j] + 1 > Hour
  <2>1. /\ ages[j] \in 0..LongAgo
        /\ later[j] = IF ages[j] < LongAgo THEN ages[j] + 1 ELSE LongAgo
    BY <1>b, <1>c
  <2> QED
    BY <1>0, <2>1
<1>2. InOrder(later)
  <2> SUFFICES ASSUME NEW p \in 1..m, NEW q \in 1..m, p < q PROVE later[p] >= later[q]
    BY <1>1 DEF InOrder
  <2>1. ages[p] >= ages[q] /\ ages[p] \in 0..LongAgo /\ ages[q] \in 0..LongAgo
    BY <1>a, <1>b DEF InOrder
  <2>2. /\ later[p] = IF ages[p] < LongAgo THEN ages[p] + 1 ELSE LongAgo
        /\ later[q] = IF ages[q] < LongAgo THEN ages[q] + 1 ELSE LongAgo
    BY <1>c
  <2> QED
    BY <1>0, <2>1, <2>2
<1>3. PICK i \in 1..(m + 1) : Cut(ages, i)
  BY <1>a, CutExists
<1>4. PICK l \in 1..(m + 1) : Cut(later, l)
  BY <1>1, <1>2, CutExists
<1>5. i <= l
  <2> SUFFICES ASSUME l < i PROVE FALSE
    BY <1>a
  <2>1. l \in 1..m
    BY <1>a
  <2>2. ages[l] > Hour /\ later[l] <= Hour
    BY <1>1, <1>3, <1>4, <2>1 DEF Cut
  <2>3. later[l] > Hour /\ later[l] \in 0..LongAgo
    BY <1>c, <1>d, <2>1, <2>2
  <2> QED
    BY <1>0, <2>2, <2>3
<1>6. /\ Young(ages) \in Seq(Nat) /\ Len(Young(ages)) = m + 1 - i
      /\ \A j \in 1..(m + 1 - i) : Young(ages)[j] = ages[i + j - 1]
  <2>0. ages \in Seq(Nat) /\ Cut(ages, i)
    BY <1>a, <1>3
  <2>1. /\ Young(ages) \in Seq(Nat) /\ Len(Young(ages)) = Len(ages) + 1 - i
        /\ \A j \in 1..(Len(ages) + 1 - i) :
              Young(ages)[j] = ages[i + j - 1] /\ Young(ages)[j] <= Hour
    BY <2>0, YoungEnd
  <2> QED
    BY <1>a, <2>1
<1>7. /\ Young(later) \in Seq(Nat) /\ Len(Young(later)) = m + 1 - l
      /\ \A j \in 1..(m + 1 - l) : Young(later)[j] = later[l + j - 1]
  <2>0. later \in Seq(Nat) /\ Cut(later, l)
    BY <1>1, <1>4
  <2>1. /\ Young(later) \in Seq(Nat) /\ Len(Young(later)) = Len(later) + 1 - l
        /\ \A j \in 1..(Len(later) + 1 - l) :
              Young(later)[j] = later[l + j - 1] /\ Young(later)[j] <= Hour
    BY <2>0, YoungEnd
  <2> QED
    BY <1>1, <2>1
<1>8. /\ grown \in Seq(Nat) /\ Len(grown) = m + 1 - i
      /\ \A j \in 1..(m + 1 - i) : grown[j] = ages[i + j - 1] + 1
  <2>1. m + 1 - i \in Nat /\ grown \in Seq(Nat) /\ Len(grown) = m + 1 - i
    BY <1>a, <1>6 DEF Grown
  <2> QED
    BY <1>6, <2>1 DEF Grown
<1> DEFINE g == l + 1 - i
<1>e. ASSUME NEW j \in 1..(m + 1 - i)
      PROVE  i + j - 1 \in 1..m /\ (j < g <=> i + j - 1 < l)
  BY <1>a, <1>e
<1>9. Cut(grown, g)
  <2>1. g \in 1..(m + 1 - i + 1)
    BY <1>a, <1>5
  <2>2. ASSUME NEW j \in 1..(m + 1 - i)
        PROVE  (j < g => grown[j] > Hour) /\ (j >= g => grown[j] <= Hour)
    <3> DEFINE k == i + j - 1
    <3>1. k \in 1..m /\ (j < g <=> k < l)
      BY <1>e, <2>2
    <3>2. grown[j] = ages[k] + 1
      BY <1>8, <2>2
    <3> HIDE DEF k
    <3>3. (k < l => later[k] > Hour) /\ (k >= l => later[k] <= Hour)
      BY <1>1, <1>4, <3>1 DEF Cut
    <3>4. (k < l => ages[k] + 1 > Hour) /\ (k >= l => ages[k] + 1 <= Hour)
      BY <1>d, <3>1, <3>3
    <3>5. k \in Int /\ l \in Int /\ j \in Int /\ g \in Int
      BY <1>a, <3>1, <2>1
    <3> QED
      BY <3>1, <3>2, <3>4, <3>5
  <2> QED
    BY <1>8, <2>1, <2>2 DEF Cut
<1>f. g \in Nat \ {0} /\ g <= m + 2 - i
  BY <1>a, <1>5
<1>10. /\ Young(grown) \in Seq(Nat) /\ Len(Young(grown)) = m + 1 - l
       /\ \A j \in 1..(m + 1 - l) : Young(grown)[j] = grown[g + j - 1] /\ Young(grown)[j] <= Hour
  <2>1. /\ Young(grown) \in Seq(Nat) /\ Len(Young(grown)) = Len(grown) + 1 - g
        /\ \A j \in 1..(Len(grown) + 1 - g) :
              Young(grown)[j] = grown[g + j - 1] /\ Young(grown)[j] <= Hour
    <3> HIDE DEF g
    <3> QED
      BY <1>8, <1>9, YoungEnd
  <2>2. Len(grown) + 1 - g = m + 1 - l
    BY <1>a, <1>8
  <2> HIDE DEF g
  <2> QED
    BY <2>1, <2>2
<1>11. ASSUME NEW j \in 1..(m + 1 - l)
       PROVE  /\ Young(grown)[j] \in 0..Hour
              /\ Young(grown)[j] = Young(ages)[j + (l - i)] + 1
              /\ Young(later)[j] = Young(grown)[j]
  <2> DEFINE k == l + j - 1
  <2>1. /\ g + j - 1 = j + (l - i) /\ j + (l - i) \in 1..(m + 1 - i)
        /\ i + (j + (l - i)) - 1 = k /\ k \in 1..m
    BY <1>a, <1>5
  <2>2. Young(grown)[j] = grown[j + (l - i)] /\ Young(grown)[j] <= Hour
    BY <1>10, <2>1
  <2>3. grown[j + (l - i)] = ages[k] + 1
    BY <1>8, <2>1
  <2>4. Young(ages)[j + (l - i)] = ages[k]
    BY <1>6, <2>1
  <2>5. Young(later)[j] = later[k]
    BY <1>7
  <2> HIDE DEF k
  <2>6. later[k] = ages[k] + 1
    <3>1. ages[k] + 1 <= Hour /\ ages[k] \in 0..LongAgo
      BY <1>b, <2>1, <2>2, <2>3
    <3> QED
      BY <1>0, <1>c, <2>1, <3>1
  <2> QED
    BY <1>0, <1>b, <2>1, <2>2, <2>3, <2>4, <2>5, <2>6
<1>12. Young(later) = Young(grown)
  BY <1>7, <1>10, <1>11, SeqEqual
<1>13. l - i \in Nat /\ Len(Young(grown)) + (l - i) = Len(Young(ages))
  BY <1>a, <1>5, <1>6, <1>10
<1>14. Young(grown) \in Seq(0..Hour)
  <2>1. m + 1 - l \in Nat
    BY <1>a
  <2>2. Young(grown) \in [1..(m + 1 - l) -> 0..Hour]
    BY <1>10, <1>11, <2>1
  <2> QED
    BY <2>1, <2>2, FunctionIsSequence
<1> QED
  BY <1>1, <1>2, <1>10, <1>a, <1>11, <1>12, <1>13, <1>14 DEF StaysYoung


(* Each step keeps the invariant *)

\* The phases of a day in their order.
LEMMA PhaseNames ==
  /\ ToSet(Phases) = {"bootstrap", "preopen", "grace", "open", "auction", "closed"}
  /\ Len(Phases) = 6
  /\ \A i \in 1..5 : Phases[i + 1] # "bootstrap"
  /\ \A i \in 1..5 : Phases[i + 1] = "preopen" => Phases[i] = "bootstrap"
  /\ \A i \in 1..5 : Phases[i + 1] \in {"grace"} => Phases[i] = "preopen"
  /\ \A i \in 1..5 : Phases[i + 1] \in {"open", "auction"} => Phases[i] \in {"grace", "open"}
  /\ \A i \in 1..5 : Phases[i + 1] \in ToSet(Phases)
BY DEF Phases, ToSet

\* Attempts in order, and the list of the hour in order too.
LEMMA TriesInOrder ==
  ASSUME HealthTypeOK, BudgetInv
  PROVE  /\ InOrder(tries) /\ tries \in Seq(Nat) /\ attempts \in Seq(Nat)
         /\ Len(tries) <= Len(attempts)
         /\ Len(tries) > 0 => tries[Len(tries)] = Last(attempts)
         /\ \A j \in 1..Len(tries) : tries[j] \in 0..Hour
<1>1. tries \in Seq(0..Hour) /\ attempts \in Seq(0..LongAgo)
  BY DEF HealthTypeOK
<1>2. /\ Len(tries) \in Nat /\ DOMAIN tries = 1..Len(tries)
      /\ \A j \in 1..Len(tries) : tries[j] \in 0..Hour
  BY <1>1, LenProperties, ElementOfSeq
<1>3. Hour \in Nat /\ LongAgo \in Nat /\ ReconnectAfter \in Nat
  BY FeedHealthAssumption, Horizons DEF FeedHealthAssumption
<1>4. tries \in Seq(Nat) /\ attempts \in Seq(Nat)
  BY <1>1, <1>3
<1>5. InOrder(tries)
  <2> SUFFICES ASSUME NEW i \in 1..Len(tries), NEW j \in 1..Len(tries), i < j
               PROVE  tries[i] >= tries[j]
    BY DEF InOrder
  <2>1. tries[i] - tries[j] >= ReconnectAfter
    BY <1>2 DEF BudgetInv, ReconnectsBounded
  <2> QED
    BY <1>2, <1>3, <2>1
<1>6. PICK c \in 1..(Len(attempts) + 1) : Cut(attempts, c)
  BY <1>4, CutExists DEF BudgetInv
<1>7. /\ Len(Young(attempts)) = Len(attempts) + 1 - c
      /\ \A j \in 1..(Len(attempts) + 1 - c) : Young(attempts)[j] = attempts[c + j - 1]
  <2>1. attempts \in Seq(Nat) /\ Cut(attempts, c)
    BY <1>4, <1>6
  <2>2. /\ Young(attempts) \in Seq(Nat) /\ Len(Young(attempts)) = Len(attempts) + 1 - c
        /\ \A j \in 1..(Len(attempts) + 1 - c) :
              Young(attempts)[j] = attempts[c + j - 1] /\ Young(attempts)[j] <= Hour
    BY <2>1, YoungEnd
  <2> QED
    BY <2>2
<1>8. tries = Young(attempts)
  BY DEF BudgetInv
<1>9. Len(attempts) \in Nat
  BY <1>4
<1>10. Len(tries) > 0 => tries[Len(tries)] = Last(attempts)
  BY <1>7, <1>8, <1>9 DEF Last
<1> QED
  BY <1>2, <1>4, <1>5, <1>7, <1>8, <1>9, <1>10

\* Time passing keeps the types: every age is capped at its horizon.
LEMMA ElapseTypes ==
  ASSUME HealthInv, Elapse
  PROVE  /\ transport' \in 0..StaleAfter /\ content' \in 0..StaleAfter
         /\ updated' \in [Names -> 0..ArtifactStaleAfter]
         /\ spell' \in Off..LongSpell /\ fresh' \in Off..Confirm
         /\ owed' \in 0..StaleExit /\ calm' \in 0..Confirm
<1>1. {StaleAfter, ArtifactStaleAfter, StaleExit, Confirm, LongSpell} \subseteq Nat
  BY FeedHealthAssumption, Horizons DEF FeedHealthAssumption
<1>2. \A h \in Nat, a \in Int : a \in 0..h => Older(a, h) \in 0..h
  <2> SUFFICES ASSUME NEW h \in Nat, NEW a \in 0..h PROVE Older(a, h) \in 0..h
    OBVIOUS
  <2>1. a \in Off..h /\ a # Off
    BY DEF Off
  <2> QED
    BY <2>1, Ages
<1>3. /\ transport \in 0..StaleAfter /\ content \in 0..StaleAfter
      /\ updated \in [Names -> 0..ArtifactStaleAfter]
      /\ owed \in 0..StaleExit /\ calm \in 0..Confirm
  BY DEF HealthInv, HealthTypeOK
<1>4. spell' \in Off..LongSpell
  <2>1. spell \in Off..LongSpell /\ spell' = Older(spell, LongSpell)
    BY DEF HealthInv, HealthTypeOK, Elapse
  <2> QED
    BY <1>1, <2>1, Ages
<1>5. fresh' \in Off..Confirm
  <2>1. fresh \in Off..Confirm /\ fresh' = Older(fresh, Confirm)
    BY DEF HealthInv, HealthTypeOK, Elapse
  <2> QED
    BY <1>1, <2>1, Ages
<1>6. updated' \in [Names -> 0..ArtifactStaleAfter]
  BY <1>1, <1>2, <1>3 DEF Elapse
<1>7. transport' \in 0..StaleAfter /\ content' \in 0..StaleAfter /\ calm' \in 0..Confirm
  BY <1>1, <1>2, <1>3 DEF Elapse
<1>8. owed' \in 0..StaleExit
  BY <1>1, <1>2, <1>3 DEF Elapse
<1> QED
  BY <1>4, <1>5, <1>6, <1>7, <1>8

\* Time passing ages both lists of attempts alike, and only the history drops the old.
LEMMA ElapseBudget ==
  ASSUME HealthInv, Elapse
  PROVE  /\ BudgetInv' /\ attempts' \in Seq(0..LongAgo) /\ tries' \in Seq(0..Hour)
         /\ Len(attempts') = Len(attempts)
<1>0. HealthTypeOK /\ BudgetInv
  BY DEF HealthInv
<1>1. attempts \in Seq(0..LongAgo) /\ InOrder(attempts) /\ tries = Young(attempts)
  BY <1>0 DEF HealthTypeOK, BudgetInv
<1>2. LongAgo \in Nat
  BY Horizons
<1>3. /\ Len(attempts) \in Nat /\ DOMAIN attempts = 1..Len(attempts)
      /\ \A j \in 1..Len(attempts) : attempts[j] \in 0..LongAgo
  BY <1>1, LenProperties, ElementOfSeq
<1>4. ASSUME NEW j \in 1..Len(attempts) PROVE Older(attempts[j], LongAgo) \in 0..LongAgo
  <2>1. attempts[j] \in Off..LongAgo /\ attempts[j] # Off
    BY <1>2, <1>3 DEF Off
  <2> QED
    BY <1>2, <2>1, Ages
<1>5. attempts' = [j \in 1..Len(attempts) |-> Older(attempts[j], LongAgo)]
  BY <1>3 DEF Elapse
<1>6. attempts' \in [1..Len(attempts) -> 0..LongAgo]
  BY <1>4, <1>5
<1>7. attempts' \in Seq(0..LongAgo) /\ Len(attempts') = Len(attempts)
  BY <1>3, <1>6, FunctionIsSequence
<1>8. Aged(attempts', attempts)
  <2>1. attempts' \in Seq(Nat)
    BY <1>2, <1>7
  <2> QED
    BY <1>5, <1>7, <2>1 DEF Aged
<1> DEFINE grown == [j \in DOMAIN tries |-> tries[j] + 1]
<1>9. /\ tries \in Seq(Nat) /\ Len(tries) \in Nat /\ DOMAIN tries = 1..Len(tries)
      /\ \A j \in 1..Len(tries) : tries[j] \in Nat
  <2>1. tries \in Seq(Nat)
    BY <1>0, TriesInOrder
  <2> QED
    BY <2>1, LenProperties, ElementOfSeq
<1>10. Grown(grown, tries)
  <2>1. grown \in [1..Len(tries) -> Nat]
    BY <1>9
  <2>2. \A j \in 1..Len(tries) : grown[j] = tries[j] + 1
    BY <1>9
  <2> HIDE DEF grown
  <2>3. grown \in Seq(Nat) /\ Len(grown) = Len(tries)
    BY <1>9, <2>1, FunctionIsSequence
  <2> QED
    BY <2>2, <2>3 DEF Grown
<1>11. tries' = Young(grown)
  BY DEF Elapse
<1> HIDE DEF grown
<1>12. /\ InOrder(attempts') /\ Young(attempts') = tries'
       /\ \E k \in Nat : /\ Len(tries') + k = Len(tries)
                         /\ \A j \in 1..Len(tries') : tries'[j] = tries[j + k] + 1
       /\ tries' \in Seq(0..Hour)
  <2>1. Grown(grown, Young(attempts))
    BY <1>1, <1>10
  <2>2. attempts \in Seq(0..LongAgo) /\ InOrder(attempts)
    BY <1>1
  <2>3. StaysYoung(attempts', grown, attempts)
    BY <1>8, <2>1, <2>2, YoungLater
  <2> QED
    BY <1>1, <1>11, <2>3 DEF StaysYoung
<1>13. ReconnectsBounded'
  <2>1. /\ Len(tries) <= ReconnectLimit /\ ReconnectLimit \in Nat /\ ReconnectAfter \in Nat
        /\ \A i, j \in 1..Len(tries) : i < j => tries[i] - tries[j] >= ReconnectAfter
    BY FeedHealthAssumption, <1>0, <1>9 DEF BudgetInv, ReconnectsBounded,
       FeedHealthAssumption
  <2>2. PICK k \in Nat : /\ Len(tries') + k = Len(tries)
                        /\ \A j \in 1..Len(tries') : tries'[j] = tries[j + k] + 1
    BY <1>12
  <2>3. Len(tries') \in Nat /\ DOMAIN tries' = 1..Len(tries')
    BY <1>12, LenProperties
  <2>4. ASSUME NEW i \in 1..Len(tries'), NEW j \in 1..Len(tries'), i < j
        PROVE  tries'[i] - tries'[j] >= ReconnectAfter
    <3>1. i + k \in 1..Len(tries) /\ j + k \in 1..Len(tries) /\ i + k < j + k
      BY <1>9, <2>2, <2>3, <2>4
    <3>2. tries[i + k] - tries[j + k] >= ReconnectAfter
      BY <2>1, <3>1
    <3> QED
      BY <1>9, <2>1, <2>2, <3>1, <3>2
  <2>5. Len(tries') <= ReconnectLimit
    BY <1>9, <2>1, <2>2, <2>3
  <2> QED
    BY <2>3, <2>4, <2>5 DEF ReconnectsBounded
<1> QED
  BY <1>7, <1>12, <1>13 DEF BudgetInv

\* What a pass makes of the spell is no older than what is owed.
LEMMA SpellIsOwed ==
  ASSUME HealthInv, CaptureExpected
  PROVE  /\ Spell \in Off..LongSpell /\ Fresh \in Off..Confirm
         /\ Spell <= owed \/ owed = StaleExit
<1>1. /\ spell \in Off..LongSpell /\ fresh \in Off..Confirm /\ owed \in 0..StaleExit
      /\ spell <= owed \/ owed = StaleExit
  BY DEF HealthInv, HealthTypeOK, SpellInv
<1>2. LongSpell \in Nat /\ Confirm \in Nat /\ StaleExit \in Nat
  BY FeedHealthAssumption, Horizons DEF FeedHealthAssumption
<1>3. Max({spell, 0}) = IF spell >= 0 THEN spell ELSE 0
  BY <1>1, <1>2, MaxOfTwo DEF Off
<1>4. Spell \in {spell, Off, Max({spell, 0})}
  BY DEF Spell
<1>5. Fresh \in {fresh, Off, 0}
  BY DEF Fresh, FreshNow
<1> QED
  BY <1>1, <1>2, <1>3, <1>4, <1>5 DEF Off

\* Of the state, what a pass of the grid does not touch.
LEMMA JudgeKeeps ==
  ASSUME HealthInv, Judge, up' \in BOOLEAN,
         attempts' \in Seq(0..LongAgo), Len(attempts') <= ReconnectLimit, tries' \in Seq(0..Hour)
  PROVE  HealthTypeOK' /\ SpellInv'
<1>1. /\ Spell \in Off..LongSpell /\ Fresh \in Off..Confirm
      /\ Spell <= owed \/ owed = StaleExit
  BY SpellIsOwed DEF Judge
<1>2. calm' \in 0..Confirm
  BY FeedHealthAssumption DEF HealthInv, HealthTypeOK, Judge, FeedHealthAssumption
<1>3. HealthTypeOK'
  <2>1. UNCHANGED <<phase, pipeline, ticked, transport, content, updated, owed>> /\ due' = FALSE
    BY DEF Judge, Pass, stamps
  <2> QED
    BY <1>1, <1>2, <2>1 DEF HealthInv, HealthTypeOK, Judge
<1>4. UNCHANGED <<phase, owed>> /\ CaptureExpected /\ spell' = Spell
  BY DEF Judge, Pass
<1>5. SpellInv'
  BY <1>1, <1>4 DEF SpellInv, CaptureExpected
<1> QED
  BY <1>3, <1>5

\* observe_feed_health with nothing to do but keep the spell.
LEMMA WaitKeeps ==
  ASSUME HealthInv, Wait
  PROVE  HealthInv'
<1>0. HealthTypeOK /\ BudgetInv /\ up \in BOOLEAN /\ ReconnectLimit \in Nat
  BY FeedHealthAssumption DEF HealthInv, HealthTypeOK, FeedHealthAssumption
<1>1. attempts' = attempts \/ attempts' = Recent
  BY DEF Wait
<1>2. UNCHANGED <<up, tries>> /\ Judge
  BY DEF Wait
<1>3. CASE attempts' = attempts
  <2>1. BudgetInv'
    BY <1>0, <1>2, <1>3 DEF BudgetInv, ReconnectsBounded
  <2>2. HealthTypeOK' /\ SpellInv'
    BY <1>0, <1>2, <1>3, JudgeKeeps DEF HealthTypeOK
  <2> QED
    BY <2>1, <2>2 DEF HealthInv
<1>4. CASE attempts' = Recent
  <2>1. attempts' = tries
    BY <1>0, <1>4 DEF Recent, BudgetInv
  <2>2. InOrder(tries) /\ tries \in Seq(Nat) /\ \A j \in 1..Len(tries) : tries[j] \in 0..Hour
    BY <1>0, TriesInOrder
  <2>3. Hour \in Nat /\ LongAgo \in Nat /\ Hour < LongAgo
    BY FeedHealthAssumption, Horizons DEF FeedHealthAssumption
  <2>4. Young(tries) = tries
    BY <2>2, <2>3, AllYoung
  <2>5. BudgetInv'
    BY <1>0, <1>2, <2>1, <2>2, <2>4 DEF BudgetInv, ReconnectsBounded
  <2>6. tries \in Seq(0..Hour) /\ Len(tries) <= ReconnectLimit
    BY <1>0 DEF HealthTypeOK, BudgetInv, ReconnectsBounded
  <2>7. tries \in Seq(0..LongAgo)
    BY <2>3, <2>6
  <2>8. HealthTypeOK' /\ SpellInv'
    BY <1>0, <1>2, <2>1, <2>6, <2>7, JudgeKeeps
  <2> QED
    BY <2>5, <2>8 DEF HealthInv
<1> QED
  BY <1>1, <1>3, <1>4

\* _try_reconnect: with fewer than the limit in the last hour one more stays within it, and it is
\* the youngest of both lists.
LEMMA ReconnectKeeps ==
  ASSUME HealthInv, Reconnect
  PROVE  HealthInv'
<1>0. HealthTypeOK /\ BudgetInv /\ up \in BOOLEAN
  BY DEF HealthInv, HealthTypeOK
<1>1. Recent = tries /\ tries \in Seq(0..Hour) /\ Len(tries) <= ReconnectLimit
  BY <1>0 DEF Recent, BudgetInv, HealthTypeOK, ReconnectsBounded
<1>2. /\ InOrder(tries) /\ tries \in Seq(Nat) /\ attempts \in Seq(Nat)
      /\ Len(tries) <= Len(attempts)
      /\ Len(tries) > 0 => tries[Len(tries)] = Last(attempts)
      /\ \A j \in 1..Len(tries) : tries[j] \in 0..Hour
  BY <1>0, TriesInOrder
<1>3. /\ Hour \in Nat /\ LongAgo \in Nat /\ Hour < LongAgo
      /\ ReconnectLimit \in Nat /\ ReconnectAfter \in Nat
  BY FeedHealthAssumption, Horizons DEF FeedHealthAssumption
<1>4. Len(tries) \in Nat /\ Len(tries) < ReconnectLimit /\ DOMAIN tries = 1..Len(tries)
  BY <1>1, <1>2 DEF Reconnect, BudgetLeft
<1> DEFINE list == Append(tries, 0)
<1>5. attempts' = list /\ tries' = list /\ Judge /\ up' = up
  BY <1>1 DEF Reconnect
<1>6. /\ list \in Seq(0..Hour) /\ list \in Seq(0..LongAgo) /\ list \in Seq(Nat)
      /\ Len(list) = Len(tries) + 1 /\ DOMAIN list = 1..(Len(tries) + 1)
      /\ \A j \in 1..Len(tries) : list[j] = tries[j]
      /\ list[Len(tries) + 1] = 0
  <2>1. list \in Seq(0..Hour) /\ list \in Seq(Nat)
    BY <1>1, <1>2, <1>3
  <2>2. list \in Seq(0..LongAgo)
    BY <1>3, <2>1
  <2> QED
    BY <1>2, <2>1, <2>2
<1> HIDE DEF list
<1>a. \A j \in 1..Len(tries) : tries[j] \in Nat /\ list[j] = tries[j]
  <2>1. \A j \in 1..Len(tries) : list[j] = tries[j]
    BY <1>6
  <2>2. \A j \in 1..Len(tries) : tries[j] \in 0..Hour
    BY <1>2
  <2> QED
    BY <2>1, <2>2
<1>7. \A j \in 1..Len(tries) : tries[j] >= ReconnectAfter
  <2> SUFFICES ASSUME NEW j \in 1..Len(tries) PROVE tries[j] >= ReconnectAfter
    OBVIOUS
  <2>1. attempts # <<>>
    BY <1>2, <1>4
  <2>2. Last(attempts) >= ReconnectAfter
    BY <2>1 DEF Reconnect, MayReconnect, Spaced
  <2>3. tries[j] >= tries[Len(tries)] \/ j = Len(tries)
    <3>1. Len(tries) \in 1..Len(tries)
      BY <1>4
    <3>2. j < Len(tries) => tries[j] >= tries[Len(tries)]
      BY <1>2, <3>1 DEF InOrder
    <3>3. j \in Int /\ Len(tries) \in Int /\ j <= Len(tries)
      BY <1>4
    <3>4. j < Len(tries) \/ j = Len(tries)
      BY <3>3
    <3> QED
      BY <3>2, <3>4
  <2>4. tries[j] \in Nat /\ tries[Len(tries)] \in Nat /\ tries[Len(tries)] = Last(attempts)
    BY <1>2, <1>4
  <2> QED
    BY <1>3, <2>2, <2>3, <2>4
<1>8. ReconnectsBounded'
  <2>1. ASSUME NEW i \in 1..(Len(tries) + 1), NEW j \in 1..(Len(tries) + 1), i < j
        PROVE  list[i] - list[j] >= ReconnectAfter
    <3>0. i \in 1..Len(tries)
      BY <1>4, <2>1
    <3>1. i \in 1..Len(tries) /\ list[i] = tries[i] /\ tries[i] \in Nat
      BY <1>a, <3>0
    <3>2. CASE j = Len(tries) + 1
      BY <1>3, <1>6, <1>7, <3>1, <3>2
    <3>3. CASE j # Len(tries) + 1
      <4>1. j \in 1..Len(tries) /\ list[j] = tries[j]
        BY <1>4, <1>6, <3>3
      <4>2. tries[i] - tries[j] >= ReconnectAfter
        BY <1>0, <1>4, <2>1, <3>1, <4>1 DEF BudgetInv, ReconnectsBounded
      <4> QED
        BY <3>1, <4>1, <4>2
    <3> QED
      BY <3>2, <3>3
  <2> QED
    BY <1>3, <1>4, <1>5, <1>6, <2>1 DEF ReconnectsBounded
<1>9. InOrder(list)
  <2> SUFFICES ASSUME NEW i \in 1..Len(list), NEW j \in 1..Len(list), i < j
               PROVE  list[i] >= list[j]
    BY DEF InOrder
  <2>0. i \in 1..Len(tries) /\ (j \in 1..Len(tries) \/ j = Len(tries) + 1)
    <3>1. Len(list) = Len(tries) + 1 /\ Len(tries) \in Nat
      BY <1>4, <1>6
    <3> QED
      BY <3>1
  <2>1. list[i] = tries[i] /\ tries[i] \in Nat
    BY <1>a, <2>0
  <2>2. (j \in 1..Len(tries) /\ list[j] = tries[j]) \/ list[j] = 0
    BY <1>6, <2>0
  <2> QED
    BY <1>2, <2>0, <2>1, <2>2 DEF InOrder
<1>10. Young(list) = list
  <2>1. \A j \in 1..Len(list) : list[j] <= Hour
    BY <1>2, <1>3, <1>4, <1>6
  <2> QED
    BY <1>6, <2>1, AllYoung
<1>11. BudgetInv'
  BY <1>5, <1>8, <1>9, <1>10 DEF BudgetInv
<1>12. HealthTypeOK' /\ SpellInv'
  <2>1. Len(list) <= ReconnectLimit
    BY <1>3, <1>4, <1>6
  <2> QED
    BY <1>0, <1>5, <1>6, <2>1, JudgeKeeps
<1> QED
  BY <1>11, <1>12 DEF HealthInv

\* Escalation ends the process and leaves both lists to it.
LEMMA EscalateKeeps ==
  ASSUME HealthInv, Escalate
  PROVE  HealthInv'
<1>1. HealthTypeOK' /\ SpellInv'
  BY JudgeKeeps DEF Escalate, HealthInv, HealthTypeOK
<1>2. BudgetInv'
  BY DEF Escalate, HealthInv, BudgetInv, ReconnectsBounded
<1> QED
  BY <1>1, <1>2 DEF HealthInv

\* The clock enters a phase: no spell is carried into the hours when frames are owed.
LEMMA NextPhaseKeeps ==
  ASSUME HealthInv, NextPhase
  PROVE  HealthInv'
<1>1. PICK i \in 1..5 : phase = Phases[i] /\ phase' = Phases[i + 1]
  BY PhaseNames DEF NextPhase
<1>2. UNCHANGED <<up, pipeline, ticked, transport, content, updated, spell, fresh, attempts,
                  due, owed, calm, tries>>
  BY DEF NextPhase, stamps, recovery, history
<1>3. HealthTypeOK' /\ BudgetInv'
  BY <1>1, <1>2, PhaseNames DEF HealthInv, HealthTypeOK, BudgetInv, ReconnectsBounded
<1>4. owed \in Nat /\ spell \in Int
  BY DEF HealthInv, HealthTypeOK, Off
<1>5. SpellInv'
  <2>0. SpellInv
    BY DEF HealthInv
  <2>1. phase' # "bootstrap" /\ phase' \in ToSet(Phases)
    BY <1>1, PhaseNames
  <2>2. CASE phase' = "preopen"
    <3>1. phase = "bootstrap"
      BY <1>1, <2>2, PhaseNames
    <3>2. spell = Off
      BY <2>0, <3>1 DEF SpellInv, CaptureExpected
    <3> QED
      BY <1>2, <1>4, <2>2, <3>2 DEF SpellInv, Off
  <2>3. CASE phase' = "grace"
    <3>1. phase = "preopen"
      BY <1>1, <2>3, PhaseNames
    <3>2. spell = Off \/ spell <= owed \/ owed = StaleExit
      BY <2>0, <3>1 DEF SpellInv
    <3> QED
      BY <1>2, <1>4, <2>3, <3>2 DEF SpellInv, Off
  <2>4. CASE phase' \in {"open", "auction"}
    <3>1. phase \in {"grace", "open"}
      BY <1>1, <2>4, PhaseNames
    <3> QED
      BY <1>2, <2>0, <2>4, <3>1 DEF SpellInv, CaptureExpected
  <2>5. CASE phase' = "closed"
    BY <2>5 DEF SpellInv, CaptureExpected
  <2> QED
    BY <2>1, <2>2, <2>3, <2>4, <2>5, PhaseNames
<1> QED
  BY <1>3, <1>5 DEF HealthInv

\* apply_ticks: ages start again, or the pipeline finds its first tick.
LEMMA BatchKeeps ==
  ASSUME HealthInv, NEW applied, NEW changed, Batch(applied, changed)
  PROVE  HealthInv'
<1>1. UNCHANGED <<phase, up, pipeline, spell, fresh, attempts, due, owed, calm, tries>>
  BY DEF Batch, recovery, history
<1>2. updated' \in [Names -> 0..ArtifactStaleAfter]
  BY FeedHealthAssumption DEF Batch, HealthInv, HealthTypeOK, FeedHealthAssumption
<1>3. ticked' \in BOOLEAN /\ transport' \in 0..StaleAfter /\ content' \in 0..StaleAfter
  BY FeedHealthAssumption DEF Batch, HealthInv, HealthTypeOK, FeedHealthAssumption
<1>4. HealthTypeOK'
  BY <1>1, <1>2, <1>3 DEF HealthInv, HealthTypeOK
<1> QED
  BY <1>1, <1>4 DEF HealthInv, BudgetInv, ReconnectsBounded, SpellInv, CaptureExpected

\* The facts about the constants that a process that was just started needs.
LEMMA FreshProcess ==
  /\ Young(<<>>) = <<>>
  /\ <<>> \in Seq(0..LongAgo) /\ <<>> \in Seq(0..Hour) /\ Len(<<>>) = 0
  /\ Off \in Off..LongSpell /\ Off \in Off..Confirm
  /\ 0 \in 0..StaleAfter /\ 0 \in 0..StaleExit /\ Confirm \in 0..Confirm
  /\ ArtifactStaleAfter \in 0..ArtifactStaleAfter /\ 0 <= ReconnectLimit
  /\ Off <= 0
<1>1. LongSpell \in Nat
  BY Horizons
<1>2. Young(<<>>) = <<>>
  <2>1. <<>> \in Seq(Nat) /\ \A j \in 1..Len(<<>>) : <<>>[j] <= Hour
    OBVIOUS
  <2> QED
    BY <2>1, AllYoung
<1> QED
  BY FeedHealthAssumption, <1>1, <1>2 DEF FeedHealthAssumption, Off

\* A new process before the open, without attempts.
LEMMA InitHealthInv ==
  ASSUME HealthInit
  PROVE  HealthInv
<1>1. HealthTypeOK
  BY FreshProcess, PhaseNames DEF HealthInit, HealthTypeOK
<1>2. BudgetInv
  BY FreshProcess DEF HealthInit, BudgetInv, InOrder, ReconnectsBounded
<1>3. SpellInv
  BY FreshProcess DEF HealthInit, SpellInv
<1> QED
  BY <1>1, <1>2, <1>3 DEF HealthInv

\* A new process has no spell and no attempts, and its history begins.
LEMMA BootKeeps ==
  ASSUME HealthInv, Boot
  PROVE  HealthInv'
<1>1. HealthTypeOK'
  BY FreshProcess DEF Boot, HealthTypeOK, HealthInv
<1>2. BudgetInv'
  BY FreshProcess DEF Boot, BudgetInv, InOrder, ReconnectsBounded
<1>3. SpellInv'
  BY FreshProcess DEF Boot, SpellInv
<1> QED
  BY <1>1, <1>2, <1>3 DEF HealthInv

\* Time passing keeps the invariant: a spell and what is owed grow together.
LEMMA ElapseKeeps ==
  ASSUME HealthInv, Elapse
  PROVE  HealthInv'
<1>1. BudgetInv'
  BY ElapseBudget
<1>2. HealthTypeOK'
  <2>1. UNCHANGED <<phase, up, pipeline, ticked>> /\ due' = TRUE
    BY DEF Elapse
  <2>2. Len(attempts') <= ReconnectLimit /\ attempts' \in Seq(0..LongAgo) /\ tries' \in Seq(0..Hour)
    BY ElapseBudget DEF HealthInv, HealthTypeOK
  <2> QED
    BY <2>1, <2>2, ElapseTypes DEF HealthInv, HealthTypeOK
<1>3. SpellInv'
  <2>1. /\ spell \in Off..LongSpell /\ owed \in 0..StaleExit
        /\ LongSpell \in Nat /\ StaleExit \in Nat /\ phase' = phase
    BY FeedHealthAssumption, Horizons DEF HealthInv, HealthTypeOK, Elapse,
       FeedHealthAssumption
  <2>2. /\ spell' \in Off..LongSpell
        /\ spell = Off => spell' = Off
        /\ spell # Off => spell' = IF spell < LongSpell THEN spell + 1 ELSE LongSpell
    BY <2>1, Ages DEF Elapse
  <2>3. CASE CaptureExpected
    <3>1. owed \in Off..StaleExit /\ owed # Off
      BY <2>1 DEF Off
    <3>2. owed' = IF owed < StaleExit THEN owed + 1 ELSE StaleExit
      BY <2>1, <2>3, <3>1, Ages DEF Elapse
    <3>3. spell <= owed \/ owed = StaleExit
      BY <2>3 DEF HealthInv, SpellInv
    <3>4. spell' <= owed' \/ owed' = StaleExit
      <4>1. CASE owed = StaleExit
        BY <2>1, <3>2, <4>1
      <4>2. CASE owed # StaleExit
        <5>1. owed' = owed + 1 /\ spell <= owed
          BY <2>1, <3>2, <3>3, <4>2
        <5>2. spell' <= spell + 1
          BY <2>1, <2>2 DEF Off
        <5>3. spell' \in Int /\ spell \in Int /\ owed \in Int
          BY <2>1, <2>2 DEF Off
        <5> QED
          BY <5>1, <5>2, <5>3
      <4> QED
        BY <4>1, <4>2
    <3> QED
      BY <2>1, <2>3, <3>4 DEF SpellInv, CaptureExpected
  <2>4. CASE ~CaptureExpected
    BY <2>1, <2>2, <2>4 DEF HealthInv, SpellInv, CaptureExpected
  <2> QED
    BY <2>3, <2>4
<1> QED
  BY <1>1, <1>2, <1>3 DEF HealthInv

\* The failures of the pipeline, and a pass outside the schedule.
LEMMA OtherHealthSteps ==
  ASSUME HealthInv, PipelineFails \/ PipelineDead \/ NotExpected
  PROVE  HealthInv'
<1>1. CASE PipelineFails \/ PipelineDead
  <2>1. UNCHANGED <<phase, ticked, transport, content, updated, spell, fresh, attempts, owed,
                    calm, tries>>
    BY <1>1 DEF PipelineFails, PipelineDead, Pass, stamps, recovery, history
  <2>2. up' \in BOOLEAN /\ pipeline' \in BOOLEAN /\ due' \in BOOLEAN
    BY <1>1 DEF PipelineFails, PipelineDead, Pass, HealthInv, HealthTypeOK
  <2> QED
    BY <2>1, <2>2 DEF HealthInv, HealthTypeOK, BudgetInv, ReconnectsBounded, SpellInv,
       CaptureExpected
<1>2. CASE NotExpected
  <2>1. /\ UNCHANGED <<phase, up, pipeline, ticked, transport, content, updated, attempts, owed,
                       calm, tries>>
        /\ ~CaptureExpected /\ spell' = Off /\ fresh' = Off /\ due' = FALSE
    BY <1>2 DEF NotExpected, Pass, stamps
  <2>3. HealthTypeOK'
    BY <2>1, FreshProcess DEF HealthInv, HealthTypeOK
  <2>4. BudgetInv' /\ SpellInv'
    BY <2>1 DEF HealthInv, BudgetInv, ReconnectsBounded, SpellInv, CaptureExpected
  <2> QED
    BY <2>3, <2>4 DEF HealthInv
<1> QED
  BY <1>1, <1>2

\* Every step of the feed's health keeps its invariant, one case per action.
LEMMA HealthStep ==
  ASSUME HealthInv, [HealthNext]_healthVars
  PROVE  HealthInv'
<1>1. CASE UNCHANGED healthVars
  BY <1>1 DEF healthVars, stamps, recovery, history, HealthInv, HealthTypeOK, BudgetInv,
     ReconnectsBounded, SpellInv, CaptureExpected
<1>2. CASE HealthNext
  <2>1. CASE \E applied \in SUBSET Tokens, changed \in BOOLEAN : Batch(applied, changed)
    BY <2>1, BatchKeeps
  <2> QED
    BY <1>2, <2>1, ElapseKeeps, NextPhaseKeeps, BootKeeps, WaitKeeps, ReconnectKeeps,
       EscalateKeeps, OtherHealthSteps DEF HealthNext
<1> QED
  BY <1>1, <1>2

\* Whatever the feed and the clock do, and for every horizon, limit and set of artifacts: the
\* strengthening of the budget and of the spell holds throughout.
THEOREM HealthInvariance == HealthSpec => []HealthInv
<1>1. HealthInit => HealthInv
  BY InitHealthInv
<1>2. HealthInv /\ [HealthNext]_healthVars => HealthInv'
  BY HealthStep
<1> QED
  BY <1>1, <1>2, PTL DEF HealthSpec

\* _try_reconnect replaces no more sockets in any trailing hour than reconnect_limit_per_hour,
\* though the process prunes its list only when it looks at it.
THEOREM ReconnectStaysInBudget == HealthSpec => []ReconnectBudgetKept
<1>1. HealthInv => ReconnectBudgetKept
  BY DEF HealthInv, BudgetInv, ReconnectBudgetKept
<1> QED
  BY <1>1, HealthInvariance, PTL

\* The process is restarted for a stale feed only when frames have been owed for the whole of
\* stale_exit_ms: no spell is carried over from hours when nothing was expected.
THEOREM RestartsAreOwed == HealthSpec => RestartIsOwed
<1>1. HealthInv /\ [HealthNext]_healthVars => [Restarts => owed = StaleExit]_healthVars
  <2> SUFFICES ASSUME HealthInv, HealthNext, Restarts PROVE owed = StaleExit
    OBVIOUS
  <2>1. Escalate
    BY DEF HealthNext, Restarts, Elapse, NextPhase, PipelineFails, Boot, Batch,
       PipelineDead, NotExpected, Wait, Reconnect
  <2>2. CaptureExpected /\ Spell >= StaleExit
    BY <2>1 DEF Escalate, Judge, Deadline
  <2>3. Spell \in Off..LongSpell /\ (Spell <= owed \/ owed = StaleExit)
    BY <2>2, SpellIsOwed
  <2>4. owed \in 0..StaleExit /\ StaleExit \in Nat
    BY FeedHealthAssumption DEF HealthInv, HealthTypeOK, FeedHealthAssumption
  <2> QED
    BY <2>2, <2>3, <2>4 DEF Off
<1> QED
  BY <1>1, HealthInvariance, PTL DEF HealthSpec, RestartIsOwed

-----------------------------------------------------------------------------
(* The broker session                                                      *)

\* What the holder of the lock knows.  It is of a date that has come; the token it will store
\* is one; a swap is of the token the capture still runs on, for another; a removal is of the
\* session that capture read, and any other operation found its date without a session; and
\* the rate about to be written is the day's or the newest on record.  md-login may have
\* made the last three untrue since.
HolderInv ==
  /\ op.kind = "idle" => op = Idle
  /\ op.kind # "idle" => op.day \in Days /\ op.day <= today
  /\ op.kind \in {"swap", "save", "write"} => op.token # 0
  /\ op.kind \in {"fetch", "exchange"} => op.expected = 0
  /\ op.kind \in {"swap", "drop"} => op.expected # 0
  /\ op.expected # 0 => op.expected = feed /\ op.day = today /\ op.token # feed
  /\ op.kind = "drop" =>
       /\ op.token = 0 => feed \notin alive
       /\ ~op.raced => files[op.day].token = feed
  /\ op.kind # "idle" /\ op.expected = 0 /\ op.day = today /\ ~op.raced => files[op.day].token = 0
  /\ op.kind = "write" => op.asOf \in 0..op.day /\ (op.raced \/ op.asOf \in RateFor(op.day))

\* No login attempt or prompt of md-login is of a date that has not come, and no rate is of a
\* date after that of the file it is in.
DatesInv ==
  /\ attempt # NoAttempt => attempt.day \in Days /\ attempt.day <= today
  /\ cli <= today
  /\ \A d \in Days : files[d].asOf <= d

SessionInv == SessionTypeOK /\ HolderInv /\ DatesInv

\* A nonempty set of bounded naturals has a largest element, which is its Max.
LEMMA MaxBounded ==
  ASSUME NEW T, T \subseteq Nat, T # {}, NEW b \in Nat, \A x \in T : x <= b
  PROVE  Max(T) \in T /\ \A y \in T : y <= Max(T)
<1> DEFINE U == {b - x : x \in T}
<1>1. U \subseteq Nat
  <2>1. ASSUME NEW x \in T PROVE b - x \in Nat
    OBVIOUS
  <2> QED
    BY <2>1
<1>2. U # {}
  OBVIOUS
<1>3. PICK u \in U : \A v \in U : u <= v
  BY <1>1, <1>2, LeastElement
<1>4. PICK x \in T : u = b - x
  BY <1>3
<1>5. ASSUME NEW y \in T PROVE x >= y
  <2>1. b - y \in U
    OBVIOUS
  <2>2. b - x <= b - y
    BY <2>1, <1>3, <1>4
  <2> QED
    BY <2>2
<1>6. \E z \in T : \A y \in T : z >= y
  BY <1>5
<1>7. Max(T) \in T /\ \A y \in T : Max(T) >= y
  BY <1>6 DEF Max
<1> QED
  BY <1>7


(* Files and rates *)

\* The rates on record are dates.
LEMMA RatesAreDates ==
  ASSUME SessionTypeOK, NEW d \in Days
  PROVE  OnRecord(d) \subseteq Nat /\ d \in Nat /\ \A q \in OnRecord(d) : q <= d
<1>1. MaxDay \in Nat /\ Days = 1..MaxDay
  BY SessionAssumption DEF Days, SessionAssumption
<1>2. \A e \in Days : files[e].asOf \in Nat
  BY <1>1 DEF SessionTypeOK
<1>3. retired \subseteq Nat
  BY <1>1 DEF SessionTypeOK
<1>4. ASSUME NEW q \in OnRecord(d) PROVE q \in Nat /\ q <= d
  <2>1. q \in retired \/ \E e \in Days : q = files[e].asOf
    BY DEF OnRecord
  <2>2. q <= d
    BY DEF OnRecord
  <2> QED
    BY <1>2, <1>3, <2>1, <2>2
<1> QED
  BY <1>1, <1>4

\* The newest rate on record: none if there is none, else it is on record and none is newer.
LEMMA NewestRate ==
  ASSUME SessionTypeOK, NEW day \in Days
  PROVE  /\ LatestRate(day) \in 0..day
         /\ OnRecord(day) # {} =>
              LatestRate(day) \in OnRecord(day) /\ \A q \in OnRecord(day) : q <= LatestRate(day)
<1>1. OnRecord(day) \subseteq Nat /\ day \in Nat /\ \A q \in OnRecord(day) : q <= day
  BY RatesAreDates
<1>2. LatestRate(day) = IF OnRecord(day) = {} THEN 0 ELSE Max(OnRecord(day))
  BY DEF LatestRate, OnRecord
<1>3. CASE OnRecord(day) = {}
  BY <1>1, <1>2, <1>3
<1>4. CASE OnRecord(day) # {}
  <2>1. Max(OnRecord(day)) \in OnRecord(day) /\ \A q \in OnRecord(day) : q <= Max(OnRecord(day))
    BY <1>1, <1>4, MaxBounded
  <2> QED
    BY <1>1, <1>2, <1>4, <2>1
<1> QED
  BY <1>3, <1>4

\* What the files hold.
FilesInv ==
  /\ files \in [Days -> [token : 0..issued, asOf : 0..MaxDay]]
  /\ \A d \in Days : files[d].token = 0 => files[d] = Absent
  /\ \A d \in Days : files[d].asOf <= d
  /\ retired \subseteq Days

\* save_session writes a session of the date, with a rate no younger than that.
LEMMA SaveKeeps ==
  ASSUME FilesInv, NEW day \in Days, NEW token, NEW asOf \in 0..day,
         issued \in Nat, issued' \in Nat, issued <= issued', token \in 1..issued',
         Save(day, token, asOf)
  PROVE  FilesInv'
<1>1. MaxDay \in Nat /\ Days = 1..MaxDay
  BY SessionAssumption DEF Days, SessionAssumption
<1>2. [token |-> token, asOf |-> asOf] \in [token : 0..issued', asOf : 0..MaxDay]
  BY <1>1
<1>3. files \in [Days -> [token : 0..issued', asOf : 0..MaxDay]]
  <2>1. 0..issued \subseteq 0..issued'
    OBVIOUS
  <2>2. [token : 0..issued, asOf : 0..MaxDay] \subseteq [token : 0..issued', asOf : 0..MaxDay]
    BY <2>1
  <2> QED
    BY <2>2 DEF FilesInv
<1>4. files' \in [Days -> [token : 0..issued', asOf : 0..MaxDay]]
  BY <1>2, <1>3 DEF Save
<1>5. ASSUME NEW d \in Days
      PROVE  /\ files'[d].token = 0 => files'[d] = Absent
             /\ files'[d].asOf <= d
  <2>1. CASE d = day
    <3>1. files'[d] = [token |-> token, asOf |-> asOf]
      BY <1>3, <2>1 DEF Save
    <3> QED
      BY <1>1, <2>1, <3>1
  <2>2. CASE d # day
    BY <1>3, <2>2 DEF Save, FilesInv
  <2> QED
    BY <2>1, <2>2
<1>6. retired' \subseteq Days
  BY DEF Save, FilesInv
<1> QED
  BY <1>4, <1>5, <1>6 DEF FilesInv, Absent

\* The rename takes a session away or finds none.
LEMMA RetireKeeps ==
  ASSUME FilesInv, NEW day \in Days, issued \in Nat, issued' = issued, Retire(day)
  PROVE  FilesInv'
<1>1. MaxDay \in Nat /\ Days = 1..MaxDay
  BY SessionAssumption DEF Days, SessionAssumption
<1>2. CASE files' = files /\ retired' = retired
  BY <1>2 DEF FilesInv, Absent
<1>3. CASE /\ files' = [files EXCEPT ![day] = Absent]
           /\ retired' = retired \cup ({files[day].asOf} \ {0})
  <2>1. Absent \in [token : 0..issued, asOf : 0..MaxDay] /\ Absent.asOf = 0
    BY <1>1 DEF Absent
  <2>2. files' \in [Days -> [token : 0..issued', asOf : 0..MaxDay]]
    BY <1>3, <2>1 DEF FilesInv
  <2>3. \A d \in Days : files'[d] = IF d = day THEN Absent ELSE files[d]
    BY <1>3 DEF FilesInv
  <2>4. files[day].asOf \in 0..MaxDay
    BY DEF FilesInv
  <2>5. retired' \subseteq Days
    <3>1. {files[day].asOf} \ {0} \subseteq Days
      BY <1>1, <2>4
    <3> QED
      BY <1>3, <3>1 DEF FilesInv
  <2>6. \A d \in Days : (files'[d].token = 0 => files'[d] = Absent) /\ files'[d].asOf <= d
    <3> SUFFICES ASSUME NEW d \in Days
                 PROVE  (files'[d].token = 0 => files'[d] = Absent) /\ files'[d].asOf <= d
      OBVIOUS
    <3>1. CASE d = day
      <4>1. files'[d] = Absent /\ 0 <= d
        BY <1>1, <2>3, <3>1
      <4> QED
        BY <2>1, <4>1
    <3>2. CASE d # day
      BY <2>3, <3>2 DEF FilesInv
    <3> QED
      BY <3>1, <3>2
  <2> QED
    BY <2>2, <2>5, <2>6 DEF FilesInv, Absent
<1> QED
  BY <1>2, <1>3 DEF Retire, disk

\* A session stored with a rate of its date or the newest one keeps the newest rate of
\* every later date on record.
LEMMA SaveKeepsRates ==
  ASSUME SessionTypeOK, FilesInv, NEW day \in Days, NEW token, NEW asOf \in RateFor(day),
         Save(day, token, asOf), NEW d \in Days, day <= d, OnRecord(d) # {}
  PROVE  \E r \in OnRecord(d)' : \A q \in OnRecord(d) : q <= r
<1>1. Days \subseteq Nat /\ 0 \notin Days
  BY SessionAssumption DEF Days, SessionAssumption
<1>2. OnRecord(d) \subseteq Nat /\ d \in Nat /\ \A q \in OnRecord(d) : q <= d
  BY RatesAreDates
<1>3. PICK m \in OnRecord(d) : \A q \in OnRecord(d) : q <= m
  BY <1>2, MaxBounded
<1>4. m \in Nat /\ 0 < m /\ m <= d
  BY <1>2 DEF OnRecord
<1>5. \A e \in Days : files'[e] = IF e = day THEN [token |-> token, asOf |-> asOf] ELSE files[e]
  BY DEF Save, FilesInv
<1>6. retired' = retired
  BY DEF Save
<1>7. CASE m \in retired \/ \E e \in Days \ {day} : m = files[e].asOf
  <2>1. m \in OnRecord(d)'
    BY <1>4, <1>5, <1>6, <1>7 DEF OnRecord
  <2> QED
    BY <1>3, <2>1
<1>8. CASE m = files[day].asOf
  <2>1. m <= day /\ day \in Nat /\ d \in Nat
    BY <1>1, <1>8 DEF FilesInv
  <2>2. m \in OnRecord(day)
    BY <1>4, <1>8, <2>1 DEF OnRecord
  <2>3. asOf \in 0..day /\ m <= asOf
    <3>1. CASE asOf = day
      BY <2>1, <3>1
    <3>2. CASE asOf = LatestRate(day)
      BY <2>2, <3>2, NewestRate
    <3> QED
      BY <3>1, <3>2 DEF RateFor
  <2>4. asOf \in {files'[e].asOf : e \in Days}
    BY <1>5
  <2>5. asOf \in OnRecord(d)'
    BY <1>4, <2>1, <2>3, <2>4 DEF OnRecord
  <2>6. \A q \in OnRecord(d) : q <= asOf
    BY <1>2, <1>3, <1>4, <2>3
  <2> QED
    BY <2>5, <2>6
<1> QED
  BY <1>7, <1>8 DEF OnRecord

\* The rename leaves every rate on record: the session's is retired with it.
LEMMA RetireKeepsRates ==
  ASSUME SessionTypeOK, NEW day \in Days, Retire(day), NEW d \in Days
  PROVE  /\ OnRecord(d) \subseteq OnRecord(d)'
         /\ \A e \in Days : files'[e] = files[e] \/ files'[e].token = 0
<1>1. CASE files' = files /\ retired' = retired
  BY <1>1 DEF OnRecord
<1>2. CASE /\ files' = [files EXCEPT ![day] = Absent]
           /\ retired' = retired \cup ({files[day].asOf} \ {0})
  <2>1. \A e \in Days : files'[e] = IF e = day THEN Absent ELSE files[e]
    BY <1>2 DEF SessionTypeOK
  <2>2. \A e \in Days : files[e].asOf \in retired' \cup {0} \/ files'[e] = files[e]
    BY <1>2, <2>1
  <2>3. OnRecord(d) \subseteq OnRecord(d)'
    <3> SUFFICES ASSUME NEW q \in OnRecord(d) PROVE q \in OnRecord(d)'
      OBVIOUS
    <3>1. q \in retired \/ \E e \in Days : q = files[e].asOf
      BY DEF OnRecord
    <3>2. 0 < q /\ q <= d
      BY DEF OnRecord
    <3>3. q # 0
      BY <3>2
    <3>4. q \in retired' \/ \E e \in Days : q = files'[e].asOf
      BY <1>2, <2>2, <3>1, <3>3
    <3> QED
      BY <3>2, <3>4 DEF OnRecord
  <2> QED
    BY <2>1, <2>3 DEF Absent
<1> QED
  BY <1>1, <1>2 DEF Retire, disk


(* What a step does to the files *)

\* The cases: nothing; md-login's session; the session the holder of the lock writes, of a
\* date that has come and with a rate if there is one; the removal it has decided on.
CliStores ==
  /\ cli \in Days /\ cli' = 0
  /\ \E token \in 1..issued', asOf \in 0..cli : Save(cli, token, asOf)

Stores ==
  /\ cli' = cli /\ op.kind = "write" /\ op.day \in Days /\ op.day <= today
  /\ files[op.day].token = 0 \/ op.day < today \/ op.expected # 0 \/ op.raced
  /\ op.token \in 1..issued' /\ op.asOf \in 0..op.day /\ (op.raced \/ op.asOf \in RateFor(op.day))
  /\ Save(op.day, op.token, op.asOf)

Removes ==
  /\ cli' = cli /\ issued' = issued /\ op.kind = "drop" /\ op.day = today
  /\ \/ op.raced
     \/ files[today].token = feed /\ (feed \notin alive \/ op.token \notin {0, feed})
  /\ Retire(today)

DiskStep == UNCHANGED disk \/ CliStores \/ Stores \/ Removes

\* What the types say of the clock, of the tokens and of the files.
LEMMA Worlds ==
  ASSUME SessionInv
  PROVE  /\ MaxDay \in Nat /\ MaxTokens \in Nat /\ Days = 1..MaxDay /\ today \in Days
         /\ issued \in Nat /\ revoked \in Nat /\ revoked <= issued /\ issued <= MaxTokens
         /\ alive \subseteq 1..issued /\ offered \in 0..issued
         /\ FilesInv
<1>1. MaxDay \in Nat /\ MaxTokens \in Nat /\ Days = 1..MaxDay
  BY SessionAssumption DEF Days, SessionAssumption
<1>2. /\ issued \in 0..MaxTokens /\ revoked \in 0..issued /\ today \in Days
      /\ offered \in 0..issued
  BY DEF SessionInv, SessionTypeOK
<1>3. alive \subseteq 1..issued
  BY <1>1, <1>2 DEF alive
<1>4. FilesInv
  BY DEF SessionInv, SessionTypeOK, DatesInv, FilesInv
<1> QED
  BY <1>1, <1>2, <1>3, <1>4

\* Tokens and dates only grow.
LEMMA IssuedGrows ==
  ASSUME SessionInv, [SessionNext]_sessionVars
  PROVE  issued' \in 0..MaxTokens /\ issued <= issued' /\ today' \in Days /\ today <= today'
<1>1. \/ UNCHANGED <<issued, today>>
      \/ Exchange /\ today' = today
      \/ today < MaxDay /\ today' = today + 1 /\ issued' = issued
  BY DEF SessionNext, sessionVars, disk, service, world, AcquireStart, AcquireFetched,
     AcquireRefused, RefreshStart, RefreshCompares, TickerRejected, SessionDropped,
     ResolveRate, SessionWritten, SaveFails, Killed, StartCapture, StopCapture,
     StartShared, StartPassword, SubmitTotp, CancelLogin, CompleteLogin, ManualLogin,
     LoginExchanged, LoginFails, CliChecks, CliSaves, CliFails, DayPasses, BrokerLogin,
     BrokerForgets, KiteRevokes
<1> QED
  BY <1>1, Worlds DEF Exchange, MayIssue

\* Every step leaves the files, writes or removes what the holder of the lock has decided to, or
\* is md-login's.
LEMMA SessionDiskStep ==
  ASSUME SessionInv, SessionNext
  PROVE  DiskStep
<1>w. /\ MaxDay \in Nat /\ MaxTokens \in Nat /\ Days = 1..MaxDay /\ today \in Days
      /\ issued \in Nat /\ FilesInv
  BY Worlds
<1>i. issued' \in Nat /\ issued <= issued'
  BY IssuedGrows, <1>w
<1>o. /\ op.token \in 0..issued /\ op.day \in 0..MaxDay /\ HolderInv
  BY DEF SessionInv, SessionTypeOK
<1>1. CASE SessionWritten
  <2>1. op.kind = "write" /\ cli' = cli /\ Save(op.day, op.token, op.asOf)
    BY <1>1 DEF SessionWritten
  <2>2. /\ op.day \in Days /\ op.day <= today
        /\ files[op.day].token = 0 \/ op.day < today \/ op.expected # 0 \/ op.raced
    BY <1>w, <1>o, <2>1 DEF HolderInv
  <2>3. op.token \in 1..issued' /\ op.asOf \in 0..op.day /\ (op.raced \/ op.asOf \in RateFor(op.day))
    BY <1>w, <1>i, <1>o, <2>1 DEF HolderInv
  <2> QED
    BY <2>1, <2>2, <2>3 DEF DiskStep, Stores
<1>2. CASE SessionDropped
  <2>1. op.kind = "drop" /\ op.expected = feed /\ op.day = today
    BY <1>o, <1>2 DEF SessionDropped, HolderInv
  <2>2. op.raced \/ (files[today].token = feed /\ (feed \notin alive \/ op.token \notin {0, feed}))
    BY <1>o, <2>1 DEF HolderInv
  <2> QED
    BY <1>2, <2>1, <2>2 DEF SessionDropped, DiskStep, Removes, world
<1>3. CASE CliSaves
  <2>1. cli \in Days
    BY <1>w, <1>3 DEF CliSaves, SessionInv, SessionTypeOK
  <2>2. issued + 1 \in 1..issued' /\ cli' = 0 /\ \E asOf \in {0, cli} : Save(cli, issued + 1, asOf)
    BY <1>w, <1>3 DEF CliSaves, Exchange
  <2>3. 0 \in 0..cli /\ cli \in 0..cli
    BY <1>w, <2>1
  <2> QED
    BY <2>1, <2>2, <2>3 DEF DiskStep, CliStores
<1>4. CASE UNCHANGED disk
  BY <1>4 DEF DiskStep
<1> QED
  BY <1>1, <1>2, <1>3, <1>4 DEF SessionNext, AcquireStart, AcquireFetched, AcquireRefused,
     RefreshStart, RefreshCompares, TickerRejected, ResolveRate, SaveFails, Killed,
     StartCapture, StopCapture, StartShared, StartPassword, SubmitTotp, CancelLogin,
     CompleteLogin, ManualLogin, LoginExchanged, LoginFails, CliChecks, CliFails,
     DayPasses, BrokerLogin, BrokerForgets, KiteRevokes

\* Steps of that kind keep the files' types, and their rates no younger than their dates.
LEMMA SessionFiles ==
  ASSUME SessionInv, DiskStep, [SessionNext]_sessionVars
  PROVE  FilesInv'
<1>w. /\ MaxDay \in Nat /\ Days = 1..MaxDay /\ today \in Days
      /\ issued \in Nat /\ FilesInv /\ SessionTypeOK
  BY Worlds DEF SessionInv
<1>i. issued' \in Nat /\ issued <= issued'
  BY IssuedGrows, <1>w
<1>1. CASE UNCHANGED disk
  <2>1. files' = files /\ retired' = retired
    BY <1>1 DEF disk
  <2>2. files \in [Days -> [token : 0..issued', asOf : 0..MaxDay]]
    BY <1>w, <1>i DEF FilesInv
  <2> QED
    BY <1>w, <2>1, <2>2 DEF FilesInv, Absent
<1>2. CASE CliStores
  <2>1. PICK token \in 1..issued', asOf \in 0..cli : Save(cli, token, asOf)
    BY <1>2 DEF CliStores
  <2> QED
    BY <1>2, <1>w, <1>i, <2>1, SaveKeeps DEF CliStores
<1>3. CASE Stores
  BY <1>3, <1>w, <1>i, SaveKeeps DEF Stores
<1>4. CASE Removes
  BY <1>4, <1>w, RetireKeeps DEF Removes
<1> QED
  BY <1>1, <1>2, <1>3, <1>4 DEF DiskStep


(* The holder of the lock, the attempt and the rest *)

\* A number below the start of an interval is below every later start.
LEMMA Below ==
  ASSUME NEW f \in Nat, NEW r \in Nat, NEW s \in Nat, NEW n \in Nat, r < s, f <= r
  PROVE  f \notin (s + 1)..n
OBVIOUS

\* What the holder of the lock knows is true when it gets there, and stays so while others act.
LEMMA SessionHolder ==
  ASSUME SessionInv, SessionNext
  PROVE  /\ HolderInv'
         /\ op' \in [kind : {"idle", "fetch", "exchange", "swap", "drop", "save", "write"},
                     day : 0..MaxDay, token : 0..issued', asOf : 0..MaxDay,
                     expected : 0..issued', raced : BOOLEAN]
<1> DEFINE Kinds == {"idle", "fetch", "exchange", "swap", "drop", "save", "write"}
           Ops(n) == [kind : Kinds, day : 0..MaxDay, token : 0..n, asOf : 0..MaxDay,
                      expected : 0..n, raced : BOOLEAN]
<1>w. /\ MaxDay \in Nat /\ Days = 1..MaxDay /\ today \in Days /\ issued \in Nat
      /\ alive \subseteq 1..issued
  BY Worlds
<1>i. issued' \in Nat /\ issued <= issued' /\ today' \in Days /\ today <= today'
  BY IssuedGrows, <1>w
<1>o. op \in Ops(issued) /\ op \in Ops(issued') /\ HolderInv /\ feed \in 0..issued
  <2>1. op \in Ops(issued) /\ HolderInv /\ feed \in 0..issued
    BY DEF SessionInv, SessionTypeOK
  <2>2. 0..issued \subseteq 0..issued'
    BY <1>w, <1>i
  <2>3. Ops(issued) \subseteq Ops(issued')
    BY <2>2
  <2> QED
    BY <2>1, <2>3
<1>a. \A token \in alive : token \in 1..issued'
  BY <1>w, <1>i
<1>n. Idle \in Ops(issued') /\ Idle.kind = "idle" /\ Idle.expected = 0
  BY <1>w, <1>i DEF Idle
<1>d. LockFree => op.kind = "idle" /\ op.expected = 0
  BY <1>n DEF LockFree
<1>e. today \in 0..MaxDay /\ today <= today /\ 0 \in 0..MaxDay
  BY <1>w
<1>1. CASE op' = Idle
  BY <1>n, <1>1 DEF HolderInv
<1>2. CASE AcquireStart
  <2>0. UNCHANGED <<files, retired, today, feed, revoked, issued>>
    BY <1>2 DEF AcquireStart, disk, world
  <2>1. CASE op' = op
    BY <1>o, <1>d, <1>n, <1>2, <2>1 DEF AcquireStart, HolderInv, LockFree
  <2>2. ASSUME NEW kind \in {"save", "fetch"}, NEW token \in 0..issued', kind = "save" => token # 0,
               op' = [kind |-> kind, day |-> today, token |-> token, asOf |-> 0,
                      expected |-> 0, raced |-> FALSE],
               files[today].token = 0
        PROVE  op' \in Ops(issued') /\ HolderInv'
    <3>1. op' \in Ops(issued')
      BY <1>e, <1>i, <2>2
    <3> QED
      BY <1>w, <1>e, <2>0, <2>2, <3>1 DEF HolderInv
  <2>3. ASSUME NEW previous \in alive,
               op' = [Idle EXCEPT !.kind = "save", !.day = today, !.token = previous],
               files[today].token = 0
        PROVE  op' \in Ops(issued') /\ HolderInv'
    <3>1. op' = [kind |-> "save", day |-> today, token |-> previous, asOf |-> 0,
                 expected |-> 0, raced |-> FALSE]
      BY <2>3 DEF Idle
    <3>2. previous \in 0..issued' /\ previous # 0
      BY <1>a
    <3> QED
      BY <2>2, <2>3, <3>1, <3>2
  <2>4. ASSUME op' = [Idle EXCEPT !.kind = "fetch", !.day = today], files[today].token = 0
        PROVE  op' \in Ops(issued') /\ HolderInv'
    <3>1. op' = [kind |-> "fetch", day |-> today, token |-> 0, asOf |-> 0,
                 expected |-> 0, raced |-> FALSE]
      BY <2>4 DEF Idle
    <3>2. 0 \in 0..issued'
      BY <1>i
    <3> QED
      BY <2>2, <2>4, <3>1, <3>2
  <2> QED
    BY <1>2, <2>1, <2>3, <2>4 DEF AcquireStart
<1>3. CASE AcquireFetched
  <2>1. /\ op' = [op EXCEPT !.kind = "save", !.token = offered] /\ op.kind = "fetch"
        /\ offered \in alive /\ UNCHANGED <<files, today, feed>>
    BY <1>3 DEF AcquireFetched, disk, world
  <2>2. /\ op' \in Ops(issued') /\ op'.kind = "save" /\ op'.token = offered
        /\ op'.day = op.day /\ op'.raced = op.raced /\ op'.expected = op.expected
    <3>1. offered \in 0..issued'
      BY <1>a, <1>i, <2>1
    <3> QED
      BY <1>o, <2>1, <3>1
  <2>3. offered # 0
    BY <1>a, <2>1
  <2> QED
    BY <1>o, <2>1, <2>2, <2>3 DEF HolderInv
<1>4. CASE RefreshStart
  <2>1. /\ op' = [kind |-> "swap", day |-> today, token |-> offered, asOf |-> 0,
                  expected |-> feed, raced |-> FALSE]
        /\ offered \in 1..issued' /\ feed # 0 /\ offered # feed /\ UNCHANGED <<feed, today>>
    BY <1>a, <1>4 DEF RefreshStart, Idle, world
  <2>2. op' \in Ops(issued') /\ offered # 0
    BY <1>e, <1>w, <1>i, <1>o, <2>1
  <2> QED
    BY <1>w, <1>e, <2>1, <2>2 DEF HolderInv
<1>5. CASE RefreshCompares
  <2>1. /\ op.kind = "swap" /\ UNCHANGED <<files, today, feed>>
        /\ op' = [op EXCEPT !.kind = IF Matches(op.expected) THEN "drop" ELSE "save"]
    BY <1>5 DEF RefreshCompares, disk, world
  <2>2. op.expected = feed /\ op.expected # 0 /\ op.day = today /\ op.token \notin {0, feed}
    BY <1>o, <2>1 DEF HolderInv
  <2>3. CASE Matches(op.expected)
    <3>1. /\ op' \in Ops(issued') /\ op'.kind = "drop" /\ op'.token = op.token /\ op'.day = today
          /\ op'.expected = feed
      BY <1>o, <2>1, <2>2, <2>3
    <3>2. files'[op'.day].token = feed
      BY <2>1, <2>2, <2>3, <3>1 DEF Matches
    <3> QED
      BY <1>w, <1>e, <2>1, <2>2, <3>1, <3>2 DEF HolderInv
  <2>4. CASE ~Matches(op.expected)
    <3>1. /\ op' \in Ops(issued') /\ op'.kind = "save" /\ op'.token = op.token /\ op'.day = today
          /\ op'.expected = feed
      BY <1>o, <2>1, <2>2, <2>4
    <3> QED
      BY <1>w, <1>e, <2>1, <2>2, <3>1 DEF HolderInv
  <2> QED
    BY <2>3, <2>4
<1>6. CASE TickerRejected
  <2>0. UNCHANGED <<files, retired, today, revoked, issued>>
    BY <1>6 DEF TickerRejected, disk, world
  <2>1. CASE Matches(feed)
    <3>1. /\ op' = [kind |-> "drop", day |-> today, token |-> 0, asOf |-> 0,
                    expected |-> feed, raced |-> FALSE]
          /\ feed # 0 /\ feed' = feed /\ feed \notin alive
      BY <1>6, <2>1 DEF TickerRejected, Idle
    <3>2. op' \in Ops(issued')
      BY <1>e, <1>w, <1>i, <1>o, <3>1
    <3>3. files'[today].token = feed /\ alive' = alive
      BY <2>0, <2>1 DEF Matches, alive
    <3> QED
      BY <1>w, <1>e, <2>0, <3>1, <3>2, <3>3 DEF HolderInv
  <2>2. CASE ~Matches(feed)
    BY <1>o, <1>d, <1>6, <2>2 DEF TickerRejected, HolderInv, Idle
  <2> QED
    BY <2>1, <2>2
<1>7. CASE SessionDropped /\ op' # Idle
  <2>1. /\ op.kind = "drop" /\ op.token # 0 /\ op' = [op EXCEPT !.kind = "save"]
        /\ UNCHANGED <<feed, today>>
    BY <1>7 DEF SessionDropped, world
  <2>2. op.expected # 0
    BY <1>o, <2>1 DEF HolderInv
  <2>3. /\ op' \in Ops(issued') /\ op'.kind = "save" /\ op'.token = op.token /\ op'.day = op.day
        /\ op'.expected = op.expected
    BY <1>o, <2>1
  <2> QED
    BY <1>o, <2>1, <2>2, <2>3 DEF HolderInv
<1>8. CASE ResolveRate
  <2>1. PICK asOf \in RateFor(op.day) : op' = [op EXCEPT !.kind = "write", !.asOf = asOf]
    BY <1>8 DEF ResolveRate
  <2>2. op.kind = "save" /\ UNCHANGED <<files, retired, today, feed>>
    BY <1>8 DEF ResolveRate, disk, world
  <2>3. op.day \in Days /\ op.day \in Nat
    BY <1>w, <1>o, <2>2 DEF HolderInv
  <2>4. asOf \in 0..op.day /\ asOf \in 0..MaxDay
    <3>1. LatestRate(op.day) \in 0..op.day
      BY <2>3, NewestRate DEF SessionInv
    <3> QED
      BY <1>w, <2>1, <2>3, <3>1 DEF RateFor
  <2>5. /\ op' \in Ops(issued') /\ op'.kind = "write" /\ op'.token = op.token /\ op'.day = op.day
        /\ op'.asOf = asOf /\ op'.expected = op.expected /\ op'.raced = op.raced
    BY <1>o, <2>1, <2>4
  <2>6. op'.asOf \in RateFor(op.day)'
    BY <2>1, <2>2, <2>5 DEF RateFor, LatestRate
  <2> QED
    BY <1>o, <2>2, <2>4, <2>5, <2>6 DEF HolderInv
<1>9. CASE CompleteLogin
  <2>0. UNCHANGED <<files, retired, today, feed>> /\ attempt # NoAttempt
    BY <1>9 DEF CompleteLogin, disk, world, NoAttempt
  <2>1. attempt.day \in Days /\ attempt.day <= today /\ attempt.token \in 0..issued
    BY <2>0 DEF SessionInv, DatesInv, SessionTypeOK
  <2>2. attempt.day \in 0..attempt.day /\ attempt.day \in 0..MaxDay
    BY <1>w, <2>1
  <2>3. CASE op' = op
    BY <1>o, <1>d, <1>9, <2>3 DEF CompleteLogin, HolderInv, LockFree, Idle
  <2>4. CASE /\ NoSession /\ attempt.token # 0
             /\ op' = [Idle EXCEPT !.kind = "write", !.day = attempt.day,
                                   !.token = attempt.token, !.asOf = attempt.day]
    <3>1. op' = [kind |-> "write", day |-> attempt.day, token |-> attempt.token,
                 asOf |-> attempt.day, expected |-> 0, raced |-> FALSE]
      BY <2>4 DEF Idle
    <3>2. op' \in Ops(issued')
      BY <1>w, <1>i, <2>1, <2>2, <3>1
    <3> QED
      <4>0. attempt.token # 0
        BY <2>4
      <4>1. op'.kind = "write" /\ op'.token # 0 /\ op'.expected = 0
        BY <3>1, <4>0
      <4>2. op'.day \in Days /\ op'.day <= today'
        BY <2>0, <2>1, <3>1
      <4>3. op'.day = today' => files'[op'.day].token = 0
        BY <2>0, <2>4, <3>1 DEF NoSession
      <4>4. op'.asOf \in 0..op'.day /\ op'.asOf = op'.day
        BY <2>2, <3>1
      <4> QED
        BY <4>1, <4>2, <4>3, <4>4, <3>2 DEF HolderInv, RateFor
  <2>5. CASE NoSession /\ op' = [Idle EXCEPT !.kind = "exchange", !.day = attempt.day]
    <3>1. op' = [kind |-> "exchange", day |-> attempt.day, token |-> 0,
                 asOf |-> 0, expected |-> 0, raced |-> FALSE]
      BY <2>5 DEF Idle
    <3>2. op' \in Ops(issued')
      BY <1>w, <1>i, <2>1, <2>2, <3>1
    <3> QED
      <4>1. op'.kind = "exchange" /\ op'.expected = 0
        BY <3>1
      <4>2. op'.day \in Days /\ op'.day <= today'
        BY <2>0, <2>1, <3>1
      <4>3. op'.day = today' => files'[op'.day].token = 0
        BY <2>0, <2>5, <3>1 DEF NoSession
      <4> QED
        BY <4>1, <4>2, <4>3, <3>2 DEF HolderInv
  <2> QED
    BY <1>9, <2>3, <2>4, <2>5 DEF CompleteLogin
<1>10. CASE ManualLogin
  <2>1. /\ op' = [kind |-> "exchange", day |-> today, token |-> 0, asOf |-> 0,
                  expected |-> 0, raced |-> FALSE]
        /\ files'[today].token = 0 /\ today' = today
    BY <1>10 DEF ManualLogin, NoSession, Idle, disk, world
  <2>2. op' \in Ops(issued')
    BY <1>e, <1>w, <1>i, <2>1
  <2> QED
    BY <1>w, <1>e, <2>1, <2>2 DEF HolderInv
<1>11. CASE LoginExchanged
  <2>1. /\ op.kind = "exchange" /\ UNCHANGED <<files, retired, today, feed>> /\ issued' = issued + 1
        /\ op' = [op EXCEPT !.kind = "write", !.token = issued + 1, !.asOf = op.day]
    BY <1>11 DEF LoginExchanged, Exchange, disk
  <2>2. issued + 1 \in 0..issued' /\ issued + 1 # 0
    BY <1>w, <2>1
  <2>3. /\ op' \in Ops(issued') /\ op'.kind = "write" /\ op'.token = issued + 1 /\ op'.day = op.day
        /\ op'.asOf = op.day /\ op'.expected = op.expected /\ op'.raced = op.raced
    BY <1>o, <2>1, <2>2
  <2>4. op.day \in Days /\ op.expected = 0
    BY <1>o, <2>1 DEF HolderInv
  <2>6. op.day \in 0..op.day
    BY <1>w, <2>4
  <2>5. op'.asOf \in RateFor(op.day)'
    BY <2>3 DEF RateFor
  <2> QED
    BY <1>o, <2>1, <2>2, <2>3, <2>4, <2>5, <2>6 DEF HolderInv
<1>12. CASE CliSaves
  <2>1. op' = [op EXCEPT !.raced = op # Idle] /\ UNCHANGED <<today, feed>>
    BY <1>12 DEF CliSaves
  <2>2. CASE op = Idle
    <3>1. op' = Idle
      BY <2>1, <2>2 DEF Idle
    <3> QED
      BY <1>1, <3>1
  <2>3. CASE op # Idle
    <3>1. /\ op' \in Ops(issued') /\ op'.kind = op.kind /\ op'.token = op.token
          /\ op'.day = op.day /\ op'.asOf = op.asOf /\ op'.expected = op.expected
          /\ op'.raced = TRUE /\ op.kind # "idle"
      BY <1>o, <2>1, <2>3 DEF HolderInv
    <3>2. feed \notin alive => feed \notin alive'
      <4>1. issued' = issued + 1 /\ revoked' = revoked /\ revoked \in 0..issued
        BY <1>12 DEF CliSaves, Exchange, SessionInv, SessionTypeOK
      <4> QED
        BY <1>o, <1>w, <4>1 DEF alive
    <3> QED
      BY <1>o, <2>1, <3>1, <3>2 DEF HolderInv
  <2> QED
    BY <2>2, <2>3
<1>13. CASE DayPasses
  <2>1. /\ UNCHANGED <<files, retired, feed, op, revoked, issued>> /\ today' = today + 1 /\ feed = 0
    BY <1>13 DEF DayPasses, disk, service
  <2>2. op.expected = 0
    BY <1>o, <2>1 DEF HolderInv
  <2>3. ASSUME op.kind # "idle" PROVE op.day # today' /\ op.day <= today'
    <3>1. op.day \in Days /\ op.day <= today
      BY <1>o, <2>3 DEF HolderInv
    <3> QED
      BY <1>w, <2>1, <3>1
  <2>4. RateFor(op.day)' = RateFor(op.day)
    BY <2>1 DEF RateFor, LatestRate
  <2> QED
    BY <1>o, <2>1, <2>2, <2>3, <2>4 DEF HolderInv
<1>14. CASE /\ UNCHANGED <<op, today, files, retired>>
            /\ feed' = feed \/ op.expected = 0
            /\ feed \notin alive => feed \notin alive'
  <2>1. RateFor(op.day)' = RateFor(op.day)
    BY <1>14 DEF RateFor, LatestRate
  <2> QED
    BY <1>o, <1>14, <2>1 DEF HolderInv
<1>15. op.expected # 0 => feed # 0
  BY <1>o DEF HolderInv
<1>16. ASSUME \/ BrokerLogin \/ KiteRevokes
              \/ UNCHANGED <<issued, revoked>>
       PROVE  feed \notin alive => feed \notin alive'
  <2>1. revoked \in 0..issued
    BY DEF SessionInv, SessionTypeOK
  <2>2. CASE UNCHANGED <<issued, revoked>>
    BY <2>2 DEF alive
  <2>3. CASE BrokerLogin
    BY <1>o, <1>w, <2>1, <2>3 DEF BrokerLogin, Exchange, alive
  <2>4. CASE KiteRevokes
    <3>1. revoked' \in (revoked + 1)..issued /\ issued' = issued
      BY <2>4 DEF KiteRevokes, alive
    <3>2. revoked' \in Nat /\ revoked < revoked'
      BY <1>w, <2>1, <3>1
    <3> QED
      <4>1. feed \in Nat /\ feed <= issued
        BY <1>o, <1>w
      <4>2. feed \notin alive => feed <= revoked
        BY <1>w, <2>1, <4>1 DEF alive
      <4>3. revoked \in Nat
        BY <1>w, <2>1
      <4>4. feed <= revoked => feed \notin (revoked' + 1)..issued'
        BY <1>i, <3>2, <4>1, <4>3, Below
      <4> QED
        BY <4>2, <4>4 DEF alive
  <2> QED
    BY <1>16, <2>2, <2>3, <2>4
<1>17. StartCapture \/ StopCapture \/ StartShared \/ StartPassword \/ SubmitTotp \/ CancelLogin
       \/ CliChecks \/ CliFails \/ BrokerLogin \/ BrokerForgets \/ KiteRevokes =>
         /\ UNCHANGED <<op, today, files, retired>>
         /\ feed' = feed \/ op.expected = 0
  BY <1>15 DEF StartCapture, StopCapture, StartShared, StartPassword, SubmitTotp,
     CancelLogin, CliChecks, CliFails, BrokerLogin, BrokerForgets, KiteRevokes, disk,
     service, world
<1>18. StartCapture \/ StopCapture \/ StartShared \/ StartPassword \/ SubmitTotp \/ CancelLogin
       \/ CliChecks \/ CliFails \/ BrokerForgets => UNCHANGED <<issued, revoked>>
  BY DEF StartCapture, StopCapture, StartShared, StartPassword, SubmitTotp, CancelLogin,
     CliChecks, CliFails, BrokerForgets, world
<1>19. AcquireRefused \/ SessionWritten \/ SaveFails \/ Killed \/ LoginFails => op' = Idle
  BY DEF AcquireRefused, SessionWritten, SaveFails, Released, Killed, Restart, LoginFails
<1> QED
  BY <1>1, <1>2, <1>3, <1>4, <1>5, <1>6, <1>7, <1>8, <1>9, <1>10, <1>11, <1>12, <1>13,
     <1>14,
     <1>16, <1>17, <1>18, <1>19 DEF SessionNext

\* A login attempt stays of a date that has come, and its token is one that was issued.
LEMMA SessionAttempt ==
  ASSUME SessionInv, SessionNext
  PROVE  /\ attempt' \in [step : {"none", "totp", "rate"}, day : 0..MaxDay, token : 0..issued']
         /\ attempt' # NoAttempt => attempt'.day \in Days /\ attempt'.day <= today'
<1>w. /\ MaxDay \in Nat /\ Days = 1..MaxDay /\ today \in Days /\ issued \in Nat
      /\ alive \subseteq 1..issued
  BY Worlds
<1>i. issued' \in Nat /\ issued <= issued' /\ today' \in Days /\ today <= today'
  BY IssuedGrows, <1>w
<1>a. /\ attempt \in [step : {"none", "totp", "rate"}, day : 0..MaxDay, token : 0..issued]
      /\ attempt # NoAttempt => attempt.day \in Days /\ attempt.day <= today
  BY DEF SessionInv, SessionTypeOK, DatesInv
<1>b. attempt \in [step : {"none", "totp", "rate"}, day : 0..MaxDay, token : 0..issued']
  BY <1>w, <1>i, <1>a
<1>1. CASE attempt' = attempt
  BY <1>w, <1>i, <1>a, <1>b, <1>1
<1>2. CASE attempt' = NoAttempt
  BY <1>w, <1>i, <1>2 DEF NoAttempt
<1>3. CASE StartShared
  <2>1. attempt' = [step |-> "rate", day |-> today, token |-> offered] /\ offered \in 1..issued'
    BY <1>w, <1>i, <1>3 DEF StartShared
  <2> QED
    BY <1>w, <1>i, <2>1
<1>4. CASE StartPassword
  <2>1. attempt' = [step |-> "totp", day |-> today, token |-> 0]
    BY <1>4 DEF StartPassword
  <2> QED
    BY <1>w, <1>i, <2>1
<1>5. CASE SubmitTotp
  <2>1. attempt # NoAttempt /\ attempt' \in {NoAttempt, [attempt EXCEPT !.step = "rate"]}
    BY <1>5 DEF SubmitTotp, NoAttempt
  <2>2. CASE attempt' = [attempt EXCEPT !.step = "rate"]
    <3>1. /\ attempt' \in [step : {"none", "totp", "rate"}, day : 0..MaxDay, token : 0..issued']
          /\ attempt'.day = attempt.day
      BY <1>b, <2>2
    <3> QED
      BY <1>w, <1>i, <1>a, <2>1, <3>1
  <2> QED
    BY <1>2, <2>1, <2>2
<1> QED
  BY <1>1, <1>2, <1>3, <1>4, <1>5 DEF SessionNext, service, world, Exchange, AcquireStart,
     AcquireFetched, AcquireRefused, RefreshStart, RefreshCompares, TickerRejected,
     SessionDropped, ResolveRate, SessionWritten, SaveFails, Released, Killed, Restart,
     StartCapture, StopCapture, StartShared, StartPassword, SubmitTotp, CancelLogin,
     CompleteLogin, ManualLogin, LoginExchanged, LoginFails, CliChecks, CliSaves,
     CliFails, DayPasses, BrokerLogin, BrokerForgets, KiteRevokes

\* The other variables keep their types.
LEMMA SessionRest ==
  ASSUME SessionInv, SessionNext
  PROVE  /\ tried' \subseteq {today'}
         /\ cli' \in 0..MaxDay /\ cli' <= today' /\ feed' \in 0..issued'
         /\ revoked' \in 0..issued' /\ offered' \in 0..issued'
<1>w. /\ MaxDay \in Nat /\ Days = 1..MaxDay /\ today \in Days /\ issued \in Nat
      /\ alive \subseteq 1..issued
  BY Worlds
<1>i. issued' \in Nat /\ issued <= issued' /\ today' \in Days /\ today <= today'
  BY IssuedGrows, <1>w
<1>r. /\ tried \subseteq {today} /\ cli \in 0..MaxDay /\ cli <= today /\ feed \in 0..issued
      /\ revoked \in 0..issued /\ offered \in 0..issued
  BY DEF SessionInv, SessionTypeOK, DatesInv
<1>1. tried' = {} \/ (tried' \in {tried, tried \cup {today}} /\ today' = today)
  BY DEF SessionNext, service, world, Exchange, AcquireStart, AcquireFetched,
     AcquireRefused, RefreshStart, RefreshCompares, TickerRejected, SessionDropped,
     ResolveRate, SessionWritten, SaveFails, Released, Killed, Restart, StartCapture,
     StopCapture, StartShared, StartPassword, SubmitTotp, CancelLogin, CompleteLogin,
     ManualLogin, LoginExchanged, LoginFails, CliChecks, CliSaves, CliFails, DayPasses,
     BrokerLogin, BrokerForgets, KiteRevokes
<1>2. cli' \in {cli, 0} \/ (cli' = today /\ today' = today)
  BY DEF SessionNext, service, world, Exchange, AcquireStart, AcquireFetched,
     AcquireRefused, RefreshStart, RefreshCompares, TickerRejected, SessionDropped,
     ResolveRate, SessionWritten, SaveFails, Released, Killed, Restart, StartCapture,
     StopCapture, StartShared, StartPassword, SubmitTotp, CancelLogin, CompleteLogin,
     ManualLogin, LoginExchanged, LoginFails, CliChecks, CliSaves, CliFails, DayPasses,
     BrokerLogin, BrokerForgets, KiteRevokes
<1>3. feed' \in {feed, 0, files[today].token}
  BY DEF SessionNext, service, world, Exchange, AcquireStart, AcquireFetched,
     AcquireRefused, RefreshStart, RefreshCompares, TickerRejected, SessionDropped,
     ResolveRate, SessionWritten, SaveFails, Released, Killed, Restart, StartCapture,
     StopCapture, StartShared, StartPassword, SubmitTotp, CancelLogin, CompleteLogin,
     ManualLogin, LoginExchanged, LoginFails, CliChecks, CliSaves, CliFails, DayPasses,
     BrokerLogin, BrokerForgets, KiteRevokes
<1>4. files[today].token \in 0..issued
  BY <1>w DEF SessionInv, SessionTypeOK
<1>5. revoked' = revoked \/ revoked' \in alive
  BY DEF SessionNext, service, world, Exchange, AcquireStart, AcquireFetched,
     AcquireRefused, RefreshStart, RefreshCompares, TickerRejected, SessionDropped,
     ResolveRate, SessionWritten, SaveFails, Released, Killed, Restart, StartCapture,
     StopCapture, StartShared, StartPassword, SubmitTotp, CancelLogin, CompleteLogin,
     ManualLogin, LoginExchanged, LoginFails, CliChecks, CliSaves, CliFails, DayPasses,
     BrokerLogin, BrokerForgets, KiteRevokes
<1>6. offered' \in {offered, 0} \/ (offered' = issued + 1 /\ issued' = issued + 1)
  BY DEF SessionNext, service, world, Exchange, AcquireStart, AcquireFetched,
     AcquireRefused, RefreshStart, RefreshCompares, TickerRejected, SessionDropped,
     ResolveRate, SessionWritten, SaveFails, Released, Killed, Restart, StartCapture,
     StopCapture, StartShared, StartPassword, SubmitTotp, CancelLogin, CompleteLogin,
     ManualLogin, LoginExchanged, LoginFails, CliChecks, CliSaves, CliFails, DayPasses,
     BrokerLogin, BrokerForgets, KiteRevokes
<1>7. cli' \in 0..MaxDay /\ cli' <= today'
  BY <1>w, <1>i, <1>r, <1>2
<1>8. feed' \in 0..issued' /\ revoked' \in 0..issued' /\ offered' \in 0..issued'
  <2>1. feed' \in 0..issued'
    BY <1>w, <1>i, <1>r, <1>3, <1>4
  <2>2. revoked' \in 0..issued'
    <3>1. revoked' \in 1..issued \/ revoked' = revoked
      BY <1>w, <1>5
    <3> QED
      BY <1>w, <1>i, <1>r, <3>1
  <2>3. offered' \in 0..issued'
    BY <1>w, <1>i, <1>r, <1>6
  <2> QED
    BY <2>1, <2>2, <2>3
<1> QED
  BY <1>w, <1>r, <1>1, <1>7, <1>8

\* Every step of the session keeps its invariant.
LEMMA SessionStep ==
  ASSUME SessionInv, [SessionNext]_sessionVars
  PROVE  SessionInv'
<1>1. CASE UNCHANGED sessionVars
  BY <1>1 DEF sessionVars, disk, service, world, SessionInv, SessionTypeOK, HolderInv,
     DatesInv, Absent, alive, Idle, RateFor, LatestRate
<1>2. CASE SessionNext
  <2>1. FilesInv'
    BY <1>2, SessionDiskStep, SessionFiles
  <2>2. issued' \in 0..MaxTokens /\ today' \in Days
    BY IssuedGrows
  <2>3. SessionTypeOK'
    BY <1>2, <2>1, <2>2, SessionHolder, SessionAttempt, SessionRest DEF SessionTypeOK,
       FilesInv
  <2>4. DatesInv'
    BY <1>2, <2>1, SessionAttempt, SessionRest DEF DatesInv, FilesInv
  <2> QED
    BY <1>2, <2>3, <2>4, SessionHolder DEF SessionInv
<1> QED
  BY <1>1, <1>2

\* No file, no attempt and no token.
LEMMA InitSessionInv ==
  ASSUME SessionInit
  PROVE  SessionInv
<1>1. MaxDay \in Nat /\ MaxTokens \in Nat /\ Days = 1..MaxDay /\ 1 \in Days
  BY SessionAssumption DEF SessionAssumption, Days
<1>2. SessionTypeOK
  BY <1>1 DEF SessionInit, SessionTypeOK, Absent, Idle, NoAttempt
<1>3. HolderInv /\ DatesInv
  BY <1>1 DEF SessionInit, HolderInv, DatesInv, Absent, Idle
<1> QED
  BY <1>2, <1>3 DEF SessionInv

\* However many tokens and dates, whoever logs in, refreshes, revokes or crashes: the
\* strengthening of the session's invariants holds throughout.
THEOREM SessionInvariance == SessionSpec => []SessionInv
<1>1. SessionInit => SessionInv
  BY InitSessionInv
<1>2. SessionInv /\ [SessionNext]_sessionVars => SessionInv'
  BY SessionStep
<1> QED
  BY <1>1, <1>2, PTL DEF SessionSpec

\* Every variable of the session keeps its type: no step stores a token that was not issued, or
\* leaves a rate in the file of a date that has no session.
THEOREM SessionTypes == SessionSpec => []SessionTypeOK
<1>1. SessionInv => SessionTypeOK
  BY DEF SessionInv
<1> QED
  BY <1>1, SessionInvariance, PTL

\* invalidate_session takes away only the session the failed capture ran on, and only when Kite
\* refuses it or another validated token is about to take its place, unless md-login has put
\* another in its place since it was read.
THEOREM LossesAreExplained == SessionSpec => SessionLossExplained
<1>1. SessionInv /\ [SessionNext]_sessionVars =>
        [\A d \in Days : files[d].token # 0 /\ files'[d].token = 0 =>
           \/ op.raced
           \/ /\ files[d].token = feed
              /\ feed \notin alive \/ op.token \notin {0, feed}]_sessionVars
  <2> SUFFICES ASSUME SessionInv, SessionNext, NEW d \in Days, files[d].token # 0, files'[d].token = 0
               PROVE  \/ op.raced
                      \/ /\ files[d].token = feed
                         /\ feed \notin alive \/ op.token \notin {0, feed}
    OBVIOUS
  <2>f. FilesInv /\ issued' \in Nat
    BY Worlds, IssuedGrows
  <2>1. DiskStep
    BY SessionDiskStep
  <2>2. CASE UNCHANGED disk
    BY <2>2 DEF disk
  <2>3. ASSUME NEW day \in Days, NEW token \in 1..issued', NEW asOf, Save(day, token, asOf) PROVE FALSE
    BY <2>f, <2>3 DEF Save, FilesInv
  <2>4. CASE Removes
    <3>1. d = today
      BY <2>f, <2>4 DEF Removes, Retire, FilesInv, disk
    <3> QED
      BY <2>4, <3>1 DEF Removes
  <2> QED
    BY <2>1, <2>2, <2>3, <2>4 DEF DiskStep, CliStores, Stores
<1> QED
  BY <1>1, SessionInvariance, PTL DEF SessionSpec, SessionLossExplained

\* No two logins or acquisitions of the service replace one another's session of the day: only
\* the swap before a restart does, and md-login, which takes no lock.
THEOREM SessionsAreKept == SessionSpec => SessionNotOverwritten
<1>1. SessionInv /\ [SessionNext]_sessionVars =>
        [\A d \in Days : files[d].token # 0 /\ files'[d].token \notin {0, files[d].token} =>
           \/ d < today
           \/ cli = d /\ cli' = 0
           \/ op.expected # 0
           \/ op.raced]_sessionVars
  <2> SUFFICES ASSUME SessionInv, SessionNext, NEW d \in Days, files[d].token # 0,
                      files'[d].token \notin {0, files[d].token}
               PROVE  \/ d < today
                      \/ cli = d /\ cli' = 0
                      \/ op.expected # 0
                      \/ op.raced
    OBVIOUS
  <2>f. FilesInv
    BY Worlds
  <2>1. DiskStep
    BY SessionDiskStep
  <2>2. CASE UNCHANGED disk
    BY <2>2 DEF disk
  <2>3. ASSUME NEW day \in Days, NEW token, NEW asOf, Save(day, token, asOf) PROVE d = day
    BY <2>f, <2>3 DEF Save, FilesInv
  <2>4. CASE Removes
    BY <2>f, <2>4 DEF Removes, Retire, FilesInv, disk, Absent
  <2>5. CASE CliStores
    BY <2>3, <2>5 DEF CliStores
  <2>6. CASE Stores
    BY <2>3, <2>6 DEF Stores
  <2> QED
    BY <2>1, <2>2, <2>4, <2>5, <2>6 DEF DiskStep
<1> QED
  BY <1>1, SessionInvariance, PTL DEF SessionSpec, SessionNotOverwritten

\* No step of the service takes the newest rate off the record of a date that may still be asked
\* for, or stores a session without one while there is one, but for a write that md-login has
\* overtaken since the rates were looked up.
THEOREM RatesSurvive == SessionSpec => RateSurvives
<1>1. SessionInv /\ [SessionNext]_sessionVars =>
        [cli' = cli /\ ~(op.kind = "write" /\ op.raced) =>
           \A d \in Days : OnRecord(d) # {} =>
             /\ d \in AskedFor => \E r \in OnRecord(d)' : \A q \in OnRecord(d) : q <= r
             /\ files'[d] # files[d] /\ files'[d].token # 0 => files'[d].asOf # 0]_sessionVars
  <2> SUFFICES ASSUME SessionInv, SessionNext, cli' = cli, ~(op.kind = "write" /\ op.raced),
                      NEW d \in Days, OnRecord(d) # {}
               PROVE  /\ d \in AskedFor => \E r \in OnRecord(d)' : \A q \in OnRecord(d) : q <= r
                      /\ files'[d] # files[d] /\ files'[d].token # 0 => files'[d].asOf # 0
    OBVIOUS
  <2>f. FilesInv /\ SessionTypeOK /\ MaxDay \in Nat /\ Days = 1..MaxDay /\ today \in Days
    BY Worlds DEF SessionInv
  <2>1. DiskStep
    BY SessionDiskStep
  <2>2. \E r \in OnRecord(d) : \A q \in OnRecord(d) : q <= r
    BY <2>f, RatesAreDates, MaxBounded
  <2>3. CASE UNCHANGED disk
    <3>1. OnRecord(d)' = OnRecord(d) /\ files' = files
      BY <2>3 DEF disk, OnRecord
    <3> QED
      BY <2>2, <3>1
  <2>4. CASE Removes
    <3>1. OnRecord(d) \subseteq OnRecord(d)' /\ \A e \in Days : files'[e] = files[e] \/ files'[e].token = 0
      BY <2>f, <2>4, RetireKeepsRates DEF Removes
    <3> QED
      BY <2>2, <3>1
  <2>5. ~CliStores
    BY <2>f DEF CliStores
  <2>6. CASE Stores
    <3>1. /\ op.day \in Days /\ op.day <= today /\ op.asOf \in RateFor(op.day)
          /\ Save(op.day, op.token, op.asOf)
      BY <2>6 DEF Stores
    <3>2. d \in AskedFor => op.day <= d
      BY <2>f, <3>1 DEF AskedFor
    <3>3. d \in AskedFor => \E r \in OnRecord(d)' : \A q \in OnRecord(d) : q <= r
      BY <2>f, <3>1, <3>2, SaveKeepsRates
    <3>4. files'[d] # files[d] => d = op.day /\ files'[d].asOf = op.asOf
      BY <2>f, <3>1 DEF Save, FilesInv
    <3>5. d = op.day => op.asOf # 0
      <4> SUFFICES ASSUME d = op.day PROVE op.asOf # 0
        OBVIOUS
      <4>1. LatestRate(op.day) \in OnRecord(op.day)
        BY <2>f, <3>1, NewestRate
      <4>2. LatestRate(op.day) # 0
        BY <4>1 DEF OnRecord
      <4> QED
        BY <2>f, <3>1, <4>2 DEF RateFor
    <3> QED
      BY <3>3, <3>4, <3>5
  <2> QED
    BY <2>1, <2>3, <2>4, <2>5, <2>6 DEF DiskStep
<1> QED
  BY <1>1, SessionInvariance, PTL DEF SessionSpec, RateSurvives
=============================================================================
