----------------------------- MODULE TickerBridge -----------------------------
(***************************************************************************)
(* How a capture session keeps one subscribed socket: run_capture starts a *)
(* ticker and enters the 1 Hz grid only once a subscription is confirmed;  *)
(* a failed subscription or a stale feed runs a bounded ladder of          *)
(* confirmed reconnects; a ladder that fails takes the session down.       *)
(*                                                                         *)
(* A ticker's callbacks run on its own thread and reach the event loop     *)
(* through call_soon_threadsafe, a queue.  They do not say which ticker    *)
(* they come from.  The SDK's close() forbids retries and closes an open   *)
(* socket; a connect that is under way may still come through.             *)
(***************************************************************************)
EXTENDS Naturals, Sequences

CONSTANTS
  MaxAttempts,   \* RECOVERY_MAX_ATTEMPTS
  MaxTickers,    \* bound: tickers created
  MaxTrouble     \* bound: refused subscriptions, drops, stalls, dead connects

ASSUME TickerBridgeAssumption ==
  /\ MaxAttempts \in Nat \ {0} /\ MaxTrouble \in Nat
  /\ MaxTickers \in Nat /\ MaxTickers > MaxAttempts * MaxTrouble

VARIABLES
  phase,         \* run_capture: "off", "connecting", "grid" or "over"
  n,             \* tickers created so far: 1..n
  current,       \* _ticker, 0 for None
  sock,          \* state of each ticker's socket
  closing,       \* tickers that close() was called on: opening or shut
  confirmed,     \* connect_confirmed
  unrecoverable, \* feed_unrecoverable
  authFailed,    \* auth_failed
  posted,        \* callbacks handed to the loop and not run yet
  ladder,        \* _recovery_task: Idle, Scheduled or the attempt it awaits
  subscribed,    \* history: was a subscription ever accepted?
  stray,         \* history: has an event been set for another ticker than the current?
  revived,       \* history: was a ladder begun after stop()?
  unanswered,    \* history: did a ladder about to conclude swallow a recovery?
  trouble

tickers == <<n, current, sock, closing>>
events == <<confirmed, unrecoverable, authFailed>>
history == <<subscribed, stray, revived, unanswered>>
vars == <<phase, tickers, events, posted, ladder, history, trouble>>

Ticker == 1..MaxTickers
None == 0
Idle == MaxAttempts + 1          \* ladder: no recovery task
Scheduled == 0                   \* ladder: created, has not begun
Bound == phase \in {"connecting", "grid"}
Mishap == trouble < MaxTrouble /\ trouble' = trouble + 1

Init ==
  /\ phase = "off"
  /\ n = 0 /\ current = None
  /\ sock = [i \in Ticker |-> "unborn"] /\ closing = {}
  /\ confirmed = FALSE /\ unrecoverable = FALSE /\ authFailed = FALSE
  /\ posted = <<>> /\ ladder = Idle
  /\ subscribed = FALSE /\ stray = FALSE /\ revived = FALSE /\ unanswered = FALSE
  /\ trouble = 0

----------------------------------------------------------------------------
(* The ticker threads. *)

\* The transport of a ticker is up; one that is closed shuts it.
Opens(i, how) == sock' = [sock EXCEPT ![i] = IF i \in closing THEN "shut" ELSE how]

\* call_soon_threadsafe; nothing once stop() has unbound the loop.
Post(callback, i) ==
  posted' = IF Bound THEN Append(posted, [kind |-> callback, by |-> i]) ELSE posted

\* Plausible slips, kept to show that the properties below notice them.
NothingPosted(i) ==
  /\ sock[i] = "opening" /\ Mishap
  /\ sock' = [sock EXCEPT ![i] = "mute"]
  /\ UNCHANGED <<phase, n, current, closing, events, posted, ladder, history>>

\* on_connect: subscribe and set_mode are accepted.  Without a loop the event is
\* set on the spot.
Subscribes(i) ==
  /\ sock[i] = "opening"
  /\ Opens(i, "live")
  /\ subscribed' = TRUE
  /\ Post("confirm", i)
  /\ confirmed' = (confirmed \/ ~Bound)
  /\ UNCHANGED <<phase, n, current, closing, unrecoverable, authFailed, ladder,
                 stray, revived, unanswered, trouble>>

\* on_connect: subscribe or set_mode raises, with the transport up.
SubscribeFails(i) ==
  /\ sock[i] = "opening" /\ Mishap
  /\ Opens(i, "mute")
  /\ Post("recover", i)
  /\ UNCHANGED <<phase, n, current, closing, events, ladder, history>>

\* The token is rejected: by on_connect's subscription, or by the server that closes
\* the socket (on_close, on_error), after which the SDK retries.
Rejected(i) ==
  /\ Mishap
  /\ \/ sock[i] = "opening" /\ Opens(i, "mute")
     \/ sock[i] = "live" /\ i \notin closing /\ sock' = [sock EXCEPT ![i] = "opening"]
  /\ Post("auth", i)
  /\ UNCHANGED <<phase, n, current, closing, events, ladder, history>>

\* on_close: the SDK retries, unless it was told not to.
Drops(i) ==
  /\ sock[i] = "live" /\ i \notin closing /\ Mishap
  /\ sock' = [sock EXCEPT ![i] = "opening"]
  /\ UNCHANGED <<phase, n, current, closing, events, posted, ladder, history>>

\* The connect was never serviced, or the SDK's retries are exhausted; or that of a
\* closed ticker comes to nothing.
Dies(i) ==
  /\ \/ sock[i] = "opening" /\ i \notin closing /\ Mishap
     \/ sock[i] = "opening" /\ i \in closing /\ UNCHANGED trouble
  /\ sock' = [sock EXCEPT ![i] = "shut"]
  /\ UNCHANGED <<phase, n, current, closing, events, posted, ladder, history>>

----------------------------------------------------------------------------
(* The event loop: the bridge. *)

\* close(): an open socket is shut, a connect that is under way goes on.
CloseCurrent == closing' = closing \cup ({current} \ {None})

Closed ==
  [i \in Ticker |-> IF i = current /\ sock[i] # "opening" THEN "shut" ELSE sock[i]]

\* A fresh ticker, wired and connecting, in place of the one before; the event is
\* cleared.
StartTicker ==
  /\ n < MaxTickers
  /\ n' = n + 1 /\ current' = n + 1
  /\ sock' = [Closed EXCEPT ![n + 1] = "opening"]
  /\ confirmed' = FALSE

\* reconnect_confirmed: tear the old one down, start another, await the event.
Attempt(k) == CloseCurrent /\ StartTicker /\ ladder' = k

\* The loop runs a posted callback.
RunConfirm ==
  /\ posted # <<>> /\ Head(posted).kind = "confirm"
  /\ posted' = Tail(posted)
  /\ confirmed' = TRUE
  /\ stray' = (stray \/ Head(posted).by # current)
  /\ UNCHANGED <<phase, tickers, unrecoverable, authFailed, ladder, subscribed,
                 revived, unanswered, trouble>>

\* _schedule_recovery: at most one recovery task.  One that has its confirmation and
\* has not looked at it yet is about to end, and nothing else will be begun.
RunRecover ==
  /\ posted # <<>> /\ Head(posted).kind = "recover"
  /\ posted' = Tail(posted)
  /\ ladder' = IF ladder = Idle THEN Scheduled ELSE ladder
  /\ revived' = (revived \/ phase = "over")
  /\ unanswered' = (unanswered \/ (ladder \in 1..MaxAttempts /\ confirmed))
  /\ UNCHANGED <<phase, tickers, events, subscribed, stray, trouble>>

RunAuth ==
  /\ posted # <<>> /\ Head(posted).kind = "auth"
  /\ posted' = Tail(posted)
  /\ authFailed' = TRUE
  /\ UNCHANGED <<phase, tickers, confirmed, unrecoverable, ladder, history, trouble>>

\* The recovery task takes its first step.
BeginLadder ==
  /\ ladder = Scheduled
  /\ Attempt(1)
  /\ UNCHANGED <<phase, unrecoverable, authFailed, posted, history, trouble>>

\* await_connected returns: recovered.
AttemptConfirmed ==
  /\ ladder \in 1..MaxAttempts /\ confirmed
  /\ ladder' = Idle
  /\ UNCHANGED <<phase, tickers, events, posted, history, trouble>>

\* It times out, or starting the ticker had raised: the next attempt.
AttemptFails ==
  /\ ladder \in 1..(MaxAttempts - 1) /\ ~confirmed
  /\ Attempt(ladder + 1)
  /\ UNCHANGED <<phase, unrecoverable, authFailed, posted, history, trouble>>

ExhaustedQuietly ==
  /\ ladder = MaxAttempts /\ ~confirmed
  /\ CloseCurrent /\ sock' = Closed /\ current' = None
  /\ confirmed' = FALSE
  /\ ladder' = Idle
  /\ UNCHANGED <<phase, n, unrecoverable, authFailed, posted, history, trouble>>

\* After the last one the bridge gives up.
LadderExhausted ==
  /\ ladder = MaxAttempts /\ ~confirmed
  /\ CloseCurrent /\ sock' = Closed /\ current' = None
  /\ confirmed' = FALSE /\ unrecoverable' = TRUE
  /\ ladder' = Idle
  /\ UNCHANGED <<phase, n, authFailed, posted, history, trouble>>

----------------------------------------------------------------------------
(* The event loop: run_capture and the engine. *)

\* bind_loop, start.
Start ==
  /\ phase = "off"
  /\ phase' = "connecting" /\ authFailed' = FALSE
  /\ StartTicker
  /\ UNCHANGED <<closing, unrecoverable, posted, ladder, history, trouble>>

StopsWithoutClosing ==
  /\ phase' = "over" /\ ladder' = Idle
  /\ UNCHANGED <<tickers, events, posted, history>>

\* bridge.stop: the recovery task is cancelled, the ticker closed, the loop unbound.
Stop ==
  /\ phase' = "over" /\ ladder' = Idle
  /\ CloseCurrent /\ sock' = Closed
  /\ UNCHANGED <<n, current, events, posted, history>>

\* _await_live_feed: a rejected token goes before a confirmation.
FeedLive ==
  /\ phase = "connecting" /\ confirmed /\ ~authFailed
  /\ phase' = "grid"
  /\ UNCHANGED <<tickers, events, posted, ladder, history, trouble>>

\* No confirmation in time, or start() had raised.
ConnectTimesOut ==
  /\ phase = "connecting" /\ ~confirmed /\ ~authFailed
  /\ Stop /\ UNCHANGED trouble

AuthOnlyInGrid ==
  /\ phase = "grid" /\ authFailed
  /\ Stop /\ UNCHANGED trouble

\* The session ends with KiteAuthenticationError.
AuthStops ==
  /\ Bound /\ authFailed
  /\ Stop /\ UNCHANGED trouble

\* check_pipeline_alive, in every grid pass: restart the process.
Escalate ==
  /\ phase = "grid" /\ unrecoverable
  /\ Stop /\ UNCHANGED trouble

\* The stop event, or any other end of CaptureEngine.run.
EngineEnds ==
  /\ phase = "grid"
  /\ Stop /\ UNCHANGED trouble

\* _try_reconnect: the feed has been stale for long enough.
FeedStale ==
  /\ phase = "grid" /\ Mishap
  /\ ladder' = IF ladder = Idle THEN Scheduled ELSE ladder
  /\ UNCHANGED <<phase, tickers, events, posted, history>>

Over == phase = "over" /\ posted = <<>> /\ UNCHANGED vars

Bridge ==
  \/ RunConfirm \/ RunRecover \/ RunAuth
  \/ BeginLadder \/ AttemptConfirmed \/ AttemptFails \/ LadderExhausted

Session == FeedLive \/ ConnectTimesOut \/ AuthStops \/ Escalate

Next ==
  \/ Start \/ Bridge \/ Session \/ EngineEnds \/ FeedStale \/ Over
  \/ \E i \in Ticker :
       Subscribes(i) \/ SubscribeFails(i) \/ Rejected(i) \/ Drops(i) \/ Dies(i)

Spec == Init /\ [][Next]_vars

\* The loop runs what was posted and what is due; the waits have timeouts.
FairSpec ==
  /\ Spec
  /\ WF_vars(RunConfirm \/ RunRecover \/ RunAuth)
  /\ WF_vars(BeginLadder \/ AttemptConfirmed \/ AttemptFails \/ LadderExhausted)
  /\ WF_vars(FeedLive \/ ConnectTimesOut) /\ WF_vars(AuthStops) /\ WF_vars(Escalate)

----------------------------------------------------------------------------
(* Properties. *)

\* Type invariant.
TypeOK ==
  /\ phase \in {"off", "connecting", "grid", "over"}
  /\ n \in 0..MaxTickers /\ current \in 0..n /\ closing \subseteq 1..n
  /\ sock \in [Ticker -> {"unborn", "opening", "live", "mute", "shut"}]
  /\ confirmed \in BOOLEAN /\ unrecoverable \in BOOLEAN /\ authFailed \in BOOLEAN
  /\ posted \in Seq([kind : {"confirm", "recover", "auth"}, by : Ticker])
  /\ ladder \in 0..(MaxAttempts + 1)
  /\ subscribed \in BOOLEAN /\ stray \in BOOLEAN /\ revived \in BOOLEAN
  /\ unanswered \in BOOLEAN
  /\ trouble \in 0..MaxTrouble

\* The grid is entered only on a socket that "has proven it is live"
\* (bootstrap.py:519): an accepted subscription stands behind every confirmation.
ConfirmedBySubscription == confirmed \/ phase = "grid" => subscribed

\* No socket is left open behind the bridge's back: whatever retries, timeouts and
\* late callbacks there were, every ticker but the current one was closed, and
\* after stop() that one as well, unless a recovery was asked for so late that it
\* began after stop().
NoSocketForgotten ==
  \A i \in 1..n :
    \/ i \in closing
    \/ i = current /\ (phase # "over" \/ revived)

\* Types, and the bridge's view of its sockets: none is forgotten, none is taken
\* for live without a subscription.
SocketsAccounted == TypeOK /\ ConfirmedBySubscription /\ NoSocketForgotten

\* A recovery that was begun ends, one way or the other.
RecoveryConcludes == ladder # Idle ~> ladder = Idle

\* The last attempt of the ladder brings a confirmation or the end of the session:
\* capture is never left deaf.
ExhaustionEscalates ==
  phase = "grid" /\ ladder = MaxAttempts ~> confirmed \/ phase = "over"

\* A recovery ends, and an exhausted one takes the session down.
RecoverySettles == RecoveryConcludes /\ ExhaustionEscalates

\* An open socket that nothing is subscribed on does not stay: on_connect's failure
\* path replaces it or the session ends, unless a confirmation not its own is taken for
\* it, or its own, of the subscription before this one, ends the ladder that the request
\* for a recovery is dropped in favour of (ticker.py:364).
MuteSocketReplaced ==
  \A i \in Ticker :
    current = i /\ sock[i] = "mute"
      ~> current # i \/ phase = "over" \/ stray \/ unanswered

\* A rejected token ends the session.
RejectionStops == authFailed /\ Bound ~> phase = "over"

\* What ticker.py:154 says of connect_confirmed, set on the success path of
\* on_connect only: an "open-but-unsubscribed socket can never satisfy it".  Refuted
\* by a confirmation posted before its ticker was replaced.
ConfirmedIsCurrent == Bound /\ confirmed => ~stray
=============================================================================
