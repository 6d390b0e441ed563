-------------------------- MODULE TickerBridge_proofs --------------------------
(***************************************************************************)
(* Proofs about TickerBridge, for ladders of any length, any number of     *)
(* tickers and any amount of trouble: a socket taken for live had a        *)
(* subscription behind it, and no socket is forgotten.                     *)
(***************************************************************************)
EXTENDS TickerBridge, SequenceTheorems, TLAPS

Sockets == {"unborn", "opening", "live", "mute", "shut"}
Callbacks == [kind : {"confirm", "recover", "auth"}, by : Ticker]

\* A confirmation waiting in the loop's queue has an accepted subscription behind it.
PostedSound(s, accepted) ==
  \A j \in 1..Len(s) : s[j].kind = "confirm" => accepted

\* A ticker that was not created yet has no socket; so a callback names one that was.
UnbornInv == \A i \in Ticker : i > n => sock[i] = "unborn"

\* Before the session starts there is nothing to lose sight of.
OffInv == phase = "off" => n = 0 /\ posted = <<>> /\ ladder = Idle

\* stop() cancels the recovery task: one that is there afterwards was begun then.
LateInv == phase = "over" /\ ladder # Idle => revived

IInv ==
  /\ TypeOK /\ UnbornInv /\ OffInv /\ LateInv
  /\ PostedSound(posted, subscribed) /\ ConfirmedBySubscription
  /\ NoSocketForgotten

\* What the thread of ticker i may do.
ThreadStep(i) ==
  Subscribes(i) \/ SubscribeFails(i) \/ Rejected(i) \/ Drops(i) \/ Dies(i)

-----------------------------------------------------------------------------
(* The queue of callbacks. *)

\* Running the first callback leaves the others as they were.
LEMMA PostedTail ==
  ASSUME NEW s \in Seq(Callbacks), s # <<>>, NEW accepted \in BOOLEAN,
         PostedSound(s, accepted)
  PROVE  /\ Tail(s) \in Seq(Callbacks) /\ PostedSound(Tail(s), accepted)
         /\ Head(s) \in Callbacks /\ (Head(s).kind = "confirm" => accepted)
<1>1. /\ Len(s) \in Nat /\ Len(s) >= 1 /\ Head(s) = s[1] /\ Head(s) \in Callbacks
      /\ Tail(s) \in Seq(Callbacks) /\ Len(Tail(s)) = Len(s) - 1
      /\ \A j \in 1..Len(Tail(s)) : Tail(s)[j] = s[j + 1]
  BY HeadTailProperties, EmptySeq, LenProperties
<1>2. ASSUME NEW j \in 1..Len(Tail(s)), Tail(s)[j].kind = "confirm"
      PROVE  accepted
  <2>1. j + 1 \in 1..Len(s) /\ Tail(s)[j] = s[j + 1]
    BY <1>1
  <2> QED
    BY <1>2, <2>1 DEF PostedSound
<1>3. 1 \in 1..Len(s)
  BY <1>1
<1> QED
  BY <1>1, <1>2, <1>3 DEF PostedSound

\* A callback is posted behind the others, after a subscription was accepted if it is a
\* confirmation.
LEMMA PostedAppend ==
  ASSUME NEW s \in Seq(Callbacks), NEW accepted \in BOOLEAN, NEW more \in BOOLEAN,
         accepted => more, PostedSound(s, accepted),
         NEW c \in Callbacks, c.kind = "confirm" => more
  PROVE  /\ Append(s, c) \in Seq(Callbacks) /\ PostedSound(Append(s, c), more)
         /\ PostedSound(s, more)
<1>1. /\ Len(s) \in Nat /\ Append(s, c) \in Seq(Callbacks) /\ Len(Append(s, c)) = Len(s) + 1
      /\ \A j \in 1..Len(s) : Append(s, c)[j] = s[j]
      /\ Append(s, c)[Len(s) + 1] = c
  BY AppendProperties, LenProperties
<1>2. ASSUME NEW j \in 1..Len(Append(s, c)), Append(s, c)[j].kind = "confirm"
      PROVE  more
  <2>1. CASE j = Len(s) + 1
    BY <1>1, <1>2, <2>1
  <2>2. CASE j # Len(s) + 1
    <3>1. j \in 1..Len(s) /\ Append(s, c)[j] = s[j]
      BY <1>1, <2>2
    <3> QED
      BY <1>2, <3>1 DEF PostedSound
  <2> QED
    BY <2>1, <2>2
<1> QED
  BY <1>1, <1>2 DEF PostedSound

\* What close() leaves of the sockets.
LEMMA ClosedSockets ==
  ASSUME TypeOK, UnbornInv
  PROVE  /\ Closed \in [Ticker -> Sockets]
         /\ \A i \in Ticker : i > n => Closed[i] = "unborn"
<1>1. MaxTickers \in Nat
  BY TickerBridgeAssumption DEF TickerBridgeAssumption
<1>2. sock \in [Ticker -> Sockets]
  BY DEF TypeOK, Sockets
<1>3. ASSUME NEW i \in Ticker, i > n PROVE Closed[i] = "unborn"
  <2>1. i # current /\ sock[i] = "unborn"
    BY <1>1, <1>3 DEF TypeOK, UnbornInv, Ticker
  <2> QED
    BY <2>1 DEF Closed
<1> QED
  BY <1>2, <1>3 DEF Closed, Sockets

-----------------------------------------------------------------------------
(* The invariant holds initially and is kept by every step. *)

\* No ticker, no callback, no recovery at first.
LEMMA InitIInv == Init => IInv
<1> SUFFICES ASSUME Init PROVE IInv
  OBVIOUS
<1>constants. /\ MaxAttempts \in Nat /\ MaxTrouble \in Nat /\ MaxTickers \in Nat
  BY TickerBridgeAssumption DEF TickerBridgeAssumption
<1>1. TypeOK
  <2>1. n \in 0..MaxTickers /\ current \in 0..n /\ trouble \in 0..MaxTrouble
        /\ ladder \in 0..(MaxAttempts + 1)
    BY <1>constants DEF Init, None, Idle
  <2>2. posted \in Seq([kind : {"confirm", "recover", "auth"}, by : Ticker])
    BY EmptySeq DEF Init
  <2> QED
    BY <2>1, <2>2 DEF Init, TypeOK
<1>2. UnbornInv /\ OffInv /\ LateInv
  BY DEF Init, UnbornInv, OffInv, LateInv
<1>3. PostedSound(posted, subscribed)
  BY EmptySeq DEF Init, PostedSound
<1>4. ConfirmedBySubscription /\ NoSocketForgotten
  BY <1>constants DEF Init, ConfirmedBySubscription, NoSocketForgotten
<1> QED
  BY <1>1, <1>2, <1>3, <1>4 DEF IInv

\* A ticker's thread reports what became of its socket.
LEMMA ThreadKeepsIInv ==
  ASSUME IInv, NEW i \in Ticker, ThreadStep(i)
  PROVE  IInv'
<1> USE DEF IInv
<1>constants. /\ MaxAttempts \in Nat /\ MaxTrouble \in Nat /\ MaxTickers \in Nat
  BY TickerBridgeAssumption DEF TickerBridgeAssumption
<1>same. /\ phase' = phase /\ n' = n /\ current' = current /\ closing' = closing
         /\ unrecoverable' = unrecoverable /\ authFailed' = authFailed /\ ladder' = ladder
         /\ stray' = stray /\ revived' = revived /\ unanswered' = unanswered
  BY DEF ThreadStep, Subscribes, SubscribeFails, Rejected, Drops, Dies, events, history
<1>born. i \in 1..n
  <2>1. sock[i] # "unborn"
    BY DEF ThreadStep, Subscribes, SubscribeFails, Rejected, Drops, Dies
  <2>2. i \in Nat /\ i >= 1 /\ n \in Nat /\ ~(i > n)
    BY <2>1, <1>constants DEF TypeOK, UnbornInv, Ticker
  <2> QED
    BY <2>2
<1>trouble. trouble' \in 0..MaxTrouble
  <2>1. trouble' = trouble \/ (trouble < MaxTrouble /\ trouble' = trouble + 1)
    BY DEF ThreadStep, Subscribes, SubscribeFails, Rejected, Drops, Dies, Mishap
  <2> QED
    BY <2>1, <1>constants DEF TypeOK
<1>sock. /\ sock' \in [Ticker -> Sockets]
         /\ \A j \in Ticker : j # i => sock'[j] = sock[j]
  <2>1. \E t \in Sockets : sock' = [sock EXCEPT ![i] = t]
    <3>1. \E how \in {"live", "mute", "opening", "shut"} :
             Opens(i, how) \/ sock' = [sock EXCEPT ![i] = how]
      BY DEF ThreadStep, Subscribes, SubscribeFails, Rejected, Drops, Dies
    <3> QED
      BY <3>1 DEF Opens, Sockets
  <2> QED
    BY <2>1 DEF TypeOK, Sockets
<1>accepted. /\ subscribed' \in BOOLEAN /\ (subscribed => subscribed')
             /\ Subscribes(i) => subscribed'
             /\ ~Subscribes(i) => confirmed' = confirmed
  BY DEF TypeOK, ThreadStep, Subscribes, SubscribeFails, Rejected, Drops, Dies, events, history
<1>confirmed. /\ confirmed' \in BOOLEAN
              /\ confirmed' => confirmed \/ subscribed'
  <2>1. CASE Subscribes(i)
    <3>1. confirmed' = (confirmed \/ ~Bound)
      BY <2>1 DEF Subscribes
    <3>2. subscribed' /\ confirmed \in BOOLEAN
      BY <2>1, <1>accepted DEF TypeOK
    <3> QED
      BY <3>1, <3>2
  <2>2. CASE ~Subscribes(i)
    <3>1. confirmed' = confirmed
      BY <2>2, <1>accepted
    <3> QED
      BY <3>1 DEF TypeOK
  <2> QED
    BY <2>1, <2>2
<1>queue. posted' = posted \/
            /\ Bound
            /\ \E c \in Callbacks : /\ posted' = Append(posted, c)
                                    /\ c.kind = "confirm" => subscribed'
  <2>1. CASE Subscribes(i)
    <3> DEFINE c == [kind |-> "confirm", by |-> i]
    <3>1. c \in Callbacks /\ subscribed'
      BY <2>1, <1>accepted DEF Callbacks
    <3>2. posted' = IF Bound THEN Append(posted, c) ELSE posted
      BY <2>1 DEF Subscribes, Post
    <3> QED
      BY <3>1, <3>2
  <2>2. CASE SubscribeFails(i)
    <3> DEFINE c == [kind |-> "recover", by |-> i]
    <3>1. c \in Callbacks /\ c.kind # "confirm"
      BY DEF Callbacks
    <3>2. posted' = IF Bound THEN Append(posted, c) ELSE posted
      BY <2>2 DEF SubscribeFails, Post
    <3> QED
      BY <3>1, <3>2
  <2>3. CASE Rejected(i)
    <3> DEFINE c == [kind |-> "auth", by |-> i]
    <3>1. c \in Callbacks /\ c.kind # "confirm"
      BY DEF Callbacks
    <3>2. posted' = IF Bound THEN Append(posted, c) ELSE posted
      BY <2>3 DEF Rejected, Post
    <3> QED
      BY <3>1, <3>2
  <2>4. CASE Drops(i) \/ Dies(i)
    BY <2>4 DEF Drops, Dies
  <2> QED
    BY <2>1, <2>2, <2>3, <2>4 DEF ThreadStep
<1>typedQueue. posted \in Seq(Callbacks)
  BY DEF TypeOK, Callbacks
<1>posted. /\ posted' \in Seq(Callbacks) /\ PostedSound(posted', subscribed')
           /\ posted' = posted \/ Bound
  <2>1. CASE posted' = posted
    BY <2>1, <1>typedQueue, <1>accepted DEF PostedSound
  <2>2. CASE posted' # posted
    <3>1. PICK c \in Callbacks : /\ posted' = Append(posted, c)
                                 /\ c.kind = "confirm" => subscribed'
      BY <2>2, <1>queue
    <3>2. subscribed \in BOOLEAN /\ subscribed' \in BOOLEAN /\ (subscribed => subscribed')
      BY <1>accepted DEF TypeOK
    <3>3. Append(posted, c) \in Seq(Callbacks) /\ PostedSound(Append(posted, c), subscribed')
      BY <3>1, <3>2, <1>typedQueue, PostedAppend
    <3> QED
      BY <3>1, <3>3, <2>2, <1>queue
  <2> QED
    BY <2>1, <2>2
<1>1. TypeOK'
  BY <1>same, <1>accepted, <1>trouble, <1>sock, <1>confirmed, <1>posted
  DEF TypeOK, Callbacks, Sockets
<1>2. UnbornInv'
  <2>1. ~(i > n)
    BY <1>born, <1>constants DEF TypeOK
  <2> QED
    BY <2>1, <1>same, <1>sock DEF UnbornInv
<1>3. OffInv' /\ LateInv'
  BY <1>same, <1>posted DEF OffInv, LateInv, Bound, Idle
<1>4. ConfirmedBySubscription'
  BY <1>same, <1>accepted, <1>confirmed DEF ConfirmedBySubscription
<1>5. NoSocketForgotten'
  BY <1>same DEF NoSocketForgotten
<1> QED
  BY <1>1, <1>2, <1>3, <1>4, <1>5, <1>posted

\* The loop runs a posted callback.
LEMMA CallbackKeepsIInv ==
  ASSUME IInv, RunConfirm \/ RunRecover \/ RunAuth
  PROVE  IInv'
<1> USE DEF IInv
<1>constants. /\ MaxAttempts \in Nat /\ MaxTrouble \in Nat /\ MaxTickers \in Nat
  BY TickerBridgeAssumption DEF TickerBridgeAssumption
<1>same. /\ phase' = phase /\ n' = n /\ current' = current /\ closing' = closing
         /\ sock' = sock /\ unrecoverable' = unrecoverable /\ subscribed' = subscribed
         /\ trouble' = trouble /\ posted # <<>> /\ posted' = Tail(posted)
  BY DEF RunConfirm, RunRecover, RunAuth, tickers, events, history
<1>queue. posted \in Seq(Callbacks)
  BY DEF TypeOK, Callbacks
<1>posted. /\ posted' \in Seq(Callbacks) /\ PostedSound(posted', subscribed')
           /\ Head(posted) \in Callbacks
           /\ Head(posted).kind = "confirm" => subscribed
  <2>1. subscribed \in BOOLEAN
    BY DEF TypeOK
  <2> QED
    BY <2>1, <1>same, <1>queue, PostedTail
<1>on. phase # "off"
  BY <1>same DEF OffInv
<1>ladder. ladder' \in 0..(MaxAttempts + 1) /\ (ladder' = ladder \/ (ladder' = Scheduled /\ RunRecover))
  <2>1. ladder' = ladder \/ (ladder' = Scheduled /\ RunRecover)
    BY DEF RunConfirm, RunRecover, RunAuth
  <2> QED
    BY <2>1, <1>constants DEF TypeOK, Scheduled
<1>revived. revived' \in BOOLEAN /\ (revived => revived') /\ (RunRecover /\ phase = "over" => revived')
  BY DEF RunConfirm, RunRecover, RunAuth, history, TypeOK
<1>confirmed. /\ confirmed' \in BOOLEAN
              /\ confirmed' => confirmed \/ Head(posted).kind = "confirm"
  <2>1. CASE RunConfirm
    BY <2>1 DEF RunConfirm
  <2>2. CASE RunRecover \/ RunAuth
    <3>1. confirmed' = confirmed
      BY <2>2 DEF RunRecover, RunAuth, events
    <3> QED
      BY <3>1 DEF TypeOK
  <2> QED
    BY <2>1, <2>2
<1>others. authFailed' \in BOOLEAN /\ stray' \in BOOLEAN /\ unanswered' \in BOOLEAN
  BY DEF RunConfirm, RunRecover, RunAuth, events, history, TypeOK
<1>1. TypeOK'
  BY <1>same, <1>posted, <1>ladder, <1>revived, <1>confirmed, <1>others DEF TypeOK, Callbacks
<1>2. UnbornInv' /\ OffInv'
  BY <1>same, <1>on DEF UnbornInv, OffInv
<1>3. LateInv'
  BY <1>same, <1>ladder, <1>revived DEF LateInv
<1>4. ConfirmedBySubscription'
  BY <1>same, <1>confirmed, <1>posted DEF ConfirmedBySubscription
<1>5. NoSocketForgotten'
  BY <1>same, <1>revived DEF NoSocketForgotten
<1> QED
  BY <1>1, <1>2, <1>3, <1>4, <1>5, <1>posted

\* Another ticker is created: at the start of the session, when there was none, or by
\* an attempt of the ladder, which closed the one before.
LEMMA StartTickerKeepsIInv ==
  ASSUME IInv, Start \/ BeginLadder \/ AttemptFails
  PROVE  IInv'
<1> USE DEF IInv
<1>constants. /\ MaxAttempts \in Nat \ {0} /\ MaxTrouble \in Nat /\ MaxTickers \in Nat
  BY TickerBridgeAssumption DEF TickerBridgeAssumption
<1>start. /\ n < MaxTickers /\ n' = n + 1 /\ current' = n + 1 /\ confirmed' = FALSE
          /\ sock' = [Closed EXCEPT ![n + 1] = "opening"] /\ unanswered' = unanswered
          /\ posted' = posted /\ subscribed' = subscribed /\ stray' = stray
          /\ revived' = revived /\ unrecoverable' = unrecoverable /\ trouble' = trouble
  BY DEF Start, BeginLadder, AttemptFails, Attempt, StartTicker, history
<1>n. n \in Nat /\ n' \in 0..MaxTickers /\ n + 1 \in Ticker
  BY <1>start, <1>constants DEF TypeOK, Ticker
<1>ladder. ladder' \in 0..(MaxAttempts + 1) /\ (ladder' # Idle => ladder # Idle)
  <2>1. CASE Start
    BY <2>1 DEF Start, TypeOK
  <2>2. CASE BeginLadder
    <3>1. ladder = 0 /\ ladder' = 1
      BY <2>2 DEF BeginLadder, Attempt, Scheduled
    <3> QED
      BY <3>1, <1>constants DEF Idle
  <2>3. CASE AttemptFails
    <3>1. ladder \in 1..(MaxAttempts - 1) /\ ladder' = ladder + 1
      BY <2>3 DEF AttemptFails, Attempt
    <3> QED
      BY <3>1, <1>constants DEF Idle
  <2> QED
    BY <2>1, <2>2, <2>3
<1>phase. /\ phase' \in {"connecting", "grid", "over"}
          /\ phase' = phase \/ phase' = "connecting"
          /\ phase' = "over" => revived
  <2>1. CASE Start
    BY <2>1 DEF Start
  <2>2. CASE BeginLadder \/ AttemptFails
    <3>1. phase' = phase
      BY <2>2 DEF BeginLadder, AttemptFails
    <3>2. ladder # Idle
      BY <2>2, <1>constants DEF BeginLadder, AttemptFails, Scheduled, Idle
    <3> QED
      BY <3>1, <3>2 DEF TypeOK, OffInv, LateInv
  <2> QED
    BY <2>1, <2>2
<1>auth. authFailed' \in BOOLEAN
  BY DEF Start, BeginLadder, AttemptFails, TypeOK
<1>closed. closing' \subseteq 1..n /\ 1..n \subseteq closing'
  <2>1. CASE Start
    <3>1. n = 0 /\ closing' = closing
      BY <2>1 DEF Start, OffInv
    <3> QED
      BY <3>1 DEF TypeOK
  <2>2. CASE BeginLadder \/ AttemptFails
    <3>1. closing' = closing \cup ({current} \ {None})
      BY <2>2 DEF BeginLadder, AttemptFails, Attempt, CloseCurrent
    <3>2. current \in 0..n /\ closing \subseteq 1..n
      BY DEF TypeOK
    <3>3. ASSUME NEW i \in 1..n PROVE i \in closing'
      <4>1. i # None
        BY DEF None
      <4> QED
        BY <3>1, <4>1 DEF NoSocketForgotten
    <3>4. ASSUME NEW i, i \in closing' PROVE i \in 1..n
      <4>1. i \in closing \/ (i = current /\ i # 0)
        BY <3>1, <3>4 DEF None
      <4> QED
        <5>1. CASE i \in closing
          BY <5>1, <3>2
        <5>2. CASE i = current /\ i # 0
          BY <5>2, <3>2, <1>n
        <5> QED
          BY <4>1, <5>1, <5>2
    <3> QED
      BY <3>3, <3>4
  <2> QED
    BY <2>1, <2>2
<1>1. TypeOK'
  <2>1. sock' \in [Ticker -> {"unborn", "opening", "live", "mute", "shut"}]
    BY <1>start, ClosedSockets DEF Sockets
  <2>2. current' \in 0..n' /\ 1..n \subseteq 1..n'
    BY <1>start, <1>n
  <2>3. closing' \subseteq 1..n'
    BY <2>2, <1>closed, <1>start DEF TypeOK
  <2> QED
    BY <2>1, <2>2, <2>3, <1>start, <1>n, <1>ladder, <1>phase, <1>auth DEF TypeOK
<1>2. UnbornInv'
  <2>1. ASSUME NEW i \in Ticker, i > n + 1 PROVE sock'[i] = "unborn"
    <3>1. i > n /\ i # n + 1
      BY <2>1, <1>n, <1>constants DEF Ticker
    <3> QED
      BY <3>1, <1>start, <1>n, ClosedSockets DEF UnbornInv
  <2> QED
    BY <2>1, <1>start DEF UnbornInv
<1>3. OffInv' /\ LateInv'
  BY <1>phase, <1>start DEF OffInv, LateInv
<1>4. ConfirmedBySubscription'
  BY <1>phase, <1>start DEF ConfirmedBySubscription
<1>5. NoSocketForgotten'
  <2> SUFFICES ASSUME NEW i \in 1..(n + 1)
               PROVE  i \in closing' \/ (i = n + 1 /\ (phase' # "over" \/ revived))
    BY <1>start DEF NoSocketForgotten
  <2>1. i \in 1..n \/ i = n + 1
    BY <1>n
  <2> QED
    BY <2>1, <1>closed, <1>phase
<1>6. PostedSound(posted', subscribed')
  BY <1>start
<1> QED
  BY <1>1, <1>2, <1>3, <1>4, <1>5, <1>6

\* The ladder ends: recovered, or given up with the last ticker closed.
LEMMA LadderEndKeepsIInv ==
  ASSUME IInv, AttemptConfirmed \/ LadderExhausted
  PROVE  IInv'
<1> USE DEF IInv
<1>constants. MaxAttempts \in Nat \ {0} /\ MaxTickers \in Nat
  BY TickerBridgeAssumption DEF TickerBridgeAssumption
<1>same. /\ phase' = phase /\ n' = n /\ sock' \in {sock, Closed} /\ authFailed' = authFailed
         /\ posted' = posted /\ trouble' = trouble /\ subscribed' = subscribed
         /\ stray' = stray /\ revived' = revived /\ ladder' = Idle
         /\ unanswered' = unanswered
  BY DEF AttemptConfirmed, LadderExhausted, tickers, events, history
<1>sock. sock' \in [Ticker -> Sockets] /\ \A i \in Ticker : i > n => sock'[i] = "unborn"
  BY <1>same, ClosedSockets DEF TypeOK, UnbornInv, Sockets
<1>events. /\ confirmed' \in BOOLEAN /\ unrecoverable' \in BOOLEAN
           /\ confirmed' => confirmed
  <2>1. CASE AttemptConfirmed
    <3>1. confirmed' = confirmed /\ unrecoverable' = unrecoverable
      BY <2>1 DEF AttemptConfirmed, events
    <3> QED
      BY <3>1 DEF TypeOK
  <2>2. CASE LadderExhausted
    BY <2>2 DEF LadderExhausted
  <2> QED
    BY <2>1, <2>2
<1>closed. /\ current' \in 0..n /\ closing' \subseteq 1..n /\ closing \subseteq closing'
           /\ \A i \in 1..n : i = current => i = current' \/ i \in closing'
  <2>1. CASE AttemptConfirmed
    BY <2>1 DEF AttemptConfirmed, tickers, TypeOK
  <2>2. CASE LadderExhausted
    <3>1. closing' = closing \cup ({current} \ {None}) /\ current' = 0
      BY <2>2 DEF LadderExhausted, CloseCurrent, None
    <3>2. current \in 0..n /\ n \in Nat /\ closing \subseteq 1..n
      BY <1>constants DEF TypeOK
    <3>3. ({current} \ {None}) \subseteq 1..n
      BY <3>2 DEF None
    <3>4. \A i \in 1..n : i # None
      BY DEF None
    <3>5. 0 \in 0..n
      BY <3>2
    <3> QED
      BY <3>1, <3>2, <3>3, <3>4, <3>5
  <2> QED
    BY <2>1, <2>2
<1>1. TypeOK'
  <2>1. ladder' \in 0..(MaxAttempts + 1)
    BY <1>same, <1>constants DEF Idle
  <2> QED
    BY <2>1, <1>same, <1>sock, <1>events, <1>closed DEF TypeOK, Sockets
<1>2. UnbornInv' /\ OffInv' /\ LateInv'
  BY <1>same, <1>sock DEF UnbornInv, OffInv, LateInv
<1>3. ConfirmedBySubscription'
  BY <1>same, <1>events DEF ConfirmedBySubscription
<1>4. NoSocketForgotten'
  BY <1>same, <1>closed DEF NoSocketForgotten
<1>5. PostedSound(posted', subscribed')
  BY <1>same
<1> QED
  BY <1>1, <1>2, <1>3, <1>4, <1>5

\* bridge.stop: the ticker is closed and the recovery cancelled.
LEMMA StopKeepsIInv ==
  ASSUME IInv, ConnectTimesOut \/ AuthStops \/ Escalate \/ EngineEnds
  PROVE  IInv'
<1> USE DEF IInv
<1>constants. MaxAttempts \in Nat \ {0} /\ MaxTickers \in Nat
  BY TickerBridgeAssumption DEF TickerBridgeAssumption
<1>same. /\ phase' = "over" /\ n' = n /\ current' = current /\ sock' = Closed
         /\ confirmed' = confirmed /\ unrecoverable' = unrecoverable
         /\ authFailed' = authFailed /\ posted' = posted /\ trouble' = trouble
         /\ subscribed' = subscribed /\ stray' = stray /\ revived' = revived
         /\ unanswered' = unanswered
         /\ ladder' = Idle /\ closing' = closing \cup ({current} \ {None})
  BY DEF ConnectTimesOut, AuthStops, Escalate, EngineEnds, Stop, CloseCurrent, events, history
<1>sock. sock' \in [Ticker -> Sockets] /\ \A i \in Ticker : i > n => sock'[i] = "unborn"
  BY <1>same, ClosedSockets
<1>typed. current \in 0..n /\ n \in Nat /\ closing \subseteq 1..n
  BY <1>constants DEF TypeOK
<1>1. TypeOK'
  <2>1. ladder' \in 0..(MaxAttempts + 1)
    BY <1>same, <1>constants DEF Idle
  <2>2. ({current} \ {None}) \subseteq 1..n
    BY <1>typed DEF None
  <2>3. closing' \subseteq 1..n
    BY <1>same, <1>typed, <2>2
  <2> QED
    BY <2>1, <2>3, <1>same, <1>sock DEF TypeOK, Sockets
<1>2. UnbornInv' /\ OffInv' /\ LateInv'
  BY <1>same, <1>sock DEF UnbornInv, OffInv, LateInv
<1>3. ConfirmedBySubscription'
  <2>1. phase = "grid" \/ confirmed' => confirmed \/ phase = "grid"
    BY <1>same
  <2> QED
    BY <2>1, <1>same DEF ConfirmedBySubscription
<1>4. NoSocketForgotten'
  <2>1. \A i \in 1..n : i # None
    BY DEF None
  <2> QED
    BY <2>1, <1>same DEF NoSocketForgotten
<1>5. PostedSound(posted', subscribed')
  BY <1>same
<1> QED
  BY <1>1, <1>2, <1>3, <1>4, <1>5

\* The grid is entered; a stale feed asks for a recovery; nothing happens.
LEMMA SessionKeepsIInv ==
  ASSUME IInv, FeedLive \/ FeedStale \/ UNCHANGED vars
  PROVE  IInv'
<1> USE DEF IInv
<1>constants. MaxAttempts \in Nat \ {0} /\ MaxTrouble \in Nat
  BY TickerBridgeAssumption DEF TickerBridgeAssumption
<1>same. /\ n' = n /\ current' = current /\ sock' = sock /\ closing' = closing
         /\ confirmed' = confirmed /\ unrecoverable' = unrecoverable
         /\ authFailed' = authFailed /\ posted' = posted
         /\ subscribed' = subscribed /\ stray' = stray /\ revived' = revived
         /\ unanswered' = unanswered
  BY DEF FeedLive, FeedStale, vars, tickers, events, history
<1>phase. phase' = phase \/ (phase' = "grid" /\ confirmed)
  BY DEF FeedLive, FeedStale, vars
<1>ladder. ladder' \in 0..(MaxAttempts + 1) /\ (ladder' = ladder \/ phase' = "grid")
  <2>1. ladder' = ladder \/ (ladder' = 0 /\ phase' = "grid")
    BY DEF FeedLive, FeedStale, vars, Scheduled
  <2> QED
    BY <2>1, <1>constants DEF TypeOK
<1>trouble. trouble' \in 0..MaxTrouble
  <2>1. trouble' = trouble \/ (trouble < MaxTrouble /\ trouble' = trouble + 1)
    BY DEF FeedLive, FeedStale, vars, Mishap
  <2> QED
    BY <2>1, <1>constants DEF TypeOK
<1>1. TypeOK'
  BY <1>same, <1>phase, <1>ladder, <1>trouble DEF TypeOK
<1>2. UnbornInv' /\ OffInv' /\ LateInv'
  BY <1>same, <1>phase, <1>ladder DEF UnbornInv, OffInv, LateInv
<1>3. ConfirmedBySubscription'
  BY <1>same, <1>phase DEF ConfirmedBySubscription
<1>4. NoSocketForgotten'
  BY <1>same, <1>phase DEF NoSocketForgotten
<1>5. PostedSound(posted', subscribed')
  BY <1>same
<1> QED
  BY <1>1, <1>2, <1>3, <1>4, <1>5

-----------------------------------------------------------------------------
(* The theorems. *)

\* Every step keeps the invariant.
LEMMA NextKeepsIInv == IInv /\ [Next]_vars => IInv'
<1> SUFFICES ASSUME IInv, [Next]_vars PROVE IInv'
  OBVIOUS
<1>1. ASSUME NEW i \in Ticker, ThreadStep(i) PROVE IInv'
  BY <1>1, ThreadKeepsIInv
<1>2. CASE RunConfirm \/ RunRecover \/ RunAuth
  BY <1>2, CallbackKeepsIInv
<1>3. CASE Start \/ BeginLadder \/ AttemptFails
  BY <1>3, StartTickerKeepsIInv
<1>4. CASE AttemptConfirmed \/ LadderExhausted
  BY <1>4, LadderEndKeepsIInv
<1>5. CASE ConnectTimesOut \/ AuthStops \/ Escalate \/ EngineEnds
  BY <1>5, StopKeepsIInv
<1>6. CASE FeedLive \/ FeedStale \/ Over \/ UNCHANGED vars
  BY <1>6, SessionKeepsIInv DEF Over
<1> QED
  BY <1>1, <1>2, <1>3, <1>4, <1>5, <1>6 DEF Next, Bridge, Session, ThreadStep

\* The inductive invariant.
THEOREM Invariance == Spec => []IInv
  BY InitIInv, NextKeepsIInv, PTL DEF Spec

\* Every ticker but the current one was closed, after stop() that one as well, and no
\* confirmation is without a subscription.
THEOREM SocketsAreAccounted == Spec => []SocketsAccounted
<1>1. IInv => SocketsAccounted
  BY DEF IInv, SocketsAccounted
<1> QED
  BY <1>1, Invariance, PTL
=============================================================================
