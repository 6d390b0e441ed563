---------------------------- MODULE BrokerSession ----------------------------
(***************************************************************************)
(* The daily broker session and everything that writes its file.           *)
(*                                                                         *)
(* session-<date>.json holds the access token capture needs and the        *)
(* risk-free rate with the date it is as of.  Inside the service one       *)
(* re-entrant lock orders the automation's acquisition, the swap a dying   *)
(* capture attempts before its restart, the invalidation of a token the    *)
(* ticker rejected and the operator's logins; the staged login keeps its   *)
(* attempt under a second lock.  md-login is another process: it looks at  *)
(* the file, talks to the operator, and writes without any lock, between   *)
(* any two looks of the others at the disk.                                *)
(*                                                                         *)
(* Tokens are numbered in the order the broker's login service issues      *)
(* them, 0 standing for none.  A rate is represented by the date it is as  *)
(* of, 0 standing for no rate.  Kite revokes tokens at any moment, the     *)
(* older ones with the newer.                                              *)
(***************************************************************************)
EXTENDS Naturals, FiniteSets, FiniteSetsExt

CONSTANTS MaxTokens,        \* bound: tokens ever issued
          MaxDay            \* bound: trading dates

ASSUME SessionAssumption ==
    {MaxTokens, MaxDay} \subseteq Nat \ {0}

VARIABLES files,      \* session-<date>.json, or Absent
          retired,    \* as-of dates of the rates in invalidated files
          tried,      \* _previous_token_attempted_dates, those that still matter
          op,         \* the broker operation holding _session_lock
          attempt,    \* the coordinator's login attempt
          cli,        \* an md-login past its check: the date it will write
          feed,       \* the token the running capture started with
          today,      \* the trading date
          issued, revoked,  \* how many tokens there are, and Kite no longer accepts
          offered     \* the token the broker hands out

disk    == <<files, retired>>
service == <<tried, op>>
world   == <<today, issued, revoked, offered>>
sessionVars == <<disk, service, attempt, world, cli, feed>>

Days   == 1..MaxDay

\* The tokens Kite accepts.
alive == (revoked + 1)..issued

Absent == [token |-> 0, asOf |-> 0]
Idle   == [kind |-> "idle", day |-> 0, token |-> 0, asOf |-> 0, expected |-> 0, raced |-> FALSE]
NoAttempt == [step |-> "none", day |-> 0, token |-> 0]

SessionTypeOK ==
    /\ files \in [Days -> [token: 0..issued, asOf: 0..MaxDay]]
    /\ \A d \in Days: files[d].token = 0 => files[d] = Absent
    /\ retired \subseteq Days /\ tried \subseteq {today}
    /\ op \in [kind: {"idle", "fetch", "exchange", "swap", "drop", "save", "write"},
               day: 0..MaxDay, token: 0..issued, asOf: 0..MaxDay,
               expected: 0..issued, raced: BOOLEAN]
    /\ attempt \in [step: {"none", "totp", "rate"}, day: 0..MaxDay, token: 0..issued]
    /\ cli \in 0..MaxDay /\ feed \in 0..issued /\ today \in Days
    /\ issued \in 0..MaxTokens /\ revoked \in 0..issued /\ offered \in 0..issued

SessionInit ==
    /\ files = [d \in Days |-> Absent]
    /\ retired = {} /\ tried = {} /\ op = Idle
    /\ attempt = NoAttempt
    /\ cli = 0 /\ feed = 0 /\ today = 1
    /\ issued = 0 /\ revoked = 0 /\ offered = 0

-----------------------------------------------------------------------------
(* Session files *)

CaptureReady(session) == session.token # 0 /\ session.asOf # 0

\* save_session: the file of a date is replaced in one step.
Save(day, token, asOf) ==
    /\ files' = [files EXCEPT ![day] = [token |-> token, asOf |-> asOf]]
    /\ UNCHANGED retired

\* A plausible slip: any session stored will do.
MatchesAny(expected) == files[today].token # 0

\* invalidate_session first reads the file, and goes on for the exact token only ...
Matches(expected) == files[today].token = expected

\* A plausible slip: the token is blanked and the rest of the file stays.
RetireTokenOnly(day) ==
    IF files[day].token # 0
    THEN files' = [files EXCEPT ![day].token = 0] /\ UNCHANGED retired
    ELSE UNCHANGED disk

\* ... and then renames whatever file it finds there.  The rate stays on record.
Retire(day) ==
    IF files[day].token # 0
    THEN /\ files' = [files EXCEPT ![day] = Absent]
         /\ retired' = retired \cup ({files[day].asOf} \ {0})
    ELSE UNCHANGED disk

\* load_latest_session_before: the newest date before this one that has a token.
LatestBefore(day) ==
    LET before == {d \in Days: d < day /\ files[d].token # 0}
    IN  IF before = {} THEN 0 ELSE files[Max(before)].token

\* A plausible slip: the live sessions only.
LatestLiveRate(day) ==
    LET stored == {d \in {files[e].asOf: e \in Days}: 0 < d /\ d <= day}
    IN  IF stored = {} THEN 0 ELSE Max(stored)

\* latest_stored_risk_free_rate: from live and invalidated files, none from the future.
LatestRate(day) ==
    LET stored == {d \in retired \cup {files[e].asOf: e \in Days}: 0 < d /\ d <= day}
    IN  IF stored = {} THEN 0 ELSE Max(stored)

-----------------------------------------------------------------------------
(* SessionService: acquisition and refresh.  op is the lock and what its   *)
(* holder has reached: at the network for a token or a rate, between a look at  *)
(* the disk and the step that rests on it.                                 *)

LockFree == op = Idle

\* active_session has nothing: what each login looks up again under the lock.
NoSession == files[today].token = 0

\* _acquire_broker_session_unlocked, down to the fetch: an active session is
\* reused, and a session of an earlier date is tried once per date.  The
\* automation asks only while there is no session; one may have appeared since.
AcquireStart ==
    /\ LockFree
    /\ IF files[today].token # 0
       THEN UNCHANGED <<op, tried>>
       ELSE LET previous == LatestBefore(today)
                reusable == today \notin tried /\ previous \in alive
            IN  /\ tried' = tried \cup {today}
                /\ \/ /\ reusable
                      /\ op' = [Idle EXCEPT !.kind = "save", !.day = today, !.token = previous]
                   \/ \* nothing to try, or the validator refused or could not ask
                      /\ op' = [Idle EXCEPT !.kind = "fetch", !.day = today]
    /\ UNCHANGED <<disk, attempt, world, cli, feed>>

\* The broker's token, validated.
AcquireFetched ==
    /\ op.kind = "fetch" /\ offered \in alive
    /\ op' = [op EXCEPT !.kind = "save", !.token = offered]
    /\ UNCHANGED <<disk, tried, attempt, world, cli, feed>>

\* Nothing offered, a token Kite refuses, or the network failed.
AcquireRefused ==
    /\ op.kind = "fetch"
    /\ op' = Idle
    /\ UNCHANGED <<disk, tried, attempt, world, cli, feed>>

\* resolve_daily_risk_free_rate has one or not; then it is the newest stored.
RateFor(day) == {day, LatestRate(day)}

ResolveRate ==
    /\ op.kind = "save"
    /\ \E asOf \in RateFor(op.day): op' = [op EXCEPT !.kind = "write", !.asOf = asOf]
    /\ UNCHANGED <<disk, tried, attempt, world, cli, feed>>

\* refresh_broker_session, called by a capture about to restart the process.
RefreshStart ==
    /\ LockFree /\ feed # 0
    /\ offered \in alive /\ offered # feed
    /\ op' = [Idle EXCEPT !.kind = "swap", !.day = today, !.token = offered, !.expected = feed]
    /\ UNCHANGED <<disk, tried, attempt, world, cli, feed>>

RefreshCompares ==
    /\ op.kind = "swap"
    /\ op' = [op EXCEPT !.kind = IF Matches(op.expected) THEN "drop" ELSE "save"]
    /\ UNCHANGED <<disk, tried, attempt, world, cli, feed>>

\* With a token in hand its rate is next; a refused capture ends here.
SessionDropped ==
    /\ op.kind = "drop"
    /\ Retire(op.day)
    /\ \/ /\ op.token # 0
          /\ op' = [op EXCEPT !.kind = "save"] /\ UNCHANGED feed
       \/ /\ op.token = 0
          /\ op' = Idle /\ feed' = 0
    /\ UNCHANGED <<tried, attempt, world, cli>>

-----------------------------------------------------------------------------
(* The process *)

\* A new process: no lock, no attempt, no memory of what was tried.
Restart ==
    /\ tried' = {} /\ op' = Idle /\ feed' = 0
    /\ attempt' = NoAttempt

\* The lock is released; the escalation that asked for a swap ends the process in any case.
Released ==
    IF op.expected # 0
    THEN Restart
    ELSE op' = Idle /\ UNCHANGED <<tried, attempt, feed>>

SessionWritten ==
    /\ op.kind = "write"
    /\ Save(op.day, op.token, op.asOf)
    /\ Released
    /\ UNCHANGED <<world, cli>>

\* The rate found is out of range, or the file cannot be written; a swap has dropped the
\* old session by then.
SaveFails ==
    /\ op.kind = "write"
    /\ Released
    /\ UNCHANGED <<disk, world, cli>>

\* Killed, or escalated with no other token to swap in.
Killed == Restart /\ UNCHANGED <<disk, world, cli>>

StartCapture ==
    /\ feed = 0 /\ CaptureReady(files[today])
    /\ feed' = files[today].token
    /\ UNCHANGED <<disk, service, attempt, world, cli>>

StopCapture ==
    /\ feed # 0 /\ op.expected = 0
    /\ feed' = 0
    /\ UNCHANGED <<disk, service, attempt, world, cli>>

\* A plausible slip: the rejected session is left in its file.
RejectedAndKept ==
    /\ feed # 0 /\ feed \notin alive /\ LockFree
    /\ feed' = 0
    /\ UNCHANGED <<disk, service, attempt, world, cli>>

\* The ticker is refused: invalidate_active_session with the capture's token.
TickerRejected ==
    /\ feed # 0 /\ feed \notin alive /\ LockFree
    /\ IF Matches(feed)
       THEN /\ op' = [Idle EXCEPT !.kind = "drop", !.day = today, !.expected = feed]
            /\ UNCHANGED feed
       ELSE feed' = 0 /\ UNCHANGED op
    /\ UNCHANGED <<disk, tried, attempt, world, cli>>

-----------------------------------------------------------------------------
(* LoginCoordinator *)

\* The bound on tokens: no login begins that no token is left for.
MayIssue == issued < MaxTokens

\* What every start does first.  The cooldown and the password budget may refuse
\* it too, which is as if the operator had not asked.
Startable == NoSession /\ attempt = NoAttempt

\* The broker has a token: the attempt waits for the operator's rate.
StartShared ==
    /\ Startable /\ offered \in alive
    /\ attempt' = [step |-> "rate", day |-> today, token |-> offered]
    /\ UNCHANGED <<disk, service, world, cli, feed>>

\* The stored password: Kite answers with the request for a code.
StartPassword ==
    /\ Startable /\ offered = 0 /\ MayIssue
    /\ attempt' = [step |-> "totp", day |-> today, token |-> 0]
    /\ UNCHANGED <<disk, service, world, cli, feed>>

\* A refused code consumes the attempt.
SubmitTotp ==
    /\ attempt.step = "totp"
    /\ attempt' \in {NoAttempt, [attempt EXCEPT !.step = "rate"]}
    /\ UNCHANGED <<disk, service, world, cli, feed>>

\* Cancelled by the operator, or past its time to live.
CancelLogin ==
    /\ attempt # NoAttempt
    /\ attempt' = NoAttempt
    /\ UNCHANGED <<disk, service, world, cli, feed>>

\* A token from the login exchange is a new one.
Exchange == /\ MayIssue
            /\ issued' = issued + 1 /\ UNCHANGED revoked

\* A plausible slip: the session is not looked up again under the lock.
CompleteAnyway ==
    /\ LockFree /\ attempt.step = "rate" /\ attempt.token # 0
    /\ attempt' = NoAttempt
    /\ op' = [Idle EXCEPT !.kind = "write", !.day = attempt.day,
                          !.token = attempt.token, !.asOf = attempt.day]
    /\ UNCHANGED <<disk, tried, world, cli, feed>>

\* complete_login: an active session cancels the attempt; else its own token, or one
\* still to be exchanged for, is for the attempt's own date.  The attempt is consumed
\* whatever happens.
CompleteLogin ==
    /\ LockFree /\ attempt.step = "rate"
    /\ attempt' = NoAttempt
    /\ \/ ~NoSession /\ UNCHANGED op
       \/ /\ NoSession /\ attempt.token # 0
          /\ op' = [Idle EXCEPT !.kind = "write", !.day = attempt.day,
                                !.token = attempt.token, !.asOf = attempt.day]
       \/ /\ NoSession /\ attempt.token = 0
          /\ op' = [Idle EXCEPT !.kind = "exchange", !.day = attempt.day]
    /\ UNCHANGED <<disk, tried, world, cli, feed>>

\* POST /api/auth/login with a request token.
ManualLogin ==
    /\ LockFree /\ NoSession /\ MayIssue
    /\ op' = [Idle EXCEPT !.kind = "exchange", !.day = today]
    /\ UNCHANGED <<disk, tried, attempt, world, cli, feed>>

\* Kite answers; the operator's rate is of the day the login is for.
LoginExchanged ==
    /\ op.kind = "exchange" /\ Exchange
    /\ op' = [op EXCEPT !.kind = "write", !.token = issued + 1, !.asOf = op.day]
    /\ UNCHANGED <<disk, tried, attempt, today, offered, cli, feed>>

LoginFails ==
    /\ op.kind = "exchange"
    /\ op' = Idle
    /\ UNCHANGED <<disk, tried, attempt, world, cli, feed>>

-----------------------------------------------------------------------------
(* md-login, in a process of its own *)

\* Only --force lets it go on past an existing session, so it may at any time;
\* then it asks for the code.
CliChecks ==
    /\ cli = 0 /\ MayIssue
    /\ cli' = today
    /\ UNCHANGED <<disk, service, attempt, world, feed>>

\* It looks nothing up again, and stores no rate if none can be resolved.
CliSaves ==
    /\ cli # 0 /\ Exchange
    /\ \E asOf \in {0, cli}: Save(cli, issued + 1, asOf)
    /\ cli' = 0
    /\ op' = [op EXCEPT !.raced = op # Idle]
    /\ UNCHANGED <<tried, attempt, today, offered, feed>>

CliFails ==
    /\ cli # 0
    /\ cli' = 0
    /\ UNCHANGED <<disk, service, attempt, world, feed>>

-----------------------------------------------------------------------------
(* The clock, the token broker and Kite *)

DayPasses ==
    /\ today < MaxDay /\ feed = 0      \* capture ended at the close
    /\ today' = today + 1 /\ tried' = {}
    /\ UNCHANGED <<disk, op, attempt, issued, revoked, offered, cli, feed>>

BrokerLogin ==
    /\ Exchange
    /\ offered' = issued + 1
    /\ UNCHANGED <<disk, service, attempt, today, cli, feed>>

BrokerForgets ==
    /\ offered # 0
    /\ offered' = 0
    /\ UNCHANGED <<disk, service, attempt, today, issued, revoked, cli, feed>>

KiteRevokes ==
    /\ revoked' \in alive
    /\ UNCHANGED <<disk, service, attempt, today, issued, offered, cli, feed>>

SessionNext ==
    \/ AcquireStart \/ AcquireFetched \/ AcquireRefused
    \/ RefreshStart \/ RefreshCompares \/ TickerRejected \/ SessionDropped
    \/ ResolveRate \/ SessionWritten \/ SaveFails
    \/ Killed \/ StartCapture \/ StopCapture
    \/ StartShared \/ StartPassword \/ SubmitTotp \/ CancelLogin \/ CompleteLogin
    \/ ManualLogin \/ LoginExchanged \/ LoginFails
    \/ CliChecks \/ CliSaves \/ CliFails
    \/ DayPasses \/ BrokerLogin \/ BrokerForgets \/ KiteRevokes

\* The automation asks for a session and starts capture again and again, and gets the
\* lock in the end; a step under the lock ends; Kite does not fail every time.
SessionSpec == /\ SessionInit /\ [][SessionNext]_sessionVars
               /\ SF_sessionVars(AcquireStart) /\ SF_sessionVars(AcquireFetched) /\ SF_sessionVars(TickerRejected)
               /\ WF_sessionVars(AcquireRefused \/ RefreshCompares \/ SessionDropped \/ ResolveRate
                                 \/ SessionWritten \/ SaveFails \/ LoginExchanged \/ LoginFails)
               /\ WF_sessionVars(StartCapture)

-----------------------------------------------------------------------------
(* Properties *)

\* A stored session disappears only because its own token was the failed
\* capture's: refused by Kite, or about to be replaced by a validated other
\* one.  A capture still holding an older token never takes away the session
\* a login has put there since, unless md-login wrote it between the look at
\* the file and its removal.
SessionLossExplained ==
    [][\A d \in Days: files[d].token # 0 /\ files'[d].token = 0 =>
          \/ op.raced
          \/ /\ files[d].token = feed
             /\ feed \notin alive \/ op.token \notin {0, feed}]_sessionVars

\* Concurrent logins and acquisitions end with one session for the day: no
\* operation of the service replaces the session of today, except the swap
\* before a restart, unless md-login wrote it behind the lock's back.
SessionNotOverwritten ==
    [][\A d \in Days: files[d].token # 0 /\ files'[d].token \notin {0, files[d].token} =>
          \/ d < today
          \/ cli = d /\ cli' = 0
          \/ op.expected # 0
          \/ op.raced]_sessionVars

\* A rate once stored keeps capture startable: for the dates that may still be asked
\* for, today's and later ones and that of the operation under way, no step of the
\* service takes the newest rate off the record, not even one that removes or
\* replaces the session carrying it.  And what the service stores while one is on
\* record has a rate.  Only a session md-login stores after the service has looked the
\* rates up, and before it writes, may be replaced by one with an older rate or none.
OnRecord(d) == {r \in retired \cup {files[e].asOf: e \in Days}: 0 < r /\ r <= d}
AskedFor == {d \in Days: d >= today \/ d = op.day}

RateSurvives ==
    [][cli' = cli /\ ~(op.kind = "write" /\ op.raced) =>
        \A d \in Days: OnRecord(d) # {} =>
            /\ d \in AskedFor => \E r \in OnRecord(d)': \A q \in OnRecord(d): q <= r
            /\ files'[d] # files[d] /\ files'[d].token # 0 => files'[d].asOf # 0]_sessionVars

\* While the broker keeps offering a token Kite accepts, and once the process is no
\* longer killed and the disk no longer fails, the day ends up with a session Kite
\* accepts, or capture is running on one: no lost swap, stale token, dead attempt or
\* crash keeps capture out.  (A session stored without a rate, by md-login or because
\* none was to be had, is left as it is.)
SessionRestored ==
    <>[](offered \in alive) /\ <>[][~(Killed \/ SaveFails)]_sessionVars =>
        <>[](LET session == files[today] IN
             {session.token, feed} \cap alive # {} \/ (session.token # 0 /\ session.asOf = 0))

\* refresh_broker_session: "or leave the current session untouched", "a failed
\* refresh must not disturb the session": once it is over, the day still has one.
RefreshKeepsSession ==
    [][op.kind = "write" /\ op.expected # 0 /\ op'.kind = "idle" =>
          files'[today].token # 0]_sessionVars

=============================================================================
