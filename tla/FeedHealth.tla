------------------------------ MODULE FeedHealth ------------------------------
(***************************************************************************)
(* CaptureEngine's verdict on the live feed and what it does about it.     *)
(* The tick consumer stamps, per batch, the transport, every artifact and  *)
(* leg it could update, and whether the content changed; each grid pass    *)
(* judges the stamps (observe_feed_health), keeps a stale spell that only  *)
(* sustained freshness ends, replaces the socket a limited number of times *)
(* an hour, and raises for a restart of the process when the spell lasts.  *)
(*                                                                         *)
(* A stamp is kept as its age.  Ages stop growing where the code makes no  *)
(* distinction any more, so that the model has no last day.                *)
(***************************************************************************)
EXTENDS Integers, Sequences, FiniteSets, SequencesExt, FiniteSetsExt

CONSTANTS
  Artifacts,           \* logical datasets, one file each
  Legs, CashLegs,      \* slices of artifacts; those that follow the cash session
  Tokens,              \* instruments
  Owners,              \* [Tokens -> SUBSET Artifacts]: _owners
  LegsOf,              \* [Tokens -> SUBSET Legs]: _contributor_tokens, at most one
  StaleAfter,          \* FreshnessMonitor.stale_after_ms
  ArtifactStaleAfter,  \* ... times ARTIFACT_STALE_FACTOR
  StaleExit,           \* stale_exit_ms
  Confirm,             \* stale_recovery_confirm_ms
  ReconnectAfter,      \* reconnect_after_ms
  ReconnectLimit,      \* reconnect_limit_per_hour
  Hour,                \* the trailing window of that limit
  CapturePreOpen       \* capture_pre_open of the derivatives session

ASSUME FeedHealthAssumption ==
  /\ CashLegs \subseteq Legs
  /\ Artifacts # {} /\ Artifacts \cap Legs = {}
  /\ Owners \in [Tokens -> SUBSET Artifacts] /\ LegsOf \in [Tokens -> SUBSET Legs]
  /\ \A t \in Tokens : Cardinality(LegsOf[t]) <= 1
  /\ StaleAfter \in Nat \ {0} /\ ArtifactStaleAfter \in Nat \ {0}
  /\ StaleExit \in Nat /\ Confirm \in Nat /\ ReconnectAfter \in Nat
  /\ ReconnectLimit \in Nat /\ Hour \in Nat
  /\ CapturePreOpen \in BOOLEAN

VARIABLES
  phase,       \* of the derivatives session, which artifacts follow
  up,          \* is the capture process running?
  pipeline,    \* do its tick consumer and the bridge's socket work?
  ticked,      \* has_received_data
  transport,   \* age of the last batch, or of the start of the grid
  content,     \* age of the last change of content, or of that start
  updated,     \* [artifact or leg -> age of the last applied tick]
  spell,       \* age of the stale spell, or Off: _stale_spell_start_ms
  fresh,       \* age of the freshness that may end it, or Off: _fresh_since_ms
  attempts,    \* ages of reconnects, oldest first: _reconnect_times_ms
  due,         \* has time passed since the last grid pass?
  owed,        \* history: for how long frames have been owed to this process
  calm,        \* history: age of the last pass that found the feed stale
  tries        \* history: ages of this process's reconnects of the last hour

stamps == <<ticked, transport, content, updated>>
recovery == <<spell, fresh, attempts>>
history == <<owed, calm, tries>>
healthVars == <<phase, up, pipeline, stamps, recovery, due, history>>

Off == -1
Names == Artifacts \cup Legs
Phases == <<"bootstrap", "preopen", "grace", "open", "auction", "closed">>

LongSpell == Max({StaleExit, ReconnectAfter})
LongAgo == Max({Hour + 1, ReconnectAfter})
Older(age, horizon) == IF age = Off THEN Off ELSE Min({age + 1, horizon})

----------------------------------------------------------------------------
(* The schedule.  In "grace" the session has been open for less than the arm *)
(* delay; in "auction" cash legs trade no more, derivatives do.              *)

CaptureExpected ==
  \/ phase \in {"grace", "open", "auction"}
  \/ phase = "preopen" /\ CapturePreOpen

TimeArmed == phase \in {"open", "auction"}
NameArmed(x) == TimeArmed /\ (x \in CashLegs => phase = "open")

\* recovery_armed: enough time since the open, or a feed that has delivered.
RecoveryArmed == TimeArmed \/ (ticked /\ CaptureExpected)

----------------------------------------------------------------------------
(* The verdict. *)

\* stale_artifact_names: artifacts and legs.
StaleNames == {x \in Names : NameArmed(x) /\ updated[x] >= ArtifactStaleAfter}

\* _is_whole_feed_stale compares their number with that of the artifacts.
WholeFeedStale ==
  \/ transport >= StaleAfter
  \/ Cardinality(StaleNames) = Cardinality(Artifacts)

Stale == content >= StaleAfter /\ WholeFeedStale

\* The freshness that is under way, once this pass has looked.
FreshNow == IF fresh = Off THEN 0 ELSE fresh

\* A plausible slip: the first fresh pass ends the spell.
EndsAtOnce == ~Stale /\ spell # Off

Recovered == ~Stale /\ spell # Off /\ FreshNow >= Confirm

Spell ==
  IF Stale THEN Max({spell, 0}) ELSE IF Recovered THEN Off ELSE spell
Fresh ==
  IF Stale \/ Recovered THEN Off ELSE IF spell = Off THEN fresh ELSE FreshNow

Deadline == StaleExit > 0 /\ Spell >= StaleExit

\* Of ages, oldest first, those within the hour: the end of the list.
Young(ages) ==
  LET from == Min({i \in 1..(Len(ages) + 1) : \A j \in i..Len(ages) : ages[j] <= Hour})
  IN  SubSeq(ages, from, Len(ages))

\* _reconnect_budget_left drops what is older than an hour and counts the rest.
Recent == Young(attempts)

\* A plausible slip: no budget.
Unbudgeted == TRUE

Spaced == IF attempts = <<>> THEN TRUE ELSE Last(attempts) >= ReconnectAfter
MayReconnect == ReconnectAfter > 0 /\ Spell >= ReconnectAfter /\ ~Deadline /\ Spaced
BudgetLeft == Len(Recent) < ReconnectLimit

----------------------------------------------------------------------------
HealthInit ==
  /\ phase = "bootstrap" /\ up = TRUE /\ pipeline = TRUE
  /\ ticked = FALSE /\ transport = 0 /\ content = 0
  /\ updated = [x \in Names |-> ArtifactStaleAfter]
  /\ spell = Off /\ fresh = Off /\ attempts = <<>>
  /\ due = FALSE /\ owed = 0 /\ calm = Confirm /\ tries = <<>>

----------------------------------------------------------------------------
(* Time and the feed. *)

Elapse ==
  /\ up
  /\ transport' = Older(transport, StaleAfter)
  /\ content' = Older(content, StaleAfter)
  /\ updated' = [x \in Names |-> Older(updated[x], ArtifactStaleAfter)]
  /\ spell' = Older(spell, LongSpell) /\ fresh' = Older(fresh, Confirm)
  /\ attempts' = [i \in DOMAIN attempts |-> Older(attempts[i], LongAgo)]
  /\ due' = TRUE
  /\ owed' = IF CaptureExpected THEN Older(owed, StaleExit) ELSE 0
  /\ calm' = Older(calm, Confirm)
  /\ tries' = Young([i \in DOMAIN tries |-> tries[i] + 1])
  /\ UNCHANGED <<phase, up, pipeline, ticked>>

NextPhase ==
  \E i \in 1..(Len(Phases) - 1) :
    /\ phase = Phases[i] /\ phase' = Phases[i + 1]
    /\ UNCHANGED <<up, pipeline, stamps, recovery, due, history>>

\* _consume: apply_ticks and FreshnessMonitor.observe.  applied are the tokens an
\* owner took; a batch may hold none.  The first one always counts as changed.
Batch(applied, changed) ==
  /\ up /\ pipeline /\ (changed \/ ticked)
  /\ ticked' = TRUE /\ transport' = 0
  /\ content' = IF changed THEN 0 ELSE content
  /\ updated' = [x \in Names |->
       IF \E t \in applied : x \in Owners[t] \cup LegsOf[t] THEN 0 ELSE updated[x]]
  /\ UNCHANGED <<phase, up, pipeline, recovery, due, history>>

\* Something structural escapes apply_ticks, or the bridge sets feed_unrecoverable.
PipelineFails ==
  /\ up /\ pipeline
  /\ pipeline' = FALSE
  /\ UNCHANGED <<phase, up, stamps, recovery, due, history>>

----------------------------------------------------------------------------
(* The end of a grid pass. *)

Pass == up /\ due /\ due' = FALSE /\ UNCHANGED <<phase, pipeline, stamps, owed>>

\* check_pipeline_alive raises.
PipelineDead ==
  /\ Pass /\ ~pipeline
  /\ up' = FALSE
  /\ UNCHANGED <<recovery, calm, tries>>

\* A plausible slip: the spell grows through the pre-open.
SpellOutlivesSchedule ==
  /\ Pass /\ pipeline /\ ~CaptureExpected
  /\ spell' = Spell /\ fresh' = Fresh
  /\ UNCHANGED <<up, attempts, calm, tries>>

\* observe_feed_health outside the schedule: a spell does not outlive it.
NotExpected ==
  /\ Pass /\ pipeline /\ ~CaptureExpected
  /\ spell' = Off /\ fresh' = Off
  /\ UNCHANGED <<up, attempts, calm, tries>>

Judge ==
  /\ Pass /\ pipeline /\ CaptureExpected
  /\ spell' = Spell /\ fresh' = Fresh
  /\ calm' = IF Stale THEN 0 ELSE calm

\* Neither a reconnect nor a restart is called for; _try_reconnect may have found
\* the budget of the hour spent.
Wait ==
  /\ Judge
  /\ \/ ~Stale /\ UNCHANGED attempts
     \/ Stale /\ ~RecoveryArmed /\ UNCHANGED attempts
     \/ Stale /\ RecoveryArmed /\ ~Deadline /\ ~MayReconnect /\ UNCHANGED attempts
     \/ Stale /\ RecoveryArmed /\ MayReconnect /\ ~BudgetLeft /\ attempts' = Recent
  /\ UNCHANGED <<up, tries>>

\* _try_reconnect: the bridge replaces the socket; the spell goes on.
Reconnect ==
  /\ Judge /\ Stale /\ RecoveryArmed /\ MayReconnect /\ BudgetLeft
  /\ attempts' = Append(Recent, 0)
  /\ tries' = Append(tries, 0)
  /\ UNCHANGED up

\* _escalate_stale raises CaptureStalledError: the process will be restarted.
Escalate ==
  /\ Judge /\ Stale /\ Deadline /\ RecoveryArmed
  /\ up' = FALSE
  /\ UNCHANGED <<attempts, tries>>

\* A fresh process: nothing is remembered.
Boot ==
  /\ ~up
  /\ up' = TRUE /\ pipeline' = TRUE
  /\ ticked' = FALSE /\ transport' = 0 /\ content' = 0
  /\ updated' = [x \in Names |-> ArtifactStaleAfter]
  /\ spell' = Off /\ fresh' = Off /\ attempts' = <<>>
  /\ due' = FALSE /\ owed' = 0 /\ calm' = Confirm /\ tries' = <<>>
  /\ UNCHANGED phase

Observe == PipelineDead \/ NotExpected \/ Wait \/ Reconnect \/ Escalate

HealthNext ==
  \/ Elapse \/ NextPhase \/ PipelineFails \/ Boot
  \/ \E applied \in SUBSET Tokens, changed \in BOOLEAN : Batch(applied, changed)
  \/ PipelineDead \/ NotExpected \/ Wait \/ Reconnect \/ Escalate

HealthSpec == HealthInit /\ [][HealthNext]_healthVars

\* Time passes, the grid loop makes its passes, the runtime restarts the process.
FairSpec == HealthSpec /\ WF_healthVars(Elapse) /\ WF_healthVars(Observe) /\ WF_healthVars(Boot)

----------------------------------------------------------------------------
(* Properties. *)

\* Types, and the list of attempts does not outgrow the budget: what
\* _reconnect_budget_left leaves out it also drops.
HealthTypeOK ==
  /\ phase \in ToSet(Phases) /\ up \in BOOLEAN /\ pipeline \in BOOLEAN
  /\ ticked \in BOOLEAN
  /\ transport \in 0..StaleAfter /\ content \in 0..StaleAfter
  /\ updated \in [Names -> 0..ArtifactStaleAfter]
  /\ spell \in Off..LongSpell /\ fresh \in Off..Confirm
  /\ attempts \in Seq(0..LongAgo) /\ Len(attempts) <= ReconnectLimit /\ tries \in Seq(0..Hour)
  /\ due \in BOOLEAN /\ owed \in 0..StaleExit /\ calm \in 0..Confirm

\* Through any number of spells, flickers and late passes a process replaces its
\* socket at most ReconnectLimit times in any hour, never twice within
\* ReconnectAfter ("so a broker-side problem cannot turn into a reconnect storm",
\* config.py).
ReconnectsBounded ==
  /\ Len(tries) <= ReconnectLimit
  /\ \A i, j \in DOMAIN tries : i < j => tries[i] - tries[j] >= ReconnectAfter

\* Types, and the recovery never becomes a reconnect storm.
ReconnectBudgetKept == HealthTypeOK /\ ReconnectsBounded

\* The process is restarted for its feed only after frames have been owed to it for
\* StaleExit: a spell neither begins before the session nor comes with a process
\* that was just started.
Restarts == up /\ ~up' /\ pipeline
RestartIsOwed == [][Restarts => owed = StaleExit]_healthVars

\* A feed that is dead while recovery is armed is restarted in the end, however
\* often that was done before, unless packets come again or the session ends.  The
\* comments of engine.py:1080 and config.py:247 say so; live-data-pipeline.md:316 still
\* describes the cap per date there was once.
Dead == up /\ transport >= StaleAfter /\ CaptureExpected /\ RecoveryArmed
DeadFeedEscalates == Dead ~> ~up \/ transport < StaleAfter \/ ~CaptureExpected

\* Flickers do not disarm the deadline: a feed that is found stale again and again,
\* and is never fresh for as long as Confirm in between, is restarted.
FlickeringFeedEscalates == ~<>[](up /\ TimeArmed /\ calm < Confirm)

\* A feed that stays dead, and one that keeps dying, is restarted.
OutageEscalates == DeadFeedEscalates /\ FlickeringFeedEscalates

\* What engine.py:562 says: only an outage that is feed-wide restarts the process,
\* no packets or no artifact updated; a single frozen dataset does not.  Refuted, as
\* stale legs are counted with the artifacts.
OnlyFeedWideRestarts ==
  [][Restarts =>
       \/ transport >= StaleAfter
       \/ \A a \in Artifacts : updated[a] >= ArtifactStaleAfter]_healthVars
=============================================================================
