# QuantBet: specifications and proofs

This directory holds TLA+ specifications of the QuantBet engine (`src/src/h2h`): the
state machines that decide about money and risk, the instances TLC checks, and proofs
that the TLA+ proof system checks. Paths below are relative to the repository; line
numbers for every definition are in `PROJECT.json` (`map`).

QuantBet watches football fixtures, predicts goal totals with a Dixon-Coles model, and
registers a *pick* when a bookmaker's price beats the model's by enough. It is a
simulation of betting with strict books: one bankroll, an append-only ledger, a cap on the open
exposure, a verification of the price right before registration, settlement only on a
result that has proved stable. Several processes run against one PostgreSQL database and
one provider (API-Football) with a daily request quota. Hardly any of the logic is
parallel code inside a process: what makes the system hard is transactions of different
processes that interleave, processes that stop anywhere, and facts read in one
transaction that are used in the next.

## 1. The system

### Components

| Component | State it keeps | Operations | Status |
|---|---|---|---|
| Pick registration, bankroll and exposure (`persistence/postgres_pick_registration.py`, `operator_pick_state.py`, `postgres_operator_risk.py`) | `pick_decisions`, `registered_picks`, `bankroll_accounts`, `bankroll_ledger_entries`, `pick_operator_state_events` | `bootstrap_bankroll`, `register`, `set_state` | modelled: `Bankroll` |
| Result settlement (`postgres_result_settlement.py`, `use_cases/result_settlement.py`, `scripts/manual_void_postponed_pick.py`) | `fixture_result_observations`, `fixture_result_acquisition_states`, `pick_settlement_events`, ledger releases | reconcile, claim, persist, quarantine, settle, complete, manual void | modelled: `ResultSettlement` (results), `Bankroll` (money) |
| Production funnel (`postgres_production_funnel.py`, `production_buckets.py`) | `production_funnel_picks`, `production_funnel_state_events` | `sync`, `set_state`, settlement by the source universes | modelled: `ProductionFunnel` |
| Opportunity pass and final quote verification (`workers/opportunity.py`, verification part of `postgres_pick_registration.py`) | `final_quote_verifications`, value evaluations, the worker's local values | one pass over a fixture: odds, predict, evaluate, gate, claim, fetch, complete or reject, register | partly: `FinalQuote` |
| Provider budget (`odds/budget.py`, `odds/http.py`) | `provider_request_usage` | `acquire`, then the request | modelled: `ApiBudget` |
| Leader lock and entrypoint (`entrypoint.py`, lock of `postgres_runtime.py`) | a session-level advisory lock | acquire, stand by, lose, shut down | modelled: `Runtime`; the selection queries of `postgres_runtime.py` are not |
| Orchestrator (`workers/orchestrator.py`) | `_next_due`, in memory | rounds, deferral to midnight, fatal errors | modelled: `Runtime` |
| Registered pick monitoring, closing odds (`postgres_pick_monitoring.py`, `use_cases/pick_monitoring.py`) | `pick_monitoring_states`, `pick_closing_finalizations`, `pick_realized_clv` | start, `claim_due`, refresh, finalize, reconcile, realize CLV | modelled: `PickMonitoring` |
| Model lifecycle and coverage (`workers/model_lifecycle.py`, `postgres_model_coverage.py`, `postgres_dixon_coles.py`) | `model_coverage_scopes`, `dixon_coles_active_models` | refresh inventory, claim, train, swap, mark, release, recover | partly: `ModelLifecycle`; its effect on a pass is in `FinalQuote` |
| Quote history (`postgres_quote_history.py`) | series and snapshots | append under the lock of the series | partly: `PickMonitoring` |
| Fixture discovery (`durable_fixture_discovery.py`, `postgres_fixtures.py`) | cached date shards, fixture observations | scan date windows, record facts | partly: `PickMonitoring` (the two writers of facts) |
| Quantlab (`quantlab/`) | market observations, decisions and shadow bets of four labs | capture, evaluate, decide, bet, settle | partly: `ShadowPicks`; what production reads of it is the source of `ProductionFunnel` |
| Archive lifecycle (`archive/`) | `cold_archive_batches`, objects in a store | select, upload, read back, register, delete, mark | partly: `ColdArchive` |
| Stale quote retry schedule (`quote_refresh_schedule*.py`) | `fixture_quote_refresh_states` | a ladder of waits | not modelled: it chooses which fixture a pass looks at next, and `FinalQuote` starts a pass on any line at any time |
| Live closing proxy, daily bulletin | one row per pick, one per date | estimate, render | not modelled: written once, read by nothing that decides |
| Kellylab, performance read model, dashboards, research signals | shadow simulation, reports, best-effort rows | | not modelled: nothing in production depends on them; the dashboard's one write is `BeginSetState` |
| Quantitative core (`quant/`) | none | floating-point fitting and probabilities | not modelled: outside what TLC and TLAPS evaluate |
| Configuration, migrations, wiring (`config.py`, `production.py`, `migrate.py`) | | parsing, construction | not modelled; the constraints of the migrations are in the modules of their tables |

### How they interact

* `main` (entrypoint) takes the leader lock, verifies the bankroll, reconciles what an
  earlier process left and runs the orchestrator, which calls the workers one after
  another. Every worker opens transactions of its own; none is shared by two workers.
* All workers, and the lab services in their own processes, send provider requests
  through one `PostgreSQLApiBudget`; the dashboard process writes operator states.
* The opportunity worker calls the final quote verification and then `register`; the
  result worker calls `settle_pick`; both change the ledger `Bankroll` models.
* The funnel reads the labs' tables and clones picks into its own. It has its own
  exposure cap and shares nothing with the bankroll account but the event projection
  (`OperatorEvents`).
* Discovery and the result worker both append the fixture facts that monitoring closes
  picks by; CLV joins the closing quote with the settled result.
* The lab engines write decisions that name market observations, and the archive moves
  the observations no decision names out of the same table.

`production.py` composes PostgreSQL repositories with `auto_skip_registered=True`
(:150), so the engine's own picks start as SKIPPED, and gives the dashboard the funnel's state
repository. `PostgreSQLOperatorPickStateRepository.set_state` is used with the
manual composition and by its integration tests; `Bankroll` models both modes (`AutoSkip`).

### What is hard

The list is in `PROJECT.json` (`hazards`), each at its line with the properties that
would catch it. In short: exposure, balance and ledger tail read before the insert they
justify; two lock orders over fixture, account and pick; two deliveries of one request;
events ordered by timestamps that are not the commit order; the funnel's two writers that
hold different locks; a result seen twice, corrected, postponed, or contradicting the
fixture's identity while two workers carry it; a verification claimed, taken over,
completed late or replayed; the model changing during a fetch; a leader that lost its
session and does not know; the last request of a day wanted by several processes, and
midnight between counting and sending; a kickoff that moves while a pick is being closed,
reported by facts that may be hours old; a training claim that expires under a live
trainer; a research run that decides and dies before it bets; a row deleted from the table
while somebody starts to reference it.

Hazards of this code that no property covers and that the list, kept to the ones that
matter most, leaves out: the funnel compares a reactivation with its exposure cap only,
never with the available bankroll (`postgres_production_funnel.py:1115`); of two concurrent
deliveries of one operator request the loser gets a unique violation instead of the stored
reply (:1148); a manually voided fixture never reaches COMPLETE and is polled for ever
(`scripts/manual_void_postponed_pick.py:116`); one refused request defers the whole job to
midnight UTC, settlement included (`workers/orchestrator.py:128`); the result polling of
the H2H, corner and card labs orders by kickoff and takes a fixed number of rows, so
fixtures that never end may use up every batch (`quantlab/repository.py:1623`).

## 2. Plan

Done, in this order: `OperatorEvents`, `Bankroll`, `BankrollProofs`, `ProductionFunnel`,
`ResultSettlement`, `FinalQuote`, `ApiBudget`, `Runtime`, `RuntimeProofs`, `Account` with
the refinement of `Bankroll`, `PickMonitoring`, `ModelLifecycle`, `ShadowPicks`,
`ColdArchive`, then `ColdArchiveProofs`, `FinalQuoteProofs`, `ResultSettlementProofs`,
`ModelLifecycleProofs`, `PickMonitoringProofs` and `ProductionFunnelProofs`. Every safety
property a passing run checks is a theorem now.

Next:

1. The settlement of shadow bets and the settlement mirrors of the archive, which resume
   from a watermark; the live closing proxy.
2. `QuoteRefresh`: the retry ladder, `record_quote_refresh_state` and the item failures of
   a pass, composed with the selection of `FinalQuote`.
3. `ModelLifecycle` as the environment of `FinalQuote`, in place of its `Activate` and
   `SwitchCoverage`; an at-most-once verification that `FinalQuote` implements.
4. Proofs: the at-most-once verification of 3 as a refinement.

## 3. Modules

Conventions. A PostgreSQL transaction is a session with `pc`, the call it executes (`job`) and what
it read (`view`). READ COMMITTED is modelled as it is: a wait for one lock is one
step, a read under the locks another, the writes and the end of the transaction the last.
Tables are sets of rows without uniqueness guards where an invariant shows that the
constraints never have to fire (`Bankroll`), or with the constraint as the branch the
code takes (`FinalQuote`'s `CompleteFails`, the funnel's `Conflicts`). Where a handler is
one transaction under one lock and nothing it reads can change in between, it is one
action. `Abort`, `EndPass`, `EndCycle` and `EndCall` stop a handler at any step.
Operators whose comment begins with `Mutant:` are altered forms of a definition (a lock
not taken, a check dropped). The specifications do not use them: put in the place of the
definition, each breaks a property, which shows that the property notices (`mutants` in
`PROJECT.json`).

**`OperatorEvents`** The projection of append-only PLAYED/SKIPPED events to a state: the
latest by `(occurred_at, persisted_at, event_id)`. Shared by two components, as in the
code.

**`Bankroll`** One account. `register` is `BeginRegister`, then the request's advisory lock
(`RegisterReplay`, `RegisterIneligible`, `RegisterLockRequest`), the fixture row
(`LockFixture`), the account row (`RegisterLockAccount`), the snapshot with
`evaluate_risk` (`RegisterRead`) and its decision (`RegisterApprove`, `RegisterReject`).
`set_state` locks account and pick, `settle_pick` and the manual void fixture, account and
pick. `OpenExposure` is `effective_played_open_exposure`: every reserved pick that is neither
SKIPPED nor settled, PENDING ones included.

**`ProductionFunnel`** `sync` under its advisory lock; `set_state` under the row of its
pick; the universes publish, settle and reopen picks at any time. The queries of `sync` are steps of their
own (`ReadExposure`, then `SelectCandidates` for Research, GoalLab and CornerLab): `view[t].seen`
is what they returned, and a pick published between its universe's query and the commit waits for the
next sync. `Intake` says which set the loop
of `sync` clones: a candidate belongs to it exactly if those that belong to it and sort
before leave room for one more stake and none of them, nor an older pick, has its fixture.
Since the order is total there is one such set, the one the loop ends with; said
as a set it can be reasoned about, where a fold would need induction.

**`ResultSettlement`** One fixture: its acquisition row, the worker's cycle
(`StartCycle` to `SettlePick`), `_advance_state` as `Candidate`, `Corrects`, `Plan` and
`Advanced`, quarantine, research-only completion and the manual void. A pick may be
registered at any time. `checks` is the history of persisted results.

**`FinalQuote`** One fixture of the opportunity pass. A preliminary evaluation is its line,
prediction and quote, and is also the key of its verification and of its registration
request, as in the code. `claims` is `final_quote_verifications`; `Complete`,
`CompleteLate` and `CompleteFails` are the outcomes of `complete_final_quote_verification`.

**`ApiBudget`** `acquire` and the transport: `Ask` computes the UTC day, `Allow` or `Refuse`
is the count under the day's advisory lock, `Record` the insert and commit, `Send` the
request.

**`Account`** What the bankroll promises: a balance that pays each pick's stake once, only
while it holds it, and gets its return once. `Bankroll!LedgerIsAnAccount` maps the ledger to
it: the balance is that of the last row, the stakes out are the reserved picks without a
settlement.

**`Runtime`** extends `ApiBudget`: the processes that compete for the leader lock
(`Boot`, `TryAcquire`, `Prepare`, `LoseLeadership`, `Exit`) and `run_forever`
(`BeginRound` to `EndRound`, `DeferJob`). A job sends requests through the budget.

**`PickMonitoring`** One fixture and the picks on it. `provider` is what the provider has said, `observations`
the stored facts (`RecordDiscovery` may write what a cached shard said earlier, `CheckResult`
writes what was just fetched), `quotes` the snapshots of a pick's series. A worker reconciles,
claims due picks (the next time is stored before the fetch), fetches, appends and
finalizes, each a transaction; `Candidate` is the query for the closing quote,
valid only against the facts known at its capture. Two workers overlap because one that lost the leader lock ends
its round.

**`ModelLifecycle`** Several scopes and processes: `Recover`, `Refresh` and `Claim` are the
three transactions at the start of a cycle, `Train` to `MarkActive` the life of one claim,
`Release`, `Fail` and `End` its other ends. `disowned` and `outrun` are history: the scopes
whose claim was taken from a live trainer, and those recovered while another process stood
between its own `Refresh` and `Claim`.

**`ShadowPicks`** The four lab engines on one fixture: `Evaluate` reads the market and
settles on at most one PICK (`FormsPick`: on a fixture that has a bet only CardLab still
forms one, the other labs look first), `Decide` writes one decision per line under the unique indexes,
`Bet` one shadow bet. `BetsOn` is the difference between the labs: only GoalLab goes on to
bet when its decision was already there. `crashed` is history.

**`ColdArchive`** extends `ShadowPicks` with the archive run, `Start` to `Finish`; `Scan` and
`Delete` are the snapshot and the commit of one DELETE, so a decision can come in between.
`store` holds the objects that read back as sent.

## 4. Runs

| Run | Shows | Instance |
|---|---|---|
| `bankroll_exposure` | cap, one pick per fixture, idempotent requests, every balance current at its commit, all with auto-skip | 2 sessions, 2 requests, 3 evaluations of 2 fixtures, 2 operator requests, room for one stake, auto-skip, 2 instants |
| `bankroll_ledger` | sequence, balances current at their commit, release of stakes; the ledger implements `Account`; no circular wait | 2 sessions over the three lock orders, outcomes WIN and VOID, one operator request, balance for one stake, no auto-skip, fair |
| `funnel_intake` | corner buckets first, the cap unless overtaken | 2 sessions, 3 candidates of 3 universes, 2 of them on one fixture, cap of one stake, 2 instants, a horizon of one |
| `results_stable` | settlement on a stable result, corrections flagged, quarantine | 2 workers, 4 results, at most 4 persisted, 5 instants, windows of 1 and 2 |
| `final_quote_claims` | picks stand on their verification, verdicts are final, claims are exclusive | 2 workers, 1 line, 2 quotes, 2 model generations, a take-over |
| `engine_safety` | budget, training reserve, quota, one round without the lock | 2 processes, 2 jobs, 2 days, one fault |
| `engine_progress` | leadership recovers, due jobs run | 2 processes, 1 request a day, one fault, fair |
| `monitoring_closing` | the closing quote is the last valid one, the entry backs it, no in-play CLV, every pick is closed | 1 pick, 2 workers, 2 kickoffs, 4 instants, one move, 3 facts, one fault, fair |
| `lifecycle_claims` | one trainer, models move forward, coverage follows the active model, claims end, an active model is offered | 1 scope, 2 processes, 2 policies, 3 models, one fault, fair |
| `lifecycle_retrain` | finding | 2 scopes, one claim per cycle, 1 process |
| `shadow_bets` | one bet per fixture and lab, on its own decision, missing only after a crash | GoalLab and CardLab, 3 observations of 2 lines, at most one of them stale, 2 workers, one crash |
| `cold_archive` | nothing lost, evidence stays, cold rows drain | GoalLab, 2 observations, 1 worker, 2 archivers, batches of 1, 2 per run, one fault, fair |

Why the bounds suffice. Every race in this code is between two parties over one
resource, so two sessions (workers, processes) are enough for each; where three would
matter (a lock waiter behind a waiter) the code has no queue of its own. Limits are set
so that exactly one more stake, request or claim fits, which makes both sides of every
limit reachable: a cap of one stake with two candidates, a balance of one stake, a budget
of one or two requests with two callers. The clock has as many instants as the longest
chain of different times a property compares: two for a claim and its
take-over, five for confirming a result, settling it and confirming a correction. The
events of `Bankroll` tie on every timestamp with one or two instants, the case the order
by event id is for. In monitoring the four instants let a kickoff lie before, at and after
each capture, and one announced move with a stale shard gives every order of true and stale facts. Three
models let a first trainer, its successor and a late one each store a version. Two labs suffice
because `BetsOn`, `ClashingPicks` and `FormsPick` know two kinds each: what CornerLab and H2H
do on a fixture, CardLab may do as well. `MaxFaults` is 1: a fault
at any step, then the recovery; two at once are outside the claim of `NothingLost` (a lost lock and then a
damaged upload over an object another run has just verified would lose its rows). In
`ModelLifecycle` a second fault matters (section 5), and the theorems allow any number:
`ModelLifecycle_claims.cfg` with `Spec`, without the two liveness properties and with
`MaxFaults = 2` passes as well (1.7 million states), and is what shows that
`CoverageNamesActive` needs `outrun`.
`TypeOK` is an invariant of `bankroll_exposure` and `engine_safety`; the other modules
state theirs for whoever changes them. What no bound can settle, any number of sessions, requests, picks and amounts, is what
the proofs are for.

Fairness. `Bankroll!FairSpec` has strong fairness of each session's next statement:
PostgreSQL queues the waiters of a lock, so a session whose lock becomes free again and
again gets it. `Runtime!FairSpec` has weak fairness of a running process (`Step`, its
calls, a job's end: every HTTP request has a timeout and every loop of a worker is
bounded by its batch), strong fairness of the wait for the day's advisory lock (a queue
again), and weak fairness of leaving when asked to stop. Nothing is assumed of `Boot`
(`railway.json` restarts on failure only), nor of faults, lost sessions and shutdowns.
`PickMonitoring!FairSpec` has weak fairness of the clock and of each process's round (the orchestrator
calls the job again and again, and a fetch times out), none of the provider or of the
facts. `ModelLifecycle!FairSpec` has weak fairness of a cycle (a fit is bounded by its wall
clock) and of waits and leases running out. `ColdArchive!FairSpec` has weak fairness of the cron
start and of the steps of a run. The other modules state safety only.

Deadlock is checked in every run.

## 5. Findings

* **`lifecycle_retrain`** A comment of `refresh_inventory` promises that a policy change
  forces a retrain. A scope set to RETRAIN_REQUIRED that the cycle's limit leaves unclaimed
  is set back to ACTIVE by the refresh of the next cycle, under the new policy: the
  statement that copies the active pointer does not spare that status. The text with the
  quoted lines is in `PROJECT.json`.

Seen while modelling, without a run of their own. Each of the first five is a property
stated in its module; adding it to the named configuration makes TLC print the behaviour.

* `ProductionFunnel!FunnelExposureCap` (`ProductionFunnel_intake.cfg`, with
  `SourceOf <- FinalSources`): `set_state` of the funnel and `sync` hold different locks, so
  a reactivation and an intake, or two reactivations, read the same exposure and commit
  above the cap. `CapUnlessOvertaken` says when, `OvershootBounded` how far it can go.
* `Bankroll!BalanceFollowsLedger` (`Bankroll_exposure.cfg`, which has auto-skip on as
  `production.py:150` composes it): `docs/DASHBOARD_SPEC.md:74` wants the displayed
  balance reproducible from the ledger. `register` stores the operator's available bankroll less the
  stake as `balance_after` (`postgres_pick_registration.py:401`, :447), and the available
  bankroll (:296) gives back the stakes of skipped picks: after a skip the stored balance is not the previous one less
  the amount, and `postgres_performance.py:65` reports it. What does hold of
  the balances in both modes is `BalancesAreCurrent`.
* `FinalQuote!PicksOfActiveModel` (`FinalQuote_claims.cfg`): the provenance query of a
  registration is executed and its result never read (the lines that test it follow a
  `return` of another function), so a model activated during the final fetch does not stop
  a pick.
* `FinalQuote!PassesAreReplaySafe` (`FinalQuote_claims.cfg`): a pass interrupted between
  completing the verification and registering, after the price moved, leaves a final
  evaluation that the next pass verifies again: the unique index on
  `final_evaluation_id` raises, and the process exits at every restart while the quote stands.
* `ResultSettlement!OpenPicksAreWatched` (`ResultSettlement_stable.cfg`): a fixture completed
  as research-only is never polled again, although a pick may be registered on it afterwards.
* A lab run that dies between its PICK decision and its bet leaves a decision without a bet
  for good, since the unique index refuses every later PICK (`PickedFixtureHasBet` excepts
  exactly these, by `crashed`).
* A crash between the swap of the active pointer and `mark_active`, followed by a change of policy,
  hides the active model until the scope has been retrained (`ModelIsOffered`).
* With two faults the coverage row may hide the active model without any claim disowned: a
  process dies between swap and mark, another that has refreshed already and lost the lock
  meets the recovery of a third cycle before its own claim (`outrun`), claims the recovered scope
  without its pointer, and its fit fails: the row is TRAINING_FAILED and names no model until
  the next refresh copies it or, after a policy change, until the retrain. The proof of
  `CoverageNamesActive` asked for this case, and TLC confirmed it.
* A trainer whose claim was recovered as abandoned ends later and overwrites the coverage
  row, whatever state it is in by then (`Fail`, `MarkActive`).
* The settlement mirrors of the archive resume from the greatest mirrored key, which a
  transaction that commits late with a smaller key never passes.
* A PENDING pick counts as exposure, where `docs/RESULTS_SETTLEMENT_PERFORMANCE.md:7-10`
  speaks of PLAYED picks.
* `docs/API_BUDGET.md` describes an in-process counter; production composes
  `PostgreSQLApiBudget`.

## 6. Proofs

**`BankrollProofs`**, for any number of sessions, requests, evaluations, fixtures and any
amounts that meet `PolicyAssumption`, `IdAssumption` and `EventRankAssumption`:

* `Typing`, `ExposureIsCapped`, `FixturesPickedOnce`, `RequestsKeyed`, `LedgerOrdered`,
  `StakesReleased`: the invariants the runs check, for `Spec`;
* `BalancesStayCurrent`: the action property of both runs, with and without auto-skip.

The invariants are not inductive: nothing in the tables says that the exposure a session
read is still what it will be at its commit. `IInv` adds what the locks are for.
`AccountHeld`: whoever is past the account lock owns it. `RequestHeld`: a registration past its
replay check owns its request, and no decision for it exists. `Snapshot`: what a session
read under its locks (tail, balance, risk verdict, replay check) still holds when it
commits. `TablePart`: the invariants of the tables with what they rest on (the ledger has a last row, its
first row is the initial bankroll, an auto-skip event has its decision). The step proof goes
component by component: locks (`HeldStep`), types (`TypeStep`), snapshots
(`SnapshotStep`: any step that changes a table is by the owner of the account lock,
hence by the same session), and one lemma per commit for the tables (`ApproveKeeps`,
`RejectKeeps`, `SetStateKeeps`, `SettleKeeps`, `FundingKeeps`). `OnlyReactivationUnskips`
carries the argument about event order: an event that ends up behind a later one changes no state, so
only a checked reactivation adds to the exposure.

`LedgerImplementsAccount`, in the same module, is the refinement of `Account` by `Bankroll`,
assuming `~AutoSkip`. `IInv` gives the values a commit reads; `PayIn`, `Reserve` and
`Release` of the account are the bootstrap, an approved registration and a settlement or void;
every other step leaves ledger and settlements alone and maps to a stutter. With auto-skip it is
false: a registration then writes a balance of another kind (section 5).

**`RuntimeProofs`**, first about `ApiBudget`, for any finite set of processes, any limits and any length of a day:
`BudgetIsKept`, `ReserveIsKept` and `ProviderQuota`. `BudgetInv` adds to the types that a
call that was allowed owns its day until it has recorded (`DayHeld`), so that the count it
was allowed on is still the count (`Checked`), and a balance for each day: requests sent
on it, calls of earlier days still to be sent on it and its own recorded but unsent calls are
together at most what it recorded plus one per process (`Balanced`). The last gives the
quota as the provider counts it, across any midnight.

Then about the engine, for any number of processes and jobs: `EngineTyping`; the budget's
theorems as theorems of the engine (`EngineWithinBudget`, `EngineQuotaKept`,
`EngineTrainingLeavesReserve`), which only carries them over, the actions of `Runtime` being
built from those of `ApiBudget`; and
`UnledJobsBeginOnce`, from the invariant `Behind`: jobs begun without the lock lie behind
the process's place in its round, and only the holder of the lock begins a round.

**`FinalQuoteProofs`**, for any number of workers, lines, quotes and generations:
`PicksStandVerified`, `ConflictsOnlyAfterTakeOver`, `VerdictsStay`. The invariants
speak of decisions and of claims, and a pass writes the one long after it read the other;
`QuoteInv` says what the evaluation it carries still has to do with the stored verification.
`WorkerOK`: what a worker fetched is the candidate it claimed, on a quote at least as new as
the first one shown; while nobody has taken the claim over, it is still REQUESTED, and once
READY it names the very evaluation the worker is about to register. `OneOwner`: a claim not
taken over has one worker. `ClaimOK`: a decision, unless the claim was taken over, names the
verification's evaluation. `LocalStep` covers every step of a pass that writes no row,
`ClaimStep` the four that write a claim.

**`ResultSettlementProofs`**, for any workers, results, fingerprints and delays:
`SettlementsAreStable`, `FlagsFollowResults`, `QuarantineStands`. The row keeps a
candidate, a count and two times; `CandidateIsRun` says which run of the persisted results
they stand for: the longest one that ends at the last check, its start at the first time, a
count of two exactly when it has two checks. `PersistKeeps` extends or restarts that run, and
the two other theorems follow from it. The times of the checks need not increase, because a
worker stamps its whole cycle with the time it began: the theorems hold all the same.

**`ColdArchiveProofs`**, first about `ShadowPicks`, for any labs, observations, lines, workers and number of crashes:
`BetsAreSingle`, `BetsAreDecided` and `DecisionsAreBet`. `BetterDecided` (a run at its bet has its PICK decision
in the table; GoalLab's save looks for it itself) and `DecidedHasBetter` (a decided fixture
without a bet has a run that will bet on a decision of the table, unless a run of that lab
died) carry the argument.

Then about the archive around it, for any observations, runs and batch sizes: `EvidenceNeverLeaves`,
whatever the faults, since the foreign keys are checked by the DELETE itself; and
`NothingIsLost`, assuming `MaxFaults <= 1`. `LockHeld` and `UploadsHot` hold until
the first fault, `Verified` ties each stage of a batch to the object and the catalog. With two faults
it is false (a run that lost its lock deletes rows whose object its successor overwrites with a
damaged one; TLC shows it with `MaxFaults = 2`), so the assumption is part of the claim.

**`ProductionFunnelProofs`**, for any finite set of candidates, buckets and requests, any
number of sessions, any stake and cap: `CornersComeFirst` (of the corner picks its queries
returned) and `CapHoldsUnlessOvertaken`.
Two arguments carry them. The intake is one greedy pass (`SortOrder`, `AheadGrows`): whoever
sorts first has fewer picks ahead, hence room whenever a successor had room
(`IntakeFollowsOrder`), and a corner pick sorts before any other (`CornersSortFirst`); the
pick cloned last has all the others ahead of it (`LastCloned`), so the room it found bounds
the whole intake on top of the exposure read (`IntakeFits`). And the row lock: `PickHeld`
says that an operator call past its lock still owns it, so no other call adds an event to
that pick, and `Snapshot` that a reactivation about to be stored was compared with the
exposure its session read. The two writers hold different locks, so `FunnelExposureCap` is
false; `OvershootIsBounded` says by how much: two sessions reach twice the cap, each further
one adds at most a stake, while no universe takes a settlement back (a reopened Research pick
adds its stake whatever the sessions do) and a stake fits the cap. The invariant counts what is
still to come: `Pending` reactivations were compared with the cap (`Snapshot`), and the one
sync that owns the advisory lock, through its queries to its commit (`SyncHeld`), adds no more than the room it read
(`ExpectedBounded`); a call whose pick was settled at the read raises nothing
(`SettledStays`). TLC checked the bound first, and reached it, on 2 sessions and three
GoalLab and CornerLab candidates of distinct fixtures. It is not a property of `funnel_intake`,
whose two fixtures cannot exceed it and whose Research picks reopen.

**`PickMonitoringProofs`**, for any picks, workers, kickoffs, moves and faults:
`ClosingStaysLatest`, `EntryAlwaysBacksClosing`, `RealizedClvIsPreMatch`. What closes a pick
is a query about the past of tables that only grow, so the first lemmas say what such a
query returns after more rows have come (`KnownHas` and those after it). `MonitoringInv`
adds to the properties: observations are in the order of their instants (`Observed`); Entry is a stored quote
captured while the facts known then allowed it, and before the entry is set the pick is unmonitored (`EntryOK`);
without an overlap, a capture still to be appended is too late for the cutoff (`Complete`);
a settled kickoff is the last one the provider gave (`ResultOK`).

**`ModelLifecycleProofs`**, for any finite set of scopes, any processes, policies, number of
models and faults: `OneTrainerPerScope`, `RowsNameActive`, `ActiveMovesForward`. A claim is a
row in TRAINING_PENDING and says nothing about who made it, so `LifeInv` says how far the
rows still tell who works on a scope, for the scopes never disowned: each scope a process
works on, or has on its list, is pending and on no other list (`Claimed`), and the version
of its one trainer is newer than the active one until the swap makes them equal (`Newest`).
`PointerFollows`, for the scopes not outrun either, says where the row's pointer may still
lag: a process between its swap and its mark, a claim whose process is gone, or a recovered
row that no process past its refresh can claim. The last clause was missing from the first
attempt, and the step of `Claim` could not be proved: TLC then found the behaviour with two
faults that `outrun` now names (section 5).

Type correctness is proved of every module that states it (`Typing`, `EngineTyping`,
`PassesTyped`, `ResultTyping`, `FunnelTypes`, `MonitoringTypeCorrect`, `LifecycleTypes`).

Assumptions. The theorems assume what the ASSUME of each module says of its constants
(amounts are numbers, identities are injective, what a query returns is finite) and, where
named above, `~AutoSkip` or `MaxFaults <= 1`. TLC evaluates these assumptions in every run.

Model-checked only: liveness (`TransactionsEnd`, `LeadershipRecovers`, `DueJobsRun`,
`MonitoringEnds`, `ClaimsEnd`, `ModelIsOffered`, `ArchiveDrains`), since fairness and
ENABLED are outside the prover's reach. So is induction with an operator as its hypothesis;
where a proof needs a least or greatest number (the first bucket of a pick, the last fact
known at an instant) it takes it from the well-foundedness of `<` (`Least`, `Greatest`), and
what the code computes in a loop is modelled by the set or the row it ends with.
The modules proved about have no RECURSIVE operators.

## 7. Not modelled

Most of the implementation by size is outside what a state machine would say anything about: the
lab dashboards and read models (`quantlab/dashboard*.py`, `goal_lab/model.py` and its
siblings, `api/research_dashboard.py`, `api/research_analytics.py`), the numeric models and
their explanations, the scrapers and backfill schedules of research data, and scripts. They
compute numbers or HTML from rows and decide nothing that another process could
contradict. So the map covers the transactional core, not the bulk.

Beyond the components marked so above: the wording of messages, HTML, logging,
monitoring rows (`worker_status`), JSON encoding, probabilities and prices (whether a
price qualifies is an input), odd stakes (one fixed stake per policy, as the code has it),
the SQL of lab queries (reduced to a table of candidates), retries inside the HTTP
transport (each is a request of its own to the budget), and crashes of PostgreSQL itself,
whose commits are taken as durable.
