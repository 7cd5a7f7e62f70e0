------------------------------ MODULE Bankroll ------------------------------
(***************************************************************************)
(* One bankroll account of QuantBet and every transaction that moves money *)
(* or risk on it: pick registration (register), the operator's             *)
(* PLAYED/SKIPPED switch (set_state), normal settlement (settle_pick), the *)
(* manual void of a postponed pick, and the account bootstrap.             *)
(*                                                                         *)
(* Sessions run READ COMMITTED transactions: a session waits for one lock  *)
(* at a time, reads what it decides on, and writes later, at its commit.   *)
(* Nothing but the locks keeps two sessions apart: the tables are sets of  *)
(* rows, and no UNIQUE constraint is a guard here (the invariants say that *)
(* the constraints of migrations 005, 007 and 056 never have to fire).     *)
(*                                                                         *)
(* Data kept abstract: all picks carry the policy's one fixed stake and    *)
(* one winning return; an approved decision is its pick (pick_id is a hash *)
(* of decision_id, itself a hash of the request id); eligibility, stable   *)
(* finality and the PST evidence of a manual void are inputs of the        *)
(* transaction, whose sources are other modules.                           *)
(***************************************************************************)
EXTENDS FiniteSets, OperatorEvents

CONSTANTS
    Request,          \* registration request ids, and so the pick ids
    Evaluation,       \* value evaluation ids
    Fixture,          \* fixture ids
    FixtureOf,        \* the fixture an evaluation is about
    Submission,       \* the <<request, evaluation>> pairs callers submit
    Outcome,          \* the settlement outcomes results produce
    OpRequest,        \* request ids of operator actions
    Tx,               \* database sessions
    NoTx,             \* the owner of a free lock
    NoPick,           \* the pick_id of the INITIAL_BANKROLL row (NULL)
    Stake,            \* policy.fixed_stake_minor
    MaxStakePerPick,  \* policy.max_stake_per_pick_minor
    MaxOpenExposure,  \* policy.max_open_exposure_minor
    InitialBankroll,  \* policy.initial_bankroll_minor
    WinReturn,        \* gross return of a winning stake
    AutoSkip,         \* auto_skip_registered of the repository
    MaxClock          \* bound: the last instant of the modelled time

EventId == OpRequest \cup Request

ASSUME PolicyAssumption ==
    /\ Stake \in Nat \ {0} /\ MaxStakePerPick \in Nat \ {0}
    /\ MaxOpenExposure \in Nat \ {0} /\ InitialBankroll \in Nat \ {0}
    /\ WinReturn \in Nat /\ WinReturn > Stake
    /\ AutoSkip \in BOOLEAN /\ MaxClock \in Nat

ASSUME IdAssumption ==
    /\ FixtureOf \in [Evaluation -> Fixture]
    /\ Submission \subseteq Request \X Evaluation
    /\ Outcome \subseteq {"WIN", "LOSS", "VOID"}
    /\ NoTx \notin Tx /\ NoPick \notin Request
    /\ OpRequest \cap Request = {}
    /\ IsFiniteSet(Request)

ASSUME EventRankAssumption ==
    /\ EventRank \in [EventId -> Nat]
    /\ \A a, b \in EventId : EventRank[a] = EventRank[b] => a = b

VARIABLES
    decisions,    \* table pick_decisions (an APPROVED row is also its pick)
    ledger,       \* table bankroll_ledger_entries
    opEvents,     \* table pick_operator_state_events
    settlements,  \* table pick_settlement_events
    clock,        \* database time
    owner,        \* the lock table: which session holds which lock
    pc,           \* where each session is in its transaction
    job,          \* the call each session is executing
    view          \* what each session read before writing

tables == <<decisions, ledger, opEvents, settlements>>
vars == <<decisions, ledger, opEvents, settlements, clock, owner, pc, job, view>>

-----------------------------------------------------------------------------
(* Rows, locks and calls.                                                  *)

Time == 0 .. MaxClock

DecisionRow == [request : Request, evaluation : Evaluation,
                outcome : {"APPROVED", "REJECTED"}]
\* bankroll_ledger_entries_shape_check
LedgerRow ==
    [sequence : Nat, pick : {NoPick}, amount : Int, balance : Int, type : {"INITIAL_BANKROLL"}]
    \cup [sequence : Nat, pick : Request, amount : Int, balance : Int,
          type : {"STAKE_RESERVED", "PAYOUT", "LOSS", "VOID_REFUND"}]
EventRow == [id : EventId, pick : Request, state : OperatorState,
             occurred : Time, persisted : Time]
SettlementRow == [pick : Request, kind : {"NORMAL", "MANUAL_VOID"}, outcome : Outcome]

RequestLock(r) == <<"request", r>>
FixtureLock(f) == <<"fixture", f>>
AccountLock == <<"account", "bankroll">>
PickLock(p) == <<"pick", p>>
Lock == ({"request", "pick"} \X Request) \cup ({"fixture"} \X Fixture) \cup {AccountLock}

RegisterJob == [kind : {"register"}, request : Request, evaluation : Evaluation,
                eligible : BOOLEAN, started : Time]
OperatorJob == [kind : {"operator"}, request : OpRequest, pick : Request,
                state : OperatorState, occurred : Time, started : Time]
SettleJob == [kind : {"NORMAL", "MANUAL_VOID"}, pick : Request,
              evaluation : Evaluation, outcome : Outcome]
Job == RegisterJob \cup OperatorJob \cup SettleJob
NoJob == [kind |-> "none"]

View == [sequence : Nat, balance : Int, approved : BOOLEAN]
NoView == [sequence |-> 0, balance |-> 0, approved |-> FALSE]

-----------------------------------------------------------------------------
(* What the transactions read.                                             *)

\* registered_picks
Picks == {d.request : d \in {x \in decisions : x.outcome = "APPROVED"}}
PickedFixtures == {FixtureOf[d.evaluation] : d \in {x \in decisions : x.outcome = "APPROVED"}}

EffectiveState(p) == StateIn(opEvents, p)

Settled(p) == \E s \in settlements : s.pick = p

Reserved == {e.pick : e \in {x \in ledger : x.type = "STAKE_RESERVED"}}

\* effective_played_open_exposure: reservations neither skipped nor settled
OpenPicks == {p \in Reserved : EffectiveState(p) # "SKIPPED" /\ ~Settled(p)}
OpenExposure == Stake * Cardinality(OpenPicks)

\* _operator_available_bankroll: the initial amount and the PLAYED picks only
PlayedPicks == {p \in Picks : EffectiveState(p) = "PLAYED"}
PlayedWith(outcome) ==
    {p \in PlayedPicks : \E s \in settlements : s.pick = p /\ s.outcome = outcome}
OperatorAvailable ==
    InitialBankroll - Stake * Cardinality(PlayedPicks)
        + WinReturn * Cardinality(PlayedWith("WIN")) + Stake * Cardinality(PlayedWith("VOID"))

\* ORDER BY account_sequence DESC LIMIT 1
LedgerTail == CHOOSE e \in ledger : \A x \in ledger : x.sequence <= e.sequence

\* Mutant: evaluate_risk without the duplicate_fixture test.
RiskIgnoresDuplicate(fixture, balance) ==
    /\ Stake <= MaxStakePerPick /\ Stake <= balance
    /\ OpenExposure + Stake <= MaxOpenExposure

\* Mutant: evaluate_risk without the available-bankroll test.
RiskIgnoresBalance(fixture, balance) ==
    /\ fixture \notin PickedFixtures /\ Stake <= MaxStakePerPick
    /\ OpenExposure + Stake <= MaxOpenExposure

\* evaluate_risk on the snapshot register takes under its locks
RiskAccepts(fixture, balance) ==
    /\ fixture \notin PickedFixtures
    /\ Stake <= MaxStakePerPick
    /\ Stake <= balance
    /\ OpenExposure + Stake <= MaxOpenExposure

-----------------------------------------------------------------------------
(* Locks. A session that ends, by commit or by rollback, drops them all.   *)

Free(l) == owner[l] = NoTx

Take(t, l, next) ==
    /\ Free(l)
    /\ owner' = [owner EXCEPT ![l] = t]
    /\ pc' = [pc EXCEPT ![t] = next]
    /\ UNCHANGED <<decisions, ledger, opEvents, settlements, clock, job, view>>

\* Mutant: the session's call outlives its transaction.
FinishKeepsJob(t) ==
    /\ owner' = [l \in Lock |-> IF owner[l] = t THEN NoTx ELSE owner[l]]
    /\ pc' = [pc EXCEPT ![t] = "idle"]
    /\ view' = [view EXCEPT ![t] = NoView]
    /\ UNCHANGED <<clock, job>>

Finish(t) ==
    /\ owner' = [l \in Lock |-> IF owner[l] = t THEN NoTx ELSE owner[l]]
    /\ pc' = [pc EXCEPT ![t] = "idle"]
    /\ job' = [job EXCEPT ![t] = NoJob]
    /\ view' = [view EXCEPT ![t] = NoView]
    /\ UNCHANGED clock

Begin(t, j, next) ==
    /\ pc[t] = "idle"
    /\ pc' = [pc EXCEPT ![t] = next]
    /\ job' = [job EXCEPT ![t] = j]
    /\ UNCHANGED <<decisions, ledger, opEvents, settlements, clock, owner, view>>

\* What a session read under its locks and writes at its commit.
Read(t, v) ==
    /\ view' = [view EXCEPT ![t] = v]
    /\ pc' = [pc EXCEPT ![t] = "commit"]
    /\ UNCHANGED <<decisions, ledger, opEvents, settlements, clock, owner, job>>

\* A locked row is taken in the order of the handler: the next wait is `next`.
LockFixture(t) ==
    /\ pc[t] = "fixture"
    /\ Take(t, FixtureLock(FixtureOf[job[t].evaluation]), "account")

-----------------------------------------------------------------------------
(* bootstrap_bankroll: inserts the account and locks it, then writes the   *)
(* INITIAL_BANKROLL row unless there is one; a replay changes nothing.     *)

BootstrapBankroll ==
    /\ Free(AccountLock)
    /\ \A e \in ledger : e.type # "INITIAL_BANKROLL"
    /\ ledger' = ledger \cup
          {[sequence |-> 1, pick |-> NoPick, amount |-> InitialBankroll,
            balance |-> InitialBankroll, type |-> "INITIAL_BANKROLL"]}
    /\ UNCHANGED <<decisions, opEvents, settlements, clock, owner, pc, job, view>>

-----------------------------------------------------------------------------
(* register: advisory lock on the request, fixture row, account row.       *)

BeginRegister(t) ==
    \E s \in Submission, b \in BOOLEAN :
        Begin(t, [kind |-> "register", request |-> s[1], evaluation |-> s[2],
                  eligible |-> b, started |-> clock], "request")

Decided(r) == \E d \in decisions : d.request = r

\* _load_result finds the request: the stored result, or a conflict error.
RegisterReplay(t) ==
    /\ pc[t] = "request"
    /\ Free(RequestLock(job[t].request))
    /\ Decided(job[t].request)
    /\ Finish(t)
    /\ UNCHANGED tables

Decide(t, outcome) ==
    decisions' = decisions \cup {[request |-> job[t].request,
                                  evaluation |-> job[t].evaluation, outcome |-> outcome]}

\* evaluate_persisted_eligibility rejects: no further lock is taken.
RegisterIneligible(t) ==
    /\ pc[t] = "request"
    /\ Free(RequestLock(job[t].request))
    /\ ~Decided(job[t].request)
    /\ ~job[t].eligible
    /\ Decide(t, "REJECTED")
    /\ Finish(t)
    /\ UNCHANGED <<ledger, opEvents, settlements>>

RegisterLockRequest(t) ==
    /\ pc[t] = "request"
    /\ ~Decided(job[t].request)
    /\ job[t].eligible
    /\ Take(t, RequestLock(job[t].request), "fixture")

\* Mutant: register reads the account row without FOR UPDATE.
RegisterReadsAccount(t) ==
    /\ pc[t] = "account" /\ job[t].kind = "register"
    /\ pc' = [pc EXCEPT ![t] = "read"]
    /\ UNCHANGED <<decisions, ledger, opEvents, settlements, clock, owner, job, view>>

RegisterLockAccount(t) ==
    /\ pc[t] = "account"
    /\ job[t].kind = "register"
    /\ Take(t, AccountLock, "read")

\* BankrollNotBootstrappedError
RegisterNotBootstrapped(t) ==
    /\ pc[t] = "read"
    /\ job[t].kind = "register"
    /\ ledger = {}
    /\ Finish(t)
    /\ UNCHANGED tables

BalanceBefore == IF AutoSkip THEN OperatorAvailable ELSE LedgerTail.balance

RegisterRead(t) ==
    /\ pc[t] = "read"
    /\ job[t].kind = "register"
    /\ ledger # {}
    /\ Read(t, [sequence |-> LedgerTail.sequence, balance |-> BalanceBefore,
                approved |-> RiskAccepts(FixtureOf[job[t].evaluation], BalanceBefore)])

\* A RISK rejection is stored too, and nothing else with it.
RegisterReject(t) ==
    /\ pc[t] = "commit"
    /\ job[t].kind = "register"
    /\ ~view[t].approved
    /\ Decide(t, "REJECTED")
    /\ Finish(t)
    /\ UNCHANGED <<ledger, opEvents, settlements>>

\* The decision, the pick, the auto-skip event and the reservation, together.
RegisterApprove(t) ==
    /\ pc[t] = "commit"
    /\ job[t].kind = "register"
    /\ view[t].approved
    /\ Decide(t, "APPROVED")
    /\ opEvents' = opEvents \cup
          (IF AutoSkip
           THEN {[id |-> job[t].request, pick |-> job[t].request, state |-> "SKIPPED",
                  occurred |-> job[t].started, persisted |-> job[t].started]}
           ELSE {})
    /\ ledger' = ledger \cup
          {[sequence |-> view[t].sequence + 1, pick |-> job[t].request, amount |-> -Stake,
            balance |-> view[t].balance - Stake, type |-> "STAKE_RESERVED"]}
    /\ Finish(t)
    /\ UNCHANGED settlements

-----------------------------------------------------------------------------
(* set_state: account row, then pick row. A request already stored, or a   *)
(* pick that does not exist, ends the call before any lock.                *)

Replayed(q) == \E e \in opEvents : e.id = q

BeginSetState(t) ==
    \E q \in OpRequest, p \in Picks, s \in OperatorState, at \in 0 .. clock :
        /\ ~Replayed(q)
        /\ Begin(t, [kind |-> "operator", request |-> q, pick |-> p, state |-> s,
                     occurred |-> at, started |-> clock], "account")

\* Mutant: set_state and settlement lock the pick row only.
LockNoAccount(t) ==
    /\ pc[t] = "account" /\ job[t].kind # "register"
    /\ pc' = [pc EXCEPT ![t] = "pick"]
    /\ UNCHANGED <<decisions, ledger, opEvents, settlements, clock, owner, job, view>>

\* Mutant: set_state locks the pick row first, the account row second.
LockAccountAfterPick(t) ==
    /\ pc[t] = "account" /\ job[t].kind # "register"
    /\ IF job[t].kind # "operator" THEN Take(t, AccountLock, "pick")
       ELSE IF owner[PickLock(job[t].pick)] = t THEN Take(t, AccountLock, "read")
       ELSE Take(t, PickLock(job[t].pick), "account")

LockAccount(t) ==
    /\ pc[t] = "account"
    /\ job[t].kind # "register"
    /\ Take(t, AccountLock, "pick")

LockPick(t) ==
    /\ pc[t] = "pick"
    /\ Take(t, PickLock(job[t].pick), "read")

\* effective_before is SKIPPED, effective_after PLAYED, the stake unresolved.
Reactivates(j) ==
    /\ j.state = "PLAYED"
    /\ \E e \in LatestEvents(opEvents, j.pick) : e.state = "SKIPPED" /\ j.occurred >= e.occurred
    /\ j.pick \in Reserved /\ ~Settled(j.pick)

\* "A concurrent replay may have committed while this transaction waited", or
\* OperatorPickStateRiskError: the transaction writes nothing.
SetStateRefuse(t) ==
    /\ pc[t] = "read"
    /\ job[t].kind = "operator"
    /\ \/ Replayed(job[t].request)
       \/ Reactivates(job[t]) /\ OpenExposure + Stake > MaxOpenExposure
    /\ Finish(t)
    /\ UNCHANGED tables

\* Mutant: the request is not looked up again under the locks.
SetStateReadOnce(t) ==
    /\ pc[t] = "read" /\ job[t].kind = "operator"
    /\ ~(Reactivates(job[t]) /\ OpenExposure + Stake > MaxOpenExposure)
    /\ Read(t, [sequence |-> 0, balance |-> 0, approved |-> TRUE])

SetStateRead(t) ==
    /\ pc[t] = "read"
    /\ job[t].kind = "operator"
    /\ ~Replayed(job[t].request)
    /\ ~(Reactivates(job[t]) /\ OpenExposure + Stake > MaxOpenExposure)
    /\ Read(t, [sequence |-> 0, balance |-> 0, approved |-> TRUE])

\* persisted_at is CURRENT_TIMESTAMP: the start of the transaction.
SetStateCommit(t) ==
    /\ pc[t] = "commit"
    /\ job[t].kind = "operator"
    /\ opEvents' = opEvents \cup
          {[id |-> job[t].request, pick |-> job[t].pick, state |-> job[t].state,
            occurred |-> job[t].occurred, persisted |-> job[t].started]}
    /\ Finish(t)
    /\ UNCHANGED <<decisions, ledger, settlements>>

-----------------------------------------------------------------------------
(* settle_pick and the manual void: fixture row, account row, pick row.    *)

BeginSettle(t) ==
    \E d \in {x \in decisions : x.outcome = "APPROVED"}, k \in {"NORMAL", "MANUAL_VOID"},
       o \in Outcome :
        /\ k = "MANUAL_VOID" => o = "VOID"
        /\ Begin(t, [kind |-> k, pick |-> d.request, evaluation |-> d.evaluation,
                     outcome |-> o], "fixture")

\* The same settlement again (a replay), another one (SettlementConflictError),
\* a void of a settled pick (RuntimeError), or no reservation to release
\* (ResultPersistenceConflictError): nothing is written.
SettleRefuse(t) ==
    /\ pc[t] = "read"
    /\ job[t].kind \in {"NORMAL", "MANUAL_VOID"}
    /\ Settled(job[t].pick) \/ job[t].pick \notin Reserved
    /\ Finish(t)
    /\ UNCHANGED tables

\* Mutant: the existing settlement is not looked up under the locks.
SettleReadAgain(t) ==
    /\ pc[t] = "read" /\ job[t].kind \in {"NORMAL", "MANUAL_VOID"}
    /\ job[t].pick \in Reserved
    /\ Read(t, [sequence |-> LedgerTail.sequence, balance |-> LedgerTail.balance,
                approved |-> TRUE])

SettleRead(t) ==
    /\ pc[t] = "read"
    /\ job[t].kind \in {"NORMAL", "MANUAL_VOID"}
    /\ ~Settled(job[t].pick)
    /\ job[t].pick \in Reserved
    /\ Read(t, [sequence |-> LedgerTail.sequence, balance |-> LedgerTail.balance,
                approved |-> TRUE])

\* Mutant: a voided pick forfeits its stake.
VoidForfeits(outcome) == IF outcome = "WIN" THEN WinReturn ELSE 0

\* settlement_amounts: the entry type and the ledger delta of an outcome
EntryType(outcome) == CASE outcome = "WIN" -> "PAYOUT"
                        [] outcome = "LOSS" -> "LOSS"
                        [] OTHER -> "VOID_REFUND"
LedgerDelta(outcome) == CASE outcome = "WIN" -> WinReturn
                          [] outcome = "LOSS" -> 0
                          [] OTHER -> Stake

SettleCommit(t) ==
    /\ pc[t] = "commit"
    /\ job[t].kind \in {"NORMAL", "MANUAL_VOID"}
    /\ settlements' = settlements \cup
          {[pick |-> job[t].pick, kind |-> job[t].kind, outcome |-> job[t].outcome]}
    /\ ledger' = ledger \cup
          {[sequence |-> view[t].sequence + 1, pick |-> job[t].pick,
            amount |-> LedgerDelta(job[t].outcome),
            balance |-> view[t].balance + LedgerDelta(job[t].outcome),
            type |-> EntryType(job[t].outcome)]}
    /\ Finish(t)
    /\ UNCHANGED <<decisions, opEvents>>

-----------------------------------------------------------------------------
\* Rollback at any point: lost connection, statement timeout, deadlock victim.
Abort(t) ==
    /\ pc[t] # "idle"
    /\ Finish(t)
    /\ UNCHANGED tables

Tick ==
    /\ clock < MaxClock
    /\ clock' = clock + 1
    /\ UNCHANGED <<decisions, ledger, opEvents, settlements, owner, pc, job, view>>

Init ==
    /\ decisions = {} /\ ledger = {} /\ opEvents = {} /\ settlements = {}
    /\ clock = 0
    /\ owner = [l \in Lock |-> NoTx]
    /\ pc = [t \in Tx |-> "idle"]
    /\ job = [t \in Tx |-> NoJob]
    /\ view = [t \in Tx |-> NoView]

\* A step of a transaction under way.
Step(t) ==
    \/ RegisterReplay(t) \/ RegisterIneligible(t) \/ RegisterLockRequest(t)
    \/ LockFixture(t) \/ RegisterLockAccount(t) \/ RegisterNotBootstrapped(t)
    \/ RegisterRead(t) \/ RegisterReject(t) \/ RegisterApprove(t)
    \/ LockAccount(t) \/ LockPick(t)
    \/ SetStateRefuse(t) \/ SetStateRead(t) \/ SetStateCommit(t)
    \/ SettleRefuse(t) \/ SettleRead(t) \/ SettleCommit(t)

Start(t) == BeginRegister(t) \/ BeginSetState(t) \/ BeginSettle(t)

Next ==
    \/ BootstrapBankroll
    \/ \E t \in Tx : Start(t) \/ Step(t) \/ Abort(t)
    \/ Tick

Spec == Init /\ [][Next]_vars

\* PostgreSQL queues lock waiters, so a session whose lock is freed again and
\* again obtains it: strong fairness of each session's next statement.
FairSpec == Spec /\ \A t \in Tx : SF_vars(Step(t))

-----------------------------------------------------------------------------
(* Properties.                                                             *)

\* Every table holds rows of its shape, every lock has a session or nobody,
\* and a session is inside the handler of the call it executes.
TypeOK ==
    /\ decisions \subseteq DecisionRow /\ ledger \subseteq LedgerRow
    /\ opEvents \subseteq EventRow /\ settlements \subseteq SettlementRow
    /\ clock \in Time
    /\ owner \in [Lock -> Tx \cup {NoTx}]
    /\ pc \in [Tx -> {"idle", "request", "fixture", "account", "pick", "read", "commit"}]
    /\ job \in [Tx -> Job \cup {NoJob}]
    /\ view \in [Tx -> View]
    /\ \A t \in Tx :
          /\ pc[t] = "idle" <=> job[t] = NoJob
          /\ pc[t] = "request" => job[t] \in RegisterJob
          /\ pc[t] = "fixture" => job[t] \in RegisterJob \cup SettleJob
          /\ pc[t] = "pick" => job[t] \in OperatorJob \cup SettleJob

\* evaluate_risk and set_state together keep the unresolved stakes of picks
\* that are not SKIPPED within max_open_exposure_minor, whatever interleaving
\* of registrations, reactivations and settlements committed.
ExposureCap == OpenExposure <= MaxOpenExposure

\* The duplicate_fixture check of register: no two picks on one fixture, though
\* concurrent requests evaluate the same fixture.
OnePickPerFixture ==
    \A c, d \in {x \in decisions : x.outcome = "APPROVED"} :
        FixtureOf[c.evaluation] = FixtureOf[d.evaluation] => c = d

\* A request has one decision and an operator request one event: the keys that
\* make a retry of either call return the first result.
RequestsAnsweredOnce ==
    /\ \A c, d \in decisions : c.request = d.request => c = d
    /\ \A x, y \in opEvents : x.id = y.id => x = y

\* account_sequence numbers the rows 1, 2, 3, ... without a gap or a duplicate,
\* though each writer computes it from a tail read before its commit.
LedgerSequence ==
    /\ \A x, y \in ledger : x.sequence = y.sequence => x = y
    /\ \A x \in ledger :
          IF x.type = "INITIAL_BANKROLL" THEN x.sequence = 1
          ELSE \E y \in ledger : y.sequence = x.sequence - 1

\* "The displayed balance must be reproducible from the ledger" (DASHBOARD_SPEC):
\* each balance is the one before it plus the row's own amount. It does not hold
\* under AutoSkip, the mode of the production composition: no run checks it, and
\* BalancesAreCurrent says what the code promises instead.
BalanceFollowsLedger ==
    \A x, y \in ledger : x.sequence = y.sequence + 1 => x.balance = y.balance + x.amount

\* What each new row does carry, in either mode: its amount on top of a balance
\* that is still right at the commit, though it was read before. That is the
\* balance of the last row or, when AutoSkip leaves the picks nobody played out
\* of account, the bankroll the operator has available.
BalancesAreCurrent ==
    [][\A x \in ledger' \ ledger : x.type # "INITIAL_BANKROLL" =>
         x.balance = x.amount + (IF AutoSkip /\ x.type = "STAKE_RESERVED"
                                 THEN OperatorAvailable ELSE LedgerTail.balance)]_vars

Releases == {x \in ledger : x.type \notin {"INITIAL_BANKROLL", "STAKE_RESERVED"}}

\* A pick has one reservation; it is released by one later row, exactly when
\* the pick has a settlement event, whichever of settle_pick and the manual
\* void wrote it.
StakeReleasedOnce ==
    /\ Reserved = Picks
    /\ \A x, y \in Releases : x.pick = y.pick => x = y
    /\ {x.pick : x \in Releases} = {s.pick : s \in settlements}
    /\ \A s, u \in settlements : s.pick = u.pick => s = u
    /\ \A x \in Releases : \E y \in ledger :
          y.type = "STAKE_RESERVED" /\ y.pick = x.pick /\ y.sequence < x.sequence

\* The available balance never pays a stake it does not hold.
BalanceNotOverdrawn == \A x \in ledger : x.balance >= 0

\* Whatever the sessions interleave, the ledger is one account: each stake is
\* paid once and only from money that is there, each release adds what the
\* outcome is worth, and no other commit moves the balance. (Outside the
\* auto-skip mode, where register computes balances of another kind.)
Money == INSTANCE Account WITH
    Pick <- Request,
    Initial <- InitialBankroll,
    Return <- [WIN |-> WinReturn, LOSS |-> 0, VOID |-> Stake],
    opened <- ledger # {},
    balance <- IF ledger = {} THEN 0 ELSE LedgerTail.balance,
    staked <- Reserved \ {s.pick : s \in settlements},
    returned <- {[pick |-> s.pick, outcome |-> s.outcome] : s \in settlements}

LedgerIsAnAccount == Money!AccountSpec

\* The lock orders of the four handlers never block each other for ever.
TransactionsEnd == \A t \in Tx : pc[t] # "idle" ~> pc[t] = "idle"

=============================================================================
