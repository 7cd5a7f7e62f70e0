------------------------------ MODULE ApiBudget ------------------------------
(***************************************************************************)
(* The daily budget of provider requests (PostgreSQLApiBudget), shared by  *)
(* every process that talks to the provider. A call works out the UTC day, *)
(* waits for that day's advisory lock, reads the counts, and records one   *)
(* more request or is refused; only then is the request sent.              *)
(*                                                                         *)
(* The day is worked out before the wait and the request is sent after the *)
(* commit, so either may be separated from the count by midnight.          *)
(***************************************************************************)
EXTENDS Integers, FiniteSets

CONSTANTS
    Client,             \* processes that send provider requests
    NoClient,           \* the owner of a free lock
    Category,           \* PROVIDER_REQUEST_CATEGORIES
    Training,           \* "model_training"
    EffectiveLimit,     \* daily_limit - reserve
    TrainingLimit,      \* training_daily_limit
    OperationalReserve, \* operational_reserve
    DayLength,          \* instants in a UTC day
    MaxClock            \* bound: the last instant of the modelled time

ASSUME ApiBudgetAssumption ==
    /\ NoClient \notin Client /\ IsFiniteSet(Client)
    /\ Training \in Category
    /\ EffectiveLimit \in Nat \ {0} /\ TrainingLimit \in 1 .. EffectiveLimit
    /\ OperationalReserve \in 0 .. EffectiveLimit - 1
    /\ DayLength \in Nat \ {0} /\ MaxClock \in Nat

VARIABLES
    clock,      \* the present
    usage,      \* table provider_request_usage: requests by day and category
    dayLock,    \* the holder of each day's advisory lock
    call,       \* each client's current call
    sentOn      \* history: requests that left for the provider on each day

budgetVars == <<clock, usage, dayLock, call, sentOn>>

Day == 0 .. MaxClock \div DayLength
Today == clock \div DayLength
\* Training apart, the guards treat the categories alike.
Total(d) == usage[d].training + usage[d].other

NoCall == [step |-> "none", category |-> Training, day |-> 0]
Counter(k) == IF k = Training THEN "training" ELSE "other"

-----------------------------------------------------------------------------

Ask(c, k) ==
    /\ call[c].step = "none"
    /\ call' = [call EXCEPT ![c] = [step |-> "lock", category |-> k, day |-> Today]]
    /\ UNCHANGED <<clock, usage, dayLock, sentOn>>

\* Mutant: one call more than the limit is let through.
AllowedAtLimit(k, d) == Total(d) <= EffectiveLimit

Allowed(k, d) ==
    /\ Total(d) < EffectiveLimit
    /\ k = Training => /\ usage[d].training < TrainingLimit
                       /\ Total(d) < EffectiveLimit - OperationalReserve

\* Mutant: the counts are read without the lock.
AllowUnlocked(c) ==
    /\ call[c].step = "lock"
    /\ Allowed(call[c].category, call[c].day)
    /\ call' = [call EXCEPT ![c].step = "record"]
    /\ UNCHANGED <<clock, usage, dayLock, sentOn>>

\* The lock is taken and the counts are read: it is held until Record.
Allow(c) ==
    /\ call[c].step = "lock"
    /\ dayLock[call[c].day] = NoClient
    /\ Allowed(call[c].category, call[c].day)
    /\ dayLock' = [dayLock EXCEPT ![call[c].day] = c]
    /\ call' = [call EXCEPT ![c].step = "record"]
    /\ UNCHANGED <<clock, usage, sentOn>>

\* ApiBudgetExceededError: the transaction rolls back and nothing is sent.
Refuse(c) ==
    /\ call[c].step = "lock"
    /\ dayLock[call[c].day] = NoClient
    /\ ~Allowed(call[c].category, call[c].day)
    /\ call' = [call EXCEPT ![c].step = "refused"]
    /\ UNCHANGED <<clock, usage, dayLock, sentOn>>

FreeDay(c) == dayLock' = [d \in Day |-> IF dayLock[d] = c THEN NoClient ELSE dayLock[d]]

Record(c) ==
    LET d == call[c].day
        k == Counter(call[c].category)
    IN  /\ call[c].step = "record"
        /\ usage' = [usage EXCEPT ![d][k] = @ + 1]
        /\ call' = [call EXCEPT ![c].step = "send"]
        /\ FreeDay(c)
        /\ UNCHANGED <<clock, sentOn>>

\* The request leaves; its answer or failure is the caller's.
Send(c) ==
    /\ call[c].step = "send"
    /\ sentOn' = [sentOn EXCEPT ![Today] = @ + 1]
    /\ call' = [call EXCEPT ![c] = NoCall]
    /\ UNCHANGED <<clock, usage, dayLock>>

\* The refused caller goes on, or a caller is lost at any step.
EndCall(c) ==
    /\ call' = [call EXCEPT ![c] = NoCall]
    /\ FreeDay(c)
    /\ UNCHANGED <<clock, usage, sentOn>>

Tick ==
    /\ clock < MaxClock
    /\ clock' = clock + 1
    /\ UNCHANGED <<usage, dayLock, call, sentOn>>

BudgetInit ==
    /\ clock = 0
    /\ usage = [d \in Day |-> [training |-> 0, other |-> 0]]
    /\ dayLock = [d \in Day |-> NoClient]
    /\ call = [c \in Client |-> NoCall]
    /\ sentOn = [d \in Day |-> 0]

CallStep(c) == Allow(c) \/ Refuse(c) \/ Record(c) \/ Send(c)

BudgetNext ==
    \/ \E c \in Client : (\E k \in Category : Ask(c, k)) \/ CallStep(c) \/ EndCall(c)
    \/ Tick

BudgetSpec == BudgetInit /\ [][BudgetNext]_budgetVars

-----------------------------------------------------------------------------
(* Properties.                                                             *)

BudgetTypeOK ==
    /\ clock \in 0 .. MaxClock
    /\ usage \in [Day -> [training : Nat, other : Nat]]
    /\ dayLock \in [Day -> Client \cup {NoClient}]
    /\ call \in [Client -> [step : {"none", "lock", "record", "send", "refused"},
                            category : Category, day : Day]]
    /\ sentOn \in [Day -> Nat]

\* API_BUDGET.md: "Normal application traffic may therefore consume at most
\* 6,000 calls per UTC day", whatever processes race for the last one, and
\* model training keeps to its allowance.
WithinBudget ==
    \A d \in Day : Total(d) <= EffectiveLimit /\ usage[d].training <= TrainingLimit

\* No training request is recorded once the reserve for operations is reached.
TrainingLeavesReserve ==
    [][\A d \in Day : usage'[d].training > usage[d].training =>
         Total(d) < EffectiveLimit - OperationalReserve]_budgetVars

\* What the provider itself counts: a call may be recorded before midnight
\* and sent after it, but each client has one such call at most.
QuotaKept == \A d \in Day : sentOn[d] <= EffectiveLimit + Cardinality(Client)

=============================================================================
