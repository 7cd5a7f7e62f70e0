--------------------------- MODULE BankrollProofs ---------------------------
(***************************************************************************)
(* Proofs about Bankroll, for every set of requests, fixtures, sessions    *)
(* and every policy. The argument is two-phase locking: a session that has *)
(* read under the account row still owns it when it writes, so what it     *)
(* read is still true (Snapshot), and its write keeps the promise.         *)
(* The ledger implements the abstract account for every policy without     *)
(* auto-skip: three commits move money, and each is one action of Account, *)
(* because what its session read is still true; any other step leaves the  *)
(* account alone.                                                          *)
(***************************************************************************)
EXTENDS Bankroll, FiniteSetTheorems, TLAPS

-----------------------------------------------------------------------------
(* The order of operator events, and what one more event does to it.       *)

LEMMA BeforeOrder ==
    ASSUME NEW x \in EventRow, NEW y \in EventRow, NEW z \in EventRow
    PROVE  /\ ~(Before(x, y) /\ Before(y, x))
           /\ x.id # y.id => Before(x, y) \/ Before(y, x)
           /\ Before(x, y) /\ Before(y, z) => Before(x, z)
  <1>1. /\ EventRank[x.id] \in Nat /\ EventRank[y.id] \in Nat /\ EventRank[z.id] \in Nat
        /\ x.id # y.id => EventRank[x.id] # EventRank[y.id]
    BY EventRankAssumption DEF EventRow
  <1>2. /\ x.occurred \in Int /\ y.occurred \in Int /\ z.occurred \in Int
        /\ x.persisted \in Int /\ y.persisted \in Int /\ z.persisted \in Int
    BY DEF EventRow, Time
  <1> QED BY <1>1, <1>2 DEF Before

\* At most one event of a pick is the latest.
LEMMA LatestUnique ==
    ASSUME NEW E, E \subseteq EventRow, NEW p,
           NEW e \in LatestEvents(E, p)
    PROVE  StateIn(E, p) = e.state
  <1>1. ASSUME NEW c \in LatestEvents(E, p) PROVE c = e
    BY <1>1, BeforeOrder DEF LatestEvents
  <1>2. (CHOOSE c \in LatestEvents(E, p) : TRUE) \in LatestEvents(E, p)
    OBVIOUS
  <1> QED BY <1>1, <1>2 DEF StateIn, StateOf

\* A pick that is SKIPPED has a SKIPPED latest event.
LEMMA SkippedHasEvent ==
    ASSUME NEW E, NEW p, StateIn(E, p) = "SKIPPED"
    PROVE  \E e \in LatestEvents(E, p) : e.state = "SKIPPED"
  BY DEF StateIn, StateOf

\* A SKIPPED pick leaves that state only by an event that is PLAYED and not
\* older than the latest one: the `becomes_latest` test of set_state.
LEMMA OnlyReactivationUnskips ==
    ASSUME NEW E, E \subseteq EventRow, NEW n \in EventRow,
           \A x \in E : x.id # n.id,
           StateIn(E, n.pick) = "SKIPPED",
           StateIn(E \cup {n}, n.pick) # "SKIPPED"
    PROVE  /\ n.state = "PLAYED"
           /\ \E e \in LatestEvents(E, n.pick) : e.state = "SKIPPED" /\ n.occurred >= e.occurred
  <1> DEFINE F == E \cup {n}
  <1>0. F \subseteq EventRow OBVIOUS
  <1>1. PICK e \in LatestEvents(E, n.pick) : e.state = "SKIPPED"
    BY SkippedHasEvent
  <1>2. e \in E /\ e \in EventRow /\ e.pick = n.pick /\ e.id # n.id
    BY <1>1 DEF LatestEvents
  <1>3. ~Before(n, e)
    <2>1. SUFFICES ASSUME Before(n, e) PROVE FALSE OBVIOUS
    <2>2. e \in LatestEvents(F, n.pick)
      BY <2>1, <1>1, <1>2 DEF LatestEvents
    <2> QED BY <2>2, <1>0, <1>1, LatestUnique
  <1>4. n \in LatestEvents(F, n.pick)
    <2>1. Before(e, n) BY <1>2, <1>3, BeforeOrder
    <2>2. ASSUME NEW x \in F, x.pick = n.pick, x # n PROVE Before(x, n)
      <3>1. x \in E /\ x \in EventRow BY <2>2
      <3>2. x = e \/ Before(x, e) BY <3>1, <2>2, <1>1 DEF LatestEvents
      <3> QED BY <3>1, <3>2, <2>1, <1>2, BeforeOrder
    <2> QED BY <2>2 DEF LatestEvents
  <1>5. n.state # "SKIPPED" BY <1>4, <1>0, LatestUnique
  <1>6. n.state = "PLAYED" BY <1>5 DEF EventRow, OperatorState
  <1>7. n.occurred >= e.occurred
    BY <1>2, <1>3 DEF Before, EventRow, Time
  <1> QED BY <1>1, <1>6, <1>7

\* An event of one pick leaves the state of every other pick alone.
LEMMA OtherPicksKeepState ==
    ASSUME NEW E, NEW n, NEW p, p # n.pick
    PROVE  StateIn(E \cup {n}, p) = StateIn(E, p)
  <1>1. LatestEvents(E \cup {n}, p) = LatestEvents(E, p) BY DEF LatestEvents
  <1> QED BY <1>1 DEF StateIn

-----------------------------------------------------------------------------
(* The inductive invariant.                                                *)

\* Some row is the last of the account.
LedgerHasTail == ledger # {} => \E e \in ledger : \A x \in ledger : x.sequence <= e.sequence

\* The account row is owned from the moment its lock was granted.
AccountHeld == \A t \in Tx : pc[t] \in {"pick", "read", "commit"} => owner[AccountLock] = t

\* A registration past its replay check owns its request, still undecided.
RequestHeld ==
    \A t \in Tx :
        job[t].kind = "register" /\ pc[t] \in {"fixture", "account", "read", "commit"}
            => /\ owner[RequestLock(job[t].request)] = t
               /\ ~Decided(job[t].request)

\* What a session read is still so when it writes.
RegisterSnapshot(t) ==
    pc[t] = "commit" /\ job[t].kind = "register" /\ view[t].approved =>
        /\ ledger # {}
        /\ RiskAccepts(FixtureOf[job[t].evaluation], view[t].balance)
        /\ view[t].balance = BalanceBefore
        /\ view[t].sequence = LedgerTail.sequence

SetStateSnapshot(t) ==
    pc[t] = "commit" /\ job[t].kind = "operator" =>
        /\ ~Replayed(job[t].request)
        /\ Reactivates(job[t]) => OpenExposure + Stake <= MaxOpenExposure

SettleSnapshot(t) ==
    pc[t] = "commit" /\ job[t].kind \in {"NORMAL", "MANUAL_VOID"} =>
        /\ ~Settled(job[t].pick) /\ job[t].pick \in Reserved
        /\ view[t].sequence = LedgerTail.sequence
        /\ view[t].balance = LedgerTail.balance

Snapshot == \A t \in Tx : RegisterSnapshot(t) /\ SetStateSnapshot(t) /\ SettleSnapshot(t)

\* Rows refer to what exists: the auto-skip event of a pick to its decision,
\* a ledger that is not empty to its initial row.
References ==
    /\ \A e \in opEvents : e.id \in Request => Decided(e.id)
    /\ ledger # {} => \E e \in ledger : e.type = "INITIAL_BANKROLL"

\* What the ledger and the tables promise.
LedgerPart == LedgerHasTail /\ LedgerSequence /\ BalanceNotOverdrawn

TablePart ==
    /\ LedgerPart /\ References /\ ExposureCap
    /\ OnePickPerFixture /\ RequestsAnsweredOnce /\ StakeReleasedOnce

IInv == TypeOK /\ AccountHeld /\ RequestHeld /\ Snapshot /\ TablePart

-----------------------------------------------------------------------------
(* Facts about the operators the actions read.                             *)

LEMMA LockKinds ==
    /\ AccountLock \in Lock
    /\ \A r \in Request : RequestLock(r) \in Lock /\ PickLock(r) \in Lock
    /\ \A f \in Fixture : FixtureLock(f) \in Lock
    /\ \A r : RequestLock(r) # AccountLock /\ PickLock(r) # AccountLock
    /\ \A f : FixtureLock(f) # AccountLock
    /\ \A r, s : RequestLock(r) # PickLock(s) /\ RequestLock(r) # FixtureLock(s)
    /\ \A r, s : RequestLock(r) = RequestLock(s) => r = s
  BY DEF AccountLock, RequestLock, PickLock, FixtureLock, Lock

\* The row LedgerTail names is the last one.
LEMMA TailIsLast ==
    ASSUME LedgerHasTail, ledger # {}
    PROVE  LedgerTail \in ledger /\ \A x \in ledger : x.sequence <= LedgerTail.sequence
  BY DEF LedgerHasTail, LedgerTail

LEMMA PicksAreRequests ==
    ASSUME TypeOK
    PROVE  /\ Picks \subseteq Request /\ PlayedPicks \subseteq Request
           /\ \A o : PlayedWith(o) \subseteq Request
  BY DEF TypeOK, Picks, PlayedPicks, PlayedWith, DecisionRow

\* The reserved picks are requests, so the exposure is a finite amount.
LEMMA ReservedAreRequests ==
    ASSUME TypeOK
    PROVE  Reserved \subseteq Request /\ OpenPicks \subseteq Request
  BY DEF TypeOK, LedgerRow, Reserved, OpenPicks

LEMMA SubsetCardinality ==
    ASSUME NEW S, S \subseteq Request
    PROVE  IsFiniteSet(S) /\ Cardinality(S) \in Nat
  BY IdAssumption, FS_Subset, FS_CardinalityType

LEMMA BalanceIsInt ==
    ASSUME TypeOK, LedgerHasTail, ledger # {}
    PROVE  /\ LedgerTail \in LedgerRow /\ LedgerTail.sequence \in Nat
           /\ LedgerTail.balance \in Int /\ BalanceBefore \in Int
  <1>1. LedgerTail \in LedgerRow BY TailIsLast DEF TypeOK
  <1>2. LedgerTail.sequence \in Nat /\ LedgerTail.balance \in Int BY <1>1 DEF LedgerRow
  <1>3. /\ Cardinality(PlayedPicks) \in Int /\ Cardinality(PlayedWith("WIN")) \in Int
        /\ Cardinality(PlayedWith("VOID")) \in Int
    BY PicksAreRequests, SubsetCardinality
  <1>4. OperatorAvailable \in Int
    BY <1>3, PolicyAssumption DEF OperatorAvailable
  <1> QED BY <1>1, <1>2, <1>4 DEF BalanceBefore

-----------------------------------------------------------------------------
(* The type invariant.                                                     *)

\* The part of TypeOK about the tables, and the part about the sessions.
TablesOK ==
    /\ decisions \subseteq DecisionRow /\ ledger \subseteq LedgerRow
    /\ opEvents \subseteq EventRow /\ settlements \subseteq SettlementRow

SessionsOK ==
    /\ clock \in Time
    /\ owner \in [Lock -> Tx \cup {NoTx}]
    /\ pc \in [Tx -> {"idle", "request", "fixture", "account", "pick", "read", "commit"}]
    /\ job \in [Tx -> Job \cup {NoJob}]
    /\ view \in [Tx -> View]
    /\ \A t \in Tx :
          /\ pc[t] = "idle" <=> job[t] = NoJob
          /\ pc[t] = "request" => job[t] \in RegisterJob
          /\ pc[t] = "fixture" => job[t] \in RegisterJob \cup SettleJob
          /\ pc[t] = "pick" => job[t] \in OperatorJob \cup SettleJob

LEMMA TypeParts == TypeOK <=> TablesOK /\ SessionsOK
  BY DEF TypeOK, TablesOK, SessionsOK

\* The call of a session tells its kind.
LEMMA JobKinds ==
    ASSUME NEW j \in Job \cup {NoJob}
    PROVE  /\ j.kind = "register" <=> j \in RegisterJob
           /\ j.kind = "operator" <=> j \in OperatorJob
           /\ j.kind \in {"NORMAL", "MANUAL_VOID"} <=> j \in SettleJob
           /\ j.kind = "none" <=> j = NoJob
           /\ j = NoJob => j \notin Job
  BY DEF Job, RegisterJob, OperatorJob, SettleJob, NoJob

LEMMA BeginTypes ==
    ASSUME SessionsOK, NEW t \in Tx, NEW j \in Job,
           \/ j \in RegisterJob /\ Begin(t, j, "request")
           \/ j \in OperatorJob /\ Begin(t, j, "account")
           \/ j \in SettleJob /\ Begin(t, j, "fixture")
    PROVE  SessionsOK'
  <1>1. j # NoJob BY JobKinds
  <1> QED BY <1>1 DEF SessionsOK, Begin

LEMMA FinishTypes ==
    ASSUME SessionsOK, NEW t \in Tx, Finish(t)
    PROVE  SessionsOK'
  <1>1. NoView \in View BY DEF NoView, View
  <1>2. owner' \in [Lock -> Tx \cup {NoTx}] BY DEF SessionsOK, Finish
  <1> QED BY <1>1, <1>2 DEF SessionsOK, Finish

LEMMA TakeTypes ==
    ASSUME SessionsOK, NEW t \in Tx, NEW l \in Lock, pc[t] # "idle",
           \/ Take(t, l, "fixture") /\ job[t] \in RegisterJob
           \/ Take(t, l, "account")
           \/ Take(t, l, "pick") /\ job[t] \in OperatorJob \cup SettleJob
           \/ Take(t, l, "read")
    PROVE  SessionsOK'
  BY DEF SessionsOK, Take

LEMMA ReadTypes ==
    ASSUME SessionsOK, NEW t \in Tx, NEW v \in View, pc[t] = "read", Read(t, v)
    PROVE  SessionsOK'
  BY DEF SessionsOK, Read

LEMMA TypeStep ==
    ASSUME TypeOK, LedgerHasTail, [Next]_vars
    PROVE  TypeOK'
  <1>0. TablesOK /\ SessionsOK BY TypeParts
  <1> SUFFICES TablesOK' /\ SessionsOK' BY DEF TypeOK, TablesOK, SessionsOK
  <1>1. CASE UNCHANGED vars
    BY <1>1, <1>0 DEF vars, TablesOK, SessionsOK
  <1>2. CASE BootstrapBankroll
    <2>1. TablesOK'
      BY <1>0, <1>2, PolicyAssumption DEF BootstrapBankroll, TablesOK, LedgerRow
    <2>2. SessionsOK' BY <1>0, <1>2 DEF BootstrapBankroll, SessionsOK
    <2> QED BY <2>1, <2>2
  <1>3. CASE Tick
    <2>1. clock' \in Time BY <1>0, <1>3, PolicyAssumption DEF Tick, SessionsOK, Time
    <2> QED BY <1>0, <1>3, <2>1 DEF Tick, TablesOK, SessionsOK
  <1>4. ASSUME NEW t \in Tx, Start(t) PROVE TablesOK' /\ SessionsOK'
    <2>0. clock \in Time /\ 0 .. clock \subseteq Time
      BY <1>0, PolicyAssumption DEF SessionsOK, Time
    <2>1. TablesOK' BY <1>0, <1>4 DEF Start, BeginRegister, BeginSetState, BeginSettle, Begin, TablesOK
    <2>2. CASE BeginRegister(t)
      <3>1. PICK s \in Submission, b \in BOOLEAN :
              Begin(t, [kind |-> "register", request |-> s[1], evaluation |-> s[2],
                        eligible |-> b, started |-> clock], "request")
        BY <2>2 DEF BeginRegister
      <3>2. s[1] \in Request /\ s[2] \in Evaluation BY IdAssumption
      <3>3. [kind |-> "register", request |-> s[1], evaluation |-> s[2],
             eligible |-> b, started |-> clock] \in RegisterJob
        BY <3>2, <2>0 DEF RegisterJob
      <3> QED BY <3>1, <3>3, <1>0, <2>1, BeginTypes DEF Job
    <2>3. CASE BeginSetState(t)
      <3>1. PICK q \in OpRequest, p \in Picks, s \in OperatorState, at \in 0 .. clock :
              Begin(t, [kind |-> "operator", request |-> q, pick |-> p, state |-> s,
                        occurred |-> at, started |-> clock], "account")
        BY <2>3 DEF BeginSetState
      <3>2. [kind |-> "operator", request |-> q, pick |-> p, state |-> s,
             occurred |-> at, started |-> clock] \in OperatorJob
        BY <2>0, PicksAreRequests DEF OperatorJob
      <3> QED BY <3>1, <3>2, <1>0, <2>1, BeginTypes DEF Job
    <2>4. CASE BeginSettle(t)
      <3>1. PICK d \in decisions, k \in {"NORMAL", "MANUAL_VOID"}, o \in Outcome :
              Begin(t, [kind |-> k, pick |-> d.request, evaluation |-> d.evaluation,
                        outcome |-> o], "fixture")
        BY <2>4 DEF BeginSettle
      <3>2. d.request \in Request /\ d.evaluation \in Evaluation
        BY <1>0 DEF TablesOK, DecisionRow
      <3>3. [kind |-> k, pick |-> d.request, evaluation |-> d.evaluation,
             outcome |-> o] \in SettleJob
        BY <3>2 DEF SettleJob
      <3> QED BY <3>1, <3>3, <1>0, <2>1, BeginTypes DEF Job
    <2> QED BY <1>4, <2>2, <2>3, <2>4 DEF Start
  <1>5. ASSUME NEW t \in Tx, Step(t) \/ Abort(t) PROVE TablesOK' /\ SessionsOK'
    <2>0. job[t] \in Job \cup {NoJob} /\ view[t] \in View BY <1>0 DEF SessionsOK
    <2>k. /\ job[t].kind = "register" <=> job[t] \in RegisterJob
          /\ job[t].kind = "operator" <=> job[t] \in OperatorJob
          /\ job[t].kind \in {"NORMAL", "MANUAL_VOID"} <=> job[t] \in SettleJob
          /\ job[t].kind = "none" <=> job[t] = NoJob
      BY <2>0, JobKinds
    <2>1. CASE UNCHANGED tables /\ Finish(t)
      BY <1>0, <2>1, FinishTypes DEF tables, TablesOK
    <2>2. CASE RegisterIneligible(t)
      <3>1. job[t] \in RegisterJob BY <1>0, <2>2 DEF RegisterIneligible, SessionsOK
      <3>2. TablesOK'
        BY <1>0, <2>2, <3>1 DEF RegisterIneligible, Decide, TablesOK, DecisionRow, RegisterJob
      <3> QED BY <1>0, <2>2, <3>2, FinishTypes DEF RegisterIneligible
    <2>3. CASE RegisterLockRequest(t)
      <3>1. job[t] \in RegisterJob BY <1>0, <2>3 DEF RegisterLockRequest, SessionsOK
      <3>2. RequestLock(job[t].request) \in Lock BY <3>1, LockKinds DEF RegisterJob
      <3>3. SessionsOK' BY <1>0, <2>3, <3>1, <3>2, TakeTypes DEF RegisterLockRequest
      <3> QED BY <1>0, <2>3, <3>3 DEF RegisterLockRequest, Take, TablesOK
    <2>4. CASE LockFixture(t)
      <3>1. job[t] \in RegisterJob \cup SettleJob BY <1>0, <2>4 DEF LockFixture, SessionsOK
      <3>2. FixtureLock(FixtureOf[job[t].evaluation]) \in Lock
        BY <3>1, LockKinds, IdAssumption DEF RegisterJob, SettleJob
      <3>3. SessionsOK' BY <1>0, <2>4, <3>2, TakeTypes DEF LockFixture
      <3> QED BY <1>0, <2>4, <3>3 DEF LockFixture, Take, TablesOK
    <2>5. CASE RegisterLockAccount(t)
      <3>1. SessionsOK' BY <1>0, <2>5, LockKinds, TakeTypes DEF RegisterLockAccount
      <3> QED BY <1>0, <2>5, <3>1 DEF RegisterLockAccount, Take, TablesOK
    <2>6. CASE LockAccount(t)
      <3>1. job[t] \in OperatorJob \cup SettleJob
        BY <1>0, <2>0, <2>6, <2>k DEF LockAccount, SessionsOK, Job
      <3>2. SessionsOK' BY <1>0, <2>6, <3>1, LockKinds, TakeTypes DEF LockAccount
      <3> QED BY <1>0, <2>6, <3>2 DEF LockAccount, Take, TablesOK
    <2>7. CASE LockPick(t)
      <3>1. job[t].pick \in Request
        BY <1>0, <2>7 DEF LockPick, SessionsOK, OperatorJob, SettleJob
      <3>2. SessionsOK' BY <1>0, <2>7, <3>1, LockKinds, TakeTypes DEF LockPick
      <3> QED BY <1>0, <2>7, <3>2 DEF LockPick, Take, TablesOK
    <2>8. CASE RegisterRead(t)
      <3>1. RiskAccepts(FixtureOf[job[t].evaluation], BalanceBefore) \in BOOLEAN
        BY DEF RiskAccepts
      <3>2. [sequence |-> LedgerTail.sequence, balance |-> BalanceBefore,
             approved |-> RiskAccepts(FixtureOf[job[t].evaluation], BalanceBefore)] \in View
        BY <2>8, <3>1, BalanceIsInt DEF RegisterRead, View
      <3>3. SessionsOK' BY <1>0, <2>8, <3>2, ReadTypes DEF RegisterRead
      <3> QED BY <1>0, <2>8, <3>3 DEF RegisterRead, Read, TablesOK
    <2>9. CASE RegisterReject(t)
      <3>1. job[t] \in RegisterJob BY <2>9, <2>k DEF RegisterReject
      <3>2. TablesOK'
        BY <1>0, <2>9, <3>1 DEF RegisterReject, Decide, TablesOK, DecisionRow, RegisterJob
      <3> QED BY <1>0, <2>9, <3>2, FinishTypes DEF RegisterReject
    <2>10. CASE RegisterApprove(t)
      <3>1. job[t] \in RegisterJob BY <2>10, <2>k DEF RegisterApprove
      <3>2. decisions' \subseteq DecisionRow
        BY <1>0, <2>10, <3>1 DEF RegisterApprove, Decide, TablesOK, DecisionRow, RegisterJob
      <3>3. opEvents' \subseteq EventRow
        BY <1>0, <2>10, <3>1
        DEF RegisterApprove, TablesOK, EventRow, EventId, OperatorState, RegisterJob
      <3>4. view[t].sequence + 1 \in Nat /\ -Stake \in Int /\ view[t].balance - Stake \in Int
        BY <2>0, PolicyAssumption DEF View
      <3>5. ledger' \subseteq LedgerRow
        BY <1>0, <2>10, <3>1, <3>4 DEF RegisterApprove, TablesOK, LedgerRow, RegisterJob
      <3>6. TablesOK' BY <1>0, <2>10, <3>2, <3>3, <3>5 DEF RegisterApprove, TablesOK
      <3> QED BY <1>0, <2>10, <3>6, FinishTypes DEF RegisterApprove
    <2>11. CASE SetStateRead(t)
      <3>1. [sequence |-> 0, balance |-> 0, approved |-> TRUE] \in View BY DEF View
      <3>2. SessionsOK' BY <1>0, <2>11, <3>1, ReadTypes DEF SetStateRead
      <3> QED BY <1>0, <2>11, <3>2 DEF SetStateRead, Read, TablesOK
    <2>12. CASE SetStateCommit(t)
      <3>1. job[t] \in OperatorJob BY <2>12, <2>k DEF SetStateCommit
      <3>2. TablesOK'
        BY <1>0, <2>12, <3>1 DEF SetStateCommit, TablesOK, EventRow, EventId, OperatorJob
      <3> QED BY <1>0, <2>12, <3>2, FinishTypes DEF SetStateCommit
    <2>13. CASE SettleRead(t)
      <3>1. ledger # {} BY <2>13 DEF SettleRead, Reserved
      <3>2. [sequence |-> LedgerTail.sequence, balance |-> LedgerTail.balance,
             approved |-> TRUE] \in View
        BY <3>1, BalanceIsInt DEF View
      <3>3. SessionsOK' BY <1>0, <2>13, <3>2, ReadTypes DEF SettleRead
      <3> QED BY <1>0, <2>13, <3>3 DEF SettleRead, Read, TablesOK
    <2>14. CASE SettleCommit(t)
      <3>1. job[t] \in SettleJob BY <2>14, <2>k DEF SettleCommit
      <3>2. /\ LedgerDelta(job[t].outcome) \in Int
            /\ EntryType(job[t].outcome) \in {"PAYOUT", "LOSS", "VOID_REFUND"}
        BY PolicyAssumption DEF LedgerDelta, EntryType
      <3>3. view[t].sequence + 1 \in Nat /\ view[t].balance + LedgerDelta(job[t].outcome) \in Int
        BY <2>0, <3>2 DEF View
      <3>4. ledger' \subseteq LedgerRow
        BY <1>0, <2>14, <3>1, <3>2, <3>3 DEF SettleCommit, TablesOK, LedgerRow, SettleJob
      <3>5. settlements' \subseteq SettlementRow
        BY <1>0, <2>14, <3>1 DEF SettleCommit, TablesOK, SettlementRow, SettleJob
      <3>6. TablesOK' BY <1>0, <2>14, <3>4, <3>5 DEF SettleCommit, TablesOK
      <3> QED BY <1>0, <2>14, <3>6, FinishTypes DEF SettleCommit
    <2> QED
      BY <1>5, <2>1, <2>2, <2>3, <2>4, <2>5, <2>6, <2>7, <2>8, <2>9, <2>10, <2>11, <2>12,
         <2>13, <2>14
      DEF Step, Abort, RegisterReplay, RegisterNotBootstrapped, SetStateRefuse, SettleRefuse
  <1> QED BY <1>1, <1>2, <1>3, <1>4, <1>5 DEF Next

-----------------------------------------------------------------------------
(* The locks.                                                              *)

\* A session that ends keeps no lock; the others keep theirs.
LEMMA FinishHeld ==
    ASSUME SessionsOK, AccountHeld, RequestHeld, NEW t \in Tx, Finish(t),
           \A r \in Request : Decided(r)' =>
               Decided(r) \/ Free(RequestLock(r)) \/ owner[RequestLock(r)] = t
    PROVE  AccountHeld' /\ RequestHeld'
  <1>1. pc'[t] = "idle" /\ job'[t] = NoJob BY DEF SessionsOK, Finish
  <1>2. ASSUME NEW u \in Tx, u # t
        PROVE  /\ pc'[u] = pc[u] /\ job'[u] = job[u] /\ u # NoTx
               /\ \A l \in Lock : owner[l] = u => owner'[l] = u
    BY <1>2, IdAssumption DEF SessionsOK, Finish
  <1>3. AccountHeld'
    BY <1>1, <1>2, LockKinds DEF AccountHeld
  <1>4. ASSUME NEW u \in Tx, u # t, NEW r \in Request, job[u].request = r,
               job[u].kind = "register", pc[u] \in {"fixture", "account", "read", "commit"}
        PROVE  owner'[RequestLock(r)] = u /\ ~Decided(r)'
    <2>1. owner[RequestLock(r)] = u /\ ~Decided(r) BY <1>4 DEF RequestHeld
    <2>2. ~Decided(r)' BY <2>1, <1>2, <1>4 DEF Free
    <2> QED BY <2>1, <2>2, <1>2, <1>4, LockKinds
  <1>5. \A u \in Tx : job[u].kind = "register" => job[u].request \in Request
    <2>1. ASSUME NEW u \in Tx, job[u].kind = "register" PROVE job[u] \in RegisterJob
      BY <2>1, JobKinds DEF SessionsOK
    <2> QED BY <2>1 DEF RegisterJob
  <1>6. RequestHeld'
    <2> SUFFICES ASSUME NEW u \in Tx, job'[u].kind = "register",
                        pc'[u] \in {"fixture", "account", "read", "commit"}
                 PROVE  /\ owner'[RequestLock(job'[u].request)] = u
                        /\ ~(\E d \in decisions' : d.request = job'[u].request)
      BY DEF RequestHeld, Decided
    <2>1. u # t BY <1>1
    <2>2. job'[u] = job[u] /\ pc'[u] = pc[u] BY <2>1, <1>2
    <2>3. job[u].request \in Request BY <1>5, <2>2
    <2> QED BY <2>1, <2>2, <2>3, <1>4 DEF Decided
  <1> QED BY <1>3, <1>6

\* A session that takes one more lock leaves the locks of the others alone.
LEMMA TakeHeld ==
    ASSUME SessionsOK, AccountHeld, RequestHeld, NEW t \in Tx, NEW l \in Lock, NEW next,
           Take(t, l, next),
           next \in {"pick", "read", "commit"} => l = AccountLock \/ owner[AccountLock] = t,
           job[t].kind = "register" =>
               /\ ~Decided(job[t].request) /\ job[t].request \in Request
               /\ l = RequestLock(job[t].request) \/ owner[RequestLock(job[t].request)] = t
    PROVE  AccountHeld' /\ RequestHeld'
  <1>1. /\ pc'[t] = next /\ job' = job /\ decisions' = decisions /\ owner'[l] = t
        /\ \A m \in Lock : owner[m] # NoTx => owner'[m] = owner[m]
        /\ \A u \in Tx : u # t => pc'[u] = pc[u]
        /\ \A u \in Tx : u # NoTx
    BY IdAssumption DEF SessionsOK, Take, Free
  <1>2. AccountHeld' BY <1>1, LockKinds DEF AccountHeld
  <1>3. ASSUME NEW u \in Tx, job[u].kind = "register",
               pc'[u] \in {"fixture", "account", "read", "commit"}
        PROVE  owner'[RequestLock(job[u].request)] = u /\ ~Decided(job[u].request)
    <2>1. job[u] \in RegisterJob BY <1>3, JobKinds DEF SessionsOK
    <2>2. job[u].request \in Request BY <2>1 DEF RegisterJob
    <2>3. CASE u = t BY <2>3, <2>2, <1>1, <1>3, LockKinds
    <2>4. CASE u # t BY <2>4, <2>2, <1>1, <1>3, LockKinds DEF RequestHeld
    <2> QED BY <2>3, <2>4
  <1>4. \A r : Decided(r)' <=> Decided(r) BY <1>1 DEF Decided
  <1> QED BY <1>1, <1>2, <1>3, <1>4 DEF RequestHeld

LEMMA HeldStep ==
    ASSUME TypeOK, AccountHeld, RequestHeld, [Next]_vars
    PROVE  AccountHeld' /\ RequestHeld'
  <1>0. TablesOK /\ SessionsOK BY TypeParts
  <1>1. CASE UNCHANGED vars
    BY <1>1 DEF vars, AccountHeld, RequestHeld, Decided
  <1>2. CASE BootstrapBankroll \/ Tick
    BY <1>2 DEF BootstrapBankroll, Tick, AccountHeld, RequestHeld, Decided
  <1>3. ASSUME NEW t \in Tx, Start(t) PROVE AccountHeld' /\ RequestHeld'
    <2>1. /\ pc[t] = "idle" /\ owner' = owner /\ decisions' = decisions
          /\ \A u \in Tx : u # t => pc'[u] = pc[u] /\ job'[u] = job[u]
          /\ pc'[t] \in {"request", "account", "fixture"}
          /\ pc'[t] # "request" => job'[t].kind # "register"
      BY <1>0, <1>3
      DEF Start, BeginRegister, BeginSetState, BeginSettle, Begin, SessionsOK
    <2> QED BY <2>1 DEF AccountHeld, RequestHeld, Decided
  <1>4. ASSUME NEW t \in Tx, Step(t) \/ Abort(t) PROVE AccountHeld' /\ RequestHeld'
    <2>k. /\ job[t].kind = "register" <=> job[t] \in RegisterJob
          /\ job[t].kind = "operator" <=> job[t] \in OperatorJob
          /\ job[t].kind \in {"NORMAL", "MANUAL_VOID"} <=> job[t] \in SettleJob
      BY <1>0, JobKinds DEF SessionsOK
    <2>r. job[t].kind = "register" => job[t].request \in Request BY <2>k DEF RegisterJob
    <2>1. CASE UNCHANGED decisions /\ Finish(t)
      BY <1>0, <2>1, FinishHeld DEF Decided
    <2>2. CASE RegisterIneligible(t) \/ RegisterReject(t) \/ RegisterApprove(t)
      <3>1. Finish(t) BY <2>2 DEF RegisterIneligible, RegisterReject, RegisterApprove
      <3>2. job[t] \in RegisterJob
        BY <1>0, <2>2, <2>k DEF RegisterIneligible, RegisterReject, RegisterApprove, SessionsOK
      <3>3. Free(RequestLock(job[t].request)) \/ owner[RequestLock(job[t].request)] = t
        BY <2>2, <2>k DEF RegisterIneligible, RegisterReject, RegisterApprove, RequestHeld
      <3>4. \A r \in Request : Decided(r)' => Decided(r) \/ r = job[t].request
        BY <2>2 DEF RegisterIneligible, RegisterReject, RegisterApprove, Decide, Decided
      <3> QED BY <1>0, <3>1, <3>3, <3>4, FinishHeld
    <2>3. CASE RegisterLockRequest(t)
      <3>1. job[t] \in RegisterJob BY <1>0, <2>3 DEF RegisterLockRequest, SessionsOK
      <3>2. job[t].request \in Request /\ RequestLock(job[t].request) \in Lock
        BY <3>1, LockKinds DEF RegisterJob
      <3> QED BY <1>0, <2>3, <3>2, TakeHeld DEF RegisterLockRequest
    <2>4. CASE LockFixture(t)
      <3>1. job[t] \in RegisterJob \cup SettleJob BY <1>0, <2>4 DEF LockFixture, SessionsOK
      <3>2. FixtureLock(FixtureOf[job[t].evaluation]) \in Lock
        BY <3>1, LockKinds, IdAssumption DEF RegisterJob, SettleJob
      <3>3. job[t].kind = "register" =>
              ~Decided(job[t].request) /\ owner[RequestLock(job[t].request)] = t
        BY <2>4 DEF LockFixture, RequestHeld
      <3> QED BY <1>0, <2>4, <2>r, <3>2, <3>3, TakeHeld DEF LockFixture
    <2>5. CASE RegisterLockAccount(t)
      <3>1. ~Decided(job[t].request) /\ owner[RequestLock(job[t].request)] = t
        BY <2>5 DEF RegisterLockAccount, RequestHeld
      <3> QED BY <1>0, <2>5, <2>r, <3>1, LockKinds, TakeHeld DEF RegisterLockAccount
    <2>6. CASE LockAccount(t)
      BY <1>0, <2>6, LockKinds, TakeHeld DEF LockAccount
    <2>7. CASE LockPick(t)
      <3>1. job[t] \in OperatorJob \cup SettleJob BY <1>0, <2>7 DEF LockPick, SessionsOK
      <3>2. PickLock(job[t].pick) \in Lock BY <3>1, LockKinds DEF OperatorJob, SettleJob
      <3>3. job[t].kind # "register" BY <3>1 DEF OperatorJob, SettleJob
      <3>4. owner[AccountLock] = t BY <2>7 DEF LockPick, AccountHeld
      <3> QED BY <1>0, <2>7, <3>2, <3>3, <3>4, TakeHeld DEF LockPick
    <2>8. ASSUME NEW v, pc[t] = "read", Read(t, v) PROVE AccountHeld' /\ RequestHeld'
      <3>1. /\ owner' = owner /\ job' = job /\ decisions' = decisions /\ pc'[t] = "commit"
            /\ \A u \in Tx : u # t => pc'[u] = pc[u]
        BY <1>0, <2>8 DEF Read, SessionsOK
      <3> QED BY <2>8, <3>1 DEF AccountHeld, RequestHeld, Decided
    <2> QED
      BY <1>4, <2>1, <2>2, <2>3, <2>4, <2>5, <2>6, <2>7, <2>8
      DEF Step, Abort, RegisterReplay, RegisterNotBootstrapped, RegisterRead, SetStateRefuse,
          SetStateRead, SetStateCommit, SettleRefuse, SettleRead, SettleCommit, tables
  <1> QED BY <1>1, <1>2, <1>3, <1>4 DEF Next

-----------------------------------------------------------------------------
(* What a session read is still true when it writes.                       *)

\* The rows a transaction decides on are the same after the step.
ReadsUnchanged ==
    /\ UNCHANGED <<ledger, opEvents, settlements>>
    /\ {x \in decisions : x.outcome = "APPROVED"}' = {x \in decisions : x.outcome = "APPROVED"}

LEMMA SameReads ==
    ASSUME ReadsUnchanged
    PROVE  /\ Picks' = Picks /\ PickedFixtures' = PickedFixtures
           /\ LedgerTail' = LedgerTail /\ Reserved' = Reserved
           /\ OpenPicks' = OpenPicks /\ OpenExposure' = OpenExposure
           /\ BalanceBefore' = BalanceBefore
  <1>1. Picks' = Picks /\ PickedFixtures' = PickedFixtures
    BY DEF ReadsUnchanged, Picks, PickedFixtures
  <1>2. LedgerTail' = LedgerTail /\ Reserved' = Reserved
    BY DEF ReadsUnchanged, LedgerTail, Reserved
  <1>3. OpenPicks' = OpenPicks
    BY <1>2 DEF ReadsUnchanged, OpenPicks, EffectiveState, Settled
  <1>4. PlayedPicks' = PlayedPicks BY <1>1 DEF ReadsUnchanged, PlayedPicks, EffectiveState
  <1>5. PlayedWith("WIN")' = PlayedWith("WIN") /\ PlayedWith("VOID")' = PlayedWith("VOID")
    BY <1>4 DEF ReadsUnchanged, PlayedWith
  <1>6. OperatorAvailable' = OperatorAvailable BY <1>4, <1>5 DEF OperatorAvailable
  <1> QED BY <1>1, <1>2, <1>3, <1>6 DEF OpenExposure, BalanceBefore

SnapshotOf(t) == RegisterSnapshot(t) /\ SetStateSnapshot(t) /\ SettleSnapshot(t)

LEMMA SnapshotKept ==
    ASSUME ReadsUnchanged, NEW u \in Tx, SnapshotOf(u),
           pc'[u] = pc[u], job'[u] = job[u], view'[u] = view[u]
    PROVE  SnapshotOf(u)'
  <1>1. RegisterSnapshot(u)'
    BY SameReads DEF SnapshotOf, RegisterSnapshot, ReadsUnchanged, RiskAccepts
  <1>2. SetStateSnapshot(u)'
    BY SameReads
    DEF SnapshotOf, SetStateSnapshot, ReadsUnchanged, Replayed, Reactivates, Settled
  <1>3. SettleSnapshot(u)'
    BY SameReads DEF SnapshotOf, SettleSnapshot, ReadsUnchanged, Settled
  <1> QED BY <1>1, <1>2, <1>3 DEF SnapshotOf

LEMMA NotAtCommit ==
    ASSUME NEW u \in Tx, pc'[u] # "commit"
    PROVE  SnapshotOf(u)'
  BY DEF SnapshotOf, RegisterSnapshot, SetStateSnapshot, SettleSnapshot

LEMMA SnapshotStep ==
    ASSUME TypeOK, AccountHeld, Snapshot, [Next]_vars
    PROVE  Snapshot'
  <1>0. SessionsOK BY TypeParts
  <1> SUFFICES ASSUME NEW u \in Tx PROVE SnapshotOf(u)'
    BY DEF Snapshot, SnapshotOf
  <1>s. SnapshotOf(u) BY DEF Snapshot, SnapshotOf
  <1>1. CASE UNCHANGED vars
    BY <1>1, <1>s, SnapshotKept DEF vars, ReadsUnchanged
  <1>2. CASE BootstrapBankroll
    <2>1. pc'[u] # "commit"
      BY <1>2, IdAssumption DEF BootstrapBankroll, Free, AccountHeld
    <2> QED BY <2>1, NotAtCommit
  <1>3. CASE Tick
    BY <1>3, <1>s, SnapshotKept DEF Tick, ReadsUnchanged
  <1>4. ASSUME NEW t \in Tx, Start(t) PROVE SnapshotOf(u)'
    <2>1. /\ UNCHANGED tables /\ pc'[t] \in {"request", "account", "fixture"}
          /\ u # t => pc'[u] = pc[u] /\ job'[u] = job[u] /\ view'[u] = view[u]
      BY <1>0, <1>4
      DEF Start, BeginRegister, BeginSetState, BeginSettle, Begin, SessionsOK, tables
    <2> QED BY <2>1, <1>s, SnapshotKept, NotAtCommit DEF tables, ReadsUnchanged
  <1>5. ASSUME NEW t \in Tx, Step(t) \/ Abort(t) PROVE SnapshotOf(u)'
    <2>1. CASE Finish(t) /\ ReadsUnchanged
      <3>1. /\ pc'[t] = "idle"
            /\ u # t => pc'[u] = pc[u] /\ job'[u] = job[u] /\ view'[u] = view[u]
        BY <1>0, <2>1 DEF Finish, SessionsOK
      <3> QED BY <2>1, <3>1, <1>s, SnapshotKept, NotAtCommit
    <2>2. CASE Finish(t) /\ pc[t] = "commit"
      <3>1. owner[AccountLock] = t BY <2>2 DEF AccountHeld
      <3>2. pc'[u] # "commit"
        BY <1>0, <2>2, <3>1 DEF Finish, SessionsOK, AccountHeld
      <3> QED BY <3>2, NotAtCommit
    <2>3. ASSUME NEW l, NEW next, next # "commit", Take(t, l, next) PROVE SnapshotOf(u)'
      <3>1. /\ pc'[t] # "commit" /\ UNCHANGED tables
            /\ u # t => pc'[u] = pc[u] /\ job'[u] = job[u] /\ view'[u] = view[u]
        BY <1>0, <2>3 DEF Take, SessionsOK, tables
      <3> QED BY <3>1, <1>s, SnapshotKept, NotAtCommit DEF tables, ReadsUnchanged
    <2>4. ASSUME NEW v, Read(t, v), u # t PROVE SnapshotOf(u)'
      <3>1. UNCHANGED tables /\ pc'[u] = pc[u] /\ job'[u] = job[u] /\ view'[u] = view[u]
        BY <1>0, <2>4 DEF Read, SessionsOK, tables
      <3> QED BY <3>1, <1>s, SnapshotKept DEF tables, ReadsUnchanged
    <2>5. CASE RegisterRead(t) /\ u = t
      <3>1. /\ UNCHANGED <<decisions, ledger, opEvents, settlements, job>>
            /\ view'[t].sequence = LedgerTail.sequence /\ view'[t].balance = BalanceBefore
            /\ view'[t].approved = RiskAccepts(FixtureOf[job[t].evaluation], BalanceBefore)
            /\ job[t].kind = "register" /\ ledger # {}
        BY <1>0, <2>5 DEF RegisterRead, Read, SessionsOK
      <3>2. ReadsUnchanged BY <3>1 DEF ReadsUnchanged
      <3>3. RegisterSnapshot(t)'
        BY <3>1, <3>2, SameReads DEF RegisterSnapshot, RiskAccepts
      <3> QED BY <3>1, <3>3, <2>5 DEF SnapshotOf, SetStateSnapshot, SettleSnapshot
    <2>6. CASE SetStateRead(t) /\ u = t
      <3>1. /\ UNCHANGED <<decisions, ledger, opEvents, settlements, job>>
            /\ job[t].kind = "operator" /\ ~Replayed(job[t].request)
            /\ ~(Reactivates(job[t]) /\ OpenExposure + Stake > MaxOpenExposure)
        BY <1>0, <2>6 DEF SetStateRead, Read, SessionsOK
      <3>2. ReadsUnchanged BY <3>1 DEF ReadsUnchanged
      <3>3. OpenExposure \in Int
        BY ReservedAreRequests, SubsetCardinality, PolicyAssumption DEF OpenExposure
      <3>4. SetStateSnapshot(t)'
        BY <3>1, <3>2, <3>3, SameReads, PolicyAssumption
        DEF SetStateSnapshot, Replayed, Reactivates, Settled, ReadsUnchanged
      <3> QED BY <3>1, <3>4, <2>6 DEF SnapshotOf, RegisterSnapshot, SettleSnapshot
    <2>7. CASE SettleRead(t) /\ u = t
      <3>1. /\ UNCHANGED <<decisions, ledger, opEvents, settlements, job>>
            /\ job[t].kind \in {"NORMAL", "MANUAL_VOID"}
            /\ ~Settled(job[t].pick) /\ job[t].pick \in Reserved
            /\ view'[t].sequence = LedgerTail.sequence
            /\ view'[t].balance = LedgerTail.balance
        BY <1>0, <2>7 DEF SettleRead, Read, SessionsOK
      <3>2. ReadsUnchanged BY <3>1 DEF ReadsUnchanged
      <3>3. SettleSnapshot(t)'
        BY <3>1, <3>2, SameReads DEF SettleSnapshot, Settled
      <3> QED BY <3>1, <3>3, <2>7 DEF SnapshotOf, RegisterSnapshot, SetStateSnapshot
    <2>8. CASE RegisterIneligible(t)
      <3>1. Finish(t) /\ ReadsUnchanged
        BY <2>8 DEF RegisterIneligible, Decide, ReadsUnchanged
      <3> QED BY <3>1, <2>1
    <2>9. CASE RegisterReplay(t) \/ RegisterNotBootstrapped(t) \/ SetStateRefuse(t)
               \/ SettleRefuse(t) \/ Abort(t)
      <3>1. Finish(t) /\ ReadsUnchanged
        BY <2>9 DEF RegisterReplay, RegisterNotBootstrapped, SetStateRefuse, SettleRefuse,
                    Abort, tables, ReadsUnchanged
      <3> QED BY <3>1, <2>1
    <2>10. CASE RegisterReject(t) \/ RegisterApprove(t) \/ SetStateCommit(t) \/ SettleCommit(t)
      BY <2>10, <2>2 DEF RegisterReject, RegisterApprove, SetStateCommit, SettleCommit
    <2>11. CASE RegisterLockRequest(t) \/ LockFixture(t) \/ RegisterLockAccount(t)
                \/ LockAccount(t) \/ LockPick(t)
      BY <2>11, <2>3
      DEF RegisterLockRequest, LockFixture, RegisterLockAccount, LockAccount, LockPick
    <2>12. CASE (RegisterRead(t) \/ SetStateRead(t) \/ SettleRead(t)) /\ u # t
      BY <2>12, <2>4 DEF RegisterRead, SetStateRead, SettleRead
    <2> QED
      BY <1>5, <2>5, <2>6, <2>7, <2>8, <2>9, <2>10, <2>11, <2>12 DEF Step
  <1> QED BY <1>1, <1>2, <1>3, <1>4, <1>5 DEF Next

-----------------------------------------------------------------------------
(* The ledger: one row more, written after the row the session read last.  *)

LEMMA AppendKeepsLedger ==
    ASSUME TypeOK, LedgerPart, ledger # {},
           NEW row \in LedgerRow, ledger' = ledger \cup {row},
           row.type # "INITIAL_BANKROLL",
           row.sequence = LedgerTail.sequence + 1, row.balance >= 0
    PROVE  LedgerPart'
  <1>1. /\ LedgerTail \in ledger /\ \A x \in ledger : x.sequence <= LedgerTail.sequence
        /\ LedgerTail.sequence \in Nat /\ \A x \in ledger' : x.sequence \in Nat
    BY TailIsLast, BalanceIsInt DEF LedgerPart, TypeOK, LedgerRow
  <1>2. LedgerHasTail' BY <1>1 DEF LedgerHasTail
  <1>3. LedgerSequence'
    <2>1. ASSUME NEW x \in ledger', NEW y \in ledger', x.sequence = y.sequence PROVE x = y
      BY <2>1, <1>1 DEF LedgerPart, LedgerSequence
    <2>2. ASSUME NEW x \in ledger', x.type # "INITIAL_BANKROLL"
          PROVE  \E y \in ledger' : y.sequence = x.sequence - 1
      <3>1. CASE x = row BY <3>1, <1>1
      <3>2. CASE x \in ledger BY <3>2, <2>2 DEF LedgerPart, LedgerSequence
      <3> QED BY <3>1, <3>2
    <2>3. ASSUME NEW x \in ledger', x.type = "INITIAL_BANKROLL" PROVE x.sequence = 1
      BY <2>3 DEF LedgerPart, LedgerSequence
    <2> QED BY <2>1, <2>2, <2>3 DEF LedgerSequence
  <1>4. BalanceNotOverdrawn' BY DEF LedgerPart, BalanceNotOverdrawn
  <1> QED BY <1>2, <1>3, <1>4 DEF LedgerPart

\* The account is funded once: the initial row is the first one.
LEMMA FundingKeepsLedger ==
    ASSUME References, BootstrapBankroll
    PROVE  LedgerPart' /\ ledger = {}
  <1>1. ledger = {} BY DEF References, BootstrapBankroll
  <1>2. ledger' = {[sequence |-> 1, pick |-> NoPick, amount |-> InitialBankroll,
                    balance |-> InitialBankroll, type |-> "INITIAL_BANKROLL"]}
    BY <1>1 DEF BootstrapBankroll
  <1> QED
    BY <1>1, <1>2, PolicyAssumption
    DEF LedgerPart, LedgerHasTail, LedgerSequence, BalanceNotOverdrawn

-----------------------------------------------------------------------------
(* The exposure: at most one pick opens in a step, and only when there is  *)
(* room for its stake.                                                     *)

LEMMA CapArithmetic ==
    ASSUME TypeOK, NEW p \in Request, OpenPicks' \subseteq OpenPicks \cup {p},
           OpenExposure + Stake <= MaxOpenExposure
    PROVE  ExposureCap'
  <1>1. OpenPicks \subseteq Request /\ OpenPicks \cup {p} \subseteq Request
    BY ReservedAreRequests
  <1>2. IsFiniteSet(OpenPicks) /\ IsFiniteSet(OpenPicks \cup {p})
    BY <1>1, SubsetCardinality
  <1>3. Cardinality(OpenPicks \cup {p}) <= Cardinality(OpenPicks) + 1
    BY <1>2, FS_AddElement, FS_CardinalityType
  <1>4. Cardinality(OpenPicks') <= Cardinality(OpenPicks \cup {p})
    BY <1>2, FS_Subset
  <1>5. Cardinality(OpenPicks) \in Nat /\ Cardinality(OpenPicks \cup {p}) \in Nat
        /\ Cardinality(OpenPicks') \in Nat
    BY <1>1, <1>2, FS_Subset, FS_CardinalityType
  <1>6. Cardinality(OpenPicks') <= Cardinality(OpenPicks) + 1 BY <1>3, <1>4, <1>5
  <1>7. ASSUME NEW c \in Nat, NEW d \in Nat, d <= c + 1, Stake * c + Stake <= MaxOpenExposure
        PROVE  Stake * d <= MaxOpenExposure
    <2>1. Stake * d <= Stake * (c + 1) BY <1>7, PolicyAssumption
    <2>2. Stake * (c + 1) = Stake * c + Stake BY PolicyAssumption
    <2>3. Stake * d \in Int /\ Stake * c \in Int BY PolicyAssumption
    <2> QED BY <1>7, <2>1, <2>2, <2>3, PolicyAssumption
  <1> QED BY <1>5, <1>6, <1>7 DEF ExposureCap, OpenExposure

LEMMA CapShrinks ==
    ASSUME TypeOK, ExposureCap, OpenPicks' \subseteq OpenPicks
    PROVE  ExposureCap'
  <1>1. IsFiniteSet(OpenPicks) BY ReservedAreRequests, SubsetCardinality
  <1>2. /\ Cardinality(OpenPicks') <= Cardinality(OpenPicks)
        /\ Cardinality(OpenPicks) \in Nat /\ Cardinality(OpenPicks') \in Nat
    BY <1>1, FS_Subset, FS_CardinalityType
  <1>3. ASSUME NEW c \in Nat, NEW d \in Nat, d <= c, Stake * c <= MaxOpenExposure
        PROVE  Stake * d <= MaxOpenExposure
    <2>1. Stake * d <= Stake * c BY <1>3, PolicyAssumption
    <2>2. Stake * d \in Int /\ Stake * c \in Int BY PolicyAssumption
    <2> QED BY <1>3, <2>1, <2>2, PolicyAssumption
  <1> QED BY <1>2, <1>3 DEF ExposureCap, OpenExposure

-----------------------------------------------------------------------------
(* The writes, one lemma for each.                                         *)

LEMMA RejectKeeps ==
    ASSUME TypeOK, TablePart, NEW t \in Tx, ~Decided(job[t].request), Decide(t, "REJECTED"),
           UNCHANGED <<ledger, opEvents, settlements>>
    PROVE  TablePart'
  <1>1. /\ {x \in decisions' : x.outcome = "APPROVED"} = {x \in decisions : x.outcome = "APPROVED"}
        /\ decisions \subseteq decisions'
    BY DEF Decide
  <1>2. ReadsUnchanged BY <1>1 DEF ReadsUnchanged
  <1>3. Releases' = Releases BY DEF Releases
  <1>4. LedgerPart'
    BY DEF TablePart, LedgerPart, LedgerHasTail, LedgerSequence, BalanceNotOverdrawn
  <1>5. References' BY <1>1 DEF TablePart, References, Decided
  <1>6. ExposureCap' BY <1>2, SameReads DEF TablePart, ExposureCap
  <1>7. OnePickPerFixture' BY <1>1 DEF TablePart, OnePickPerFixture
  <1>8. RequestsAnsweredOnce' BY DEF TablePart, RequestsAnsweredOnce, Decide, Decided
  <1>9. StakeReleasedOnce' BY <1>2, <1>3, SameReads DEF TablePart, StakeReleasedOnce
  <1> QED BY <1>4, <1>5, <1>6, <1>7, <1>8, <1>9 DEF TablePart

LEMMA ApproveKeeps ==
    ASSUME TypeOK, TypeOK', TablePart, RequestHeld, Snapshot, NEW t \in Tx, RegisterApprove(t)
    PROVE  TablePart'
  <1>1. job[t] \in RegisterJob /\ view[t] \in View
    BY JobKinds, TypeParts DEF RegisterApprove, SessionsOK
  <1> DEFINE r == job[t].request
             row == [sequence |-> view[t].sequence + 1, pick |-> r, amount |-> -Stake,
                     balance |-> view[t].balance - Stake, type |-> "STAKE_RESERVED"]
             decision == [request |-> r, evaluation |-> job[t].evaluation, outcome |-> "APPROVED"]
             skip == [id |-> r, pick |-> r, state |-> "SKIPPED",
                      occurred |-> job[t].started, persisted |-> job[t].started]
  <1>2. /\ ledger' = ledger \cup {row} /\ decisions' = decisions \cup {decision}
        /\ opEvents' = opEvents \cup (IF AutoSkip THEN {skip} ELSE {})
        /\ settlements' = settlements
    BY DEF RegisterApprove, Decide
  <1>3. /\ ledger # {} /\ view[t].balance = BalanceBefore
        /\ view[t].sequence = LedgerTail.sequence
        /\ RiskAccepts(FixtureOf[job[t].evaluation], view[t].balance)
    BY DEF RegisterApprove, Snapshot, RegisterSnapshot
  <1>4. ~Decided(r) /\ r \in Request BY <1>1 DEF RegisterApprove, RequestHeld, RegisterJob
  <1>5. LedgerPart'
    <2>1. row \in LedgerRow BY <1>2 DEF TypeOK
    <2>2. row.balance >= 0 BY <1>1, <1>3, PolicyAssumption DEF RiskAccepts, View
    <2> QED BY <2>1, <2>2, <1>2, <1>3, AppendKeepsLedger DEF TablePart
  <1>f. /\ row.type = "STAKE_RESERVED" /\ row.pick = r /\ decision.request = r
        /\ decision.outcome = "APPROVED" /\ decision.evaluation = job[t].evaluation
        /\ skip.id = r /\ skip.pick = r
    OBVIOUS
  <1> HIDE DEF row, decision, skip
  <1>6. References' BY <1>2, <1>3, <1>f DEF TablePart, References, Decided
  <1>7. Reserved' = Reserved \cup {r} BY <1>2, <1>f DEF Reserved
  <1>8. Picks' = Picks \cup {r} BY <1>2, <1>f DEF Picks
  <1>9. ExposureCap'
    <2>1. ASSUME NEW p, p # r PROVE EffectiveState(p)' = EffectiveState(p)
      <3>1. CASE AutoSkip
        BY <1>2, <1>f, <2>1, <3>1, OtherPicksKeepState DEF EffectiveState
      <3>2. CASE ~AutoSkip BY <1>2, <3>2 DEF EffectiveState
      <3> QED BY <3>1, <3>2
    <2>2. OpenPicks' \subseteq OpenPicks \cup {r}
      BY <2>1, <1>2, <1>7 DEF OpenPicks, Settled
    <2> QED BY <2>2, <1>3, <1>4, CapArithmetic DEF RiskAccepts
  <1>10. OnePickPerFixture'
    BY <1>2, <1>f, <1>3 DEF TablePart, OnePickPerFixture, RiskAccepts, PickedFixtures
  <1>11. RequestsAnsweredOnce'
    BY <1>2, <1>f, <1>4 DEF TablePart, RequestsAnsweredOnce, References, Decided
  <1>12. StakeReleasedOnce'
    <2>1. Releases' = Releases BY <1>2, <1>f DEF Releases
    <2> QED BY <2>1, <1>2, <1>7, <1>8 DEF TablePart, StakeReleasedOnce
  <1> QED BY <1>5, <1>6, <1>9, <1>10, <1>11, <1>12 DEF TablePart

LEMMA SetStateKeeps ==
    ASSUME TypeOK, TypeOK', TablePart, Snapshot, NEW t \in Tx, SetStateCommit(t)
    PROVE  TablePart'
  <1>1. job[t] \in OperatorJob BY JobKinds, TypeParts DEF SetStateCommit, SessionsOK
  <1> DEFINE n == [id |-> job[t].request, pick |-> job[t].pick, state |-> job[t].state,
                   occurred |-> job[t].occurred, persisted |-> job[t].started]
  <1>2. opEvents' = opEvents \cup {n} /\ UNCHANGED <<decisions, ledger, settlements>>
    BY DEF SetStateCommit
  <1>3. ~Replayed(n.id) /\ (Reactivates(job[t]) => OpenExposure + Stake <= MaxOpenExposure)
    BY DEF SetStateCommit, Snapshot, SetStateSnapshot
  <1>4. /\ n \in EventRow /\ opEvents \subseteq EventRow
        /\ n.pick \in Request /\ n.id \in OpRequest
    BY <1>1, <1>2 DEF TypeOK, OperatorJob
  <1>5. /\ Reserved' = Reserved /\ Picks' = Picks /\ Releases' = Releases
        /\ \A p : Settled(p)' <=> Settled(p)
    BY <1>2 DEF Reserved, Picks, Releases, Settled
  <1>6. ASSUME NEW p, p # n.pick PROVE EffectiveState(p)' = EffectiveState(p)
    BY <1>2, <1>6, OtherPicksKeepState DEF EffectiveState
  <1>7. OpenPicks' \subseteq OpenPicks \cup {n.pick} BY <1>5, <1>6 DEF OpenPicks
  <1>8. ExposureCap'
    <2>1. CASE Reactivates(job[t]) BY <2>1, <1>3, <1>4, <1>7, CapArithmetic
    <2>2. CASE ~Reactivates(job[t])
      <3>1. ASSUME n.pick \in OpenPicks' PROVE n.pick \in OpenPicks
        <4>1. /\ n.pick \in Reserved /\ ~Settled(n.pick)
              /\ StateIn(opEvents \cup {n}, n.pick) # "SKIPPED"
          BY <3>1, <1>2, <1>5 DEF OpenPicks, EffectiveState
        <4>2. ASSUME StateIn(opEvents, n.pick) = "SKIPPED" PROVE FALSE
          <5>1. \A x \in opEvents : x.id # n.id BY <1>3 DEF Replayed
          <5>2. /\ n.state = "PLAYED"
                /\ \E e \in LatestEvents(opEvents, n.pick) :
                      e.state = "SKIPPED" /\ n.occurred >= e.occurred
            BY <5>1, <4>1, <4>2, <1>4, OnlyReactivationUnskips
          <5> QED BY <5>2, <4>1, <2>2 DEF Reactivates
        <4> QED BY <4>1, <4>2 DEF OpenPicks, EffectiveState
      <3> QED BY <3>1, <1>7, CapShrinks DEF TablePart
    <2> QED BY <2>1, <2>2
  <1>9. LedgerPart'
    BY <1>2 DEF TablePart, LedgerPart, LedgerHasTail, LedgerSequence, BalanceNotOverdrawn
  <1>10. References' BY <1>2, <1>4, IdAssumption DEF TablePart, References, Decided
  <1>11. OnePickPerFixture' BY <1>2 DEF TablePart, OnePickPerFixture
  <1>12. RequestsAnsweredOnce' BY <1>2, <1>3 DEF TablePart, RequestsAnsweredOnce, Replayed
  <1>13. StakeReleasedOnce' BY <1>2, <1>5 DEF TablePart, StakeReleasedOnce
  <1> QED BY <1>8, <1>9, <1>10, <1>11, <1>12, <1>13 DEF TablePart

LEMMA SettleKeeps ==
    ASSUME TypeOK, TypeOK', TablePart, Snapshot, NEW t \in Tx, SettleCommit(t)
    PROVE  TablePart'
  <1>1. job[t] \in SettleJob /\ view[t] \in View
    BY JobKinds, TypeParts DEF SettleCommit, SessionsOK
  <1> DEFINE p == job[t].pick
             row == [sequence |-> view[t].sequence + 1, pick |-> p,
                     amount |-> LedgerDelta(job[t].outcome),
                     balance |-> view[t].balance + LedgerDelta(job[t].outcome),
                     type |-> EntryType(job[t].outcome)]
             event == [pick |-> p, kind |-> job[t].kind, outcome |-> job[t].outcome]
  <1>2. /\ ledger' = ledger \cup {row} /\ settlements' = settlements \cup {event}
        /\ UNCHANGED <<decisions, opEvents>>
    BY DEF SettleCommit
  <1>3. /\ ~Settled(p) /\ p \in Reserved /\ view[t].sequence = LedgerTail.sequence
        /\ view[t].balance = LedgerTail.balance
    BY DEF SettleCommit, Snapshot, SettleSnapshot
  <1>4. PICK y \in ledger : y.type = "STAKE_RESERVED" /\ y.pick = p BY <1>3 DEF Reserved
  <1>5. /\ LedgerTail \in ledger /\ \A x \in ledger : x.sequence <= LedgerTail.sequence
        /\ LedgerTail.sequence \in Nat /\ LedgerTail.balance \in Int
    BY <1>4, TailIsLast, BalanceIsInt DEF TablePart, LedgerPart
  <1>6. row.type \in {"PAYOUT", "LOSS", "VOID_REFUND"} BY DEF EntryType
  <1>7. LedgerPart'
    <2>1. row \in LedgerRow BY <1>2 DEF TypeOK
    <2>2. LedgerTail.balance >= 0 BY <1>5 DEF TablePart, LedgerPart, BalanceNotOverdrawn
    <2>3. LedgerDelta(job[t].outcome) \in Nat BY PolicyAssumption DEF LedgerDelta
    <2>4. row.balance >= 0 BY <2>2, <2>3, <1>3, <1>5
    <2> QED BY <2>1, <2>4, <1>2, <1>3, <1>4, <1>6, AppendKeepsLedger DEF TablePart
  <1>f. row.pick = p /\ event.pick = p /\ row.sequence = view[t].sequence + 1 OBVIOUS
  <1> HIDE DEF row, event
  <1>8. Reserved' = Reserved /\ Picks' = Picks BY <1>2, <1>6 DEF Reserved, Picks
  <1>9. OpenPicks' \subseteq OpenPicks BY <1>f, <1>2, <1>8 DEF OpenPicks, EffectiveState, Settled
  <1>10. ExposureCap' BY <1>9, CapShrinks DEF TablePart
  <1>11. References' BY <1>2 DEF TablePart, References, Decided
  <1>12. OnePickPerFixture' BY <1>2 DEF TablePart, OnePickPerFixture
  <1>13. RequestsAnsweredOnce' BY <1>2 DEF TablePart, RequestsAnsweredOnce
  <1>14. StakeReleasedOnce'
    <2>1. Releases' = Releases \cup {row} BY <1>2, <1>6 DEF Releases
    <2>2. \A x \in Releases : x.pick # p
      BY <1>3 DEF TablePart, StakeReleasedOnce, Settled
    <2>3. \A x, z \in Releases' : x.pick = z.pick => x = z
      BY <1>f, <2>1, <2>2 DEF TablePart, StakeReleasedOnce
    <2>4. {x.pick : x \in Releases'} = {s.pick : s \in settlements'}
      <3>1. {x.pick : x \in Releases'} = {x.pick : x \in Releases} \cup {p} BY <2>1, <1>f
      <3>2. {s.pick : s \in settlements'} = {s.pick : s \in settlements} \cup {p} BY <1>2, <1>f
      <3> QED BY <3>1, <3>2 DEF TablePart, StakeReleasedOnce
    <2>5. \A s, u \in settlements' : s.pick = u.pick => s = u
      BY <1>f, <1>2, <1>3 DEF TablePart, StakeReleasedOnce, Settled
    <2>6. y.sequence < row.sequence
      <3>1. y.sequence \in Nat BY <1>4 DEF TypeOK, LedgerRow
      <3> QED BY <1>f, <3>1, <1>3, <1>4, <1>5
    <2>7. ASSUME NEW x \in Releases'
          PROVE  \E z \in ledger' :
                    z.type = "STAKE_RESERVED" /\ z.pick = x.pick /\ z.sequence < x.sequence
      <3>1. CASE x = row BY <1>f, <3>1, <2>6, <1>2, <1>4
      <3>2. CASE x \in Releases BY <3>2, <1>2 DEF TablePart, StakeReleasedOnce
      <3> QED BY <2>1, <3>1, <3>2
    <2> QED BY <2>3, <2>4, <2>5, <2>7, <1>8 DEF TablePart, StakeReleasedOnce
  <1> QED BY <1>7, <1>10, <1>11, <1>12, <1>13, <1>14 DEF TablePart

\* Funding the account: the initial row, before every other one.
LEMMA FundingKeeps ==
    ASSUME TypeOK, TablePart, BootstrapBankroll
    PROVE  TablePart'
  <1>1. LedgerPart' /\ ledger = {} BY FundingKeepsLedger DEF TablePart
  <1>2. /\ ledger' = {[sequence |-> 1, pick |-> NoPick, amount |-> InitialBankroll,
                       balance |-> InitialBankroll, type |-> "INITIAL_BANKROLL"]}
        /\ UNCHANGED <<decisions, opEvents, settlements>>
    BY <1>1 DEF BootstrapBankroll
  <1>3. Reserved' = Reserved /\ Releases' = Releases /\ Picks' = Picks
    BY <1>1, <1>2 DEF Reserved, Releases, Picks
  <1>4. OpenPicks' = OpenPicks BY <1>2, <1>3 DEF OpenPicks, EffectiveState, Settled
  <1>5. ExposureCap' BY <1>4 DEF TablePart, ExposureCap, OpenExposure
  <1>6. References' BY <1>2 DEF TablePart, References, Decided
  <1>7. OnePickPerFixture' /\ RequestsAnsweredOnce'
    BY <1>2 DEF TablePart, OnePickPerFixture, RequestsAnsweredOnce
  <1>8. StakeReleasedOnce'
    <2>1. Releases = {} BY <1>1 DEF Releases
    <2> QED BY <2>1, <1>2, <1>3 DEF TablePart, StakeReleasedOnce
  <1> QED BY <1>1, <1>5, <1>6, <1>7, <1>8 DEF TablePart

LEMMA TablesSame ==
    ASSUME TablePart, UNCHANGED tables
    PROVE  TablePart'
  <1>1. ReadsUnchanged /\ Releases' = Releases BY DEF tables, ReadsUnchanged, Releases
  <1>2. LedgerPart' /\ References'
    BY DEF tables, TablePart, LedgerPart, LedgerHasTail, LedgerSequence, BalanceNotOverdrawn,
           References, Decided
  <1>3. ExposureCap' BY <1>1, SameReads DEF TablePart, ExposureCap
  <1>4. OnePickPerFixture' /\ RequestsAnsweredOnce'
    BY DEF tables, TablePart, OnePickPerFixture, RequestsAnsweredOnce
  <1>5. StakeReleasedOnce'
    BY <1>1, SameReads DEF tables, TablePart, StakeReleasedOnce
  <1> QED BY <1>2, <1>3, <1>4, <1>5 DEF TablePart

-----------------------------------------------------------------------------
(* The invariant is inductive.                                             *)

LEMMA InvInit == Init => IInv
  <1> SUFFICES ASSUME Init PROVE IInv OBVIOUS
  <1>1. NoView \in View /\ 0 \in Time BY PolicyAssumption DEF NoView, View, Time
  <1>2. TypeOK BY <1>1 DEF Init, TypeOK
  <1>3. AccountHeld /\ RequestHeld /\ Snapshot
    BY DEF Init, AccountHeld, RequestHeld, Snapshot, RegisterSnapshot, SetStateSnapshot,
           SettleSnapshot
  <1>4. LedgerPart /\ References
    BY DEF Init, LedgerPart, LedgerHasTail, LedgerSequence, BalanceNotOverdrawn, References
  <1>5. Reserved = {} /\ Releases = {} /\ Picks = {} /\ OpenPicks = {}
    BY DEF Init, Reserved, Releases, Picks, OpenPicks
  <1>6. ExposureCap
    BY <1>5, FS_EmptySet, PolicyAssumption DEF ExposureCap, OpenExposure
  <1>7. OnePickPerFixture /\ RequestsAnsweredOnce /\ StakeReleasedOnce
    BY <1>5 DEF Init, OnePickPerFixture, RequestsAnsweredOnce, StakeReleasedOnce
  <1> QED BY <1>2, <1>3, <1>4, <1>6, <1>7 DEF IInv, TablePart

LEMMA InvStep == IInv /\ [Next]_vars => IInv'
  <1> SUFFICES ASSUME IInv, [Next]_vars PROVE IInv' OBVIOUS
  <1>1. TypeOK /\ TypeOK' BY TypeStep DEF IInv, TablePart, LedgerPart
  <1>2. AccountHeld' /\ RequestHeld' BY HeldStep DEF IInv
  <1>3. Snapshot' BY SnapshotStep DEF IInv
  <1>4. TablePart'
    <2>1. CASE UNCHANGED tables BY <2>1, TablesSame DEF IInv
    <2>2. CASE BootstrapBankroll BY <2>2, <1>1, FundingKeeps DEF IInv
    <2>3. ASSUME NEW t \in Tx, RegisterIneligible(t) PROVE TablePart'
      BY <2>3, RejectKeeps DEF IInv, RegisterIneligible
    <2>4. ASSUME NEW t \in Tx, RegisterReject(t) PROVE TablePart'
      <3>1. ~Decided(job[t].request) BY <2>4 DEF IInv, RequestHeld, RegisterReject
      <3> QED BY <2>4, <3>1, RejectKeeps DEF IInv, RegisterReject
    <2>5. ASSUME NEW t \in Tx, RegisterApprove(t) PROVE TablePart'
      BY <2>5, <1>1, ApproveKeeps DEF IInv
    <2>6. ASSUME NEW t \in Tx, SetStateCommit(t) PROVE TablePart'
      BY <2>6, <1>1, SetStateKeeps DEF IInv
    <2>7. ASSUME NEW t \in Tx, SettleCommit(t) PROVE TablePart'
      BY <2>7, <1>1, SettleKeeps DEF IInv
    <2>8. ASSUME NEW t \in Tx, Start(t) PROVE UNCHANGED tables
      BY <2>8 DEF Start, BeginRegister, BeginSetState, BeginSettle, Begin, tables
    <2>9. ASSUME NEW t \in Tx, Step(t) \/ Abort(t),
                 ~(\/ RegisterIneligible(t) \/ RegisterReject(t) \/ RegisterApprove(t)
                   \/ SetStateCommit(t) \/ SettleCommit(t))
          PROVE  UNCHANGED tables
      BY <2>9
      DEF Step, Abort, RegisterReplay, RegisterLockRequest, LockFixture, RegisterLockAccount,
          RegisterNotBootstrapped, RegisterRead, LockAccount, LockPick, SetStateRefuse,
          SetStateRead, SettleRefuse, SettleRead, Take, Read, tables
    <2>10. CASE Tick \/ UNCHANGED vars
      BY <2>10, <2>1 DEF Tick, vars, tables
    <2> QED
      BY <2>1, <2>2, <2>3, <2>4, <2>5, <2>6, <2>7, <2>8, <2>9, <2>10 DEF Next
  <1> QED BY <1>1, <1>2, <1>3, <1>4 DEF IInv

THEOREM Invariance == Spec => []IInv
  BY InvInit, InvStep, PTL DEF Spec

\* Every table keeps its shape, and sessions stay inside their handlers.
THEOREM Typing == Spec => []TypeOK
  <1>1. IInv => TypeOK BY DEF IInv
  <1> QED BY <1>1, Invariance, PTL

\* No interleaving of registrations, reactivations and settlements puts more
\* stake at risk than max_open_exposure_minor.
THEOREM ExposureIsCapped == Spec => []ExposureCap
  <1>1. IInv => ExposureCap BY DEF IInv, TablePart
  <1> QED BY <1>1, Invariance, PTL

\* Two requests never put two picks on one fixture.
THEOREM FixturesPickedOnce == Spec => []OnePickPerFixture
  <1>1. IInv => OnePickPerFixture BY DEF IInv, TablePart
  <1> QED BY <1>1, Invariance, PTL

\* The keys of decisions and operator events never have to reject an insert.
THEOREM RequestsKeyed == Spec => []RequestsAnsweredOnce
  <1>1. IInv => RequestsAnsweredOnce BY DEF IInv, TablePart
  <1> QED BY <1>1, Invariance, PTL

\* account_sequence is gapless and the balance never negative.
THEOREM LedgerOrdered == Spec => [](LedgerSequence /\ BalanceNotOverdrawn)
  <1>1. IInv => LedgerSequence /\ BalanceNotOverdrawn BY DEF IInv, TablePart, LedgerPart
  <1> QED BY <1>1, Invariance, PTL

\* A stake is released once, exactly by its settlement.
THEOREM StakesReleased == Spec => []StakeReleasedOnce
  <1>1. IInv => StakeReleasedOnce BY DEF IInv, TablePart
  <1> QED BY <1>1, Invariance, PTL

\* In either mode, what a session wrote down as a balance is still the balance
\* when it commits: the account row keeps both kinds from moving.
THEOREM BalancesStayCurrent == Spec => BalancesAreCurrent
  <1> DEFINE Current(x) ==
               x.balance = x.amount + (IF AutoSkip /\ x.type = "STAKE_RESERVED"
                                       THEN OperatorAvailable ELSE LedgerTail.balance)
  <1>1. IInv /\ [Next]_vars => \A x \in ledger' \ ledger :
                                x.type # "INITIAL_BANKROLL" => Current(x)
    <2> SUFFICES ASSUME IInv, [Next]_vars, NEW x \in ledger' \ ledger, x.type # "INITIAL_BANKROLL"
                 PROVE  Current(x)
      OBVIOUS
    <2>0. TypeOK /\ LedgerPart BY DEF IInv, TablePart
    <2>1. CASE BootstrapBankroll BY <2>1 DEF BootstrapBankroll
    <2>2. ASSUME NEW t \in Tx, RegisterApprove(t)
          PROVE  Current(x)
      <3>1. /\ x.type = "STAKE_RESERVED" /\ x.amount = -Stake
            /\ x.balance = view[t].balance - Stake
        BY <2>2 DEF RegisterApprove
      <3>2. view[t].balance = BalanceBefore
        BY <2>2 DEF IInv, RegisterApprove, Snapshot, RegisterSnapshot
      <3>3. view[t].balance \in Int BY <2>0, TypeParts DEF SessionsOK, View
      <3> QED BY <3>1, <3>2, <3>3, PolicyAssumption DEF BalanceBefore
    <2>3. ASSUME NEW t \in Tx, SettleCommit(t)
          PROVE  Current(x)
      <3>1. /\ x.type = EntryType(job[t].outcome) /\ x.amount = LedgerDelta(job[t].outcome)
            /\ x.balance = view[t].balance + LedgerDelta(job[t].outcome)
        BY <2>3 DEF SettleCommit
      <3>2. x.type # "STAKE_RESERVED" BY <3>1 DEF EntryType
      <3>3. view[t].balance = LedgerTail.balance
        BY <2>3 DEF IInv, SettleCommit, Snapshot, SettleSnapshot
      <3>4. view[t].balance \in Int BY <2>0, TypeParts DEF SessionsOK, View
      <3>5. LedgerDelta(job[t].outcome) \in Int BY PolicyAssumption DEF LedgerDelta
      <3> QED BY <3>1, <3>2, <3>3, <3>4, <3>5
    <2>4. ASSUME NEW t \in Tx, Start(t) PROVE FALSE
      BY <2>4 DEF Start, BeginRegister, BeginSetState, BeginSettle, Begin, tables
    <2>5. ASSUME NEW t \in Tx, Step(t) \/ Abort(t), ~RegisterApprove(t), ~SettleCommit(t)
          PROVE  FALSE
      <3>1. UNCHANGED ledger
        BY <2>5
        DEF Step, Abort, RegisterReplay, RegisterIneligible, RegisterLockRequest, LockFixture,
            RegisterLockAccount, RegisterNotBootstrapped, RegisterRead, RegisterReject,
            LockAccount, LockPick, SetStateRefuse, SetStateRead, SetStateCommit, SettleRefuse,
            SettleRead, Take, Read, tables
      <3> QED BY <3>1
    <2>6. CASE Tick \/ UNCHANGED vars BY <2>6 DEF Tick, vars
    <2> QED BY <2>1, <2>2, <2>3, <2>4, <2>5, <2>6 DEF Next
  <1> QED BY <1>1, Invariance, PTL DEF Spec, BalancesAreCurrent

-----------------------------------------------------------------------------
(* The refinement of Account: what the mapped variables are.               *)

Balance == IF ledger = {} THEN 0 ELSE LedgerTail.balance
Staked == Reserved \ {s.pick : s \in settlements}
Returned == {[pick |-> s.pick, outcome |-> s.outcome] : s \in settlements}
ReturnOf == [WIN |-> WinReturn, LOSS |-> 0, VOID |-> Stake]

\* The row written behind the last one is the last one.
LEMMA NewTail ==
    ASSUME TypeOK, LedgerPart, ledger # {},
           NEW row \in LedgerRow, ledger' = ledger \cup {row},
           row.sequence = LedgerTail.sequence + 1
    PROVE  ledger' # {} /\ Balance' = row.balance
  <1>1. /\ \A x \in ledger : x.sequence <= LedgerTail.sequence
        /\ LedgerTail.sequence \in Nat /\ \A x \in ledger' : x.sequence \in Nat
    BY TailIsLast, BalanceIsInt DEF LedgerPart, TypeOK, LedgerRow
  <1>2. \A x \in ledger' : x.sequence <= row.sequence BY <1>1
  <1>3. ASSUME NEW e \in ledger', \A x \in ledger' : x.sequence <= e.sequence PROVE e = row
    BY <1>1, <1>3
  <1>4. LedgerTail' = row BY <1>2, <1>3 DEF LedgerTail
  <1> QED BY <1>4 DEF Balance

\* A stake is out of the account or back in it, never both.
LEMMA ReturnedPicks ==
    ASSUME NEW p
    PROVE  /\ Settled(p) <=> p \in {s.pick : s \in settlements}
           /\ ~Settled(p) => \A r \in Returned : r.pick # p
  <1>1. ASSUME NEW r \in Returned, r.pick = p PROVE Settled(p)
    <2>1. PICK s \in settlements : r = [pick |-> s.pick, outcome |-> s.outcome]
      BY DEF Returned
    <2> QED BY <1>1, <2>1 DEF Settled
  <1> QED BY <1>1 DEF Settled

-----------------------------------------------------------------------------
(* The commits.                                                            *)

LEMMA BootstrapPaysIn ==
    ASSUME IInv, BootstrapBankroll
    PROVE  Money!PayIn
  <1>1. ledger = {} BY FundingKeepsLedger DEF IInv, TablePart
  <1> DEFINE row == [sequence |-> 1, pick |-> NoPick, amount |-> InitialBankroll,
                     balance |-> InitialBankroll, type |-> "INITIAL_BANKROLL"]
  <1>2. ledger' = {row} /\ settlements' = settlements BY <1>1 DEF BootstrapBankroll
  <1>3. LedgerTail' = row BY <1>2, PolicyAssumption DEF LedgerTail
  <1>4. Reserved = {} /\ Reserved' = {} BY <1>1, <1>2 DEF Reserved
  <1> QED BY <1>1, <1>2, <1>3, <1>4 DEF Money!PayIn

LEMMA ApprovalReserves ==
    ASSUME ~AutoSkip, IInv, IInv', NEW t \in Tx, RegisterApprove(t),
           NEW r, r = job[t].request
    PROVE  Money!Reserve(r)
  <1>0. TypeOK /\ TypeOK' /\ LedgerPart /\ StakeReleasedOnce BY DEF IInv, TablePart
  <1>1. job[t] \in RegisterJob /\ view[t] \in View
    BY <1>0, JobKinds, TypeParts DEF RegisterApprove, SessionsOK
  <1> DEFINE row == [sequence |-> view[t].sequence + 1, pick |-> r, amount |-> -Stake,
                     balance |-> view[t].balance - Stake, type |-> "STAKE_RESERVED"]
  <1>2. ledger' = ledger \cup {row} /\ settlements' = settlements BY DEF RegisterApprove
  <1>3. /\ ledger # {} /\ view[t].balance = LedgerTail.balance
        /\ view[t].sequence = LedgerTail.sequence
        /\ Stake <= view[t].balance
    BY DEF IInv, RegisterApprove, Snapshot, RegisterSnapshot, BalanceBefore, RiskAccepts
  <1>4. ~Decided(r) BY DEF IInv, RequestHeld, RegisterApprove
  <1>5. r \notin Reserved
    BY <1>0, <1>4 DEF StakeReleasedOnce, Picks, Decided
  <1>6. ~Settled(r)
    <2>1. SUFFICES ASSUME NEW s \in settlements, s.pick = r PROVE FALSE BY DEF Settled
    <2>2. PICK x \in Releases : x.pick = r BY <1>0, <2>1 DEF StakeReleasedOnce
    <2>3. PICK y \in ledger : y.type = "STAKE_RESERVED" /\ y.pick = r
      BY <1>0, <2>2 DEF StakeReleasedOnce
    <2> QED BY <2>3, <1>5 DEF Reserved
  <1>7. row \in LedgerRow BY <1>0, <1>2 DEF TypeOK
  <1>f. /\ row.sequence = view[t].sequence + 1 /\ row.pick = r
        /\ row.balance = view[t].balance - Stake /\ row.type = "STAKE_RESERVED"
    OBVIOUS
  <1> HIDE DEF row
  <1>8. ledger' # {} /\ Balance' = row.balance BY <1>0, <1>2, <1>3, <1>f, <1>7, NewTail
  <1>9. Balance = LedgerTail.balance /\ Balance' = Balance - Stake
    BY <1>3, <1>8, <1>f DEF Balance
  <1>10. Reserved' = Reserved \cup {r} BY <1>2, <1>f DEF Reserved
  <1>11. Staked' = Staked \cup {r} /\ Returned' = Returned
    BY <1>2, <1>6, <1>10 DEF Staked, Returned, Settled
  <1>12. Balance >= Stake BY <1>1, <1>3, <1>9, PolicyAssumption DEF View
  <1>13. r \notin Staked /\ \A x \in Returned : x.pick # r
    BY <1>5, <1>6, ReturnedPicks DEF Staked
  <1> QED BY <1>3, <1>8, <1>9, <1>11, <1>12, <1>13
      DEF Money!Reserve, Balance, Staked, Returned

LEMMA SettlementReleases ==
    ASSUME IInv, IInv', NEW t \in Tx, SettleCommit(t),
           NEW p, p = job[t].pick, NEW o, o = job[t].outcome
    PROVE  Money!Release(p, o)
  <1>0. TypeOK /\ TypeOK' /\ LedgerPart BY DEF IInv, TablePart
  <1>1. job[t] \in SettleJob /\ view[t] \in View
    BY <1>0, JobKinds, TypeParts DEF SettleCommit, SessionsOK
  <1> DEFINE row == [sequence |-> view[t].sequence + 1, pick |-> p, amount |-> LedgerDelta(o),
                     balance |-> view[t].balance + LedgerDelta(o), type |-> EntryType(o)]
             event == [pick |-> p, kind |-> job[t].kind, outcome |-> o]
  <1>2. ledger' = ledger \cup {row} /\ settlements' = settlements \cup {event}
    BY DEF SettleCommit
  <1>3. /\ ~Settled(p) /\ p \in Reserved
        /\ view[t].sequence = LedgerTail.sequence /\ view[t].balance = LedgerTail.balance
    BY DEF IInv, SettleCommit, Snapshot, SettleSnapshot
  <1>4. ledger # {} BY <1>3 DEF Reserved
  <1>5. o \in {"WIN", "LOSS", "VOID"} BY <1>1, IdAssumption DEF SettleJob
  <1>6. ReturnOf[o] = LedgerDelta(o) BY <1>5 DEF ReturnOf, LedgerDelta
  <1>7. row \in LedgerRow BY <1>0, <1>2 DEF TypeOK
  <1>f. /\ row.sequence = view[t].sequence + 1 /\ row.type # "STAKE_RESERVED"
        /\ row.balance = view[t].balance + LedgerDelta(o)
        /\ event.pick = p /\ event.outcome = o
    BY DEF EntryType
  <1> HIDE DEF row, event
  <1>8. ledger' # {} /\ Balance' = row.balance
    BY <1>0, <1>2, <1>3, <1>4, <1>f, <1>7, NewTail
  <1>9. Balance' = Balance + ReturnOf[o] BY <1>3, <1>4, <1>6, <1>8, <1>f DEF Balance
  <1>10. Reserved' = Reserved BY <1>2, <1>f DEF Reserved
  <1>11. p \in Staked BY <1>3, ReturnedPicks DEF Staked
  <1>12. Staked' = Staked \ {p} BY <1>2, <1>10, <1>f DEF Staked
  <1>13. Returned' = Returned \cup {[pick |-> p, outcome |-> o]} BY <1>2, <1>f DEF Returned
  <1> QED BY <1>4, <1>8, <1>9, <1>11, <1>12, <1>13
      DEF Money!Release, Balance, Staked, Returned, ReturnOf

-----------------------------------------------------------------------------
\* Any other step leaves the ledger and the settlements alone.
LEMMA MoneyUntouched ==
    ASSUME UNCHANGED <<ledger, settlements>>
    PROVE  UNCHANGED Money!account
  <1>1. Reserved' = Reserved /\ LedgerTail' = LedgerTail BY DEF Reserved, LedgerTail
  <1> QED BY <1>1 DEF Money!account

LEMMA AccountStep ==
    ASSUME ~AutoSkip, IInv, IInv', [Next]_vars
    PROVE  [Money!AccountNext]_(Money!account)
  <1>1. CASE UNCHANGED <<ledger, settlements>> BY <1>1, MoneyUntouched
  <1>2. CASE BootstrapBankroll BY <1>2, BootstrapPaysIn DEF Money!AccountNext
  <1>3. ASSUME NEW t \in Tx, RegisterApprove(t) PROVE Money!AccountNext
    <2>1. PICK r \in Request : r = job[t].request
      BY <1>3, JobKinds, TypeParts DEF IInv, RegisterApprove, SessionsOK, RegisterJob
    <2> QED BY <2>1, <1>3, ApprovalReserves DEF Money!AccountNext
  <1>4. ASSUME NEW t \in Tx, SettleCommit(t) PROVE Money!AccountNext
    <2>1. PICK p \in Request, o \in DOMAIN [WIN |-> WinReturn, LOSS |-> 0, VOID |-> Stake] :
            p = job[t].pick /\ o = job[t].outcome
      BY <1>4, JobKinds, TypeParts, IdAssumption
      DEF IInv, SettleCommit, SessionsOK, SettleJob
    <2> QED BY <2>1, <1>4, SettlementReleases DEF Money!AccountNext
  <1>5. ASSUME NEW t \in Tx, Start(t) PROVE UNCHANGED <<ledger, settlements>>
    BY <1>5 DEF Start, BeginRegister, BeginSetState, BeginSettle, Begin
  <1>6. ASSUME NEW t \in Tx, Step(t) \/ Abort(t), ~RegisterApprove(t), ~SettleCommit(t)
        PROVE  UNCHANGED <<ledger, settlements>>
    BY <1>6
    DEF Step, Abort, RegisterReplay, RegisterIneligible, RegisterLockRequest, LockFixture,
        RegisterLockAccount, RegisterNotBootstrapped, RegisterRead, RegisterReject,
        LockAccount, LockPick, SetStateRefuse, SetStateRead, SetStateCommit, SettleRefuse,
        SettleRead, Take, Read, tables
  <1>7. CASE Tick \/ UNCHANGED vars BY <1>7, <1>1 DEF Tick, vars
  <1> QED BY <1>1, <1>2, <1>3, <1>4, <1>5, <1>6, <1>7 DEF Next

\* Without auto-skip, whatever registrations, settlements and voids commit and
\* in whatever order, the ledger pays each stake once, from money that is
\* there, and returns it once: the account that Account specifies.
THEOREM LedgerImplementsAccount ==
    ASSUME ~AutoSkip
    PROVE  Spec => LedgerIsAnAccount
  <1>1. Init => Money!AccountInit
    BY DEF Init, Money!AccountInit, Reserved
  <1>2. IInv /\ IInv' /\ [Next]_vars => [Money!AccountNext]_(Money!account)
    BY AccountStep
  <1> QED BY <1>1, <1>2, Invariance, PTL DEF Spec, LedgerIsAnAccount, Money!AccountSpec

=============================================================================
