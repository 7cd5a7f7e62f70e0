------------------------ MODULE ProductionFunnelProofs ------------------------
(***************************************************************************)
(* Proofs about ProductionFunnel, for any candidates, buckets, rankings,   *)
(* sessions and caps. The intake is one greedy pass: whoever comes first   *)
(* in the order finds at least the room its successors find, and the last  *)
(* pick cloned has seen all the others. For the operator, the row lock of  *)
(* the pick keeps what was read about its events true until the commit     *)
(* (Snapshot), which is all the code protects.                             *)
(***************************************************************************)
EXTENDS ProductionFunnel, FiniteSetTheorems, WellFoundedInduction, TLAPS

-----------------------------------------------------------------------------
(* Least and greatest elements.                                            *)

Less == {pair \in Nat \X Nat : pair[1] < pair[2]}

LEMMA Least ==
    ASSUME NEW T \in SUBSET Nat, T # {}
    PROVE  \E x \in T : \A y \in T : x <= y
  <1>1. IsWellFoundedOn(Less, Nat)
    <2>1. OpToRel(<, Nat) = Less BY DEF OpToRel, Less
    <2> QED BY <2>1, NatLessThanWellFounded
  <1>2. PICK x \in T : \A y \in T : ~(<<y, x>> \in Less) BY <1>1, WFMin
  <1>3. ASSUME NEW y \in T PROVE x <= y
    <2>1. x \in Nat /\ y \in Nat /\ <<y, x>> \in Nat \X Nat OBVIOUS
    <2>2. ~(y < x) BY <1>2, <2>1 DEF Less
    <2> QED BY <2>1, <2>2
  <1> QED BY <1>3

LEMMA Greatest ==
    ASSUME NEW T \in SUBSET Nat, T # {}, NEW bound \in Nat, \A x \in T : x <= bound
    PROVE  \E x \in T : \A y \in T : y <= x
  <1> DEFINE U == {n \in Nat : \A x \in T : x <= n}
  <1>1. U \in SUBSET Nat /\ bound \in U OBVIOUS
  <1>2. PICK m \in U : \A n \in U : m <= n BY <1>1, Least
  <1>3. m \in T
    <2> SUFFICES ASSUME m \notin T PROVE FALSE OBVIOUS
    <2>1. m \in Nat /\ \A x \in T : x \in Nat /\ x < m BY <1>2
    <2>2. m >= 1 /\ m - 1 \in Nat
      <3>1. PICK x \in T : TRUE OBVIOUS
      <3>2. x \in Nat /\ x < m BY <2>1
      <3> QED BY <2>1, <3>2
    <2>3. \A x \in T : x <= m - 1 BY <2>1, <2>2
    <2>4. m - 1 \in U BY <2>2, <2>3
    <2> QED BY <1>2, <2>1, <2>4
  <1> QED BY <1>2, <1>3

-----------------------------------------------------------------------------
(* Finite sets of candidates, and amounts of stakes.                       *)

LEMMA CandidateSets ==
    ASSUME NEW S \in SUBSET Candidate
    PROVE  /\ IsFiniteSet(S) /\ Cardinality(S) \in Nat
           /\ \A R \in SUBSET S : Cardinality(R) <= Cardinality(S)
  BY FunnelAssumption, FS_Subset, FS_CardinalityType

LEMMA StakesGrow ==
    ASSUME NEW m \in Nat, NEW n \in Nat, m <= n
    PROVE  Stake * m <= Stake * n /\ Stake * m \in Nat /\ Stake * n \in Nat
  <1>1. Stake \in Nat BY FunnelAssumption
  <1>2. PICK k \in Nat : n = m + k
    <2>1. n - m \in Nat /\ n = m + (n - m) OBVIOUS
    <2> QED BY <2>1
  <1>3. Stake * m \in Nat /\ Stake * k \in Nat BY <1>1
  <1>4. Stake * n = Stake * m + Stake * k BY <1>1, <1>2
  <1> QED BY <1>3, <1>4

-----------------------------------------------------------------------------
(* The order of operator events, and what one more event does to it.       *)

LEMMA BeforeOrder ==
    ASSUME NEW x \in EventRow, NEW y \in EventRow, NEW z \in EventRow
    PROVE  /\ ~(Before(x, y) /\ Before(y, x))
           /\ x.id # y.id => Before(x, y) \/ Before(y, x)
           /\ Before(x, y) /\ Before(y, z) => Before(x, z)
  <1>1. /\ EventRank[x.id] \in Nat /\ EventRank[y.id] \in Nat /\ EventRank[z.id] \in Nat
        /\ x.id # y.id => EventRank[x.id] # EventRank[y.id]
    BY FunnelAssumption DEF EventRow
  <1>2. /\ x.occurred \in Int /\ y.occurred \in Int /\ z.occurred \in Int
        /\ x.persisted \in Int /\ y.persisted \in Int /\ z.persisted \in Int
    BY DEF EventRow, Time
  <1> QED BY <1>1, <1>2 DEF Before

\* At most one event of a pick is the latest.
LEMMA LatestUnique ==
    ASSUME NEW E, E \subseteq EventRow, NEW p,
           NEW e \in LatestEvents(E, p)
    PROVE  StateIn(E, p) = e.state
  <1>1. ASSUME NEW c \in LatestEvents(E, p) PROVE c = e
    BY <1>1, BeforeOrder DEF LatestEvents
  <1>2. (CHOOSE c \in LatestEvents(E, p) : TRUE) \in LatestEvents(E, p)
    OBVIOUS
  <1> QED BY <1>1, <1>2 DEF StateIn, StateOf

\* A pick that is SKIPPED has a SKIPPED latest event.
LEMMA SkippedHasEvent ==
    ASSUME NEW E, NEW p, StateIn(E, p) = "SKIPPED"
    PROVE  \E e \in LatestEvents(E, p) : e.state = "SKIPPED"
  BY DEF StateIn, StateOf

\* A SKIPPED pick leaves that state only by an event that is PLAYED and not
\* older than the latest one: the `becomes_latest` test of set_state.
LEMMA OnlyReactivationUnskips ==
    ASSUME NEW E, E \subseteq EventRow, NEW n \in EventRow,
           \A x \in E : x.id # n.id,
           StateIn(E, n.pick) = "SKIPPED",
           StateIn(E \cup {n}, n.pick) # "SKIPPED"
    PROVE  /\ n.state = "PLAYED"
           /\ \E e \in LatestEvents(E, n.pick) : e.state = "SKIPPED" /\ n.occurred >= e.occurred
  <1> DEFINE F == E \cup {n}
  <1>0. F \subseteq EventRow OBVIOUS
  <1>1. PICK e \in LatestEvents(E, n.pick) : e.state = "SKIPPED"
    BY SkippedHasEvent
  <1>2. e \in E /\ e \in EventRow /\ e.pick = n.pick /\ e.id # n.id
    BY <1>1 DEF LatestEvents
  <1>3. ~Before(n, e)
    <2>1. SUFFICES ASSUME Before(n, e) PROVE FALSE OBVIOUS
    <2>2. e \in LatestEvents(F, n.pick)
      BY <2>1, <1>1, <1>2 DEF LatestEvents
    <2> QED BY <2>2, <1>0, <1>1, LatestUnique
  <1>4. n \in LatestEvents(F, n.pick)
    <2>1. Before(e, n) BY <1>2, <1>3, BeforeOrder
    <2>2. ASSUME NEW x \in F, x.pick = n.pick, x # n PROVE Before(x, n)
      <3>1. x \in E /\ x \in EventRow BY <2>2
      <3>2. x = e \/ Before(x, e) BY <3>1, <2>2, <1>1 DEF LatestEvents
      <3> QED BY <3>1, <3>2, <2>1, <1>2, BeforeOrder
    <2> QED BY <2>2 DEF LatestEvents
  <1>5. n.state # "SKIPPED" BY <1>4, <1>0, LatestUnique
  <1>6. n.state = "PLAYED" BY <1>5 DEF EventRow, OperatorState
  <1>7. n.occurred >= e.occurred
    BY <1>2, <1>3 DEF Before, EventRow, Time
  <1> QED BY <1>1, <1>6, <1>7

\* An event of one pick leaves the state of every other pick alone.
LEMMA OtherPicksKeepState ==
    ASSUME NEW E, NEW n, NEW p, p # n.pick
    PROVE  StateIn(E \cup {n}, p) = StateIn(E, p)
  <1>1. LatestEvents(E \cup {n}, p) = LatestEvents(E, p) BY DEF LatestEvents
  <1> QED BY <1>1 DEF StateIn


-----------------------------------------------------------------------------
(* The inductive invariant.                                                *)

\* The part of TypeOK about the tables, and the part about the sessions.
TablesOK ==
    /\ picks \subseteq published /\ published \subseteq Candidate /\ settled \subseteq picks
    /\ opEvents \subseteq EventRow

SessionsOK ==
    /\ clock \in Time
    /\ owner \in [Lock -> Tx \cup {NoTx}]
    /\ pc \in [Tx -> Universe \cup {"idle", "sync", "pick", "read", "commit"}]
    /\ job \in [Tx -> SyncJob \cup OperatorJob \cup {NoJob}]
    /\ view \in [Tx -> View]
    /\ \A t \in Tx : (pc[t] = "idle" <=> job[t] = NoJob) /\ view[t].seen \subseteq published

\* Only a sync queries candidates, and an operator call that has locked its pick
\* still owns the lock.
PickHeld ==
    \A t \in Tx :
        /\ pc[t] \in Universe \cup {"sync"} => job[t].kind = "sync"
        /\ pc[t] \in {"read", "commit"} /\ job[t].kind = "operator"
               => owner[PickLock(job[t].pick)] = t

\* The event would be the latest of a skipped pick.
Unskips(j) ==
    /\ j.state = "PLAYED"
    /\ \E e \in LatestEvents(opEvents, j.pick) : e.state = "SKIPPED" /\ j.occurred >= e.occurred

\* The calls about to reactivate a pick.
Pending ==
    {t \in Tx : /\ pc[t] = "commit" /\ job[t].kind = "operator"
                /\ Unskips(job[t]) /\ ~view[t].settled}

\* A reactivation about to be stored was checked against the exposure read.
Snapshot == \A t \in Pending : view[t].exposure + Stake <= MaxOpenExposure

FunnelInv == TypeOK /\ PickHeld /\ Snapshot

LEMMA TypeParts == TypeOK <=> TablesOK /\ SessionsOK
  BY DEF TypeOK, TablesOK, SessionsOK

\* The call of a session tells its kind.
LEMMA JobKinds ==
    ASSUME NEW j \in SyncJob \cup OperatorJob \cup {NoJob}
    PROVE  /\ j.kind = "sync" <=> j \in SyncJob
           /\ j.kind = "operator" <=> j \in OperatorJob
           /\ j \in SyncJob => j # NoJob /\ j.now \in Time
           /\ j \in OperatorJob => /\ j # NoJob /\ j.pick \in Candidate /\ j.request \in OpRequest
                                   /\ j.state \in OperatorState
                                   /\ j.occurred \in Time /\ j.started \in Time
           /\ j = NoJob => j.kind = "none"
  BY DEF SyncJob, OperatorJob, NoJob

LEMMA LockKinds ==
    /\ SyncLock \in Lock
    /\ \A c \in Candidate : PickLock(c) \in Lock /\ PickLock(c) # SyncLock
    /\ \A c, d \in Candidate : PickLock(c) = PickLock(d) => c = d
  BY DEF Lock, PickLock, SyncLock

\* The open picks are candidates, so the exposure is a finite amount.
LEMMA ExposureIsNat ==
    ASSUME TablesOK
    PROVE  /\ OpenPicks \in SUBSET Candidate /\ Cardinality(OpenPicks) \in Nat
           /\ OpenExposure \in Nat
  <1>1. OpenPicks \in SUBSET Candidate BY DEF TablesOK, OpenPicks
  <1>2. Cardinality(OpenPicks) \in Nat BY <1>1, CandidateSets
  <1>3. OpenExposure \in Nat BY <1>2, StakesGrow DEF OpenExposure
  <1> QED BY <1>1, <1>2, <1>3

-----------------------------------------------------------------------------
(* Types and locks.                                                        *)

LEMMA BeginTypes ==
    ASSUME SessionsOK, NEW t \in Tx, NEW j,
           \/ j \in SyncJob /\ Begin(t, j, "sync")
           \/ j \in OperatorJob /\ Begin(t, j, "pick")
    PROVE  SessionsOK'
  <1>1. j # NoJob BY JobKinds
  <1> QED BY <1>1 DEF SessionsOK, Begin

LEMMA FinishTypes ==
    ASSUME SessionsOK, NEW t \in Tx, Finish(t)
    PROVE  SessionsOK'
  <1>1. NoView \in View BY DEF NoView, View
  <1>2. owner' \in [Lock -> Tx \cup {NoTx}] BY DEF SessionsOK, Finish
  <1> QED BY <1>1, <1>2 DEF SessionsOK, Finish, NoView

LEMMA TakeTypes ==
    ASSUME SessionsOK, NEW t \in Tx, NEW l, pc[t] # "idle", Take(t, l, "read")
    PROVE  SessionsOK'
  BY DEF SessionsOK, Take

LEMMA ReadTypes ==
    ASSUME SessionsOK, NEW t \in Tx, NEW v \in View, v.seen = {},
           NEW next \in {"RESEARCH", "commit"}, Read(t, v, next)
    PROVE  SessionsOK'
  BY DEF SessionsOK, Read, Universe

\* A candidate query adds to what its session has seen, and to nothing else.
LEMMA QueryEffect ==
    ASSUME SessionsOK, NEW t \in Tx, SelectCandidates(t)
    PROVE  /\ pc[t] \in Universe /\ pc'[t] \in Universe \cup {"commit"}
           /\ UNCHANGED <<published, picks, opEvents, settled, clock, owner, job>>
           /\ \A u \in Tx : u # t => pc'[u] = pc[u] /\ view'[u] = view[u]
           /\ view'[t].exposure = view[t].exposure /\ view'[t].settled = view[t].settled
           /\ view'[t].seen = view[t].seen \cup {c \in Window(job[t].now) : SourceOf[c] = pc[t]}
  BY DEF SessionsOK, View, SelectCandidates, AfterQuery, Universe

LEMMA QueryTypes ==
    ASSUME TablesOK, SessionsOK, NEW t \in Tx, SelectCandidates(t)
    PROVE  SessionsOK'
  <1> DEFINE found == {c \in Window(job[t].now) : SourceOf[c] = pc[t]}
  <1>1. found \subseteq published /\ found \subseteq Candidate BY DEF TablesOK, Window
  <1>2. view[t] \in View /\ view[t].seen \subseteq published BY DEF SessionsOK
  <1>3. view' = [view EXCEPT ![t].seen = @ \cup found] BY DEF SelectCandidates
  <1>4. [view[t] EXCEPT !.seen = @ \cup found] \in View BY <1>1, <1>2 DEF View
  <1>5. view' \in [Tx -> View] BY <1>3, <1>4 DEF SessionsOK
  <1>6. pc' \in [Tx -> Universe \cup {"idle", "sync", "pick", "read", "commit"}]
    BY DEF SessionsOK, SelectCandidates, AfterQuery, Universe
  <1>7. pc[t] # "idle" /\ pc'[t] # "idle" BY QueryEffect DEF Universe
  <1>8. \A u \in Tx : view'[u].seen \subseteq published' BY <1>1, <1>2, QueryEffect DEF SessionsOK
  <1> QED BY <1>5, <1>6, <1>7, <1>8, QueryEffect DEF SessionsOK

LEMMA TypeStep ==
    ASSUME TypeOK, [Next]_vars
    PROVE  TypeOK'
  <1>0. TablesOK /\ SessionsOK BY TypeParts
  <1> SUFFICES TablesOK' /\ SessionsOK' BY DEF TypeOK, TablesOK, SessionsOK
  <1>1. CASE UNCHANGED vars BY <1>1, <1>0 DEF vars, TablesOK, SessionsOK
  <1>2. CASE Tick
    <2>1. clock' \in Time BY <1>0, <1>2, FunnelAssumption DEF Tick, SessionsOK, Time
    <2> QED BY <1>0, <1>2, <2>1 DEF Tick, TablesOK, SessionsOK
  <1>3. ASSUME NEW c \in Candidate, Publish(c) \/ SettleAtSource(c) \/ ReopenAtSource(c)
        PROVE  TablesOK' /\ SessionsOK'
    <2>1. TablesOK'
      BY <1>0, <1>3 DEF Publish, SettleAtSource, ReopenAtSource, TablesOK
    <2>2. SessionsOK'
      BY <1>0, <1>3 DEF Publish, SettleAtSource, ReopenAtSource, SessionsOK
    <2> QED BY <2>1, <2>2
  <1>4. ASSUME NEW t \in Tx, BeginSync(t) PROVE TablesOK' /\ SessionsOK'
    <2>1. [kind |-> "sync", now |-> clock] \in SyncJob BY <1>0 DEF SyncJob, SessionsOK
    <2>2. SessionsOK' BY <1>0, <1>4, <2>1, BeginTypes DEF BeginSync
    <2> QED BY <1>0, <1>4, <2>2 DEF BeginSync, Begin, TablesOK
  <1>5. ASSUME NEW t \in Tx, BeginSetState(t) PROVE TablesOK' /\ SessionsOK'
    <2>1. PICK q \in OpRequest, c \in picks, s \in OperatorState :
            Begin(t, [kind |-> "operator", request |-> q, pick |-> c, state |-> s,
                      occurred |-> clock, started |-> clock], "pick")
      BY <1>5 DEF BeginSetState
    <2>2. c \in Candidate /\ clock \in Time BY <1>0 DEF TablesOK, SessionsOK
    <2>3. [kind |-> "operator", request |-> q, pick |-> c, state |-> s,
           occurred |-> clock, started |-> clock] \in OperatorJob
      BY <2>2 DEF OperatorJob
    <2>4. SessionsOK' BY <1>0, <2>1, <2>3, BeginTypes
    <2> QED BY <1>0, <2>1, <2>4 DEF Begin, TablesOK
  <1>6. ASSUME NEW t \in Tx, LockSync(t) \/ LockPick(t) PROVE TablesOK' /\ SessionsOK'
    <2>1. SessionsOK' BY <1>0, <1>6, TakeTypes DEF LockSync, LockPick
    <2> QED BY <1>0, <1>6, <2>1 DEF LockSync, LockPick, Take, TablesOK
  <1>7. ASSUME NEW t \in Tx, ReadExposure(t) \/ SetStateRead(t) PROVE TablesOK' /\ SessionsOK'
    <2>1. /\ [exposure |-> OpenExposure, settled |-> FALSE, seen |-> {}] \in View
          /\ [exposure |-> OpenExposure, settled |-> job[t].pick \in settled, seen |-> {}] \in View
      BY <1>0, ExposureIsNat DEF View
    <2>2. SessionsOK' BY <1>0, <1>7, <2>1, ReadTypes DEF ReadExposure, SetStateRead
    <2>3. picks' = picks /\ published' = published /\ settled' = settled /\ opEvents' = opEvents
      BY <1>7 DEF ReadExposure, SetStateRead, Read
    <2> QED BY <1>0, <2>2, <2>3 DEF TablesOK
  <1>11. ASSUME NEW t \in Tx, SelectCandidates(t) PROVE TablesOK' /\ SessionsOK'
    BY <1>0, <1>11, QueryTypes, QueryEffect DEF TablesOK
  <1>8. ASSUME NEW t \in Tx, SyncCommit(t) PROVE TablesOK' /\ SessionsOK'
    <2>1. PICK C \in SUBSET view[t].seen : picks' = picks \cup C
      BY <1>8 DEF SyncCommit
    <2>2. PICK s \in SUBSET (picks' \ picks) : settled' = settled \cup s
      BY <1>8 DEF SyncCommit
    <2>3. published' = published /\ opEvents' = opEvents /\ Finish(t)
      BY <1>8 DEF SyncCommit, Finish
    <2>4. C \subseteq published BY <1>0, <2>1 DEF SessionsOK
    <2>5. TablesOK' BY <1>0, <2>1, <2>2, <2>3, <2>4 DEF TablesOK
    <2> QED BY <1>0, <2>3, <2>5, FinishTypes
  <1>9. ASSUME NEW t \in Tx, SetStateCommit(t) PROVE TablesOK' /\ SessionsOK'
    <2>1. job[t] \in OperatorJob BY <1>0, <1>9, JobKinds DEF SetStateCommit, SessionsOK
    <2>2. [id |-> job[t].request, pick |-> job[t].pick, state |-> job[t].state,
           occurred |-> job[t].occurred, persisted |-> job[t].started] \in EventRow
      BY <2>1, JobKinds DEF EventRow
    <2>3. opEvents' \subseteq EventRow BY <1>0, <1>9, <2>2 DEF SetStateCommit, TablesOK
    <2>4. picks' = picks /\ published' = published /\ settled' = settled /\ Finish(t)
      BY <1>9 DEF SetStateCommit, Finish
    <2>5. TablesOK' BY <1>0, <2>3, <2>4 DEF TablesOK
    <2> QED BY <1>0, <2>4, <2>5, FinishTypes
  <1>10. ASSUME NEW t \in Tx, SetStateRefuse(t) \/ SetStateDuplicate(t) \/ Abort(t)
         PROVE  TablesOK' /\ SessionsOK'
    <2>1. /\ picks' = picks /\ settled' = settled /\ opEvents' = opEvents /\ Finish(t)
          /\ published' = published
      BY <1>10 DEF SetStateRefuse, SetStateDuplicate, Abort, Finish
    <2>2. TablesOK' BY <1>0, <2>1 DEF TablesOK
    <2> QED BY <1>0, <2>1, <2>2, FinishTypes
  <1> QED BY <1>1, <1>2, <1>3, <1>4, <1>5, <1>6, <1>7, <1>8, <1>9, <1>10, <1>11
    DEF Next

\* A session that ends gives up its own locks only.
LEMMA FinishHeld ==
    ASSUME SessionsOK, PickHeld, NEW t \in Tx, Finish(t)
    PROVE  PickHeld'
  <1>1. pc'[t] = "idle" /\ job'[t] = NoJob BY DEF SessionsOK, Finish
  <1>2. ASSUME NEW u \in Tx, u # t
        PROVE  /\ pc'[u] = pc[u] /\ job'[u] = job[u] /\ u # NoTx
               /\ \A l \in Lock : owner[l] = u => owner'[l] = u
    BY <1>2, FunnelAssumption DEF SessionsOK, Finish
  <1>3. \A u \in Tx : job[u].kind = "operator" => job[u].pick \in Candidate
    BY JobKinds DEF SessionsOK
  <1> QED BY <1>1, <1>2, <1>3, LockKinds DEF PickHeld, Universe

LEMMA HeldStep ==
    ASSUME TypeOK, PickHeld, [Next]_vars
    PROVE  PickHeld'
  <1>0. TablesOK /\ SessionsOK BY TypeParts
  <1>1. CASE UNCHANGED vars \/ Tick BY <1>1 DEF vars, Tick, PickHeld
  <1>2. ASSUME NEW c \in Candidate, Publish(c) \/ SettleAtSource(c) \/ ReopenAtSource(c)
        PROVE  PickHeld'
    BY <1>2 DEF Publish, SettleAtSource, ReopenAtSource, PickHeld
  <1>3. ASSUME NEW t \in Tx, BeginSync(t) \/ BeginSetState(t) PROVE PickHeld'
    <2>1. /\ owner' = owner
          /\ \A u \in Tx : u # t => pc'[u] = pc[u] /\ job'[u] = job[u]
          /\ \/ pc'[t] = "sync" /\ job'[t].kind = "sync"
             \/ pc'[t] = "pick"
      BY <1>0, <1>3 DEF BeginSync, BeginSetState, Begin, SessionsOK
    <2> QED BY <2>1 DEF PickHeld, Universe
  <1>4. ASSUME NEW t \in Tx, NEW l \in Lock, Take(t, l, "read"),
               job[t].kind = "operator" => l = PickLock(job[t].pick)
        PROVE  PickHeld'
    <2>1. /\ pc'[t] = "read" /\ job' = job /\ owner[l] = NoTx
          /\ owner' = [owner EXCEPT ![l] = t]
          /\ \A u \in Tx : u # t => pc'[u] = pc[u]
      BY <1>0, <1>4 DEF Take, SessionsOK
    <2>2. owner'[l] = t /\ \A m \in Lock : m # l => owner'[m] = owner[m]
      BY <1>0, <2>1 DEF SessionsOK
    <2>3. \A u \in Tx : job[u].kind = "operator" => PickLock(job[u].pick) \in Lock
      BY <1>0, JobKinds, LockKinds DEF SessionsOK
    <2>4. \A u \in Tx : u # NoTx BY FunnelAssumption
    <2> QED BY <1>4, <2>1, <2>2, <2>3, <2>4 DEF PickHeld, Universe
  <1>5. ASSUME NEW t \in Tx, LockSync(t) PROVE PickHeld'
    <2>1. job[t].kind # "operator" BY <1>5 DEF LockSync, PickHeld
    <2> QED BY <1>4, <1>5, <2>1, LockKinds DEF LockSync
  <1>6. ASSUME NEW t \in Tx, LockPick(t) PROVE PickHeld'
    <2>1. job[t] # NoJob BY <1>0, <1>6 DEF LockPick, SessionsOK
    <2>2. CASE job[t].kind = "operator"
      <3>1. PickLock(job[t].pick) \in Lock BY <1>0, <2>2, JobKinds, LockKinds DEF SessionsOK
      <3> QED BY <1>4, <1>6, <3>1 DEF LockPick
    <2>3. CASE job[t].kind # "operator"
      <3>1. \A u \in Tx : u # t => pc'[u] = pc[u]
        BY <1>0, <1>6 DEF LockPick, Take, SessionsOK
      <3>2. job' = job /\ pc'[t] = "read" BY <1>0, <1>6 DEF LockPick, Take, SessionsOK
      <3>3. \A u \in Tx : job[u].kind = "operator" => PickLock(job[u].pick) \in Lock
        BY <1>0, JobKinds, LockKinds DEF SessionsOK
      <3>4. \A m \in Lock : owner[m] # NoTx => owner'[m] = owner[m]
        BY <1>0, <1>6 DEF LockPick, Take, SessionsOK
      <3>5. \A u \in Tx : u # NoTx BY FunnelAssumption
      <3> QED BY <2>3, <3>1, <3>2, <3>3, <3>4, <3>5 DEF PickHeld, Universe
    <2> QED BY <2>2, <2>3
  <1>7. ASSUME NEW t \in Tx, ReadExposure(t) \/ SetStateRead(t) PROVE PickHeld'
    <2>1. /\ pc[t] = "read" /\ job' = job /\ owner' = owner
          /\ \/ pc'[t] = "commit"
             \/ pc'[t] = "RESEARCH" /\ job[t].kind = "sync"
          /\ \A u \in Tx : u # t => pc'[u] = pc[u]
      BY <1>0, <1>7 DEF ReadExposure, SetStateRead, Read, SessionsOK
    <2> QED BY <2>1 DEF PickHeld, Universe
  <1>9. ASSUME NEW t \in Tx, SelectCandidates(t) PROVE PickHeld'
    <2>1. job[t].kind = "sync" BY <1>0, <1>9, QueryEffect DEF PickHeld
    <2> QED BY <1>0, <1>9, <2>1, QueryEffect DEF PickHeld
  <1>8. ASSUME NEW t \in Tx,
               \/ SyncCommit(t) \/ SetStateCommit(t) \/ SetStateRefuse(t)
               \/ SetStateDuplicate(t) \/ Abort(t)
        PROVE  PickHeld'
    <2>1. Finish(t)
      BY <1>8 DEF SyncCommit, SetStateCommit, SetStateRefuse, SetStateDuplicate, Abort
    <2> QED BY <1>0, <2>1, FinishHeld
  <1> QED BY <1>1, <1>2, <1>3, <1>5, <1>6, <1>7, <1>8, <1>9 DEF Next

-----------------------------------------------------------------------------
(* What an operator call read is still so when it commits.                 *)

\* A call comes to its reactivation by its read, and keeps what it read.
LEMMA PendingStep ==
    ASSUME TypeOK, PickHeld, [Next]_vars, NEW u \in Tx, u \in Pending'
    PROVE  \/ SetStateRead(u)
           \/ u \in Pending /\ pc'[u] = pc[u] /\ view'[u] = view[u]
  <1>0. TablesOK /\ SessionsOK /\ PickHeld BY TypeParts
  <1>p. /\ pc'[u] = "commit" /\ job'[u].kind = "operator" /\ ~view'[u].settled
        /\ Unskips(job[u])'
    BY DEF Pending
  \* Nothing happened to the session and the events of its pick.
  <1>1. ASSUME opEvents' = opEvents,
               pc[u] = "commit" /\ job'[u] = job[u] /\ view'[u] = view[u]
        PROVE  u \in Pending /\ pc'[u] = pc[u] /\ view'[u] = view[u]
    <2>1. Unskips(job[u]) BY <1>p, <1>1 DEF Unskips
    <2> QED BY <1>p, <1>1, <2>1 DEF Pending
  <1>2. CASE UNCHANGED vars \/ Tick BY <1>p, <1>1, <1>2 DEF vars, Tick
  <1>3. ASSUME NEW c \in Candidate, Publish(c) \/ SettleAtSource(c) \/ ReopenAtSource(c)
        PROVE  u \in Pending /\ pc'[u] = pc[u] /\ view'[u] = view[u]
    BY <1>p, <1>1, <1>3 DEF Publish, SettleAtSource, ReopenAtSource
  <1>4. ASSUME NEW t \in Tx, BeginSync(t) \/ BeginSetState(t) \/ LockSync(t) \/ LockPick(t)
        PROVE  u \in Pending /\ pc'[u] = pc[u] /\ view'[u] = view[u]
    <2>1. /\ opEvents' = opEvents /\ view' = view /\ pc'[t] # "commit"
          /\ \A v \in Tx : v # t => pc'[v] = pc[v] /\ job'[v] = job[v]
      BY <1>0, <1>4
      DEF BeginSync, BeginSetState, Begin, LockSync, LockPick, Take, SessionsOK
    <2> QED BY <1>p, <1>1, <2>1
  <1>5. ASSUME NEW t \in Tx, ReadExposure(t) \/ SetStateRead(t), ~SetStateRead(u)
        PROVE  u \in Pending /\ pc'[u] = pc[u] /\ view'[u] = view[u]
    <2>1. /\ opEvents' = opEvents /\ job' = job
          /\ \A v \in Tx : v # t => pc'[v] = pc[v] /\ view'[v] = view[v]
      BY <1>0, <1>5 DEF ReadExposure, SetStateRead, Read, SessionsOK
    <2>2. u # t
      <3>1. job[u].kind = "operator" BY <1>p, <2>1
      <3> QED BY <3>1, <1>5 DEF ReadExposure
    <2> QED BY <1>p, <1>1, <2>1, <2>2
  <1>9. ASSUME NEW t \in Tx, SelectCandidates(t)
        PROVE  u \in Pending /\ pc'[u] = pc[u] /\ view'[u] = view[u]
    <2>1. job'[t].kind = "sync" BY <1>0, <1>9, QueryEffect DEF PickHeld
    <2> QED BY <1>0, <1>p, <1>1, <1>9, <2>1, QueryEffect
  <1>6. ASSUME NEW t \in Tx, Finish(t), opEvents' = opEvents
        PROVE  u \in Pending /\ pc'[u] = pc[u] /\ view'[u] = view[u]
    <2>1. /\ pc'[t] = "idle"
          /\ \A v \in Tx : v # t => pc'[v] = pc[v] /\ job'[v] = job[v] /\ view'[v] = view[v]
      BY <1>0, <1>6 DEF Finish, SessionsOK
    <2> QED BY <1>p, <1>1, <1>6, <2>1
  <1>7. ASSUME NEW t \in Tx, SyncCommit(t) \/ SetStateRefuse(t) \/ SetStateDuplicate(t) \/ Abort(t)
        PROVE  u \in Pending /\ pc'[u] = pc[u] /\ view'[u] = view[u]
    BY <1>6, <1>7 DEF SyncCommit, SetStateRefuse, SetStateDuplicate, Abort
  <1>8. ASSUME NEW t \in Tx, SetStateCommit(t)
        PROVE  u \in Pending /\ pc'[u] = pc[u] /\ view'[u] = view[u]
    <2>1. PICK n : n.pick = job[t].pick /\ opEvents' = opEvents \cup {n}
      BY <1>8 DEF SetStateCommit
    <2>2. /\ pc[t] = "commit" /\ job[t].kind = "operator" /\ pc'[t] = "idle"
          /\ \A v \in Tx : v # t => pc'[v] = pc[v] /\ job'[v] = job[v] /\ view'[v] = view[v]
      BY <1>0, <1>8 DEF SetStateCommit, Finish, SessionsOK
    <2>3. u # t /\ pc[u] = "commit" /\ job'[u] = job[u] /\ view'[u] = view[u] BY <1>p, <2>2
    <2>4. owner[PickLock(job[u].pick)] = u /\ owner[PickLock(job[t].pick)] = t
      BY <1>0, <1>p, <2>2, <2>3 DEF PickHeld
    <2>5. job[u].pick # job[t].pick BY <2>3, <2>4
    <2>6. Unskips(job[u])
      <3>1. \A e : e \in LatestEvents(opEvents \cup {n}, job[u].pick)
                       => e \in LatestEvents(opEvents, job[u].pick)
        BY <2>1, <2>5 DEF LatestEvents
      <3>2. job'[u].state = "PLAYED" /\ \E e \in LatestEvents(opEvents', job'[u].pick) :
              e.state = "SKIPPED" /\ job'[u].occurred >= e.occurred
        BY <1>p DEF Unskips
      <3> QED BY <2>1, <2>3, <3>1, <3>2 DEF Unskips
    <2> QED BY <1>p, <2>3, <2>6 DEF Pending
  <1> QED BY <1>2, <1>3, <1>4, <1>5, <1>7, <1>8, <1>9 DEF Next

\* What the read of an operator call establishes.
LEMMA ReadChecks ==
    ASSUME TypeOK, NEW t \in Tx, SetStateRead(t)
    PROVE  /\ view'[t].exposure = OpenExposure /\ view'[t].settled = (job[t].pick \in settled)
           /\ t \in Pending' => OpenExposure + Stake <= MaxOpenExposure
  <1>0. TablesOK /\ SessionsOK BY TypeParts
  <1>1. /\ opEvents' = opEvents /\ job' = job
        /\ view'[t].exposure = OpenExposure /\ view'[t].settled = (job[t].pick \in settled)
        /\ ~(Reactivates(job[t]) /\ OpenExposure + Stake > MaxOpenExposure)
    BY <1>0 DEF SetStateRead, Read, SessionsOK
  <1>2. OpenExposure \in Nat BY <1>0, ExposureIsNat
  <1>3. ASSUME t \in Pending' PROVE OpenExposure + Stake <= MaxOpenExposure
    <2>1. ~view'[t].settled /\ Unskips(job[t])' BY <1>3 DEF Pending
    <2>2. Unskips(job[t]) /\ job[t].pick \notin settled BY <1>1, <2>1 DEF Unskips
    <2>3. Reactivates(job[t]) BY <2>2 DEF Reactivates, Unskips
    <2>4. ~(OpenExposure + Stake > MaxOpenExposure) BY <1>1, <2>3
    <2> QED BY <1>2, <2>4, FunnelAssumption
  <1> QED BY <1>1, <1>3

LEMMA SnapshotStep ==
    ASSUME FunnelInv, [Next]_vars
    PROVE  Snapshot'
  <1> SUFFICES ASSUME NEW u \in Tx, u \in Pending'
               PROVE  view'[u].exposure + Stake <= MaxOpenExposure
    BY DEF Snapshot, Pending
  <1>0. TypeOK /\ PickHeld /\ Snapshot BY DEF FunnelInv
  <1>1. CASE SetStateRead(u) BY <1>0, <1>1, ReadChecks
  <1>2. CASE u \in Pending /\ view'[u] = view[u] BY <1>0, <1>2 DEF Snapshot
  <1> QED BY <1>0, <1>1, <1>2, PendingStep

\* The invariant holds from the start and is kept by every step.
THEOREM FunnelInvariance == Spec => []FunnelInv
  <1>1. Init => FunnelInv
    <2> SUFFICES ASSUME Init PROVE FunnelInv OBVIOUS
    <2>1. NoView \in View /\ clock \in Time BY FunnelAssumption DEF Init, NoView, View, Time
    <2>2. TablesOK BY DEF Init, TablesOK
    <2>3. SessionsOK BY <2>1 DEF Init, SessionsOK, NoView
    <2>4. PickHeld /\ Snapshot BY DEF Init, PickHeld, Snapshot, Pending, Universe
    <2> QED BY <2>2, <2>3, <2>4, TypeParts DEF FunnelInv
  <1>2. FunnelInv /\ [Next]_vars => FunnelInv'
    BY TypeStep, HeldStep, SnapshotStep DEF FunnelInv
  <1> QED BY <1>1, <1>2, PTL DEF Spec

\* Every table, lock and session keeps its shape, for every value of the constants.
THEOREM FunnelTypes == Spec => []TypeOK
  <1>1. FunnelInv => TypeOK BY DEF FunnelInv
  <1> QED BY <1>1, FunnelInvariance, PTL

-----------------------------------------------------------------------------
(* The intake order.                                                       *)

LEMMA BucketRanks ==
    ASSUME NEW order \in BucketOrders
    PROVE  order \in [Bucket -> Nat]
  <1>1. Cardinality(Bucket) \in Nat BY FunnelAssumption, FS_CardinalityType
  <1>2. order \in [Bucket -> 1 .. Cardinality(Bucket)] BY DEF BucketOrders
  <1>3. 1 .. Cardinality(Bucket) \subseteq Nat BY <1>1
  <1> QED BY <1>2, <1>3

\* The priority of a candidate is the first of its buckets.
LEMMA PriorityIsFirst ==
    ASSUME NEW order \in BucketOrders, NEW c \in Candidate
    PROVE  /\ Priority(order, c) \in Nat
           /\ \A b \in BucketsOf[c] : Priority(order, c) <= order[b]
           /\ \E b \in BucketsOf[c] : Priority(order, c) = order[b]
  <1> DEFINE ranks == {order[b] : b \in BucketsOf[c]}
  <1>1. BucketsOf[c] \subseteq Bucket /\ BucketsOf[c] # {} BY FunnelAssumption
  <1>2. ranks \in SUBSET Nat /\ ranks # {} BY <1>1, BucketRanks
  <1>3. \E x \in ranks : \A y \in ranks : x <= y BY <1>2, Least
  <1>4. Priority(order, c) = CHOOSE x \in ranks : \A y \in ranks : x <= y
    BY DEF Priority, Min
  <1>5. Priority(order, c) \in ranks /\ \A y \in ranks : Priority(order, c) <= y
    BY <1>3, <1>4
  <1> QED BY <1>2, <1>5

\* The intake order is a strict total order of the candidates.
LEMMA SortOrder ==
    ASSUME NEW order \in BucketOrders,
           NEW c \in Candidate, NEW d \in Candidate, NEW e \in Candidate
    PROVE  /\ ~SortsBefore(order, c, c)
           /\ SortsBefore(order, c, d) \/ SortsBefore(order, d, c) \/ c = d
           /\ SortsBefore(order, c, d) /\ SortsBefore(order, d, e) => SortsBefore(order, c, e)
  <1>1. /\ Priority(order, c) \in Nat /\ Priority(order, d) \in Nat /\ Priority(order, e) \in Nat
    BY PriorityIsFirst
  <1>2. /\ Kickoff[c] \in Nat /\ Kickoff[d] \in Nat /\ Kickoff[e] \in Nat
        /\ Tie[c] \in Nat /\ Tie[d] \in Nat /\ Tie[e] \in Nat
        /\ Tie[c] = Tie[d] => c = d
    BY FunnelAssumption
  <1> QED BY <1>1, <1>2 DEF SortsBefore

\* PRODUCTION_CORNER_PRIORITY: a corner pick comes before one that is not.
LEMMA CornersSortFirst ==
    ASSUME NEW order \in BucketOrders, NEW c \in Candidate, NEW d \in Candidate,
           CornerPick(c), ~CornerPick(d)
    PROVE  SortsBefore(order, c, d)
  <1>1. PICK b \in BucketsOf[c] : CornerRank[b] > 0 BY DEF CornerPick
  <1>2. PICK a \in BucketsOf[d] : Priority(order, d) = order[a] BY PriorityIsFirst
  <1>3. a \in Bucket /\ b \in Bucket BY FunnelAssumption
  <1>4. ~(CornerRank[a] > 0) BY DEF CornerPick
  <1>5. CornerRank[a] \in 0 .. 2 /\ CornerRank[b] \in 0 .. 2 BY <1>3, FunnelAssumption
  <1>6. CornerRank[b] > CornerRank[a] BY <1>1, <1>4, <1>5
  <1>7. order[b] < order[a] BY <1>3, <1>6 DEF BucketOrders
  <1>8. Priority(order, c) <= order[b] BY PriorityIsFirst
  <1>9. /\ Priority(order, c) \in Nat /\ order[a] \in Nat /\ order[b] \in Nat
    BY <1>3, PriorityIsFirst, BucketRanks
  <1> QED BY <1>2, <1>7, <1>8, <1>9 DEF SortsBefore

\* The picks cloned ahead of a candidate.
Ahead(C, order, c) == {d \in C : SortsBefore(order, d, c)}

LEMMA AheadGrows ==
    ASSUME NEW C \in SUBSET Candidate, NEW order \in BucketOrders,
           NEW c \in Candidate, NEW d \in Candidate, SortsBefore(order, c, d)
    PROVE  /\ Ahead(C, order, c) \subseteq Ahead(C, order, d)
           /\ Cardinality(Ahead(C, order, c)) \in Nat /\ Cardinality(Ahead(C, order, d)) \in Nat
           /\ Cardinality(Ahead(C, order, c)) <= Cardinality(Ahead(C, order, d))
           /\ c \in C => Cardinality(Ahead(C, order, c)) < Cardinality(Ahead(C, order, d))
  <1>1. \A x \in C : SortsBefore(order, x, c) => SortsBefore(order, x, d) BY SortOrder
  <1>2. Ahead(C, order, c) \subseteq Ahead(C, order, d) BY <1>1 DEF Ahead
  <1>3. Ahead(C, order, c) \in SUBSET Candidate /\ Ahead(C, order, d) \in SUBSET Candidate
    BY DEF Ahead
  <1>4. /\ Cardinality(Ahead(C, order, c)) \in Nat /\ Cardinality(Ahead(C, order, d)) \in Nat
        /\ Cardinality(Ahead(C, order, c)) <= Cardinality(Ahead(C, order, d))
    BY <1>2, <1>3, CandidateSets
  <1>5. ASSUME c \in C
        PROVE  Cardinality(Ahead(C, order, c)) < Cardinality(Ahead(C, order, d))
    <2>1. c \notin Ahead(C, order, c) BY SortOrder DEF Ahead
    <2>2. Ahead(C, order, c) \cup {c} \subseteq Ahead(C, order, d) BY <1>2, <1>5 DEF Ahead
    <2>3. IsFiniteSet(Ahead(C, order, c)) BY <1>3, CandidateSets
    <2>4. Cardinality(Ahead(C, order, c) \cup {c}) = Cardinality(Ahead(C, order, c)) + 1
      BY <2>1, <2>3, FS_AddElement
    <2>5. Cardinality(Ahead(C, order, c) \cup {c}) <= Cardinality(Ahead(C, order, d))
      BY <1>3, <2>2, CandidateSets
    <2> QED BY <1>4, <2>4, <2>5
  <1> QED BY <1>2, <1>4, <1>5

\* The last pick cloned has all the others ahead of it.
LEMMA LastCloned ==
    ASSUME NEW C \in SUBSET Candidate, C # {}, NEW order \in BucketOrders
    PROVE  \E c \in C : Ahead(C, order, c) = C \ {c}
  <1> DEFINE counts == {Cardinality(Ahead(C, order, c)) : c \in C}
  <1>1. \A c \in C : /\ Cardinality(Ahead(C, order, c)) \in Nat
                     /\ Cardinality(Ahead(C, order, c)) <= Cardinality(C)
    BY CandidateSets DEF Ahead
  <1>2. Cardinality(C) \in Nat BY CandidateSets
  <1>3. counts \in SUBSET Nat /\ counts # {} /\ \A x \in counts : x <= Cardinality(C)
    BY <1>1
  <1>4. \E x \in counts : \A y \in counts : y <= x BY <1>2, <1>3, Greatest
  <1>5. PICK c \in C : \A d \in C : Cardinality(Ahead(C, order, d)) <= Cardinality(Ahead(C, order, c))
    BY <1>4
  <1>6. ASSUME NEW d \in C, d # c PROVE SortsBefore(order, d, c)
    <2> SUFFICES ASSUME SortsBefore(order, c, d) PROVE FALSE BY <1>6, SortOrder
    <2>1. Cardinality(Ahead(C, order, c)) < Cardinality(Ahead(C, order, d)) BY AheadGrows
    <2> QED BY <1>1, <1>5, <2>1
  <1>7. ~SortsBefore(order, c, c) BY SortOrder
  <1>8. Ahead(C, order, c) = C \ {c} BY <1>6, <1>7 DEF Ahead
  <1> QED BY <1>8

\* A sync's stakes fit on top of the exposure it read.
LEMMA IntakeFits ==
    ASSUME NEW C \in SUBSET Candidate, C # {}, NEW order \in BucketOrders, NEW seen,
           C \subseteq seen, NEW x \in Nat, Intake(C, order, seen, x)
    PROVE  x + Stake * Cardinality(C) <= MaxOpenExposure
  <1>1. PICK c \in C : Ahead(C, order, c) = C \ {c} BY LastCloned
  <1>2. x + Stake * Cardinality(C \ {c}) + Stake <= MaxOpenExposure
    BY <1>1 DEF Intake, Ahead
  <1>3. IsFiniteSet(C) /\ Cardinality(C) \in Nat BY CandidateSets
  <1>4. Cardinality(C \ {c}) = Cardinality(C) - 1 BY <1>3, FS_RemoveElement
  <1>5. PICK n \in Nat : n = Cardinality(C \ {c}) BY CandidateSets
  <1>6. Cardinality(C) = n + 1 BY <1>3, <1>4, <1>5
  <1>7. Stake \in Nat /\ MaxOpenExposure \in Nat /\ Stake * n \in Nat BY FunnelAssumption
  <1>8. Stake * (n + 1) = Stake * n + Stake BY <1>7
  <1> QED BY <1>2, <1>5, <1>6, <1>7, <1>8

\* A candidate that sorts before a pick that was cloned was not blocked.
LEMMA IntakeFollowsOrder ==
    ASSUME NEW C \in SUBSET Candidate, NEW order \in BucketOrders, NEW seen,
           C \subseteq seen, NEW x \in Nat, Intake(C, order, seen, x),
           NEW c \in seen, c \in Candidate, NEW d \in C, SortsBefore(order, c, d)
    PROVE  c \in C \/ Conflicts(picks \cup Ahead(C, order, c), c)
  <1>1. x + Stake * Cardinality(Ahead(C, order, d)) + Stake <= MaxOpenExposure
    BY DEF Intake, Ahead
  <1>2. /\ Cardinality(Ahead(C, order, c)) \in Nat /\ Cardinality(Ahead(C, order, d)) \in Nat
        /\ Cardinality(Ahead(C, order, c)) <= Cardinality(Ahead(C, order, d))
    BY AheadGrows
  <1>3. /\ Stake * Cardinality(Ahead(C, order, c)) \in Nat
        /\ Stake * Cardinality(Ahead(C, order, d)) \in Nat
        /\ Stake * Cardinality(Ahead(C, order, c)) <= Stake * Cardinality(Ahead(C, order, d))
    BY <1>2, StakesGrow
  <1>4. x + Stake * Cardinality(Ahead(C, order, c)) + Stake <= MaxOpenExposure
    BY <1>1, <1>3, FunnelAssumption
  <1> QED BY <1>4 DEF Intake, Ahead

-----------------------------------------------------------------------------
(* The theorems.                                                           *)

\* Who is at the end of a transaction after a step.
LEMMA CommitIs ==
    ASSUME SessionsOK, [Next]_vars, NEW t \in Tx, pc[t] = "commit", pc'[t] = "idle"
    PROVE  SyncCommit(t) \/ SetStateDuplicate(t) \/ SetStateCommit(t) \/ Abort(t)
  <1>1. CASE UNCHANGED vars \/ Tick BY <1>1 DEF vars, Tick
  <1>2. ASSUME NEW c \in Candidate, Publish(c) \/ SettleAtSource(c) \/ ReopenAtSource(c)
        PROVE  FALSE
    BY <1>2 DEF Publish, SettleAtSource, ReopenAtSource
  <1>3. ASSUME NEW u \in Tx,
               \/ BeginSync(u) \/ LockSync(u) \/ ReadExposure(u) \/ SelectCandidates(u)
               \/ BeginSetState(u)
               \/ LockPick(u) \/ SetStateRefuse(u) \/ SetStateRead(u)
        PROVE  FALSE
    <2>1. pc[u] # "commit" /\ \A v \in Tx : v # u => pc'[v] = pc[v]
      BY <1>3
      DEF BeginSync, LockSync, ReadExposure, SelectCandidates, BeginSetState, LockPick,
          SetStateRefuse, SetStateRead, Begin, Take, Read, Finish, SessionsOK, Universe
    <2> QED BY <2>1
  <1>4. ASSUME NEW u \in Tx,
               SyncCommit(u) \/ SetStateDuplicate(u) \/ SetStateCommit(u) \/ Abort(u)
        PROVE  u = t
    <2>1. Finish(u)
      BY <1>4 DEF SyncCommit, SetStateDuplicate, SetStateCommit, Abort
    <2>2. \A v \in Tx : v # u => pc'[v] = pc[v] BY <2>1 DEF Finish, SessionsOK
    <2> QED BY <2>2
  <1> QED BY <1>1, <1>2, <1>3, <1>4 DEF Next

\* PRODUCTION_CORNER_PRIORITY, whatever the ROI ranking and the buckets are: a
\* sync that clones a pick of another universe leaves no corner pick it has seen
\* behind, however its universes publish between its queries and its commit.
THEOREM CornersComeFirst == Spec => CornerFirst
  <1> DEFINE Step == \A t \in Tx, c \in Candidate, d \in picks' \ picks :
                        /\ pc[t] = "commit" /\ pc'[t] = "idle" /\ job[t].kind = "sync"
                        /\ c \in view[t].seen /\ CornerPick(c) /\ ~CornerPick(d)
                        => \E e \in picks' : FixtureOf[e] = FixtureOf[c]
  <1>1. FunnelInv /\ [Next]_vars => Step
    <2> SUFFICES ASSUME FunnelInv, [Next]_vars, NEW t \in Tx, NEW c \in Candidate,
                        NEW d \in picks' \ picks,
                        pc[t] = "commit", pc'[t] = "idle", job[t].kind = "sync",
                        c \in view[t].seen, CornerPick(c), ~CornerPick(d)
                 PROVE  \E e \in picks' : FixtureOf[e] = FixtureOf[c]
      OBVIOUS
    <2>0. TablesOK /\ SessionsOK BY TypeParts DEF FunnelInv
    <2>1. SyncCommit(t)
      <3>1. SyncCommit(t) \/ SetStateDuplicate(t) \/ SetStateCommit(t) \/ Abort(t)
        BY <2>0, CommitIs
      <3> QED BY <3>1 DEF SetStateDuplicate, SetStateCommit, Abort
    <2>2. PICK order \in BucketOrders, C \in SUBSET view[t].seen :
            Intake(C, order, view[t].seen, view[t].exposure) /\ picks' = picks \cup C
      BY <2>1 DEF SyncCommit
    <2>3. d \in C /\ C \in SUBSET Candidate BY <2>0, <2>2 DEF SessionsOK, View
    <2>4. view[t].exposure \in Nat BY <2>0 DEF SessionsOK, View
    <2>5. SortsBefore(order, c, d) BY <2>3, CornersSortFirst
    <2>6. c \in C \/ Conflicts(picks \cup Ahead(C, order, c), c)
      BY <2>2, <2>3, <2>4, <2>5, IntakeFollowsOrder
    <2>7. CASE c \in C BY <2>2, <2>7
    <2>8. CASE Conflicts(picks \cup Ahead(C, order, c), c)
      <3>1. PICK e \in picks \cup Ahead(C, order, c) : e = c \/ FixtureOf[e] = FixtureOf[c]
        BY <2>8 DEF Conflicts
      <3>2. e \in picks' BY <2>2, <3>1 DEF Ahead
      <3> QED BY <3>1, <3>2
    <2> QED BY <2>6, <2>7, <2>8
  <1> QED BY <1>1, FunnelInvariance, PTL DEF Spec, CornerFirst

\* Open picks that grow by a set of candidates raise the exposure by their stakes.
LEMMA ExposureGrows ==
    ASSUME TablesOK, TablesOK', NEW C \in SUBSET Candidate, OpenPicks' \subseteq OpenPicks \cup C
    PROVE  /\ OpenExposure \in Nat /\ OpenExposure' \in Nat /\ Stake * Cardinality(C) \in Nat
           /\ OpenExposure' <= OpenExposure + Stake * Cardinality(C)
  <1>1. /\ OpenPicks \in SUBSET Candidate /\ OpenPicks' \in SUBSET Candidate
        /\ OpenExposure \in Nat /\ Cardinality(OpenPicks) \in Nat
    BY ExposureIsNat, CandidateSets DEF TablesOK, OpenPicks
  <1>2. OpenPicks \cup C \in SUBSET Candidate BY <1>1
  <1>3. IsFiniteSet(OpenPicks) /\ IsFiniteSet(C) /\ Cardinality(C) \in Nat
    BY <1>1, CandidateSets
  <1>4. /\ Cardinality(OpenPicks \cup C) =
             Cardinality(OpenPicks) + Cardinality(C) - Cardinality(OpenPicks \cap C)
        /\ Cardinality(OpenPicks \cap C) \in Nat
    BY <1>1, <1>3, FS_Union, CandidateSets
  <1>5. /\ Cardinality(OpenPicks') <= Cardinality(OpenPicks \cup C)
        /\ Cardinality(OpenPicks') \in Nat /\ Cardinality(OpenPicks \cup C) \in Nat
    BY <1>1, <1>2, CandidateSets
  <1>6. Cardinality(OpenPicks') <= Cardinality(OpenPicks) + Cardinality(C)
    BY <1>1, <1>3, <1>4, <1>5
  <1>7. /\ Stake * Cardinality(OpenPicks') <= Stake * (Cardinality(OpenPicks) + Cardinality(C))
        /\ Stake * Cardinality(OpenPicks') \in Nat
    BY <1>1, <1>3, <1>5, <1>6, StakesGrow
  <1>8. Stake * (Cardinality(OpenPicks) + Cardinality(C))
          = Stake * Cardinality(OpenPicks) + Stake * Cardinality(C)
    BY <1>1, <1>3, FunnelAssumption
  <1>9. Stake * Cardinality(C) \in Nat BY <1>3, StakesGrow
  <1> QED BY <1>1, <1>7, <1>8, <1>9 DEF OpenExposure

LEMMA ExposureShrinks ==
    ASSUME TablesOK, TablesOK', OpenPicks' \subseteq OpenPicks
    PROVE  OpenExposure \in Nat /\ OpenExposure' \in Nat /\ OpenExposure' <= OpenExposure
  <1>1. OpenPicks' \subseteq OpenPicks \cup {} /\ {} \in SUBSET Candidate OBVIOUS
  <1>2. /\ OpenExposure \in Nat /\ OpenExposure' \in Nat
        /\ OpenExposure' <= OpenExposure + Stake * Cardinality({})
    BY <1>1, ExposureGrows
  <1>3. Stake * Cardinality({}) = 0 BY FS_EmptySet, FunnelAssumption
  <1> QED BY <1>2, <1>3

\* What a sync adds fits on top of what it read.
LEMMA SyncRaises ==
    ASSUME TablesOK, SessionsOK, NEW t \in Tx, SyncCommit(t)
    PROVE  \E C \in SUBSET Candidate :
               /\ OpenPicks' \subseteq OpenPicks \cup C
               /\ C # {} => view[t].exposure + Stake * Cardinality(C) <= MaxOpenExposure
  <1>1. PICK order \in BucketOrders, C \in SUBSET view[t].seen :
          Intake(C, order, view[t].seen, view[t].exposure) /\ picks' = picks \cup C
    BY DEF SyncCommit
  <1>2. opEvents' = opEvents /\ settled \subseteq settled' BY DEF SyncCommit
  <1>3. OpenPicks' \subseteq OpenPicks \cup C BY <1>1, <1>2 DEF OpenPicks, EffectiveState
  <1>4. C \in SUBSET Candidate BY <1>1 DEF SessionsOK, View
  <1>5. view[t].exposure \in Nat BY DEF SessionsOK, View
  <1>6. C # {} => view[t].exposure + Stake * Cardinality(C) <= MaxOpenExposure
    BY <1>1, <1>4, <1>5, IntakeFits
  <1> QED BY <1>3, <1>4, <1>6

\* An operator call adds its pick, and only if it reactivates it.
LEMMA OperatorRaises ==
    ASSUME TablesOK, SessionsOK, NEW t \in Tx, SetStateCommit(t)
    PROVE  /\ job[t].pick \in Candidate
           /\ OpenPicks' \subseteq OpenPicks \cup {job[t].pick}
           /\ \/ OpenPicks' \subseteq OpenPicks
              \/ Unskips(job[t]) /\ job[t].pick \notin settled
  <1>1. job[t] \in OperatorJob BY JobKinds DEF SetStateCommit, SessionsOK
  <1>2. PICK n : n = [id |-> job[t].request, pick |-> job[t].pick, state |-> job[t].state,
                      occurred |-> job[t].occurred, persisted |-> job[t].started]
    OBVIOUS
  <1>3. /\ n \in EventRow /\ n.pick = job[t].pick /\ n.id = job[t].request
        /\ n.state = job[t].state /\ n.occurred = job[t].occurred
        /\ job[t].pick \in Candidate
    BY <1>1, <1>2, JobKinds DEF EventRow
  <1>4. /\ opEvents' = opEvents \cup {n} /\ picks' = picks /\ settled' = settled
        /\ \A x \in opEvents : x.id # n.id
    BY <1>2, <1>3 DEF SetStateCommit, Replayed
  <1>5. \A c : c # n.pick => EffectiveState(c)' = EffectiveState(c)
    BY <1>4, OtherPicksKeepState DEF EffectiveState
  <1>6. OpenPicks' \subseteq OpenPicks \cup {n.pick} BY <1>4, <1>5 DEF OpenPicks
  <1>7. ASSUME ~(OpenPicks' \subseteq OpenPicks)
        PROVE  Unskips(job[t]) /\ job[t].pick \notin settled
    <2>1. /\ StateIn(opEvents, n.pick) = "SKIPPED"
          /\ StateIn(opEvents \cup {n}, n.pick) # "SKIPPED"
          /\ n.pick \notin settled
      BY <1>4, <1>5, <1>7 DEF OpenPicks, EffectiveState
    <2>2. /\ n.state = "PLAYED"
          /\ \E e \in LatestEvents(opEvents, n.pick) : e.state = "SKIPPED" /\ n.occurred >= e.occurred
      BY <1>3, <1>4, <2>1, OnlyReactivationUnskips DEF TablesOK
    <2> QED BY <1>3, <2>1, <2>2 DEF Unskips
  <1> QED BY <1>3, <1>6, <1>7

\* Nothing else opens a pick, unless its universe reopens it.
LEMMA RestRaisesNothing ==
    ASSUME [Next]_vars, ~(OpenPicks' \subseteq OpenPicks)
    PROVE  \/ \E t \in Tx : SyncCommit(t) \/ SetStateCommit(t)
           \/ \E c \in Candidate : ReopenAtSource(c)
  <1>1. ~UNCHANGED <<picks, opEvents, settled>> BY DEF OpenPicks, EffectiveState
  <1>2. ~UNCHANGED vars /\ ~Tick BY <1>1 DEF vars, Tick
  <1>3. ASSUME NEW c \in Candidate, Publish(c) \/ SettleAtSource(c) PROVE FALSE
    BY <1>3 DEF Publish, SettleAtSource, OpenPicks, EffectiveState
  <1>4. ASSUME NEW t \in Tx,
               \/ BeginSync(t) \/ LockSync(t) \/ ReadExposure(t) \/ SelectCandidates(t)
               \/ BeginSetState(t)
               \/ LockPick(t) \/ SetStateRefuse(t) \/ SetStateRead(t) \/ SetStateDuplicate(t)
               \/ Abort(t)
        PROVE  FALSE
    <2>1. UNCHANGED <<picks, opEvents, settled>>
      BY <1>4
      DEF BeginSync, LockSync, ReadExposure, SelectCandidates, BeginSetState, LockPick,
          SetStateRefuse, SetStateRead, SetStateDuplicate, Abort, Begin, Take, Read
    <2> QED BY <1>1, <2>1
  <1> QED BY <1>2, <1>3, <1>4 DEF Next

\* What is left of the cap when sessions and universes interleave, for any number
\* of them: only an exposure overtaken after the read lets a commit exceed it.
THEOREM CapHoldsUnlessOvertaken == Spec => CapUnlessOvertaken
  <1> DEFINE Step == \A t \in Tx :
                        /\ pc[t] = "commit" /\ pc'[t] = "idle" /\ OpenExposure' > OpenExposure
                        /\ view[t].exposure >= OpenExposure /\ ~view[t].settled
                        => OpenExposure' <= MaxOpenExposure
  <1>1. FunnelInv /\ FunnelInv' /\ [Next]_vars => Step
    <2> SUFFICES ASSUME FunnelInv, FunnelInv', [Next]_vars, NEW t \in Tx,
                        pc[t] = "commit", pc'[t] = "idle", OpenExposure' > OpenExposure,
                        view[t].exposure >= OpenExposure, ~view[t].settled
                 PROVE  OpenExposure' <= MaxOpenExposure
      OBVIOUS
    <2>0. TablesOK /\ SessionsOK /\ TablesOK' /\ Snapshot
      BY TypeParts DEF FunnelInv, TypeOK, TablesOK
    <2>1. view[t].exposure \in Nat /\ MaxOpenExposure \in Nat /\ Stake \in Nat
      BY <2>0, FunnelAssumption DEF SessionsOK, View
    <2>2. OpenExposure \in Nat BY <2>0, ExposureIsNat
    <2>3. ~(OpenPicks' \subseteq OpenPicks) BY <2>0, <2>2, ExposureShrinks
    <2>4. CASE SyncCommit(t)
      <3>1. PICK C \in SUBSET Candidate :
              /\ OpenPicks' \subseteq OpenPicks \cup C
              /\ C # {} => view[t].exposure + Stake * Cardinality(C) <= MaxOpenExposure
        BY <2>0, <2>4, SyncRaises
      <3>2. C # {} BY <2>3, <3>1
      <3>3. /\ OpenExposure' <= OpenExposure + Stake * Cardinality(C)
            /\ OpenExposure' \in Nat /\ Stake * Cardinality(C) \in Nat
        BY <2>0, <3>1, ExposureGrows
      <3> QED BY <2>1, <2>2, <3>1, <3>2, <3>3
    <2>5. CASE SetStateCommit(t)
      <3>1. /\ job[t].pick \in Candidate /\ Unskips(job[t])
            /\ OpenPicks' \subseteq OpenPicks \cup {job[t].pick}
        BY <2>0, <2>3, <2>5, OperatorRaises
      <3>2. view[t].exposure + Stake <= MaxOpenExposure
        BY <2>0, <2>5, <3>1 DEF Snapshot, Pending, SetStateCommit
      <3>3. {job[t].pick} \in SUBSET Candidate /\ Cardinality({job[t].pick}) = 1
        BY <3>1, FS_Singleton
      <3>4. OpenExposure' <= OpenExposure + Stake * 1 /\ OpenExposure' \in Nat
        BY <2>0, <3>1, <3>3, ExposureGrows
      <3> QED BY <2>1, <2>2, <3>2, <3>4
    <2>6. CASE SetStateDuplicate(t) \/ Abort(t)
      BY <2>3, <2>6 DEF SetStateDuplicate, Abort, OpenPicks, EffectiveState
    <2> QED BY <2>0, <2>4, <2>5, <2>6, CommitIs
  <1> QED BY <1>1, FunnelInvariance, PTL DEF Spec, CapUnlessOvertaken

-----------------------------------------------------------------------------
(* How far the cap is exceeded at most.                                    *)

\* A sync past its lock still owns it.
SyncHeld ==
    \A t \in Tx :
        /\ pc[t] = "pick" => job[t].kind = "operator"
        /\ pc[t] \in Universe \cup {"read", "commit"} /\ job[t].kind = "sync"
               => owner[SyncLock] = t

\* A pick that was settled at the read is settled at the commit.
SettledStays ==
    \A t \in Tx :
        pc[t] = "commit" /\ job[t].kind = "operator" /\ view[t].settled
            => job[t].pick \in settled

Syncing(t) == pc[t] \in Universe \cup {"commit"} /\ job[t].kind = "sync"

\* The exposure with all that is about to be added to it.
Expected == OpenExposure + Stake * Cardinality(Pending)
Limit == 2 * MaxOpenExposure + Stake * (Cardinality(Tx) - 2)

\* A sync may fill the room it read, whatever else is expected by then.
ExpectedBounded ==
    /\ Expected <= Limit
    /\ \A t \in Tx : Syncing(t) /\ view[t].exposure <= MaxOpenExposure =>
           Expected + (MaxOpenExposure - view[t].exposure) <= Limit

OvershootInv == FunnelInv /\ SyncHeld /\ SettledStays /\ ExpectedBounded

\* The advisory lock is given up at the end of the call only.
LEMMA SyncHeldStep ==
    ASSUME TypeOK, PickHeld, SyncHeld, [Next]_vars
    PROVE  SyncHeld'
  <1>0. TablesOK /\ SessionsOK BY TypeParts
  <1>1. CASE UNCHANGED vars \/ Tick BY <1>1 DEF vars, Tick, SyncHeld
  <1>2. ASSUME NEW c \in Candidate, Publish(c) \/ SettleAtSource(c) \/ ReopenAtSource(c)
        PROVE  SyncHeld'
    BY <1>2 DEF Publish, SettleAtSource, ReopenAtSource, SyncHeld
  <1>3. ASSUME NEW t \in Tx, BeginSync(t) \/ BeginSetState(t) PROVE SyncHeld'
    <2>1. /\ owner' = owner /\ pc'[t] \notin Universe \cup {"read", "commit"}
          /\ pc'[t] = "pick" => job'[t].kind = "operator"
          /\ \A u \in Tx : u # t => pc'[u] = pc[u] /\ job'[u] = job[u]
      BY <1>0, <1>3 DEF BeginSync, BeginSetState, Begin, SessionsOK, Universe
    <2> QED BY <2>1 DEF SyncHeld
  <1>4. ASSUME NEW t \in Tx, LockSync(t) \/ LockPick(t) PROVE SyncHeld'
    <2>1. /\ job' = job /\ \A u \in Tx : u # t => pc'[u] = pc[u]
          /\ \A m \in Lock : owner[m] # NoTx => owner'[m] = owner[m]
      BY <1>0, <1>4 DEF LockSync, LockPick, Take, SessionsOK
    <2>2. LockSync(t) => owner'[SyncLock] = t
      BY <1>0, LockKinds DEF LockSync, Take, SessionsOK
    <2>3. \A u \in Tx : u # NoTx BY FunnelAssumption
    <2>4. LockPick(t) => job[t].kind # "sync"
      BY DEF LockPick, SyncHeld
    <2>5. owner'[SyncLock] = t \/ job'[t].kind # "sync"
      BY <1>4, <2>1, <2>2, <2>4
    <2>6. ASSUME NEW u \in Tx, u # t, pc'[u] \in Universe \cup {"read", "commit"},
                 job'[u].kind = "sync"
          PROVE  owner'[SyncLock] = u
      <3>1. owner[SyncLock] = u BY <2>1, <2>6 DEF SyncHeld
      <3> QED BY <2>1, <2>3, <3>1, LockKinds
    <2>7. ASSUME NEW u \in Tx, pc'[u] = "pick" PROVE job'[u].kind = "operator"
      <3>1. u # t
        BY <1>0, <1>4, <2>7 DEF LockSync, LockPick, Take, SessionsOK
      <3> QED BY <2>1, <2>7, <3>1 DEF SyncHeld
    <2> QED BY <2>5, <2>6, <2>7 DEF SyncHeld
  <1>5. ASSUME NEW t \in Tx, ReadExposure(t) \/ SetStateRead(t) PROVE SyncHeld'
    <2>1. /\ pc[t] = "read" /\ pc'[t] \in {"RESEARCH", "commit"} /\ job' = job /\ owner' = owner
          /\ \A u \in Tx : u # t => pc'[u] = pc[u]
      BY <1>0, <1>5 DEF ReadExposure, SetStateRead, Read, SessionsOK
    <2> QED BY <2>1 DEF SyncHeld
  <1>7. ASSUME NEW t \in Tx, SelectCandidates(t) PROVE SyncHeld'
    <2>1. pc'[t] # "pick" BY <1>0, <1>7, QueryEffect DEF Universe
    <2> QED BY <1>0, <1>7, <2>1, QueryEffect DEF SyncHeld
  <1>6. ASSUME NEW t \in Tx, Finish(t) PROVE SyncHeld'
    <2>1. pc'[t] = "idle" BY <1>0, <1>6 DEF SessionsOK, Finish
    <2>2. ASSUME NEW u \in Tx, u # t
          PROVE  /\ pc'[u] = pc[u] /\ job'[u] = job[u]
                 /\ \A l \in Lock : owner[l] = u => owner'[l] = u
      BY <1>0, <1>6, <2>2, FunnelAssumption DEF SessionsOK, Finish
    <2> QED BY <2>1, <2>2, LockKinds DEF SyncHeld, Universe
  <1> QED
    <2>1. ASSUME NEW t \in Tx,
                 \/ SyncCommit(t) \/ SetStateRefuse(t) \/ SetStateDuplicate(t)
                 \/ SetStateCommit(t) \/ Abort(t)
          PROVE  SyncHeld'
      BY <1>6, <2>1
      DEF SyncCommit, SetStateRefuse, SetStateDuplicate, SetStateCommit, Abort
    <2> QED BY <1>1, <1>2, <1>3, <1>4, <1>5, <1>7, <2>1 DEF Next

\* A call whose pick was settled at its read: a step that takes no settlement
\* back keeps it so.
LEMMA SettledStaysStep ==
    ASSUME TypeOK, PickHeld, SettledStays, [Next]_vars, settled \subseteq settled'
    PROVE  SettledStays'
  <1> SUFFICES ASSUME NEW u \in Tx, pc'[u] = "commit", job'[u].kind = "operator",
                      view'[u].settled
               PROVE  job'[u].pick \in settled'
    BY DEF SettledStays
  <1>0. TablesOK /\ SessionsOK BY TypeParts
  <1>1. ASSUME pc[u] = "commit", job'[u] = job[u], view'[u] = view[u]
        PROVE  job'[u].pick \in settled'
    BY <1>1 DEF SettledStays
  <1>2. CASE UNCHANGED vars \/ Tick BY <1>1, <1>2 DEF vars, Tick
  <1>3. ASSUME NEW c \in Candidate, Publish(c) \/ SettleAtSource(c) \/ ReopenAtSource(c)
        PROVE  job'[u].pick \in settled'
    BY <1>1, <1>3 DEF Publish, SettleAtSource, ReopenAtSource
  <1>4. ASSUME NEW t \in Tx, BeginSync(t) \/ BeginSetState(t) \/ LockSync(t) \/ LockPick(t)
        PROVE  job'[u].pick \in settled'
    <2>1. /\ view' = view /\ pc'[t] # "commit"
          /\ \A v \in Tx : v # t => pc'[v] = pc[v] /\ job'[v] = job[v]
      BY <1>0, <1>4
      DEF BeginSync, BeginSetState, Begin, LockSync, LockPick, Take, SessionsOK
    <2> QED BY <1>1, <2>1
  <1>5. ASSUME NEW t \in Tx, ReadExposure(t) \/ SetStateRead(t)
        PROVE  job'[u].pick \in settled'
    <2>1. /\ job' = job /\ settled' = settled
          /\ \A v \in Tx : v # t => pc'[v] = pc[v] /\ view'[v] = view[v]
      BY <1>0, <1>5 DEF ReadExposure, SetStateRead, Read, SessionsOK
    <2>2. SetStateRead(t) => view'[t].settled = (job[t].pick \in settled)
      BY <1>0 DEF SetStateRead, Read, SessionsOK
    <2>3. ReadExposure(t) => ~view'[t].settled
      BY <1>0 DEF ReadExposure, Read, SessionsOK
    <2> QED BY <1>1, <1>5, <2>1, <2>2, <2>3
  <1>8. ASSUME NEW t \in Tx, SelectCandidates(t)
        PROVE  job'[u].pick \in settled'
    <2>1. job'[t].kind = "sync" BY <1>0, <1>8, QueryEffect DEF PickHeld
    <2> QED BY <1>0, <1>1, <1>8, <2>1, QueryEffect
  <1>6. ASSUME NEW t \in Tx, Finish(t)
        PROVE  job'[u].pick \in settled'
    <2>1. /\ pc'[t] = "idle"
          /\ \A v \in Tx : v # t => pc'[v] = pc[v] /\ job'[v] = job[v] /\ view'[v] = view[v]
      BY <1>0, <1>6 DEF Finish, SessionsOK
    <2> QED BY <1>1, <2>1
  <1>7. ASSUME NEW t \in Tx,
               \/ SyncCommit(t) \/ SetStateRefuse(t) \/ SetStateDuplicate(t)
               \/ SetStateCommit(t) \/ Abort(t)
        PROVE  job'[u].pick \in settled'
    BY <1>6, <1>7
    DEF SyncCommit, SetStateRefuse, SetStateDuplicate, SetStateCommit, Abort
  <1> QED BY <1>2, <1>3, <1>4, <1>5, <1>7, <1>8 DEF Next

\* At most one sync is between its read and its commit, and is no reactivation.
LEMMA OneSyncing ==
    ASSUME SyncHeld, NEW t \in Tx, Syncing(t)
    PROVE  /\ t \notin Pending
           /\ \A u \in Tx : Syncing(u) => u = t
  BY DEF SyncHeld, Syncing, Pending

\* Sets of sessions, and the stakes of their picks.
LEMMA SessionSets ==
    ASSUME IsFiniteSet(Tx), NEW S \in SUBSET Tx
    PROVE  /\ IsFiniteSet(S) /\ Cardinality(S) \in Nat /\ Stake * Cardinality(S) \in Nat
           /\ \A R \in SUBSET S : Stake * Cardinality(R) <= Stake * Cardinality(S)
           /\ \A x \in S : /\ Cardinality(S \ {x}) = Cardinality(S) - 1
                           /\ Stake * Cardinality(S \ {x}) = Stake * Cardinality(S) - Stake
  <1>1. IsFiniteSet(S) /\ Cardinality(S) \in Nat BY FS_Subset, FS_CardinalityType
  <1>2. Stake * Cardinality(S) \in Nat BY <1>1, StakesGrow
  <1>3. ASSUME NEW R \in SUBSET S PROVE Stake * Cardinality(R) <= Stake * Cardinality(S)
    <2>1. Cardinality(R) \in Nat /\ Cardinality(R) <= Cardinality(S)
      BY <1>1, FS_Subset, FS_CardinalityType
    <2> QED BY <1>1, <2>1, StakesGrow
  <1>4. ASSUME NEW x \in S
        PROVE  /\ Cardinality(S \ {x}) = Cardinality(S) - 1
               /\ Stake * Cardinality(S \ {x}) = Stake * Cardinality(S) - Stake
    <2>1. Cardinality(S \ {x}) = Cardinality(S) - 1 BY <1>1, FS_RemoveElement
    <2>2. Stake * (Cardinality(S) - 1) = Stake * Cardinality(S) - Stake
      BY <1>1, FunnelAssumption
    <2> QED BY <2>1, <2>2
  <1> QED BY <1>1, <1>2, <1>3, <1>4

\* What is expected is an amount, and the limit is what a reader has room for.
LEMMA Amounts ==
    ASSUME TypeOK, IsFiniteSet(Tx)
    PROVE  /\ OpenExposure \in Nat /\ Stake * Cardinality(Pending) \in Nat
           /\ Stake * Cardinality(Tx) \in Nat /\ Stake \in Nat /\ MaxOpenExposure \in Nat
           /\ Pending \in SUBSET Tx
           /\ Limit = 2 * MaxOpenExposure + Stake * Cardinality(Tx) - 2 * Stake
           /\ \A t \in Tx : view[t].exposure \in Nat
  <1>1. OpenExposure \in Nat BY TypeParts, ExposureIsNat
  <1>2. Pending \in SUBSET Tx BY DEF Pending
  <1>3. /\ Stake * Cardinality(Pending) \in Nat /\ Stake * Cardinality(Tx) \in Nat
        /\ Cardinality(Tx) \in Nat
    BY <1>2, SessionSets
  <1>4. Stake * (Cardinality(Tx) - 2) = Stake * Cardinality(Tx) - 2 * Stake
    BY <1>3, FunnelAssumption
  <1>5. \A t \in Tx : view[t].exposure \in Nat BY TypeParts DEF SessionsOK, View
  <1> QED BY <1>1, <1>2, <1>3, <1>4, <1>5, FunnelAssumption DEF Limit

\* The stakes of the reactivations to come leave room for a session that is none.
LEMMA RoomOfOthers ==
    ASSUME IsFiniteSet(Tx), NEW S \in SUBSET Tx, NEW t \in Tx, t \notin S
    PROVE  Stake * Cardinality(S) <= Stake * Cardinality(Tx) - Stake
  <1>1. S \in SUBSET (Tx \ {t}) /\ Tx \ {t} \in SUBSET Tx OBVIOUS
  <1>2. /\ Stake * Cardinality(S) <= Stake * Cardinality(Tx \ {t})
        /\ Stake * Cardinality(Tx \ {t}) = Stake * Cardinality(Tx) - Stake
    BY <1>1, SessionSets
  <1> QED BY <1>2

\* A step that expects no more, and reads nothing for a sync, keeps the bound.
LEMMA NothingMoreExpected ==
    ASSUME TypeOK, TypeOK', IsFiniteSet(Tx), ExpectedBounded, Expected' <= Expected,
           \A t \in Tx : Syncing(t)' => Syncing(t) /\ view'[t].exposure = view[t].exposure
    PROVE  ExpectedBounded'
  <1>1. Expected \in Nat /\ Expected' \in Nat
    <2>1. OpenExposure \in Nat /\ Stake * Cardinality(Pending) \in Nat BY Amounts
    <2>2. (OpenExposure \in Nat /\ Stake * Cardinality(Pending) \in Nat)'
      <3>0. OpenPicks' \in SUBSET Candidate BY DEF TypeOK, OpenPicks
      <3>1. OpenExposure' \in Nat BY <3>0, CandidateSets, StakesGrow DEF OpenExposure
      <3>2. Pending' \in SUBSET Tx BY DEF Pending
      <3> QED BY <3>1, <3>2, SessionSets
    <2> QED BY <2>1, <2>2 DEF Expected
  <1>2. Limit \in Int /\ MaxOpenExposure \in Nat BY Amounts
  <1>3. Expected' <= Limit BY <1>1, <1>2 DEF ExpectedBounded
  <1>4. ASSUME NEW t \in Tx, Syncing(t)', view'[t].exposure <= MaxOpenExposure
        PROVE  Expected' + (MaxOpenExposure - view'[t].exposure) <= Limit
    <2>1. view[t].exposure \in Nat /\ view'[t].exposure = view[t].exposure BY <1>4, Amounts
    <2>2. Expected + (MaxOpenExposure - view[t].exposure) <= Limit
      BY <1>4, <2>1 DEF ExpectedBounded
    <2> QED BY <1>1, <1>2, <2>1, <2>2
  <1> QED BY <1>3, <1>4 DEF ExpectedBounded, Limit, Syncing

\* A reader counts its stake, or the room it leaves, on top of what it read.
LEMMA ReadStep ==
    ASSUME OvershootInv, TypeOK', NEW t \in Tx, ReadExposure(t) \/ SetStateRead(t),
           IsFiniteSet(Tx), Stake <= MaxOpenExposure
    PROVE  ExpectedBounded'
  <1>0. TypeOK /\ SessionsOK /\ PickHeld /\ SyncHeld /\ ExpectedBounded /\ [Next]_vars
    BY TypeParts DEF OvershootInv, FunnelInv, Next
  <1>1. /\ OpenExposure' = OpenExposure /\ Limit' = Limit /\ job' = job /\ owner' = owner
        /\ pc[t] = "read"
        /\ \A u \in Tx : u # t => pc'[u] = pc[u] /\ view'[u] = view[u]
    <2>1. /\ picks' = picks /\ opEvents' = opEvents /\ settled' = settled
          /\ job' = job /\ owner' = owner /\ pc[t] = "read"
          /\ \A u \in Tx : u # t => pc'[u] = pc[u] /\ view'[u] = view[u]
      BY <1>0 DEF ReadExposure, SetStateRead, Read, SessionsOK
    <2>2. OpenPicks' = OpenPicks BY <2>1 DEF OpenPicks, EffectiveState
    <2> QED BY <2>1, <2>2 DEF OpenExposure, Limit
  <1> DEFINE X == OpenExposure
             P == Stake * Cardinality(Pending)
             Q == Stake * Cardinality(Pending')
             N == Stake * Cardinality(Tx)
             M == MaxOpenExposure
  <1>2. /\ X \in Nat /\ P \in Nat /\ N \in Nat /\ Stake \in Nat /\ M \in Nat
        /\ Pending \in SUBSET Tx /\ Pending' \in SUBSET Tx
        /\ Limit = 2 * M + N - 2 * Stake
    BY <1>0, Amounts DEF Pending
  <1>3. Q \in Nat /\ Q <= N BY <1>2, SessionSets
  <1>4. Expected = X + P /\ Expected' = X + Q BY <1>1 DEF Expected
  <1>5. ASSUME NEW u \in Tx, Syncing(u)' PROVE u \notin Pending'
    BY <1>5 DEF Syncing, Pending
  <1>6. ASSUME NEW u \in Tx, Syncing(u)' PROVE Q <= N - Stake
    BY <1>2, <1>5, <1>6, RoomOfOthers
  <1>7. CASE SetStateRead(t)
    <2>1. ASSUME NEW u \in Tx, Syncing(u)' PROVE Syncing(u) /\ view'[u] = view[u]
      <3>1. job[t].kind = "operator" BY <1>7 DEF SetStateRead
      <3>2. u # t BY <1>1, <2>1, <3>1 DEF Syncing
      <3> QED BY <1>1, <2>1, <3>2 DEF Syncing
    <2>2. CASE t \in Pending'
      <3>1. X + Stake <= M BY <1>0, <1>7, <2>2, ReadChecks
      <3>2. Expected' <= Limit BY <1>2, <1>3, <1>4, <3>1
      <3>3. ASSUME NEW u \in Tx, Syncing(u)', view'[u].exposure <= M
            PROVE  Expected' + (M - view'[u].exposure) <= Limit
        <4>1. view'[u].exposure \in Nat BY <2>1, <3>3, <1>0, Amounts
        <4> QED BY <1>2, <1>3, <1>4, <1>6, <3>1, <3>3, <4>1
      <3> QED BY <1>1, <3>2, <3>3 DEF ExpectedBounded
    <2>3. CASE t \notin Pending'
      <3>1. Pending' \subseteq Pending
        <4>1. ASSUME NEW u \in Pending' PROVE u \in Pending
          <5>1. u \in Tx /\ u # t BY <1>2, <2>3
          <5>2. ~SetStateRead(u)
            BY <1>0, <1>1, <5>1 DEF SetStateRead, Read, SessionsOK
          <5> QED BY <1>0, <5>1, <5>2, PendingStep
        <4> QED BY <4>1
      <3>2. Q <= P BY <1>2, <3>1, SessionSets
      <3>3. Expected' <= Expected BY <1>2, <1>3, <1>4, <3>2
      <3> QED BY <1>0, <2>1, <3>3, NothingMoreExpected
    <2> QED BY <2>2, <2>3
  <1>8. CASE ReadExposure(t)
    <2>1. view'[t].exposure = X /\ Syncing(t)'
      BY <1>0, <1>8 DEF ReadExposure, Read, SessionsOK, Syncing, Universe
    <2>2. ASSUME NEW u \in Tx, Syncing(u)' PROVE u = t
      <3>1. owner[SyncLock] = t BY <1>0, <1>1, <1>8 DEF SyncHeld, ReadExposure
      <3>2. u # t => owner[SyncLock] = u BY <1>0, <1>1, <2>2 DEF SyncHeld, Syncing
      <3> QED BY <3>1, <3>2
    <2>3. Pending' \subseteq Pending
      <3>1. ASSUME NEW u \in Pending' PROVE u \in Pending
        <4>1. u \in Tx /\ u # t BY <1>2, <1>5, <2>1
        <4>2. ~SetStateRead(u)
          BY <1>0, <1>1, <4>1 DEF SetStateRead, Read, SessionsOK
        <4> QED BY <1>0, <4>1, <4>2, PendingStep
      <3> QED BY <3>1
    <2>4. Q <= P BY <1>2, <2>3, SessionSets
    <2>5. Expected' <= Limit
      BY <1>0, <1>2, <1>3, <1>4, <2>4 DEF ExpectedBounded
    <2>6. Q <= N - Stake BY <1>6, <2>1
    <2>7. X <= M => Expected' + (M - X) <= Limit BY <1>2, <1>3, <1>4, <2>6
    <2> QED BY <1>1, <2>1, <2>2, <2>5, <2>7 DEF ExpectedBounded
  <1> QED BY <1>7, <1>8

\* A step without a read adds no reactivation and no sync at its commit.
LEMMA NoReadStep ==
    ASSUME TypeOK, PickHeld, [Next]_vars,
           NEW u \in Tx, ~SetStateRead(u), ~ReadExposure(u)
    PROVE  /\ u \in Pending' => u \in Pending
           /\ Syncing(u)' => Syncing(u) /\ view'[u].exposure = view[u].exposure
  <1>0. TablesOK /\ SessionsOK BY TypeParts
  <1>1. u \in Pending' => u \in Pending BY PendingStep
  <1>2. ASSUME Syncing(u)' PROVE Syncing(u) /\ view'[u].exposure = view[u].exposure
    <2>1. CASE UNCHANGED vars \/ Tick BY <1>2, <2>1 DEF vars, Tick, Syncing
    <2>2. ASSUME NEW c \in Candidate, Publish(c) \/ SettleAtSource(c) \/ ReopenAtSource(c)
          PROVE  Syncing(u) /\ view'[u].exposure = view[u].exposure
      BY <1>2, <2>2 DEF Publish, SettleAtSource, ReopenAtSource, Syncing
    <2>3. ASSUME NEW t \in Tx, BeginSync(t) \/ BeginSetState(t) \/ LockSync(t) \/ LockPick(t)
          PROVE  Syncing(u) /\ view'[u].exposure = view[u].exposure
      <3>1. /\ view' = view /\ pc'[t] \notin Universe \cup {"commit"}
            /\ \A v \in Tx : v # t => pc'[v] = pc[v] /\ job'[v] = job[v]
        BY <1>0, <2>3
        DEF BeginSync, BeginSetState, Begin, LockSync, LockPick, Take, SessionsOK, Universe
      <3> QED BY <1>2, <3>1 DEF Syncing
    <2>4. ASSUME NEW t \in Tx, ReadExposure(t) \/ SetStateRead(t)
          PROVE  Syncing(u) /\ view'[u].exposure = view[u].exposure
      <3>1. /\ job' = job /\ \A v \in Tx : v # t => pc'[v] = pc[v] /\ view'[v] = view[v]
        BY <1>0, <2>4 DEF ReadExposure, SetStateRead, Read, SessionsOK
      <3>2. u # t BY <2>4
      <3> QED BY <1>2, <3>1, <3>2 DEF Syncing
    <2>7. ASSUME NEW t \in Tx, SelectCandidates(t)
          PROVE  Syncing(u) /\ view'[u].exposure = view[u].exposure
      BY <1>0, <1>2, <2>7, QueryEffect DEF Syncing
    <2>5. ASSUME NEW t \in Tx, Finish(t)
          PROVE  Syncing(u) /\ view'[u].exposure = view[u].exposure
      <3>1. /\ pc'[t] = "idle"
            /\ \A v \in Tx : v # t => pc'[v] = pc[v] /\ job'[v] = job[v] /\ view'[v] = view[v]
        BY <1>0, <2>5 DEF Finish, SessionsOK
      <3> QED BY <1>2, <3>1 DEF Syncing, Universe
    <2>6. ASSUME NEW t \in Tx,
                 \/ SyncCommit(t) \/ SetStateRefuse(t) \/ SetStateDuplicate(t)
                 \/ SetStateCommit(t) \/ Abort(t)
          PROVE  Syncing(u) /\ view'[u].exposure = view[u].exposure
      BY <2>5, <2>6
      DEF SyncCommit, SetStateRefuse, SetStateDuplicate, SetStateCommit, Abort
    <2> QED BY <2>1, <2>2, <2>3, <2>4, <2>6, <2>7 DEF Next
  <1> QED BY <1>1, <1>2

\* A commit adds what was expected of it.
LEMMA NoReadBound ==
    ASSUME OvershootInv, FunnelInv', [Next]_vars, IsFiniteSet(Tx),
           \A c \in Candidate : ~ReopenAtSource(c),
           \A t \in Tx : ~SetStateRead(t) /\ ~ReadExposure(t)
    PROVE  ExpectedBounded'
  <1>0. /\ TypeOK /\ TablesOK /\ SessionsOK /\ PickHeld /\ SyncHeld /\ SettledStays
        /\ ExpectedBounded /\ TypeOK' /\ TablesOK'
    BY TypeParts DEF OvershootInv, FunnelInv, TypeOK, TablesOK
  <1>1. /\ Pending' \subseteq Pending
        /\ \A t \in Tx : Syncing(t)' => Syncing(t) /\ view'[t].exposure = view[t].exposure
    <2>1. Pending' \in SUBSET Tx BY DEF Pending
    <2> QED BY <1>0, <2>1, NoReadStep
  <1> DEFINE X == OpenExposure
             Y == OpenExposure'
             P == Stake * Cardinality(Pending)
             Q == Stake * Cardinality(Pending')
             M == MaxOpenExposure
  <1>2. /\ X \in Nat /\ P \in Nat /\ Stake \in Nat /\ M \in Nat /\ Limit \in Int
        /\ Pending \in SUBSET Tx /\ Limit' = Limit
        /\ \A t \in Tx : view[t].exposure \in Nat
    BY <1>0, Amounts DEF Limit
  <1>3. Q \in Nat /\ Q <= P BY <1>1, <1>2, SessionSets
  <1>4. Expected = X + P /\ Expected' = Y + Q BY DEF Expected
  <1>5. CASE OpenPicks' \subseteq OpenPicks
    <2>1. Y \in Nat /\ Y <= X BY <1>0, <1>5, ExposureShrinks
    <2>2. Expected' <= Expected BY <1>2, <1>3, <1>4, <2>1
    <2> QED BY <1>0, <1>1, <2>2, NothingMoreExpected
  <1>6. ASSUME NEW t \in Tx, SyncCommit(t), ~(OpenPicks' \subseteq OpenPicks)
        PROVE  ExpectedBounded'
    <2>1. PICK C \in SUBSET Candidate :
            /\ OpenPicks' \subseteq OpenPicks \cup C
            /\ C # {} => view[t].exposure + Stake * Cardinality(C) <= M
      BY <1>0, <1>6, SyncRaises
    <2>2. C # {} BY <1>6, <2>1
    <2>3. Y \in Nat /\ Stake * Cardinality(C) \in Nat /\ Y <= X + Stake * Cardinality(C)
      BY <1>0, <2>1, ExposureGrows
    <2>4. Syncing(t) BY <1>6 DEF SyncCommit, Syncing
    <2>5. view[t].exposure \in Nat /\ view[t].exposure + Stake * Cardinality(C) <= M
      BY <1>2, <2>1, <2>2
    <2>6. Expected + (M - view[t].exposure) <= Limit
      BY <1>0, <1>2, <2>3, <2>4, <2>5 DEF ExpectedBounded
    <2>7. Expected' <= Limit BY <1>2, <1>3, <1>4, <2>3, <2>5, <2>6
    <2>8. \A u \in Tx : ~Syncing(u)'
      <3>1. pc'[t] = "idle" BY <1>0, <1>6 DEF SyncCommit, Finish, SessionsOK
      <3> QED BY <1>0, <1>1, <2>4, <3>1, OneSyncing DEF Syncing, Universe
    <2> QED BY <1>2, <2>7, <2>8 DEF ExpectedBounded
  <1>7. ASSUME NEW t \in Tx, SetStateCommit(t), ~(OpenPicks' \subseteq OpenPicks)
        PROVE  ExpectedBounded'
    <2>1. /\ job[t].pick \in Candidate /\ Unskips(job[t]) /\ job[t].pick \notin settled
          /\ OpenPicks' \subseteq OpenPicks \cup {job[t].pick}
      BY <1>0, <1>7, OperatorRaises
    <2>2. {job[t].pick} \in SUBSET Candidate /\ Stake * Cardinality({job[t].pick}) = Stake
      <3>1. {job[t].pick} \in SUBSET Candidate /\ Cardinality({job[t].pick}) = 1
        BY <2>1, FS_Singleton
      <3>2. Stake * 1 = Stake BY <1>2
      <3> QED BY <3>1, <3>2
    <2>3. Y \in Nat /\ Y <= X + Stake BY <1>0, <2>1, <2>2, ExposureGrows
    <2>4. t \in Pending
      <3>1. pc[t] = "commit" /\ job[t].kind = "operator" BY <1>7 DEF SetStateCommit
      <3>2. ~view[t].settled BY <1>0, <2>1, <3>1 DEF SettledStays
      <3> QED BY <2>1, <3>1, <3>2 DEF Pending
    <2>5. t \notin Pending'
      BY <1>0, <1>7 DEF SetStateCommit, Finish, SessionsOK, Pending
    <2>6. Q <= P - Stake
      <3>1. Pending' \subseteq Pending \ {t} /\ Pending \ {t} \in SUBSET Tx
        BY <1>1, <1>2, <2>5
      <3>2. /\ Stake * Cardinality(Pending \ {t}) = P - Stake
            /\ Q <= Stake * Cardinality(Pending \ {t})
        BY <1>2, <2>4, <3>1, SessionSets
      <3> QED BY <3>2
    <2>7. Expected' <= Expected BY <1>2, <1>3, <1>4, <2>3, <2>6
    <2> QED BY <1>0, <1>1, <2>7, NothingMoreExpected
  <1> QED BY <1>5, <1>6, <1>7, RestRaisesNothing

\* Every step keeps the invariant, a step that takes a settlement back aside.
LEMMA OvershootStep ==
    ASSUME Stake <= MaxOpenExposure, IsFiniteSet(Tx),
           OvershootInv, FunnelInv', [Next]_vars, settled \subseteq settled'
    PROVE  OvershootInv'
  <1>1. TypeOK /\ TypeOK' /\ PickHeld /\ SyncHeld /\ SettledStays
    BY DEF OvershootInv, FunnelInv
  <1>2. \A c \in Candidate : ~ReopenAtSource(c) BY DEF ReopenAtSource
  <1>3. SyncHeld' BY <1>1, SyncHeldStep
  <1>4. SettledStays' BY <1>1, SettledStaysStep
  <1>5. ExpectedBounded'
    <2>1. ASSUME NEW t \in Tx, ReadExposure(t) \/ SetStateRead(t) PROVE ExpectedBounded'
      BY <1>1, <2>1, ReadStep
    <2> QED BY <1>2, <2>1, NoReadBound
  <1> QED BY <1>3, <1>4, <1>5 DEF OvershootInv

\* Nothing is open and nothing expected at the start.
LEMMA OvershootInit ==
    ASSUME Init, FunnelInv, Stake <= MaxOpenExposure, IsFiniteSet(Tx)
    PROVE  OvershootInv
  <1>1. \A t \in Tx : pc[t] = "idle" BY DEF Init
  <1>2. Pending = {} /\ \A t \in Tx : ~Syncing(t) BY <1>1 DEF Pending, Syncing, Universe
  <1>3. SyncHeld /\ SettledStays BY <1>1 DEF SyncHeld, SettledStays, Universe
  <1>4. OpenPicks = {} BY DEF Init, OpenPicks
  <1>5. Expected = 0 BY <1>2, <1>4, FS_EmptySet, FunnelAssumption DEF Expected, OpenExposure
  <1>6. Limit >= 0
    <2>1. TypeOK BY DEF FunnelInv
    <2>2. /\ Limit = 2 * MaxOpenExposure + Stake * Cardinality(Tx) - 2 * Stake
          /\ Stake * Cardinality(Tx) \in Nat /\ Stake \in Nat /\ MaxOpenExposure \in Nat
      BY <2>1, Amounts
    <2> QED BY <2>2
  <1> QED BY <1>2, <1>3, <1>5, <1>6 DEF OvershootInv, ExpectedBounded

\* The whole of what the two kinds of locks let through, for any number of
\* sessions, while no universe takes a settlement back: twice the cap, and a
\* stake for each session beyond the second.
THEOREM OvershootIsBounded ==
    ASSUME Stake <= MaxOpenExposure, IsFiniteSet(Tx)
    PROVE  Spec /\ [][settled \subseteq settled']_vars => []OvershootBounded
  <1>1. Init /\ FunnelInv => OvershootInv BY OvershootInit
  <1>2. OvershootInv /\ FunnelInv' /\ [Next]_vars /\ [settled \subseteq settled']_vars
            => OvershootInv'
    <2> SUFFICES ASSUME OvershootInv, FunnelInv', [Next]_vars, [settled \subseteq settled']_vars
                 PROVE  OvershootInv'
      OBVIOUS
    <2>1. settled \subseteq settled' BY DEF vars
    <2> QED BY <2>1, OvershootStep
  <1>3. OvershootInv => OvershootBounded
    <2> SUFFICES ASSUME OvershootInv PROVE OvershootBounded OBVIOUS
    <2>1. TypeOK /\ ExpectedBounded BY DEF OvershootInv, FunnelInv
    <2>2. /\ OpenExposure \in Nat /\ Stake * Cardinality(Pending) \in Nat /\ Limit \in Int
      BY <2>1, Amounts
    <2>3. OpenExposure + Stake * Cardinality(Pending) <= Limit
      BY <2>1 DEF ExpectedBounded, Expected
    <2> QED BY <2>2, <2>3 DEF OvershootBounded, Limit
  <1> QED BY <1>1, <1>2, <1>3, FunnelInvariance, PTL DEF Spec
=============================================================================
