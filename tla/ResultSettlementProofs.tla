----------------------- MODULE ResultSettlementProofs -----------------------
(***************************************************************************)
(* Proofs about ResultSettlement, for any number of workers and results,   *)
(* any fingerprints and delays. The acquisition row carries a candidate, a *)
(* count and two times; the invariant says which run of the persisted      *)
(* results they stand for, so that what settles a pick, or flags it for    *)
(* correction, can be read off the results themselves.                     *)
(***************************************************************************)
EXTENDS ResultSettlement, SequenceTheorems, TLAPS

-----------------------------------------------------------------------------
(* The inductive invariant.                                                *)

MaybeObservation == Observation \cup {NoObservation}
Check == [result : Observation, at : Time]
Settlement == [kind : {"NORMAL", "MANUAL_VOID"}, result : Observation, at : Time]
Job == [now : Time, result : MaybeObservation, stable : MaybeObservation]
Places == {"idle", "reconcile", "claim", "fetch", "persist", "stable", "research", "settle"}

Fetched == \A w \in Worker : pc[w] = "persist" => job[w].result \in Observation

\* The longest run of equal results that ends at check n starts at i.
Starts(i, n) == IsRun(i, n) /\ (i > 1 => Seen(i - 1) # Seen(i))

\* The candidate is what the last run of checks reports, seen since its start.
CandidateIsRun ==
    LET n == Len(checks) IN
    /\ row = NoRow => n = 0
    /\ row # NoRow /\ n > 0 => row.last = checks[n].at
    /\ row # NoRow /\ row.candidate = NoObservation => n = 0 \/ Seen(n) = NoFingerprint
    /\ row # NoRow /\ row.candidate # NoObservation =>
          /\ n > 0 /\ Seen(n) = Fingerprint[row.candidate]
          /\ \E i \in 1 .. n : /\ Starts(i, n) /\ checks[i].at = row.first
                               /\ row.count >= 2 <=> i < n

\* Only a settled fixture has a correction, and only a row is ever settled on.
CorrectionsSettled ==
    /\ NormallySettled => row # NoRow
    /\ row # NoRow => (row.correction => NormallySettled)

RInv ==
    /\ TypeOK /\ Fetched /\ CandidateIsRun /\ CorrectionsSettled
    /\ SettledOnStableResult /\ CorrectionsFlagged

-----------------------------------------------------------------------------
(* Data.                                                                   *)

LEMMA Distinct ==
    /\ NoRow \notin Row /\ NoRow.phase = "none"
    /\ NoSettlement \notin Settlement /\ NoSettlement.kind = "none"
    /\ NoJob \in Job
  <1>1. NoRow \notin Row BY DEF NoRow, Row
  <1>2. NoSettlement \notin Settlement BY DEF NoSettlement, Settlement
  <1>3. NoJob \in Job
    BY ResultAssumption DEF NoJob, Job, MaybeObservation, Time
  <1> QED BY <1>1, <1>2, <1>3 DEF NoRow, NoSettlement

\* TypeOK by the names used here.
LEMMA TypeForm ==
    TypeOK <=>
    /\ row \in Row \cup {NoRow}
    /\ row # NoRow =>
          /\ row.candidate = NoObservation <=> row.count = 0
          /\ row.correction <=> row.contradicting # NoObservation
    /\ settlement \in {NoSettlement} \cup Settlement
    /\ picked \in BOOLEAN /\ research \in BOOLEAN /\ clock \in Time
    /\ pc \in [Worker -> Places] /\ job \in [Worker -> Job]
    /\ \A w \in Worker : pc[w] \notin {"idle", "reconcile", "claim"} => row # NoRow
    /\ checks \in Seq(Check)
  BY DEF TypeOK, Settlement, Places, Job, MaybeObservation, Check

LEMMA MinOfTwo ==
    ASSUME NEW a \in Int, NEW b \in Int
    PROVE  /\ Min({a, b}) \in {a, b} /\ Min({a, b}) <= a /\ Min({a, b}) <= b
           /\ Max({a, b}) \in {a, b}
  <1>1. \E x \in {a, b} : \A y \in {a, b} : x <= y
    <2>1. CASE a <= b BY <2>1
    <2>2. CASE b <= a BY <2>2
    <2> QED BY <2>1, <2>2
  <1>2. \E x \in {a, b} : \A y \in {a, b} : x >= y
    <2>1. CASE a <= b BY <2>1
    <2>2. CASE b <= a BY <2>2
    <2> QED BY <2>1, <2>2
  <1> QED BY <1>1, <1>2 DEF Min, Max

-----------------------------------------------------------------------------
(* Steps that persist no result: the checks, and what the row says of them *)
(* (but for a phase, a time of the next check or a lease), stay.           *)

SameCandidate(r) ==
    /\ r.candidate = row.candidate /\ r.first = row.first /\ r.count = row.count
    /\ r.last = row.last /\ r.correction = row.correction
    /\ r.contradicting = row.contradicting

LEMMA RowStep ==
    ASSUME RInv, TypeOK', Fetched', UNCHANGED checks, UNCHANGED settlement,
           \/ row' = row
           \/ row = NoRow /\ row'.candidate = NoObservation /\ ~row'.correction
           \/ row # NoRow /\ row' # NoRow /\ SameCandidate(row')
    PROVE  RInv'
  <1>1. SettledOnStableResult'
    BY DEF RInv, SettledOnStableResult, NormallySettled, Confirmed, IsRun, Seen
  <1>2. CandidateIsRun'
    BY DEF RInv, CandidateIsRun, SameCandidate, Starts, IsRun, Seen
  <1>3. CorrectionsSettled'
    BY DEF RInv, CorrectionsSettled, NormallySettled, SameCandidate
  <1>4. CorrectionsFlagged'
    <2> SUFFICES ASSUME NormallySettled PROVE CorrectionsFlagged'
      BY DEF CorrectionsFlagged, NormallySettled
    <2>1. row # NoRow BY DEF RInv, CorrectionsSettled
    <2>2. row'.correction = row.correction /\ row'.contradicting = row.contradicting
      BY <2>1 DEF SameCandidate
    <2> QED BY <2>2 DEF RInv, CorrectionsFlagged, NormallySettled, Confirmed, IsRun, Seen
  <1> QED BY <1>1, <1>2, <1>3, <1>4 DEF RInv

-----------------------------------------------------------------------------
(* Steps of a worker that persist no result.                               *)

LEMMA Dropped ==
    ASSUME TypeOK, NEW w \in Worker, Drop(w)
    PROVE  /\ pc' \in [Worker -> Places] /\ job' \in [Worker -> Job] /\ pc'[w] = "idle"
           /\ \A u \in Worker : u # w => pc'[u] = pc[u] /\ job'[u] = job[u]
  BY TypeForm, Distinct DEF Drop, Go, Places

\* The worker's cycle ends; whatever it wrote, it is out.
LEMMA DropTypes ==
    ASSUME RInv, NEW w \in Worker, Drop(w),
           row' \in Row \cup {NoRow}, row # NoRow => row' # NoRow,
           row' # NoRow =>
              /\ row'.candidate = NoObservation <=> row'.count = 0
              /\ row'.correction <=> row'.contradicting # NoObservation,
           settlement' \in {NoSettlement} \cup Settlement,
           UNCHANGED <<picked, research, clock, checks>>
    PROVE  TypeOK' /\ Fetched'
  <1>1. TypeOK /\ Fetched BY DEF RInv
  <1>2. /\ pc' \in [Worker -> Places] /\ job' \in [Worker -> Job] /\ pc'[w] = "idle"
        /\ \A u \in Worker : u # w => pc'[u] = pc[u] /\ job'[u] = job[u]
    BY <1>1, Dropped
  <1>3. \A u \in Worker : pc'[u] \notin {"idle", "reconcile", "claim"} => row' # NoRow
    BY <1>1, <1>2, TypeForm
  <1>4. Fetched' BY <1>1, <1>2 DEF Fetched
  <1>5. /\ picked' \in BOOLEAN /\ research' \in BOOLEAN /\ clock' \in Time
        /\ checks' \in Seq(Check)
    BY <1>1, TypeForm
  <1>6. TypeOK'
    BY <1>2, <1>3, <1>5 DEF TypeOK, Settlement, Places, Job, MaybeObservation, Check
  <1> QED BY <1>4, <1>6

LEMMA DropKeeps ==
    ASSUME RInv, NEW w \in Worker,
           ClaimNothing(w) \/ PersistRefused(w) \/ NothingToSettle(w) \/ EndCycle(w)
    PROVE  RInv'
  <1>1. /\ Drop(w) /\ UNCHANGED <<row, settlement, picked, research, clock, checks>>
    BY DEF ClaimNothing, PersistRefused, NothingToSettle, EndCycle
  <1>2. TypeOK' /\ Fetched' BY <1>1, DropTypes, TypeForm DEF RInv
  <1> QED BY <1>1, <1>2, RowStep

\* The worker goes on; the row is left alone.
LEMMA GoKeeps ==
    ASSUME RInv, NEW w \in Worker, StartCycle(w) \/ Fetch(w) \/ StableResult(w)
    PROVE  RInv'
  <1>1. TypeOK /\ Fetched BY DEF RInv
  <1>2. PICK next \in Places : pc' = [pc EXCEPT ![w] = next] /\ (next # "reconcile" => row # NoRow)
    <2>1. CASE StartCycle(w) BY <2>1 DEF StartCycle, Go, Places
    <2>2. CASE Fetch(w) BY <2>2, <1>1, TypeForm DEF Fetch, Go, Places
    <2>3. CASE StableResult(w)
      <3>1. pc' = [pc EXCEPT ![w] = IF picked THEN "settle" ELSE "research"]
        BY <2>3 DEF StableResult, Go
      <3>2. row # NoRow BY <2>3, <1>1, TypeForm DEF StableResult
      <3> QED BY <3>1, <3>2 DEF Places
    <2> QED BY <2>1, <2>2, <2>3
  <1>3. PICK j \in Job :
          job' = [job EXCEPT ![w] = j] /\ (next = "persist" => j.result \in Observation)
    <2>0. job[w] \in Job BY <1>1, TypeForm
    <2>1. CASE StartCycle(w)
      <3>1. [job[w] EXCEPT !.now = clock] \in Job BY <2>0, <1>1, TypeForm DEF Job
      <3>2. job' = [job EXCEPT ![w] = [job[w] EXCEPT !.now = clock]]
        BY <2>1, <1>1, TypeForm DEF StartCycle
      <3>3. next # "persist" BY <2>1, <1>1, <1>2, TypeForm DEF StartCycle, Go
      <3> QED BY <3>1, <3>2, <3>3
    <2>2. CASE Fetch(w)
      <3>1. PICK o \in Observation : job' = [job EXCEPT ![w].result = o] BY <2>2 DEF Fetch
      <3>2. /\ [job[w] EXCEPT !.result = o] \in Job
            /\ [job[w] EXCEPT !.result = o].result \in Observation
        BY <2>0 DEF Job, MaybeObservation
      <3>3. job' = [job EXCEPT ![w] = [job[w] EXCEPT !.result = o]]
        BY <3>1, <1>1, TypeForm
      <3> QED BY <3>2, <3>3
    <2>3. CASE StableResult(w)
      <3>1. row.candidate \in MaybeObservation
        BY <2>3, <1>1, TypeForm DEF StableResult, Row, MaybeObservation
      <3>2. [job[w] EXCEPT !.stable = row.candidate] \in Job BY <2>0, <3>1 DEF Job
      <3>3. job' = [job EXCEPT ![w] = [job[w] EXCEPT !.stable = row.candidate]]
        BY <2>3, <1>1, TypeForm DEF StableResult
      <3>4. next # "persist" BY <2>3, <1>1, <1>2, TypeForm DEF StableResult, Go
      <3> QED BY <3>2, <3>3, <3>4
    <2> QED BY <2>1, <2>2, <2>3
  <1>4. UNCHANGED <<row, settlement, picked, research, clock, checks>>
    BY DEF StartCycle, Fetch, StableResult
  <1>5. /\ pc' \in [Worker -> Places] /\ job' \in [Worker -> Job]
        /\ pc'[w] = next /\ job'[w] = j
        /\ \A u \in Worker : u # w => pc'[u] = pc[u] /\ job'[u] = job[u]
    BY <1>1, <1>2, <1>3, TypeForm
  <1>6. Fetched' BY <1>1, <1>3, <1>5 DEF Fetched
  <1>7. \A u \in Worker : pc'[u] \notin {"idle", "reconcile", "claim"} => row' # NoRow
    BY <1>1, <1>2, <1>4, <1>5, TypeForm
  <1>8. TypeOK'
    BY <1>1, <1>4, <1>5, <1>7, TypeForm
    DEF TypeOK, Settlement, Places, Job, MaybeObservation, Check
  <1> QED BY <1>4, <1>6, <1>8, RowStep

\* The row is created, or leased.
LEMMA ClaimKeeps ==
    ASSUME RInv, NEW w \in Worker, Reconcile(w) \/ Claim(w)
    PROVE  RInv'
  <1>1. TypeOK /\ Fetched BY DEF RInv
  <1>2. /\ row' \in Row \cup {NoRow} /\ (row # NoRow => row' # NoRow)
        /\ \/ row' = row
           \/ row = NoRow /\ row'.candidate = NoObservation /\ ~row'.correction
              /\ row'.count = 0 /\ row'.contradicting = NoObservation
           \/ row # NoRow /\ row' # NoRow /\ SameCandidate(row')
    <2>1. CASE Reconcile(w)
      <3> DEFINE new == [phase |-> "WAITING", current |-> NoObservation,
                         candidate |-> NoObservation, first |-> 0, count |-> 0, last |-> 0,
                         next |-> FirstCheck, lease |-> 0, correction |-> FALSE,
                         contradicting |-> NoObservation]
      <3>1. new \in Row
        BY ResultAssumption DEF Row, Phase, Time
      <3>2. row' = row \/ (row = NoRow /\ row' = new) BY <2>1 DEF Reconcile
      <3>3. /\ new.candidate = NoObservation /\ ~new.correction /\ new.count = 0
            /\ new.contradicting = NoObservation
        OBVIOUS
      <3> HIDE DEF new
      <3> QED BY <3>1, <3>2, <3>3, <1>1, TypeForm, Distinct
    <2>2. CASE Claim(w)
      <3>1. row \in Row BY <2>2, <1>1, TypeForm, Distinct DEF Claim, Due
      <3>2. row' = [row EXCEPT !.lease = job[w].now + ClaimLease] BY <2>2 DEF Claim
      <3>3. job[w].now + ClaimLease \in Nat
        BY <1>1, TypeForm, ResultAssumption DEF Job, Time
      <3>4. row' \in Row /\ SameCandidate(row')
        BY <3>1, <3>2, <3>3 DEF Row, SameCandidate
      <3> QED BY <3>1, <3>4, Distinct
    <2> QED BY <2>1, <2>2
  <1>3. PICK next \in {"claim", "fetch"} :
          pc' = [pc EXCEPT ![w] = next] /\ (next = "fetch" => row' # NoRow)
    <2>1. CASE Reconcile(w) BY <2>1 DEF Reconcile, Go
    <2>2. CASE Claim(w)
      <3>1. row # NoRow BY <2>2, Distinct DEF Claim, Due
      <3> QED BY <2>2, <3>1, <1>2 DEF Claim, Go
    <2> QED BY <2>1, <2>2
  <1>4. UNCHANGED <<settlement, picked, research, clock, job, checks>>
    BY DEF Reconcile, Claim
  <1>5. /\ pc' \in [Worker -> Places] /\ pc'[w] = next
        /\ \A u \in Worker : u # w => pc'[u] = pc[u]
    BY <1>1, <1>3, TypeForm DEF Places
  <1>6. Fetched' BY <1>1, <1>4, <1>5 DEF Fetched
  <1>7. \A u \in Worker : pc'[u] \notin {"idle", "reconcile", "claim"} => row' # NoRow
    BY <1>1, <1>2, <1>3, <1>5, TypeForm
  <1>8. row' # NoRow =>
          /\ row'.candidate = NoObservation <=> row'.count = 0
          /\ row'.correction <=> row'.contradicting # NoObservation
    BY <1>1, <1>2, TypeForm DEF SameCandidate
  <1>9. TypeOK'
    BY <1>1, <1>2, <1>4, <1>5, <1>7, <1>8, TypeForm
    DEF TypeOK, Settlement, Places, Job, MaybeObservation, Check
  <1> QED BY <1>2, <1>4, <1>6, <1>9, RowStep

\* The row leaves the schedule: quarantined, or complete without a pick.
LEMMA CloseKeeps ==
    ASSUME RInv, NEW w \in Worker, Quarantine(w) \/ CompleteResearch(w)
    PROVE  RInv'
  <1>1. TypeOK /\ row \in Row
    BY TypeForm, Distinct DEF RInv, Quarantine, CompleteResearch
  <1>2. row' \in Row /\ SameCandidate(row')
    <2>1. CASE Quarantine(w)
      <3>1. PICK lease \in Nat :
              row' = [row EXCEPT !.phase = "QUARANTINED", !.lease = lease]
        BY <2>1, <1>1 DEF Quarantine, Row
      <3> QED BY <3>1, <1>1 DEF Row, Phase, SameCandidate
    <2>2. CASE CompleteResearch(w)
      <3>1. job[w].now \in Nat BY <1>1, TypeForm, ResultAssumption DEF Job, Time
      <3>2. row' = [row EXCEPT !.phase = "COMPLETE", !.next = job[w].now, !.lease = 0]
        BY <2>2 DEF CompleteResearch
      <3> QED BY <3>1, <3>2, <1>1 DEF Row, Phase, SameCandidate
    <2> QED BY <2>1, <2>2
  <1>3. Drop(w) /\ UNCHANGED <<settlement, picked, research, clock, checks>>
    BY DEF Quarantine, CompleteResearch
  <1>4. row' # NoRow /\ row # NoRow BY <1>1, <1>2, Distinct
  <1>5. /\ row'.candidate = NoObservation <=> row'.count = 0
        /\ row'.correction <=> row'.contradicting # NoObservation
    BY <1>1, <1>2, <1>4, TypeForm DEF SameCandidate
  <1>6. TypeOK' /\ Fetched'
    BY <1>1, <1>2, <1>3, <1>4, <1>5, DropTypes, TypeForm
  <1> QED BY <1>2, <1>3, <1>4, <1>6, RowStep

-----------------------------------------------------------------------------
(* A result is persisted.                                                  *)

LEMMA PlanTypes ==
    ASSUME TypeOK, row # NoRow, NEW o \in Observation, NEW checked \in Time
    PROVE  Plan(o, checked)[1] \in Phase /\ Plan(o, checked)[2] \in Nat
  <1>0. /\ checked \in Nat /\ PollInterval \in Nat /\ FinalityDelay \in Nat
        /\ RecheckInterval \in Nat /\ CorrectionWindow \in Nat
    BY ResultAssumption DEF Time
  <1>1. NormallySettled => Deadline \in Nat
    BY <1>0, TypeForm, Distinct, ResultAssumption
    DEF NormallySettled, Deadline, Settlement, Time
  <1> DEFINE late == NormallySettled /\ (row.correction \/ Corrects(o, checked)
                                          \/ checked >= Deadline)
             same == NormallySettled /\ Terminal(o)
                        /\ Fingerprint[settlement.result] = Fingerprint[o]
             d == Deadline
  <1>2. Plan(o, checked) =
          CASE late -> <<"COMPLETE", Max({checked, d})>>
            [] same -> <<"POST_SETTLEMENT_RECHECK", Min({checked + RecheckInterval, d})>>
            [] Terminal(o) -> <<"STABILIZING", checked + FinalityDelay>>
            [] OTHER -> <<"POLLING", checked + PollInterval>>
    BY DEF Plan
  <1>3. /\ late => Max({checked, d}) \in Nat
        /\ same => Min({checked + RecheckInterval, d}) \in Nat
    <2>1. ASSUME NormallySettled
          PROVE  Max({checked, d}) \in Nat /\ Min({checked + RecheckInterval, d}) \in Nat
      <3>1. d \in Nat /\ checked + RecheckInterval \in Nat BY <2>1, <1>0, <1>1
      <3>2. \A a, b \in Nat : Min({a, b}) \in {a, b} /\ Max({a, b}) \in {a, b}
        BY MinOfTwo
      <3> HIDE DEF d
      <3>3. /\ Max({checked, d}) \in {checked, d}
            /\ Min({checked + RecheckInterval, d}) \in {checked + RecheckInterval, d}
        BY <3>1, <3>2, <1>0
      <3> QED BY <3>1, <3>3, <1>0
    <2> QED BY <2>1
  <1> HIDE DEF late, same, d
  <1> QED BY <1>0, <1>2, <1>3 DEF Phase

\* The candidate a result leaves behind: types, and what it is made of.
LEMMA CandidateFields ==
    ASSUME TypeOK, row \in Row, NEW o \in Observation, NEW checked \in Time,
           NEW c, c = Candidate(o, checked)
    PROVE  /\ c.candidate \in MaybeObservation /\ c.first \in Time /\ c.count \in 0 .. 2
           /\ c.candidate = NoObservation <=> c.count = 0
           /\ ~Terminal(o) => c.candidate = NoObservation
           /\ Terminal(o) => c.candidate = o
           /\ Terminal(o) /\ ~Confirms(o) => c.first = checked /\ c.count = 1
           /\ Terminal(o) /\ Confirms(o) => c.first = row.first /\ c.count = 2
  <1>0. 0 \in Time /\ NoObservation \notin Observation BY ResultAssumption DEF Time
  <1>1. row.count \in 0 .. 2 /\ row.first \in Time BY DEF Row
  <1>2. CASE ~Terminal(o) BY <1>0, <1>2 DEF Candidate, MaybeObservation
  <1>3. CASE Terminal(o) /\ ~Confirms(o)
    <2>1. c = [candidate |-> o, first |-> checked, count |-> 1] BY <1>3 DEF Candidate
    <2> QED BY <2>1, <1>0, <1>3 DEF MaybeObservation
  <1>4. CASE Terminal(o) /\ Confirms(o)
    <2>1. row.count >= 1
      <3>1. row.candidate # NoObservation BY <1>4 DEF Confirms
      <3>2. row # NoRow BY Distinct
      <3>3. row.count # 0 BY <3>1, <3>2, TypeForm
      <3> QED BY <1>1, <3>3
    <2>2. Min({row.count + 1, 2}) = 2
      <3>1. row.count + 1 \in Int /\ 2 \in Int /\ row.count + 1 >= 2 BY <2>1, <1>1
      <3>2. \A a, b \in Int : Min({a, b}) \in {a, b} /\ Min({a, b}) <= b BY MinOfTwo
      <3>3. Min({row.count + 1, 2}) \in {row.count + 1, 2} /\ Min({row.count + 1, 2}) <= 2
        BY <3>1, <3>2
      <3> QED BY <3>1, <3>3
    <2>3. c = [candidate |-> o, first |-> row.first, count |-> 2]
      BY <1>4, <2>2 DEF Candidate
    <2> QED BY <2>3, <1>0, <1>1, <1>4 DEF MaybeObservation
  <1> QED BY <1>2, <1>3, <1>4

LEMMA PersistKeeps ==
    ASSUME RInv, NEW w \in Worker, PersistResult(w),
           NEW o, o = job[w].result, NEW at, at = job[w].now,
           NEW n, n = Len(checks), NEW c, c = Candidate(o, at)
    PROVE  RInv'
  <1>1. /\ TypeOK /\ Fetched /\ row \in Row /\ row # NoRow
        /\ o \in Observation /\ at \in Time /\ n \in Nat
    <2>1. TypeOK /\ Fetched /\ pc[w] = "persist" BY DEF RInv, PersistResult
    <2>2. row # NoRow /\ row \in Row BY <2>1, TypeForm
    <2>3. o \in Observation /\ at \in Time BY <2>1, TypeForm DEF Fetched, Job
    <2>4. n \in Nat BY <2>1, TypeForm
    <2> QED BY <2>1, <2>2, <2>3, <2>4
  <1>2. /\ c.candidate \in MaybeObservation /\ c.first \in Time /\ c.count \in 0 .. 2
        /\ c.candidate = NoObservation <=> c.count = 0
        /\ ~Terminal(o) => c.candidate = NoObservation
        /\ Terminal(o) => c.candidate = o
        /\ Terminal(o) /\ ~Confirms(o) => c.first = at /\ c.count = 1
        /\ Terminal(o) /\ Confirms(o) => c.first = row.first /\ c.count = 2
    BY <1>1, CandidateFields
  <1>3. PICK phase \in Phase, time \in Nat :
          row' = [phase |-> phase, next |-> time, current |-> o,
                  candidate |-> c.candidate, first |-> c.first, count |-> c.count,
                  last |-> at, lease |-> 0, correction |-> row.correction \/ Corrects(o, at),
                  contradicting |-> IF Corrects(o, at) THEN o ELSE row.contradicting]
    <2>1. Plan(o, at)[1] \in Phase /\ Plan(o, at)[2] \in Nat BY <1>1, PlanTypes
    <2> QED BY <2>1 DEF PersistResult, Advanced
  <1>4. /\ checks' = Append(checks, [result |-> o, at |-> at])
        /\ pc' = [pc EXCEPT ![w] = "stable"]
        /\ UNCHANGED <<settlement, picked, research, clock, job>>
    BY DEF PersistResult, Go
  <1>5. /\ row'.current = o /\ row'.candidate = c.candidate /\ row'.first = c.first
        /\ row'.count = c.count /\ row'.last = at
        /\ row'.correction = (row.correction \/ Corrects(o, at))
        /\ row'.contradicting = IF Corrects(o, at) THEN o ELSE row.contradicting
    BY <1>3
  <1>6. row' \in Row /\ row' # NoRow
    <2>1. row.correction \in BOOLEAN /\ row.contradicting \in MaybeObservation
      BY <1>1 DEF Row, MaybeObservation
    <2>2. (row.correction \/ Corrects(o, at)) \in BOOLEAN OBVIOUS
    <2>3. (IF Corrects(o, at) THEN o ELSE row.contradicting) \in MaybeObservation
      BY <2>1, <1>1 DEF MaybeObservation
    <2>4. row' \in Row BY <1>1, <1>2, <1>3, <2>2, <2>3 DEF Row, MaybeObservation
    <2> QED BY <2>4, Distinct
  <1>7. /\ [result |-> o, at |-> at] \in Check
        /\ checks' \in Seq(Check) /\ Len(checks') = n + 1
        /\ \A i \in 1 .. n : checks'[i] = checks[i]
        /\ checks'[n + 1] = [result |-> o, at |-> at]
    <2>1. [result |-> o, at |-> at] \in Check /\ checks \in Seq(Check)
      BY <1>1, TypeForm DEF Check
    <2> QED BY <2>1, <1>4, AppendProperties
  <1>8. /\ \A i \in 1 .. n : Seen(i)' = Seen(i)
        /\ Seen(n + 1)' = Fingerprint[o]
    BY <1>7 DEF Seen
  <1>9. \A i, j \in 1 .. n :
          (Confirmed(i, j)' <=> Confirmed(i, j)) /\ (IsRun(i, j)' <=> IsRun(i, j))
    <2> SUFFICES ASSUME NEW i \in 1 .. n, NEW j \in 1 .. n
                 PROVE  (Confirmed(i, j)' <=> Confirmed(i, j)) /\ (IsRun(i, j)' <=> IsRun(i, j))
      OBVIOUS
    <2>1. \A k \in i .. j : k \in 1 .. n BY <1>1
    <2>2. IsRun(i, j)' <=> IsRun(i, j) BY <2>1, <1>8 DEF IsRun
    <2> QED BY <2>2, <1>7 DEF Confirmed
  \* The run the new candidate stands for.
  <1>10. Terminal(o) => \E i \in 1 .. n + 1 :
           /\ Starts(i, n + 1)' /\ checks'[i].at = c.first /\ (c.count >= 2 <=> i < n + 1)
    <2>1. CASE Terminal(o) /\ Confirms(o)
      <3>1. row.candidate # NoObservation /\ Fingerprint[row.candidate] = Fingerprint[o]
        BY <2>1 DEF Confirms
      <3>2. PICK i \in 1 .. n : Starts(i, n) /\ checks[i].at = row.first
        BY <3>1, <1>1 DEF RInv, CandidateIsRun
      <3>3. n > 0 /\ Seen(n) = Fingerprint[o] BY <3>1, <1>1 DEF RInv, CandidateIsRun
      <3>4. Seen(i) # NoFingerprint /\ \A k \in i .. n : Seen(k) = Seen(i)
        BY <3>2 DEF Starts, IsRun
      <3>5. Seen(n) = Seen(i) BY <3>4
      <3>6. \A k \in i .. n + 1 : k \in i .. n \/ k = n + 1 BY <1>1
      <3>7. \A k \in i .. n : k \in 1 .. n BY <1>1
      <3>8. IsRun(i, n + 1)'
        BY <3>3, <3>4, <3>5, <3>6, <3>7, <1>8 DEF IsRun
      <3>9. i > 1 => Seen(i - 1)' # Seen(i)'
        <4>1. i > 1 => i - 1 \in 1 .. n OBVIOUS
        <4> QED BY <4>1, <3>2, <1>8 DEF Starts
      <3>10. i \in 1 .. n + 1 /\ i < n + 1 BY <1>1
      <3> QED BY <3>2, <3>8, <3>9, <3>10, <2>1, <1>2, <1>7 DEF Starts
    <2>2. CASE Terminal(o) /\ ~Confirms(o)
      <3>1. IsRun(n + 1, n + 1)'
        <4>1. \A k \in n + 1 .. n + 1 : k = n + 1 BY <1>1
        <4> QED BY <4>1, <2>2, <1>8 DEF IsRun, Terminal
      <3>2. n + 1 > 1 => Seen(n)' # Seen(n + 1)'
        <4> SUFFICES ASSUME n > 0 PROVE Seen(n) # Fingerprint[o]
          BY <1>1, <1>8
        <4>1. CASE row.candidate = NoObservation
          BY <4>1, <1>1, <2>2 DEF RInv, CandidateIsRun, Terminal
        <4>2. CASE row.candidate # NoObservation
          BY <4>2, <1>1, <2>2 DEF RInv, CandidateIsRun, Confirms
        <4> QED BY <4>1, <4>2
      <3>3. Starts(n + 1, n + 1)'
        <4>1. (n + 1) - 1 = n BY <1>1
        <4> QED BY <3>1, <3>2, <4>1 DEF Starts
      <3>4. n + 1 \in 1 .. n + 1 /\ ~(n + 1 < n + 1) BY <1>1
      <3> QED BY <3>3, <3>4, <2>2, <1>2, <1>7
    <2> QED BY <2>1, <2>2
  <1>11. CandidateIsRun'
    <2>1. n + 1 > 0 BY <1>1
    <2>2. row'.last = checks'[n + 1].at BY <1>5, <1>7
    <2>3. row'.candidate = NoObservation => Seen(n + 1)' = NoFingerprint
      BY <1>1, <1>2, <1>5, <1>8, ResultAssumption DEF Terminal
    <2>4. row'.candidate # NoObservation =>
            /\ Seen(n + 1)' = Fingerprint[row'.candidate]
            /\ \E i \in 1 .. n + 1 : /\ Starts(i, n + 1)' /\ checks'[i].at = row'.first
                                     /\ row'.count >= 2 <=> i < n + 1
      BY <1>2, <1>5, <1>8, <1>10
    <2> QED BY <2>1, <2>2, <2>3, <2>4, <1>6, <1>7 DEF CandidateIsRun
  <1>12. CorrectionsSettled'
    BY <1>1, <1>4, <1>5, <1>6 DEF RInv, CorrectionsSettled, Corrects, NormallySettled
  <1>13. SettledOnStableResult'
    <2> SUFFICES ASSUME NormallySettled
                 PROVE  \E i, j \in 1 .. n + 1 :
                          Confirmed(i, j)' /\ Seen(i)' = Fingerprint[settlement.result]
      BY <1>4, <1>7 DEF SettledOnStableResult, NormallySettled
    <2>1. PICK i \in 1 .. n, j \in 1 .. n :
            Confirmed(i, j) /\ Seen(i) = Fingerprint[settlement.result]
      BY DEF RInv, SettledOnStableResult
    <2>2. i \in 1 .. n + 1 /\ j \in 1 .. n + 1 BY <1>1
    <2> QED BY <2>1, <2>2, <1>8, <1>9
  \* What a confirmed run that differs from the settlement brings about.
  <1>14. ASSUME NormallySettled, NEW i \in 1 .. n + 1, Starts(i, n + 1)', Terminal(o),
                checks'[i].at = c.first, c.count >= 2 <=> i < n + 1
         PROVE  Corrects(o, at) <=> /\ Confirmed(i, n + 1)'
                                    /\ Seen(i)' # Fingerprint[settlement.result]
    <2>1. IsRun(i, n + 1)' BY <1>14 DEF Starts
    <2>2. n + 1 \in i .. n + 1 BY <1>1
    <2>3. Seen(i)' = Fingerprint[o] BY <2>1, <2>2, <1>8 DEF IsRun
    <2>4. Confirmed(i, n + 1)' <=> i < n + 1 /\ at - c.first >= FinalityDelay
      BY <2>1, <1>7, <1>14 DEF Confirmed
    <2>5. Corrects(o, at) <=> /\ Fingerprint[settlement.result] # Fingerprint[o]
                              /\ c.count >= 2 /\ at - c.first >= FinalityDelay
      BY <1>14 DEF Corrects
    <2> QED BY <2>3, <2>4, <2>5, <1>14
  <1>15. CorrectionsFlagged'
    <2> SUFFICES ASSUME NormallySettled
                 PROVE  /\ \A i \in 1 .. n + 1 :
                             /\ Confirmed(i, n + 1)'
                             /\ i > 1 => Seen(i - 1)' # Seen(i)'
                             /\ Seen(i)' # Fingerprint[settlement.result]
                             => row'.correction
                        /\ row'.correction =>
                             \E i, j \in 1 .. n + 1 :
                                /\ Confirmed(i, j)'
                                /\ Seen(i)' = Fingerprint[row'.contradicting]
                                /\ Seen(i)' # Fingerprint[settlement.result]
      BY <1>4, <1>7 DEF CorrectionsFlagged, NormallySettled
    <2>1. ASSUME NEW i \in 1 .. n + 1, Confirmed(i, n + 1)',
                 i > 1 => Seen(i - 1)' # Seen(i)',
                 Seen(i)' # Fingerprint[settlement.result]
          PROVE  row'.correction
      <3>1. Starts(i, n + 1)' BY <2>1 DEF Starts, Confirmed
      <3>2. n + 1 \in i .. n + 1 BY <1>1
      <3>3. Terminal(o) BY <3>1, <3>2, <1>8 DEF Starts, IsRun, Terminal
      <3>4. PICK k \in 1 .. n + 1 : /\ Starts(k, n + 1)' /\ checks'[k].at = c.first
                                    /\ (c.count >= 2 <=> k < n + 1)
        BY <3>3, <1>10
      <3>5. k = i
        <4>1. \A a, b \in 1 .. n + 1 : Starts(a, n + 1)' /\ Starts(b, n + 1)' /\ a < b => FALSE
          <5> SUFFICES ASSUME NEW a \in 1 .. n + 1, NEW b \in 1 .. n + 1,
                              Starts(a, n + 1)', Starts(b, n + 1)', a < b
                       PROVE  FALSE
            OBVIOUS
          <5>1. b - 1 \in a .. n + 1 /\ b \in a .. n + 1 /\ b > 1 BY <1>1
          <5>2. Seen(b - 1)' = Seen(a)' /\ Seen(b)' = Seen(a)' BY <5>1 DEF Starts, IsRun
          <5> QED BY <5>1, <5>2 DEF Starts
        <4> QED BY <4>1, <3>1, <3>4
      <3>6. Corrects(o, at) BY <3>3, <3>4, <3>5, <2>1, <1>14
      <3> QED BY <3>6, <1>5
    <2>2. ASSUME row'.correction
          PROVE  \E i, j \in 1 .. n + 1 :
                   /\ Confirmed(i, j)' /\ Seen(i)' = Fingerprint[row'.contradicting]
                   /\ Seen(i)' # Fingerprint[settlement.result]
      <3>1. CASE Corrects(o, at)
        <4>1. Terminal(o) BY <3>1 DEF Corrects
        <4>2. PICK i \in 1 .. n + 1 : /\ Starts(i, n + 1)' /\ checks'[i].at = c.first
                                      /\ (c.count >= 2 <=> i < n + 1)
          BY <4>1, <1>10
        <4>3. Confirmed(i, n + 1)' /\ Seen(i)' # Fingerprint[settlement.result]
          BY <4>1, <4>2, <3>1, <1>14
        <4>4. n + 1 \in i .. n + 1 /\ n + 1 \in 1 .. n + 1 BY <1>1
        <4>5. Seen(i)' = Fingerprint[o] BY <4>2, <4>4, <1>8 DEF Starts, IsRun
        <4>6. row'.contradicting = o BY <3>1, <1>5
        <4> QED BY <4>3, <4>4, <4>5, <4>6
      <3>2. CASE ~Corrects(o, at)
        <4>1. row.correction /\ row'.contradicting = row.contradicting BY <3>2, <2>2, <1>5
        <4>2. PICK i \in 1 .. n, j \in 1 .. n :
                /\ Confirmed(i, j) /\ Seen(i) = Fingerprint[row.contradicting]
                /\ Seen(i) # Fingerprint[settlement.result]
          BY <4>1, <1>1 DEF RInv, CorrectionsFlagged
        <4>3. i \in 1 .. n + 1 /\ j \in 1 .. n + 1 BY <1>1
        <4> QED BY <4>1, <4>2, <4>3, <1>8, <1>9
      <3> QED BY <3>1, <3>2
    <2> QED BY <2>1, <2>2
  <1>16. Fetched' BY <1>1, <1>4, TypeForm DEF Fetched
  <1>17. TypeOK'
    <2>1. row'.candidate = NoObservation <=> row'.count = 0 BY <1>2, <1>5
    <2>2. row'.correction <=> row'.contradicting # NoObservation
      BY <1>1, <1>5, TypeForm, ResultAssumption
    <2>3. pc' \in [Worker -> Places] BY <1>1, <1>4, TypeForm DEF Places
    <2> QED
      BY <2>1, <2>2, <2>3, <1>1, <1>4, <1>6, <1>7, TypeForm
      DEF TypeOK, Settlement, Places, Job, MaybeObservation, Check
  <1> QED BY <1>11, <1>12, <1>13, <1>15, <1>16, <1>17 DEF RInv

-----------------------------------------------------------------------------
(* The pick is settled, and the rest of the system.                        *)

LEMMA SettleKeeps ==
    ASSUME RInv, NEW w \in Worker, SettlePick(w),
           NEW o, o = job[w].stable, NEW n, n = Len(checks)
    PROVE  RInv'
  <1>1. /\ TypeOK /\ row \in Row /\ row # NoRow /\ job[w] \in Job /\ job[w].now \in Time
    BY TypeForm DEF RInv, SettlePick, Job
  <1>2. /\ settlement = NoSettlement /\ row.candidate = o /\ Stable
        /\ row' = [row EXCEPT !.phase = "POST_SETTLEMENT_RECHECK",
                              !.next = job[w].now + RecheckInterval]
        /\ settlement' = [kind |-> "NORMAL", result |-> o, at |-> job[w].now]
        /\ Drop(w) /\ UNCHANGED <<picked, research, clock, checks>>
    BY DEF SettlePick, StillStable
  <1>3. o \in Observation /\ o # NoObservation
    BY <1>1, <1>2 DEF Stable, Row
  <1>4. settlement' \in Settlement BY <1>1, <1>2, <1>3 DEF Settlement
  <1>5. row' \in Row /\ SameCandidate(row')
    <2>1. job[w].now + RecheckInterval \in Nat BY <1>1, ResultAssumption DEF Time
    <2> QED BY <2>1, <1>1, <1>2 DEF Row, Phase, SameCandidate
  <1>6. row' # NoRow BY <1>5, Distinct
  <1>7. /\ row'.candidate = NoObservation <=> row'.count = 0
        /\ row'.correction <=> row'.contradicting # NoObservation
    BY <1>1, <1>5, TypeForm DEF SameCandidate
  <1>8. TypeOK' /\ Fetched' BY <1>1, <1>2, <1>4, <1>5, <1>6, <1>7, DropTypes
  <1>9. CandidateIsRun'
    BY <1>1, <1>2, <1>5, <1>6 DEF RInv, CandidateIsRun, SameCandidate, Starts, IsRun, Seen
  <1>10. ~NormallySettled /\ NormallySettled' /\ ~row'.correction
    BY <1>1, <1>2, <1>5, Distinct
    DEF NormallySettled, SameCandidate, RInv, CorrectionsSettled
  <1>11. CorrectionsSettled' BY <1>6, <1>10 DEF CorrectionsSettled
  <1>12. n \in Nat /\ n > 0 /\ Seen(n) = Fingerprint[o] /\ row.last = checks[n].at
    BY <1>1, <1>2, <1>3, TypeForm DEF RInv, CandidateIsRun
  <1>13. PICK i \in 1 .. n : /\ Starts(i, n) /\ checks[i].at = row.first
                             /\ (row.count >= 2 <=> i < n)
    BY <1>1, <1>2, <1>3 DEF RInv, CandidateIsRun
  <1>14. n \in i .. n /\ n \in 1 .. n BY <1>12
  <1>15. Confirmed(i, n) BY <1>2, <1>12, <1>13 DEF Confirmed, Starts, Stable
  <1>16. settlement'.result = o BY <1>2
  <1>17. UNCHANGED checks BY <1>2
  <1>18. SettledOnStableResult'
    <2>1. Seen(i) = Fingerprint[o] BY <1>12, <1>13, <1>14 DEF Starts, IsRun
    <2>2. \E a, b \in 1 .. n : Confirmed(a, b) /\ Seen(a) = Fingerprint[o]
      BY <2>1, <1>14, <1>15
    <2> QED BY <2>2, <1>16, <1>17 DEF SettledOnStableResult, Confirmed, IsRun, Seen
  <1>19. CorrectionsFlagged'
    <2>1. \A k \in 1 .. n : Confirmed(k, n) => Seen(k) = Fingerprint[o]
      <3> SUFFICES ASSUME NEW k \in 1 .. n, Confirmed(k, n) PROVE Seen(k) = Fingerprint[o]
        OBVIOUS
      <3>1. n \in k .. n BY <1>12
      <3> QED BY <3>1, <1>12 DEF Confirmed, IsRun
    <2> QED BY <2>1, <1>10, <1>16, <1>17 DEF CorrectionsFlagged, Confirmed, IsRun, Seen
  <1> QED BY <1>8, <1>9, <1>11, <1>18, <1>19 DEF RInv

LEMMA RestKeeps ==
    ASSUME RInv, RegisterPick \/ ManualVoid \/ Tick
    PROVE  RInv'
  <1>1. TypeOK /\ Fetched BY DEF RInv
  <1>2. UNCHANGED <<row, research, pc, job, checks>> BY DEF RegisterPick, ManualVoid, Tick
  <1>3. picked' \in BOOLEAN /\ clock' \in Time
    <2>1. picked \in BOOLEAN /\ clock \in Time BY <1>1, TypeForm
    <2>2. CASE RegisterPick BY <2>1, <2>2 DEF RegisterPick
    <2>3. CASE ManualVoid BY <2>1, <2>3 DEF ManualVoid
    <2>4. CASE Tick
      <3>1. clock' \in Time BY <2>1, <2>4, ResultAssumption DEF Tick, Time
      <3> QED BY <2>1, <2>4, <3>1 DEF Tick
    <2> QED BY <2>2, <2>3, <2>4
  <1>4. /\ settlement' \in {NoSettlement} \cup Settlement
        /\ settlement' = settlement \/ (~NormallySettled /\ ~NormallySettled')
    <2>1. CASE ManualVoid
      <3>1. row \in Row /\ row.current \in Postponed
        BY <2>1, <1>1, TypeForm DEF ManualVoid
      <3>2. row.current \in Observation BY <3>1, ResultAssumption
      <3>3. settlement' = [kind |-> "MANUAL_VOID", result |-> row.current, at |-> clock]
        BY <2>1 DEF ManualVoid
      <3>4. settlement = NoSettlement BY <2>1 DEF ManualVoid
      <3> QED BY <3>2, <3>3, <3>4, <1>1, TypeForm, Distinct DEF Settlement, NormallySettled
    <2>2. CASE RegisterPick \/ Tick BY <2>2, <1>1, TypeForm DEF RegisterPick, Tick
    <2> QED BY <2>1, <2>2
  <1>5. TypeOK'
    BY <1>1, <1>2, <1>3, <1>4, TypeForm
    DEF TypeOK, Settlement, Places, Job, MaybeObservation, Check
  <1>6. Fetched' BY <1>1, <1>2 DEF Fetched
  <1>7. CASE settlement' = settlement BY <1>2, <1>5, <1>6, <1>7, RowStep
  <1>8. CASE ~NormallySettled /\ ~NormallySettled'
    <2>1. CandidateIsRun' BY <1>2 DEF RInv, CandidateIsRun, Starts, IsRun, Seen
    <2>2. CorrectionsSettled' BY <1>2, <1>8 DEF RInv, CorrectionsSettled
    <2>3. SettledOnStableResult' /\ CorrectionsFlagged'
      BY <1>8 DEF SettledOnStableResult, CorrectionsFlagged
    <2> QED BY <1>5, <1>6, <2>1, <2>2, <2>3 DEF RInv
  <1> QED BY <1>4, <1>7, <1>8

-----------------------------------------------------------------------------
(* The theorems.                                                           *)

LEMMA RInvInit == Init => RInv
  <1> SUFFICES ASSUME Init PROVE RInv OBVIOUS
  <1>1. TypeOK
    <2>1. checks \in Seq(Check) /\ clock \in Time
      BY ResultAssumption DEF Init, Time
    <2>2. pc \in [Worker -> Places] /\ job \in [Worker -> Job]
      BY Distinct DEF Init, Places
    <2>3. \A w \in Worker : pc[w] = "idle" BY DEF Init
    <2>4. row = NoRow /\ settlement = NoSettlement /\ picked \in BOOLEAN /\ research \in BOOLEAN
      BY DEF Init
    <2> QED BY <2>1, <2>2, <2>3, <2>4, TypeForm
  <1>2. Fetched BY DEF Init, Fetched
  <1>3. CandidateIsRun BY DEF Init, CandidateIsRun
  <1>4. ~NormallySettled BY Distinct DEF Init, NormallySettled
  <1>5. CorrectionsSettled BY <1>4 DEF Init, CorrectionsSettled
  <1>6. SettledOnStableResult /\ CorrectionsFlagged
    BY <1>4 DEF SettledOnStableResult, CorrectionsFlagged
  <1> QED BY <1>1, <1>2, <1>3, <1>5, <1>6 DEF RInv

LEMMA RInvStep ==
    ASSUME RInv, [Next]_vars
    PROVE  RInv'
  <1>1. CASE UNCHANGED vars
    <2>1. TypeOK' /\ Fetched' BY <1>1 DEF vars, RInv, TypeOK, Fetched
    <2> QED BY <1>1, <2>1, RowStep DEF vars
  <1>2. CASE \E w \in Worker : StartCycle(w) \/ Fetch(w) \/ StableResult(w) BY <1>2, GoKeeps
  <1>3. CASE \E w \in Worker : Reconcile(w) \/ Claim(w) BY <1>3, ClaimKeeps
  <1>4. CASE \E w \in Worker : \/ ClaimNothing(w) \/ PersistRefused(w) \/ NothingToSettle(w)
                               \/ EndCycle(w)
    BY <1>4, DropKeeps
  <1>5. CASE \E w \in Worker : Quarantine(w) \/ CompleteResearch(w) BY <1>5, CloseKeeps
  <1>6. CASE \E w \in Worker : PersistResult(w) BY <1>6, PersistKeeps
  <1>7. CASE \E w \in Worker : SettlePick(w) BY <1>7, SettleKeeps
  <1>8. CASE RegisterPick \/ ManualVoid \/ Tick BY <1>8, RestKeeps
  <1> QED BY <1>1, <1>2, <1>3, <1>4, <1>5, <1>6, <1>7, <1>8 DEF Next

\* The row's candidate, count and times stand for the last run of results.
THEOREM ResultInvariance == Spec => []RInv
  <1>1. RInv /\ [Next]_vars => RInv' BY RInvStep
  <1> QED BY RInvInit, <1>1, PTL DEF Spec

\* The row keeps its shape and its CHECKs.
THEOREM ResultTyping == Spec => []TypeOK
  <1>1. RInv => TypeOK BY DEF RInv
  <1> QED BY <1>1, ResultInvariance, PTL

\* Every normal settlement rests on two equal terminal results at least the
\* finality delay apart with no other in between, whoever persisted them.
THEOREM SettlementsAreStable == Spec => []SettledOnStableResult
  <1>1. RInv => SettledOnStableResult BY DEF RInv
  <1> QED BY <1>1, ResultInvariance, PTL

\* A confirmed result other than the settled one is flagged, and only such.
THEOREM FlagsFollowResults == Spec => []CorrectionsFlagged
  <1>1. RInv => CorrectionsFlagged BY DEF RInv
  <1> QED BY <1>1, ResultInvariance, PTL

\* A quarantined row is not moved on, nor is its pick settled on a result.
THEOREM QuarantineStands == Spec => QuarantineHolds
  <1> DEFINE Held == row.phase = "QUARANTINED" =>
               row' = row /\ (settlement' # settlement => settlement'.kind = "MANUAL_VOID")
  <1>1. RInv /\ [Next]_vars => Held
    <2> SUFFICES ASSUME RInv, [Next]_vars, row.phase = "QUARANTINED"
                 PROVE  row' = row /\ (settlement' # settlement =>
                                          settlement'.kind = "MANUAL_VOID")
      OBVIOUS
    <2>1. row # NoRow /\ row \in Row BY TypeForm, Distinct DEF RInv
    <2>2. ASSUME NEW w \in Worker, Reconcile(w) \/ Claim(w) \/ PersistResult(w)
          PROVE  row' = row /\ settlement' = settlement
      BY <2>1, <2>2 DEF Reconcile, Claim, Due, PersistResult
    <2>3. ASSUME NEW w \in Worker, Quarantine(w) PROVE row' = row /\ settlement' = settlement
      <3>1. row' = [row EXCEPT !.phase = row.phase, !.lease = row.lease]
        BY <2>3 DEF Quarantine
      <3> QED BY <3>1, <2>1, <2>3 DEF Row, Quarantine
    <2>4. ASSUME NEW w \in Worker, CompleteResearch(w) \/ SettlePick(w) PROVE FALSE
      <3>1. CASE CompleteResearch(w)
        <4>1. [row EXCEPT !.phase = "COMPLETE", !.next = job[w].now, !.lease = 0].phase
                = "COMPLETE"
          BY <2>1 DEF Row
        <4> QED BY <3>1, <4>1 DEF CompleteResearch, RowAllowed
      <3>2. CASE SettlePick(w)
        <4>1. [row EXCEPT !.phase = "POST_SETTLEMENT_RECHECK",
                          !.next = job[w].now + RecheckInterval].phase
                = "POST_SETTLEMENT_RECHECK"
          BY <2>1 DEF Row
        <4> QED BY <3>2, <4>1 DEF SettlePick, RowAllowed
      <3> QED BY <3>1, <3>2, <2>4
    <2>5. ASSUME NEW w \in Worker,
                 \/ StartCycle(w) \/ ClaimNothing(w) \/ Fetch(w) \/ PersistRefused(w)
                 \/ StableResult(w) \/ NothingToSettle(w) \/ EndCycle(w)
          PROVE  row' = row /\ settlement' = settlement
      BY <2>5 DEF StartCycle, ClaimNothing, Fetch, PersistRefused, StableResult,
                  NothingToSettle, EndCycle
    <2>6. ASSUME RegisterPick \/ ManualVoid \/ Tick
          PROVE  row' = row /\ (settlement' # settlement => settlement'.kind = "MANUAL_VOID")
      BY <2>6 DEF RegisterPick, ManualVoid, Tick
    <2>7. CASE UNCHANGED vars BY <2>7 DEF vars
    <2> QED BY <2>2, <2>3, <2>4, <2>5, <2>6, <2>7 DEF Next
  <1>2. RInv /\ [Next]_vars => [Held]_vars BY <1>1
  <1> QED BY <1>2, ResultInvariance, PTL DEF Spec, QuarantineHolds

=============================================================================
