------------------------- MODULE PickMonitoringProofs -------------------------
(***************************************************************************)
(* Proofs about PickMonitoring, for any picks, workers, kickoffs, number   *)
(* of moves and number of faults. Everything the closing quote is judged   *)
(* by is read again later, from tables that only grow: the first lemmas    *)
(* say what a query of the past returns after more rows have come.         *)
(***************************************************************************)
EXTENDS PickMonitoring, WellFoundedInduction, SequenceTheorems, TLAPS

-----------------------------------------------------------------------------
(* Least and greatest elements.                                            *)

Less == {pair \in Nat \X Nat : pair[1] < pair[2]}

LEMMA Least ==
    ASSUME NEW T \in SUBSET Nat, T # {}
    PROVE  \E x \in T : \A y \in T : x <= y
  <1>1. IsWellFoundedOn(Less, Nat)
    <2>1. OpToRel(<, Nat) = Less BY DEF OpToRel, Less
    <2> QED BY <2>1, NatLessThanWellFounded
  <1>2. PICK x \in T : \A y \in T : ~(<<y, x>> \in Less) BY <1>1, WFMin
  <1>3. ASSUME NEW y \in T PROVE x <= y
    <2>1. x \in Nat /\ y \in Nat /\ <<y, x>> \in Nat \X Nat OBVIOUS
    <2>2. ~(y < x) BY <1>2, <2>1 DEF Less
    <2> QED BY <2>1, <2>2
  <1> QED BY <1>3

LEMMA Greatest ==
    ASSUME NEW T \in SUBSET Nat, T # {}, NEW bound \in Nat, \A x \in T : x <= bound
    PROVE  \E x \in T : \A y \in T : y <= x
  <1> DEFINE U == {n \in Nat : \A x \in T : x <= n}
  <1>1. U \in SUBSET Nat /\ bound \in U OBVIOUS
  <1>2. PICK m \in U : \A n \in U : m <= n BY <1>1, Least
  <1>3. m \in T
    <2> SUFFICES ASSUME m \notin T PROVE FALSE OBVIOUS
    <2>1. m \in Nat /\ \A x \in T : x \in Nat /\ x < m BY <1>2
    <2>2. m >= 1 /\ m - 1 \in Nat
      <3>1. PICK x \in T : TRUE OBVIOUS
      <3>2. x \in Nat /\ x < m BY <2>1
      <3> QED BY <2>1, <3>2
    <2>3. \A x \in T : x <= m - 1 BY <2>1, <2>2
    <2>4. m - 1 \in U BY <2>2, <2>3
    <2> QED BY <1>2, <2>1, <2>4
  <1> QED BY <1>2, <1>3

-----------------------------------------------------------------------------
(* The inductive invariant.                                                *)

Steps == {"idle", "start", "finalize", "claimed", "fetch", "captured"}
WorkRow == [step : Steps, now : 0 .. MaxClock, todo : SUBSET Pick,
            quote : Quote \cup {None}, pick : Pick \cup {None}]
MonitorRow == [state : {"REGISTERED", "MONITORING", "CLOSED"}, next : Nat]
ClosingRow == [cutoff : Kickoffs, quote : Quote \cup {None}, overlapped : BOOLEAN]
Observation == [kickoff : Kickoffs, status : {"NS", "PST", "FT"}, at : 0 .. MaxClock]

MonitoringTypes ==
    /\ clock \in 0 .. MaxClock
    /\ provider \in Seq(Fact) /\ provider # <<>>
    /\ observations \in Seq(Observation) /\ observations # <<>>
    /\ quotes \in [Pick -> SUBSET Quote] /\ entry \in [Pick -> Quote \cup {None}]
    /\ monitor \in [Pick -> MonitorRow]
    /\ closing \in [Pick -> ClosingRow \cup {None}]
    /\ result \in Kickoffs \cup {None} /\ clv \subseteq Pick
    /\ worker \in [Worker -> WorkRow]

\* Observations are in the order of their instants, all of them past.
Observed ==
    /\ observations[1] = [kickoff |-> FirstKickoff, status |-> "NS", at |-> 0]
    /\ \A i \in DOMAIN observations : observations[i].at <= clock

WorkerOK(w) ==
    /\ worker[w].now <= clock
    /\ worker[w].todo \subseteq Registered
    /\ At(w, "finalize") => \A p \in worker[w].todo : monitor[p].state # "REGISTERED"
    /\ At(w, "captured") =>
           /\ worker[w].pick \in Registered /\ worker[w].quote \in Quote
           /\ worker[w].quote.captured <= clock

\* Facts known at the capture of q allowed it.
InPlay(q) == LET fact == KnownAt(q.captured)
             IN  fact.status \in Allowed /\ q.captured < fact.kickoff

\* Entry is a stored quote, seen and captured while the match was in play.
EntryOK(p) ==
    /\ entry[p] = None => /\ quotes[p] = {[observed |-> 0, captured |-> 0]}
                          /\ \A q \in quotes[p] : InPlay(q)
                          /\ monitor[p] = Unmonitored
    /\ entry[p] # None => /\ entry[p] \in quotes[p] /\ InPlay(entry[p])
                          /\ entry[p].observed <= entry[p].captured
    /\ \A q \in quotes[p] : q.captured <= clock

\* Without an overlap a capture that is still to be stored is too late.
Complete(p) ==
    /\ \A q \in quotes[p] : ValidQuote(q, closing[p].cutoff) =>
           closing[p].quote # None /\ q.observed <= closing[p].quote.observed
    /\ \A w \in Worker : At(w, "captured") /\ worker[w].pick = p =>
           worker[w].quote.captured >= closing[p].cutoff

ClosingOK(p) ==
    closing[p] # None =>
        /\ monitor[p].state = "CLOSED" /\ closing[p].cutoff <= clock
        /\ closing[p].quote # None =>
               /\ closing[p].quote.observed < closing[p].cutoff
               /\ closing[p].quote.captured < closing[p].cutoff
        /\ entry[p].captured < closing[p].cutoff =>
               /\ closing[p].quote # None
               /\ closing[p].quote.observed >= entry[p].observed
        /\ ~closing[p].overlapped => Complete(p)

\* A settled kickoff is the last the provider says.
ResultOK ==
    /\ result # None => Said.status = "FT" /\ Said.kickoff = result
    /\ \A p \in clv : /\ result # None /\ closing[p] # None
                      /\ closing[p].quote # None /\ closing[p].cutoff = result

MonitoringInv ==
    /\ MonitoringTypes /\ Observed /\ ResultOK
    /\ \A w \in Worker : WorkerOK(w)
    /\ \A p \in Pick : EntryOK(p) /\ ClosingOK(p)

-----------------------------------------------------------------------------
(* Constants and queries.                                                  *)

LEMMA Bounds ==
    /\ MaxClock \in Nat /\ Kickoffs \subseteq 1 .. MaxClock /\ FirstKickoff \in Kickoffs
    /\ None \notin Kickoffs /\ None \notin Pick /\ None \notin Quote
    /\ \A k \in Kickoffs : k \in Nat /\ k >= 1
    /\ \A q \in Quote : q.observed \in Nat /\ q.captured \in Nat
    /\ Interval \in Nat
  BY MonitoringConstants DEF Quote

\* Something is known at every instant, and it is the last of what is known.
LEMMA KnownHas ==
    ASSUME MonitoringTypes, Observed, NEW t \in Nat
    PROVE  LET known == {i \in DOMAIN observations : observations[i].at <= t}
           IN  \E i \in known : \A j \in known : j <= i
  <1> DEFINE known == {i \in DOMAIN observations : observations[i].at <= t}
  <1>1. /\ DOMAIN observations = 1 .. Len(observations) /\ Len(observations) \in Nat
        /\ Len(observations) >= 1
    BY DEF MonitoringTypes
  <1>2. 1 \in known BY <1>1 DEF Observed
  <1>3. known \in SUBSET Nat /\ \A i \in known : i <= Len(observations) BY <1>1
  <1> HIDE DEF known
  <1>4. \E i \in known : \A j \in known : j <= i BY <1>1, <1>2, <1>3, Greatest
  <1> QED BY <1>4 DEF known

LEMMA KnownType ==
    ASSUME MonitoringTypes, Observed, NEW t \in Nat
    PROVE  KnownAt(t) \in Observation
  <1> DEFINE known == {i \in DOMAIN observations : observations[i].at <= t}
  <1>1. \E i \in known : \A j \in known : j <= i BY KnownHas
  <1>2. known \subseteq DOMAIN observations OBVIOUS
  <1> HIDE DEF known
  <1> DEFINE last == CHOOSE i \in known : \A j \in known : j <= i
  <1>3. last \in known BY <1>1
  <1>4. KnownAt(t) = observations[last] BY DEF KnownAt, known
  <1> HIDE DEF last
  <1> QED BY <1>2, <1>3, <1>4 DEF MonitoringTypes

\* The past does not change: an observation of a later instant adds nothing
\* to what was known.
LEMMA PastStands ==
    ASSUME MonitoringTypes, Observed, NEW t \in Nat, NEW o \in Observation, o.at > t,
           observations' = Append(observations, o)
    PROVE  KnownAt(t)' = KnownAt(t)
  <1> DEFINE known == {i \in DOMAIN observations : observations[i].at <= t}
             later == {i \in DOMAIN observations' : observations'[i].at <= t}
  <1>1. \E i \in known : \A j \in known : j <= i BY KnownHas
  <1>2. /\ DOMAIN observations = 1 .. Len(observations) /\ Len(observations) \in Nat
        /\ DOMAIN observations' = 1 .. Len(observations) + 1
        /\ observations'[Len(observations) + 1] = o
        /\ \A i \in DOMAIN observations : observations'[i] = observations[i]
    BY DEF MonitoringTypes
  <1>3. o.at \in Nat /\ ~(o.at <= t) BY Bounds DEF Observation
  <1>4. later = known BY <1>2, <1>3
  <1>5. known \subseteq DOMAIN observations OBVIOUS
  <1>6. KnownAt(t)' = observations'[CHOOSE i \in later : \A j \in later : j <= i]
    BY DEF KnownAt
  <1>7. KnownAt(t) = observations[CHOOSE i \in known : \A j \in known : j <= i]
    BY DEF KnownAt
  <1> HIDE DEF known, later
  <1>8. (CHOOSE i \in known : \A j \in known : j <= i) \in known BY <1>1
  <1> QED BY <1>2, <1>4, <1>5, <1>6, <1>7, <1>8

\* What is known now is the latest.
LEMMA KnownNow ==
    ASSUME MonitoringTypes, Observed
    PROVE  KnownAt(clock) = Latest
  <1> DEFINE known == {i \in DOMAIN observations : observations[i].at <= clock}
  <1>1. /\ DOMAIN observations = 1 .. Len(observations) /\ Len(observations) \in Nat
        /\ Len(observations) >= 1
    BY DEF MonitoringTypes
  <1>2. known = 1 .. Len(observations) BY <1>1 DEF Observed
  <1> DEFINE n == Len(observations)
             last == CHOOSE i \in 1 .. n : \A j \in 1 .. n : j <= i
  <1>3. KnownAt(clock) = observations[last] BY <1>2 DEF KnownAt
  <1> HIDE DEF n
  <1>4. n \in Nat /\ n \in 1 .. n /\ \A j \in 1 .. n : j <= n BY <1>1 DEF n
  <1>5. last \in 1 .. n /\ \A j \in 1 .. n : j <= last BY <1>4
  <1> HIDE DEF last
  <1>6. last = n
    <2>1. n <= last /\ last <= n /\ last \in Nat BY <1>4, <1>5
    <2> QED BY <1>4, <2>1
  <1> QED BY <1>3, <1>6 DEF Latest, n

\* The fixture as it is known now is in play.
LEMMA InPlayNow ==
    ASSUME MonitoringTypes, Observed, Refreshable, NEW q, q.captured = clock
    PROVE  InPlay(q)
  BY KnownNow DEF Refreshable, InPlay

\* _candidate: a valid quote is not newer than the one chosen.
LEMMA CandidateIsLatest ==
    ASSUME MonitoringTypes, NEW p \in Pick, NEW cutoff \in Nat
    PROVE  /\ Candidate(p, cutoff) \in Quote \cup {None}
           /\ Candidate(p, cutoff) # None =>
                  /\ Candidate(p, cutoff) \in quotes[p]
                  /\ ValidQuote(Candidate(p, cutoff), cutoff)
           /\ \A q \in quotes[p] : ValidQuote(q, cutoff) =>
                  /\ Candidate(p, cutoff) # None
                  /\ q.observed <= Candidate(p, cutoff).observed
  <1> DEFINE valid == {q \in quotes[p] : ValidQuote(q, cutoff)}
             seen == {q.observed : q \in valid}
  <1>1. valid \subseteq Quote BY DEF MonitoringTypes
  <1>2. CASE valid = {}
    BY <1>2 DEF Candidate
  <1>3. CASE valid # {}
    <2>1. seen \in SUBSET Nat /\ seen # {} /\ \A x \in seen : x <= MaxClock
      BY <1>1, <1>3, Bounds DEF Quote
    <2>2. PICK x \in seen : \A y \in seen : y <= x BY <2>1, Bounds, Greatest
    <2>3. \E q \in valid : \A r \in valid : r.observed <= q.observed BY <2>2
    <2> DEFINE best == CHOOSE q \in valid : \A r \in valid : r.observed <= q.observed
    <2>4. Candidate(p, cutoff) = best BY <1>3 DEF Candidate
    <2> HIDE DEF valid
    <2>5. best \in valid /\ \A r \in valid : r.observed <= best.observed BY <2>3
    <2> HIDE DEF best
    <2>6. best \in Quote /\ best # None BY <1>1, <2>5, Bounds
    <2> QED BY <2>4, <2>5, <2>6 DEF valid
  <1> QED BY <1>2, <1>3

-----------------------------------------------------------------------------
(* The world: time, the provider and what is observed of it.               *)

LEMMA InitHolds == Init => MonitoringInv
  <1> SUFFICES ASSUME Init PROVE MonitoringInv OBVIOUS
  <1> DEFINE first == [kickoff |-> FirstKickoff, status |-> "NS", at |-> 0]
             opening == [observed |-> 0, captured |-> 0]
  <1>1. /\ first \in Observation /\ opening \in Quote /\ Idle \in WorkRow
        /\ Unmonitored \in MonitorRow
        /\ [kickoff |-> FirstKickoff, status |-> "NS"] \in Fact
    BY Bounds DEF Observation, Quote, Idle, WorkRow, Steps, Unmonitored, MonitorRow, Fact
  <1>2. MonitoringTypes
    <2>1. provider \in Seq(Fact) /\ provider # <<>> BY <1>1 DEF Init
    <2>2. observations \in Seq(Observation) /\ observations # <<>> BY <1>1 DEF Init
    <2>3. worker \in [Worker -> WorkRow] /\ monitor \in [Pick -> MonitorRow]
      BY <1>1 DEF Init
    <2>4. quotes \in [Pick -> SUBSET Quote] BY <1>1 DEF Init
    <2> QED BY <2>1, <2>2, <2>3, <2>4, Bounds DEF Init, MonitoringTypes
  <1>3. Observed BY DEF Init, Observed
  <1>4. ResultOK BY DEF Init, ResultOK
  <1>5. \A w \in Worker : WorkerOK(w) BY DEF Init, WorkerOK, Idle, At
  <1>6. InPlay(opening)
    <2>1. Refreshable /\ opening.captured = clock
      BY Bounds DEF Init, Refreshable, Latest, Allowed
    <2> QED BY <1>2, <1>3, <2>1, InPlayNow
  <1>7. \A p \in Pick : EntryOK(p)
    BY <1>6 DEF Init, EntryOK
  <1>8. \A p \in Pick : ClosingOK(p) BY DEF Init, ClosingOK
  <1> QED BY <1>2, <1>3, <1>4, <1>5, <1>7, <1>8 DEF MonitoringInv

\* Where the past stands, what is stored keeps its meaning.
LEMMA RowsStand ==
    ASSUME MonitoringInv, UNCHANGED <<quotes, entry, monitor, closing, worker>>,
           clock' \in 0 .. MaxClock, clock' >= clock,
           \A t \in 0 .. clock : KnownAt(t)' = KnownAt(t)
    PROVE  /\ \A w \in Worker : WorkerOK(w)'
           /\ \A p \in Pick : EntryOK(p)' /\ ClosingOK(p)'
  <1>1. MonitoringTypes /\ clock \in Nat /\ clock' \in Nat
    BY Bounds DEF MonitoringInv, MonitoringTypes
  <1>2. ASSUME NEW w \in Worker PROVE WorkerOK(w)'
    <2>1. WorkerOK(w) /\ worker[w].now \in Nat
      BY <1>1, Bounds DEF MonitoringInv, MonitoringTypes, WorkRow
    <2>2. worker[w].now <= clock' BY <1>1, <2>1 DEF WorkerOK
    <2>3. At(w, "captured") => worker[w].quote.captured <= clock'
      BY <1>1, <2>1, Bounds DEF WorkerOK
    <2> QED BY <2>1, <2>2, <2>3 DEF WorkerOK, Registered, At
  <1>3. ASSUME NEW p \in Pick, NEW q \in quotes[p]
        PROVE  /\ q \in Quote /\ q.captured <= clock /\ q.captured <= clock'
               /\ InPlay(q)' <=> InPlay(q)
               /\ \A cutoff : ValidQuote(q, cutoff)' <=> ValidQuote(q, cutoff)
    <2>1. q \in Quote /\ q.captured \in Nat /\ q.captured <= clock
      BY <1>1, Bounds DEF MonitoringInv, MonitoringTypes, EntryOK
    <2>2. KnownAt(q.captured)' = KnownAt(q.captured) BY <1>1, <2>1
    <2> QED BY <1>1, <2>1, <2>2 DEF InPlay, ValidQuote
  <1>4. ASSUME NEW p \in Pick PROVE EntryOK(p)'
    <2>1. EntryOK(p) BY DEF MonitoringInv
    <2> QED BY <1>3, <2>1 DEF EntryOK
  <1>5. ASSUME NEW p \in Pick, closing[p] # None PROVE ClosingOK(p)'
    <2>1. ClosingOK(p) BY DEF MonitoringInv
    <2>2. closing[p].cutoff \in Nat BY <1>1, <1>5, Bounds DEF MonitoringTypes, ClosingRow
    <2>3. closing[p].cutoff <= clock' BY <1>1, <1>5, <2>1, <2>2 DEF ClosingOK
    <2>4. Complete(p) => Complete(p)' BY <1>3 DEF Complete, At
    <2> QED BY <1>5, <2>1, <2>3, <2>4 DEF ClosingOK
  <1>6. \A p \in Pick : ClosingOK(p)' BY <1>5 DEF ClosingOK
  <1> QED BY <1>2, <1>4, <1>6

LEMMA TickKeeps ==
    ASSUME MonitoringInv, Tick
    PROVE  MonitoringInv'
  <1>1. clock' = clock + 1 /\ clock < MaxClock /\ clock \in Nat
        /\ UNCHANGED <<provider, observations, quotes, entry, monitor, closing, result,
                       clv, worker>>
    BY Bounds DEF Tick, MonitoringInv, MonitoringTypes, facts, outcome
  <1>2. clock' \in 0 .. MaxClock /\ clock' >= clock BY <1>1, Bounds
  <1>3. MonitoringTypes' BY <1>1, <1>2 DEF MonitoringInv, MonitoringTypes
  <1>4. Observed'
    <2>1. \A i \in DOMAIN observations :
              observations[i].at \in Nat /\ observations[i].at <= clock
      <3>1. ASSUME NEW i \in DOMAIN observations PROVE observations[i] \in Observation
        BY DEF MonitoringInv, MonitoringTypes
      <3> QED BY <3>1, Bounds DEF MonitoringInv, Observed, Observation
    <2> QED BY <1>1, <2>1 DEF MonitoringInv, Observed
  <1>5. ResultOK' BY <1>1 DEF MonitoringInv, ResultOK, Said
  <1>6. \A t \in 0 .. clock : KnownAt(t)' = KnownAt(t) BY <1>1 DEF KnownAt
  <1> QED BY <1>1, <1>2, <1>3, <1>4, <1>5, <1>6, RowsStand DEF MonitoringInv

LEMMA ProviderKeeps ==
    ASSUME MonitoringInv, Provider
    PROVE  MonitoringInv'
  <1>1. UNCHANGED <<clock, observations, quotes, entry, monitor, closing, result, clv, worker>>
    BY DEF Provider, outcome
  <1>2. MonitoringTypes /\ provider \in Seq(Fact) /\ Len(provider) \in Nat /\ Len(provider) >= 1
    BY DEF MonitoringInv, MonitoringTypes
  <1>3. Said \in Fact BY <1>2 DEF Said
  <1>4. PICK fact \in Fact : provider' = Append(provider, fact) /\ Said.status # "FT"
    <2>1. ASSUME NEW k \in Kickoffs, NEW s \in {"NS", "PST"}
          PROVE  [kickoff |-> k, status |-> s] \in Fact
      BY DEF Fact
    <2>2. [Said EXCEPT !.status = "FT"] \in Fact BY <1>3 DEF Fact
    <2> QED BY <2>1, <2>2 DEF Provider
  <1>5. provider' \in Seq(Fact) /\ provider' # <<>> BY <1>2, <1>4
  <1>6. MonitoringTypes' BY <1>1, <1>2, <1>5 DEF MonitoringTypes
  <1>7. Observed' BY <1>1 DEF MonitoringInv, Observed
  <1>8. ResultOK'
    <2>1. result = None BY <1>4 DEF MonitoringInv, ResultOK
    <2> QED BY <1>1, <2>1 DEF MonitoringInv, ResultOK
  <1>9. \A t \in 0 .. clock : KnownAt(t)' = KnownAt(t) BY <1>1 DEF KnownAt
  <1>10. clock' \in 0 .. MaxClock /\ clock' >= clock BY <1>1, <1>2 DEF MonitoringTypes
  <1> QED BY <1>1, <1>6, <1>7, <1>8, <1>9, <1>10, RowsStand DEF MonitoringInv

\* One more observation, with whatever it says of the result.
LEMMA ObserveKeeps ==
    ASSUME MonitoringInv, NEW fact \in Fact, Observe(fact), ResultOK',
           result' \in Kickoffs \cup {None},
           UNCHANGED <<provider, quotes, entry, monitor, closing, clv, worker>>
    PROVE  MonitoringInv'
  <1> DEFINE o == [kickoff |-> fact.kickoff, status |-> fact.status, at |-> clock + 1]
  <1>1. /\ clock' = clock + 1 /\ clock < MaxClock
        /\ observations' = Append(observations, o)
    BY DEF Observe
  <1>2. MonitoringTypes /\ Observed /\ clock \in Nat
    BY Bounds DEF MonitoringInv, MonitoringTypes
  <1>3. clock' \in 0 .. MaxClock /\ clock' >= clock BY <1>1, <1>2, Bounds
  <1>4. o \in Observation /\ o.at = clock + 1 BY <1>1, <1>3 DEF Fact, Observation
  <1> HIDE DEF o
  <1>5. /\ observations' \in Seq(Observation) /\ observations' # <<>>
        /\ Len(observations) \in Nat /\ Len(observations) >= 1
        /\ DOMAIN observations' = 1 .. Len(observations) + 1
        /\ DOMAIN observations = 1 .. Len(observations)
        /\ observations'[Len(observations) + 1] = o
        /\ \A i \in DOMAIN observations : observations'[i] = observations[i]
    BY <1>1, <1>2, <1>4 DEF MonitoringTypes
  <1>6. MonitoringTypes' BY <1>2, <1>3, <1>5 DEF MonitoringTypes
  <1>7. Observed'
    <2>1. ASSUME NEW i \in DOMAIN observations PROVE observations'[i].at <= clock'
      <3>1. observations[i].at \in Nat /\ observations[i].at <= clock
        <4>1. observations[i] \in Observation BY <1>2 DEF MonitoringTypes
        <4> QED BY <1>2, <4>1, Bounds DEF Observed, Observation
      <3> QED BY <1>1, <1>2, <1>5, <2>1, <3>1
    <2>2. o.at <= clock' BY <1>1, <1>2, <1>4
    <2>3. observations'[1] = observations[1] BY <1>5
    <2>4. ASSUME NEW i \in DOMAIN observations' PROVE observations'[i].at <= clock'
      BY <1>5, <2>1, <2>2, <2>4
    <2> QED BY <1>2, <2>3, <2>4 DEF Observed
  <1>8. ASSUME NEW t \in 0 .. clock PROVE KnownAt(t)' = KnownAt(t)
    <2>1. t \in Nat /\ o.at > t BY <1>2, <1>4
    <2> QED BY <1>1, <1>2, <1>4, <2>1, PastStands
  <1> QED BY <1>3, <1>6, <1>7, <1>8, RowsStand DEF MonitoringInv

LEMMA DiscoveryKeeps ==
    ASSUME MonitoringInv, RecordDiscovery
    PROVE  MonitoringInv'
  <1>1. PICK cached \in DOMAIN provider : Observe(provider[cached])
    BY DEF RecordDiscovery
  <1>2. provider[cached] \in Fact BY DEF MonitoringInv, MonitoringTypes
  <1>3. UNCHANGED <<provider, quotes, entry, monitor, closing, result, clv, worker>>
    BY DEF RecordDiscovery, outcome
  <1>4. ResultOK' BY <1>3 DEF MonitoringInv, ResultOK, Said
  <1>5. result' \in Kickoffs \cup {None} BY <1>3 DEF MonitoringInv, MonitoringTypes
  <1> QED BY <1>1, <1>2, <1>3, <1>4, <1>5, ObserveKeeps

LEMMA CheckResultKeeps ==
    ASSUME MonitoringInv, CheckResult
    PROVE  MonitoringInv'
  <1>1. MonitoringTypes /\ ResultOK BY DEF MonitoringInv
  <1>2. Said \in Fact BY <1>1 DEF MonitoringTypes, Said
  <1>3. /\ Observe(Said)
        /\ result' = IF Said.status = "FT" THEN Said.kickoff ELSE result
        /\ UNCHANGED <<provider, quotes, entry, monitor, closing, clv, worker>>
    BY DEF CheckResult
  <1>4. Said' = Said BY <1>3 DEF Said
  <1>5. result # None => result' = result BY <1>1, <1>3 DEF ResultOK
  <1>6. ResultOK' BY <1>1, <1>3, <1>4, <1>5 DEF ResultOK
  <1>7. result' \in Kickoffs \cup {None} BY <1>1, <1>2, <1>3 DEF MonitoringTypes, Fact
  <1> QED BY <1>2, <1>3, <1>6, <1>7, ObserveKeeps

-----------------------------------------------------------------------------
(* Steps that leave the observations and the clock alone.                  *)

\* With the same observations and clock a query returns the same.
LEMMA SameQueries ==
    ASSUME UNCHANGED <<clock, observations>>
    PROVE  /\ \A q : InPlay(q)' <=> InPlay(q)
           /\ \A q, cutoff : ValidQuote(q, cutoff)' <=> ValidQuote(q, cutoff)
  BY DEF InPlay, ValidQuote, KnownAt

\* Steps of a worker on itself. A capture it takes is one of now.
LEMMA WorkStep ==
    ASSUME MonitoringInv, NEW w \in Worker, NEW next \in WorkRow, Goes(w, next),
           UNCHANGED <<clock, provider, observations, quotes, entry, monitor, closing,
                       result, clv>>,
           next.now <= clock, next.todo \subseteq Registered,
           next.step = "finalize" =>
               \A p \in next.todo : monitor[p].state # "REGISTERED",
           next.step = "captured" =>
               /\ next.pick \in Registered /\ next.quote \in Quote
               /\ next.quote.captured = clock
    PROVE  MonitoringInv'
  <1>1. MonitoringTypes /\ Observed /\ ResultOK BY DEF MonitoringInv
  <1>2. /\ worker' \in [Worker -> WorkRow] /\ worker'[w] = next
        /\ \A v \in Worker \ {w} : worker'[v] = worker[v]
    BY <1>1 DEF MonitoringTypes, Goes
  <1>3. MonitoringTypes' BY <1>1, <1>2 DEF MonitoringTypes
  <1>4. Observed' /\ ResultOK' BY <1>1 DEF Observed, ResultOK, Said
  <1>5. clock \in Nat BY <1>1, Bounds DEF MonitoringTypes
  <1>6. ASSUME NEW v \in Worker PROVE WorkerOK(v)'
    <2>1. CASE v = w
      BY <1>2, <1>5, <2>1, Bounds DEF WorkerOK, At, Registered
    <2>2. CASE v # w
      BY <1>2, <2>2 DEF MonitoringInv, WorkerOK, At, Registered
    <2> QED BY <2>1, <2>2
  <1>7. ASSUME NEW p \in Pick PROVE EntryOK(p)'
    BY SameQueries DEF MonitoringInv, EntryOK
  <1>8. ASSUME NEW p \in Pick, closing[p] # None PROVE ClosingOK(p)'
    <2>1. ClosingOK(p) BY DEF MonitoringInv
    <2>2. Complete(p) => Complete(p)'
      <3>1. closing[p].cutoff <= clock BY <1>8, <2>1 DEF ClosingOK
      <3>2. closing[p].cutoff \in Nat BY <1>1, <1>8, Bounds DEF MonitoringTypes, ClosingRow
      <3>3. next.step = "captured" => next.quote.captured >= closing[p].cutoff
        BY <1>5, <3>1, <3>2
      <3> QED BY <1>2, <3>3, SameQueries DEF Complete, At
    <2> QED BY <1>8, <2>1, <2>2 DEF ClosingOK
  <1>9. \A p \in Pick : ClosingOK(p)' BY <1>8 DEF ClosingOK
  <1> QED BY <1>3, <1>4, <1>6, <1>7, <1>9 DEF MonitoringInv

LEMMA EmptyHanded ==
    /\ Idle \in WorkRow /\ Idle.step = "idle" /\ Idle.now = 0 /\ Idle.todo = {}
  BY Bounds DEF Idle, WorkRow, Steps

\* BeginReconcile, ListMonitored, LoadTargets, FetchQuote, EndRefresh, Crash.
LEMMA RoundKeeps ==
    ASSUME MonitoringInv, NEW w \in Worker,
           \/ BeginReconcile(w) \/ ListMonitored(w) \/ LoadTargets(w)
           \/ (\E p \in Pick : FetchQuote(w, p)) \/ EndRefresh(w) \/ Crash(w)
    PROVE  MonitoringInv'
  <1>1. MonitoringTypes /\ WorkerOK(w) /\ worker[w] \in WorkRow /\ clock \in 0 .. MaxClock
    BY DEF MonitoringInv, MonitoringTypes
  <1>2. Monitored \subseteq Registered
    BY DEF MonitoringInv, EntryOK, Monitored, Registered, Unmonitored
  <1>3. 0 <= clock /\ Registered \subseteq Pick BY <1>1, Bounds DEF Registered
  <1>4. UNCHANGED <<clock, provider, observations, quotes, entry, monitor, closing,
                    result, clv>>
    BY DEF BeginReconcile, ListMonitored, LoadTargets, FetchQuote, EndRefresh, Crash,
           facts, outcome
  <1>5. CASE BeginReconcile(w)
    <2> DEFINE next == [Idle EXCEPT !.step = "start", !.now = clock,
                            !.todo = {p \in Registered : monitor[p] = Unmonitored}]
    <2>1. /\ next \in WorkRow /\ next.step = "start" /\ next.now = clock
          /\ next.todo \subseteq Registered
      BY <1>1, <1>3, EmptyHanded DEF WorkRow, Steps
    <2>2. Goes(w, next) BY <1>5 DEF BeginReconcile
    <2> HIDE DEF next
    <2>3. next.now <= clock BY <1>1, <2>1
    <2> QED BY <1>4, <2>1, <2>2, <2>3, WorkStep
  <1>6. CASE ListMonitored(w)
    <2> DEFINE next == [worker[w] EXCEPT !.step = "finalize", !.todo = Monitored]
    <2>1. /\ next \in WorkRow /\ next.step = "finalize" /\ next.now = worker[w].now
          /\ next.todo = Monitored
      BY <1>1, <1>2, <1>3 DEF WorkRow, Steps
    <2>2. Goes(w, next) BY <1>6 DEF ListMonitored
    <2> HIDE DEF next
    <2>3. \A p \in next.todo : monitor[p].state # "REGISTERED" BY <2>1 DEF Monitored
    <2> QED BY <1>1, <1>2, <1>4, <2>1, <2>2, <2>3, WorkStep DEF WorkerOK
  <1>7. CASE LoadTargets(w)
    <2> DEFINE next == [worker[w] EXCEPT !.step = "fetch", !.todo = @ \cap Monitored]
    <2>1. /\ next \in WorkRow /\ next.step = "fetch" /\ next.now = worker[w].now
          /\ next.todo \subseteq worker[w].todo
      BY <1>1 DEF WorkRow, Steps
    <2>2. Goes(w, next) BY <1>7 DEF LoadTargets
    <2> HIDE DEF next
    <2> QED BY <1>1, <1>4, <2>1, <2>2, WorkStep DEF WorkerOK
  <1>8. ASSUME NEW p \in Pick, FetchQuote(w, p) PROVE MonitoringInv'
    <2>1. p \in Registered BY <1>1, <1>8 DEF FetchQuote, WorkerOK
    <2>2. CASE Goes(w, [worker[w] EXCEPT !.todo = @ \ {p}])
      <3> DEFINE next == [worker[w] EXCEPT !.todo = @ \ {p}]
      <3>1. /\ next \in WorkRow /\ next.step = "fetch" /\ next.now = worker[w].now
            /\ next.todo \subseteq worker[w].todo
        BY <1>1, <1>8 DEF WorkRow, FetchQuote, At
      <3> HIDE DEF next
      <3> QED BY <1>1, <1>4, <2>2, <3>1, WorkStep DEF WorkerOK, next
    <2>3. ASSUME NEW t \in Updates(p),
                 Goes(w, [worker[w] EXCEPT !.step = "captured", !.pick = p, !.todo = @ \ {p},
                              !.quote = [observed |-> t, captured |-> clock]])
          PROVE  MonitoringInv'
      <3> DEFINE q == [observed |-> t, captured |-> clock]
                 next == [worker[w] EXCEPT !.step = "captured", !.pick = p, !.todo = @ \ {p},
                              !.quote = q]
      <3>1. q \in Quote /\ q.captured = clock
        BY <1>1, Bounds DEF Quote, Updates
      <3> HIDE DEF q
      <3>2. /\ next \in WorkRow /\ next.step = "captured" /\ next.now = worker[w].now
            /\ next.todo \subseteq worker[w].todo /\ next.pick = p /\ next.quote = q
        BY <1>1, <3>1 DEF WorkRow, Steps
      <3>3. Goes(w, next) BY <2>3 DEF q
      <3> HIDE DEF next
      <3> QED BY <1>1, <1>4, <2>1, <3>1, <3>2, <3>3, WorkStep DEF WorkerOK
    <2> QED BY <1>8, <2>2, <2>3 DEF FetchQuote
  <1>9. CASE EndRefresh(w) \/ Crash(w)
    <2>1. Goes(w, Idle) BY <1>9 DEF EndRefresh, Crash
    <2> QED BY <1>3, <1>4, <2>1, EmptyHanded, WorkStep
  <1> QED BY <1>5, <1>6, <1>7, <1>8, <1>9

-----------------------------------------------------------------------------
(* Registration and captured quotes.                                       *)

LEMMA RegisterKeeps ==
    ASSUME MonitoringInv, NEW p \in Pick, Register(p)
    PROVE  MonitoringInv'
  <1>1. MonitoringTypes /\ Observed /\ ResultOK /\ Refreshable /\ entry[p] = None
    BY DEF MonitoringInv, Register
  <1>2. PICK t \in Updates(p) :
          /\ quotes' = [quotes EXCEPT ![p] = Stored(@, [observed |-> t, captured |-> clock])]
          /\ entry' = [entry EXCEPT ![p] = CHOOSE q \in quotes'[p] : q.observed = t]
    BY DEF Register
  <1>3. UNCHANGED <<clock, provider, observations, monitor, closing, result, clv, worker>>
    BY DEF Register, facts, outcome
  <1> DEFINE new == [observed |-> t, captured |-> clock]
             opening == [observed |-> 0, captured |-> 0]
  <1>4. new \in Quote /\ new.observed = t /\ new.captured = clock /\ t \in Nat
        /\ t <= clock /\ clock \in Nat
    BY <1>1, Bounds DEF Quote, Updates, MonitoringTypes
  <1>5. quotes[p] = {opening} /\ monitor[p] = Unmonitored
    BY <1>1 DEF MonitoringInv, EntryOK
  <1>6. quotes'[p] \subseteq {opening, new} /\ \E q \in quotes'[p] : q.observed = t
    BY <1>1, <1>2, <1>4, <1>5 DEF Stored, MonitoringTypes
  <1>7. PICK chosen \in quotes'[p] : chosen.observed = t /\ entry'[p] = chosen
    <2>1. entry'[p] = CHOOSE q \in quotes'[p] : q.observed = t
      BY <1>1, <1>2 DEF MonitoringTypes
    <2> QED BY <1>6, <2>1
  <1>8. \A r \in Pick \ {p} : entry'[r] = entry[r] /\ quotes'[r] = quotes[r]
    BY <1>1, <1>2 DEF MonitoringTypes
  <1>9. opening \in Quote /\ opening.observed = 0 /\ opening.captured = 0
    BY Bounds DEF Quote
  <1>10. InPlay(new) BY <1>1, <1>4, InPlayNow
  <1>11. InPlay(opening) BY <1>1, <1>5 DEF MonitoringInv, EntryOK
  <1>12. closing[p] = None BY <1>5 DEF MonitoringInv, ClosingOK, Unmonitored
  <1>13. quotes'[p] \in SUBSET Quote /\ chosen \in Quote /\ chosen # None
    BY <1>4, <1>6, <1>7, <1>9, Bounds
  <1>14. quotes' \in [Pick -> SUBSET Quote] /\ entry' \in [Pick -> Quote \cup {None}]
    BY <1>1, <1>2, <1>7, <1>8, <1>13 DEF MonitoringTypes
  <1>15. MonitoringTypes' BY <1>1, <1>3, <1>14 DEF MonitoringTypes
  <1>16. Observed' /\ ResultOK' BY <1>1, <1>3 DEF Observed, ResultOK, Said
  <1>17. Registered \subseteq Registered' BY <1>1, <1>7, <1>8, <1>13 DEF Registered
  <1>18. ASSUME NEW w \in Worker PROVE WorkerOK(w)'
    <2>1. WorkerOK(w) BY DEF MonitoringInv
    <2> QED BY <1>3, <1>17, <2>1 DEF WorkerOK, At
  <1>19. ASSUME NEW r \in Pick PROVE EntryOK(r)'
    <2>1. CASE r = p
      <3>1. InPlay(chosen) /\ chosen.observed <= chosen.captured
        BY <1>4, <1>6, <1>7, <1>9, <1>10, <1>11
      <3>2. InPlay(chosen)' BY <1>3, <3>1, SameQueries
      <3>3. \A q \in quotes'[p] : q.captured <= clock BY <1>4, <1>6, <1>9
      <3> QED BY <1>3, <1>7, <1>8, <1>13, <2>1, <3>1, <3>2, <3>3 DEF EntryOK
    <2>2. CASE r # p
      <3>1. EntryOK(r) BY DEF MonitoringInv
      <3> QED BY <1>3, <1>8, <2>2, <3>1, SameQueries DEF EntryOK
    <2> QED BY <2>1, <2>2
  <1>20. ASSUME NEW r \in Pick PROVE ClosingOK(r)'
    <2>1. CASE r = p BY <1>3, <1>12, <2>1 DEF ClosingOK
    <2>2. CASE r # p
      <3>1. ClosingOK(r) BY DEF MonitoringInv
      <3>2. quotes'[r] = quotes[r] /\ entry'[r] = entry[r] BY <1>8, <2>2
      <3>3. Complete(r) => Complete(r)' BY <1>3, <3>2, SameQueries DEF Complete, At
      <3> QED BY <1>3, <3>1, <3>2, <3>3 DEF ClosingOK
    <2> QED BY <2>1, <2>2
  <1> QED BY <1>15, <1>16, <1>18, <1>19, <1>20 DEF MonitoringInv

LEMMA AppendKeeps ==
    ASSUME MonitoringInv, NEW w \in Worker, AppendQuote(w)
    PROVE  MonitoringInv'
  <1>1. /\ MonitoringTypes /\ Observed /\ ResultOK /\ WorkerOK(w) /\ At(w, "captured")
        /\ worker[w] \in WorkRow
    BY DEF MonitoringInv, MonitoringTypes, AppendQuote
  <1> DEFINE next == [worker[w] EXCEPT !.step = "fetch", !.quote = None, !.pick = None]
  <1>2. /\ quotes' = [quotes EXCEPT ![worker[w].pick] = Stored(@, worker[w].quote)]
        /\ Goes(w, next)
        /\ UNCHANGED <<clock, provider, observations, entry, monitor, closing, result, clv>>
    BY DEF AppendQuote, facts, outcome
  <1>3. PICK p \in Registered, q \in Quote : p = worker[w].pick /\ q = worker[w].quote
    BY <1>1 DEF WorkerOK
  <1>4. p \in Pick /\ q.captured <= clock /\ entry[p] # None
    BY <1>1, <1>3 DEF Registered, WorkerOK
  <1>5. /\ next \in WorkRow /\ next.step = "fetch" /\ next.now = worker[w].now
        /\ next.todo = worker[w].todo
    BY <1>1 DEF WorkRow, Steps
  <1> HIDE DEF next
  <1>6. /\ worker' \in [Worker -> WorkRow] /\ worker'[w] = next
        /\ \A v \in Worker \ {w} : worker'[v] = worker[v]
    BY <1>1, <1>2, <1>5 DEF MonitoringTypes, Goes
  <1>7. /\ quotes[p] \subseteq quotes'[p] /\ quotes'[p] \subseteq quotes[p] \cup {q}
        /\ \A r \in Pick \ {p} : quotes'[r] = quotes[r]
        /\ quotes' \in [Pick -> SUBSET Quote]
    BY <1>1, <1>2, <1>3, <1>4 DEF Stored, MonitoringTypes
  <1>8. MonitoringTypes' BY <1>1, <1>2, <1>6, <1>7 DEF MonitoringTypes
  <1>9. Observed' /\ ResultOK' BY <1>1, <1>2 DEF Observed, ResultOK, Said
  <1>10. ASSUME NEW v \in Worker PROVE WorkerOK(v)'
    <2>1. WorkerOK(v) BY DEF MonitoringInv
    <2>2. CASE v = w BY <1>2, <1>5, <1>6, <2>1, <2>2 DEF WorkerOK, At, Registered
    <2>3. CASE v # w BY <1>2, <1>6, <2>1, <2>3 DEF WorkerOK, At, Registered
    <2> QED BY <2>2, <2>3
  <1>11. ASSUME NEW r \in Pick PROVE EntryOK(r)'
    <2>1. EntryOK(r) BY DEF MonitoringInv
    <2>2. CASE r = p BY <1>2, <1>4, <1>7, <2>1, <2>2, SameQueries DEF EntryOK
    <2>3. CASE r # p BY <1>2, <1>7, <2>1, <2>3, SameQueries DEF EntryOK
    <2> QED BY <2>2, <2>3
  <1>12. ASSUME NEW r \in Pick, closing[r] # None PROVE ClosingOK(r)'
    <2>1. ClosingOK(r) BY DEF MonitoringInv
    <2>2. ASSUME Complete(r) PROVE Complete(r)'
      <3>1. \A v \in Worker : At(v, "captured")' => worker'[v] = worker[v] /\ At(v, "captured")
        BY <1>5, <1>6 DEF At
      <3>2. CASE r # p BY <1>2, <1>7, <2>2, <3>1, <3>2, SameQueries DEF Complete
      <3>3. CASE r = p
        <4>1. q.captured >= closing[r].cutoff BY <1>1, <1>3, <2>2, <3>3 DEF Complete
        <4>2. closing[r].cutoff \in Nat /\ q.captured \in Nat
          BY <1>1, <1>12, Bounds DEF MonitoringTypes, ClosingRow
        <4>3. ~ValidQuote(q, closing[r].cutoff) BY <4>1, <4>2 DEF ValidQuote
        <4> QED BY <1>2, <1>7, <2>2, <3>1, <3>3, <4>3, SameQueries DEF Complete
      <3> QED BY <3>2, <3>3
    <2> QED BY <1>2, <1>12, <2>1, <2>2 DEF ClosingOK
  <1>13. \A r \in Pick : ClosingOK(r)' BY <1>2, <1>12 DEF ClosingOK
  <1> QED BY <1>8, <1>9, <1>10, <1>11, <1>13 DEF MonitoringInv

-----------------------------------------------------------------------------
(* The states of monitored picks.                                          *)

LEMMA StartKeeps ==
    ASSUME MonitoringInv, NEW w \in Worker, NEW p \in Pick, StartMonitoring(w, p)
    PROVE  MonitoringInv'
  <1>1. /\ MonitoringTypes /\ Observed /\ ResultOK /\ WorkerOK(w) /\ At(w, "start")
        /\ worker[w] \in WorkRow /\ p \in worker[w].todo /\ clock \in 0 .. MaxClock
    BY DEF MonitoringInv, MonitoringTypes, StartMonitoring
  <1>2. UNCHANGED <<clock, provider, observations, quotes, entry, closing, result, clv>>
    BY DEF StartMonitoring, facts, outcome
  <1>3. p \in Registered BY <1>1 DEF WorkerOK
  <1>4. PICK next \in WorkRow : /\ Goes(w, next) /\ next.now <= clock
                                /\ next.step \in {"start", "idle"}
                                /\ next.todo \subseteq worker[w].todo
    <2> DEFINE rest == [worker[w] EXCEPT !.todo = @ \ {p}]
    <2>1. /\ rest \in WorkRow /\ rest.now = worker[w].now /\ rest.step = "start"
          /\ rest.todo \subseteq worker[w].todo
      BY <1>1 DEF WorkRow, At
    <2>2. Goes(w, rest) \/ Goes(w, Idle) BY DEF StartMonitoring
    <2> HIDE DEF rest
    <2>3. 0 <= clock BY <1>1, Bounds
    <2> QED BY <1>1, <2>1, <2>2, <2>3, EmptyHanded DEF WorkerOK
  <1>5. /\ worker' \in [Worker -> WorkRow] /\ worker'[w] = next
        /\ \A v \in Worker \ {w} : worker'[v] = worker[v]
    BY <1>1, <1>4 DEF MonitoringTypes, Goes
  <1>6. /\ monitor' \in [Pick -> MonitorRow]
        /\ \A r \in Pick : /\ monitor'[r] = monitor[r] \/ r = p
                           /\ monitor[r].state = "CLOSED" => monitor'[r].state = "CLOSED"
                           /\ monitor[r].state # "REGISTERED" => monitor'[r].state # "REGISTERED"
    <2>1. worker[w].now \in Nat BY <1>1, Bounds DEF WorkRow
    <2>2. [state |-> "MONITORING", next |-> worker[w].now] \in MonitorRow
      BY <2>1 DEF MonitorRow
    <2> QED BY <1>1, <2>2 DEF StartMonitoring, MonitoringTypes, Unmonitored
  <1>7. MonitoringTypes' BY <1>1, <1>2, <1>5, <1>6 DEF MonitoringTypes
  <1>8. Observed' /\ ResultOK' BY <1>1, <1>2 DEF Observed, ResultOK, Said
  <1>9. ASSUME NEW v \in Worker PROVE WorkerOK(v)'
    <2>1. WorkerOK(v) BY DEF MonitoringInv
    <2>2. CASE v = w BY <1>1, <1>2, <1>4, <1>5, <2>2 DEF WorkerOK, At, Registered
    <2>3. CASE v # w BY <1>2, <1>5, <1>6, <2>1, <2>3 DEF WorkerOK, At, Registered
    <2> QED BY <2>2, <2>3
  <1>10. ASSUME NEW r \in Pick PROVE EntryOK(r)'
    BY <1>2, <1>3, <1>6, SameQueries DEF MonitoringInv, EntryOK, Registered
  <1>11. ASSUME NEW r \in Pick PROVE ClosingOK(r)'
    <2>1. Complete(r) => Complete(r)'
      <3>1. \A v \in Worker : At(v, "captured")' => worker'[v] = worker[v] /\ At(v, "captured")
        BY <1>4, <1>5 DEF At
      <3> QED BY <1>2, <3>1, SameQueries DEF Complete
    <2> QED BY <1>2, <1>6, <2>1 DEF MonitoringInv, ClosingOK
  <1> QED BY <1>7, <1>8, <1>9, <1>10, <1>11 DEF MonitoringInv

LEMMA ClaimKeeps ==
    ASSUME MonitoringInv, NEW w \in Worker, ClaimDue(w)
    PROVE  MonitoringInv'
  <1>1. /\ MonitoringTypes /\ Observed /\ ResultOK /\ clock \in 0 .. MaxClock
    BY DEF MonitoringInv, MonitoringTypes
  <1>2. UNCHANGED <<clock, provider, observations, quotes, entry, closing, result, clv>>
    BY DEF ClaimDue, facts, outcome
  <1>3. PICK claimed \in SUBSET DueRefreshes(clock) :
          /\ monitor' = [p \in Pick |->
                 IF p \in claimed THEN [monitor[p] EXCEPT !.next = clock + Interval]
                                  ELSE monitor[p]]
          /\ Goes(w, [Idle EXCEPT !.step = "claimed", !.todo = claimed])
    BY DEF ClaimDue
  <1> DEFINE next == [Idle EXCEPT !.step = "claimed", !.todo = claimed]
  <1>4. claimed \subseteq Registered /\ claimed \subseteq Pick
    BY DEF DueRefreshes, Monitored, MonitoringInv, EntryOK, Registered, Unmonitored
  <1>5. /\ next \in WorkRow /\ next.step = "claimed" /\ next.now = 0 /\ next.todo = claimed
    BY <1>4, EmptyHanded DEF WorkRow, Steps
  <1>6. Goes(w, next) BY <1>3
  <1> HIDE DEF next
  <1>7. /\ worker' \in [Worker -> WorkRow] /\ worker'[w] = next
        /\ \A v \in Worker \ {w} : worker'[v] = worker[v]
    BY <1>1, <1>5, <1>6 DEF MonitoringTypes, Goes
  <1>8. clock + Interval \in Nat /\ 0 <= clock BY <1>1, Bounds
  <1>9. /\ monitor' \in [Pick -> MonitorRow]
        /\ \A r \in Pick : /\ monitor'[r].state = monitor[r].state
                           /\ monitor'[r] = monitor[r] \/ r \in claimed
    BY <1>1, <1>3, <1>8 DEF MonitoringTypes, MonitorRow
  <1>10. MonitoringTypes' BY <1>1, <1>2, <1>7, <1>9 DEF MonitoringTypes
  <1>11. Observed' /\ ResultOK' BY <1>1, <1>2 DEF Observed, ResultOK, Said
  <1>12. ASSUME NEW v \in Worker PROVE WorkerOK(v)'
    <2>1. WorkerOK(v) BY DEF MonitoringInv
    <2>2. CASE v = w BY <1>2, <1>4, <1>5, <1>7, <1>8, <2>2 DEF WorkerOK, At, Registered
    <2>3. CASE v # w BY <1>2, <1>7, <1>9, <2>1, <2>3 DEF WorkerOK, At, Registered
    <2> QED BY <2>2, <2>3
  <1>13. ASSUME NEW r \in Pick PROVE EntryOK(r)'
    BY <1>2, <1>4, <1>9, SameQueries DEF MonitoringInv, EntryOK, Registered
  <1>14. ASSUME NEW r \in Pick PROVE ClosingOK(r)'
    <2>1. Complete(r) => Complete(r)'
      <3>1. \A v \in Worker : At(v, "captured")' => worker'[v] = worker[v] /\ At(v, "captured")
        BY <1>5, <1>7 DEF At
      <3> QED BY <1>2, <3>1, SameQueries DEF Complete
    <2> QED BY <1>2, <1>9, <2>1 DEF MonitoringInv, ClosingOK
  <1> QED BY <1>10, <1>11, <1>12, <1>13, <1>14 DEF MonitoringInv

\* finalize. The candidate is judged by facts of the past, with the quotes
\* stored so far; a capture that is not stored yet is an overlap.
LEMMA FinalizeKeeps ==
    ASSUME MonitoringInv, NEW w \in Worker, NEW p \in Pick, Finalize(w, p)
    PROVE  MonitoringInv'
  <1>1. /\ MonitoringTypes /\ Observed /\ ResultOK /\ WorkerOK(w) /\ At(w, "finalize")
        /\ worker[w] \in WorkRow /\ p \in worker[w].todo /\ clock \in Nat
    BY Bounds DEF MonitoringInv, MonitoringTypes, Finalize
  <1> DEFINE next == [worker[w] EXCEPT !.todo = @ \ {p}]
  <1>2. Goes(w, next)
        /\ UNCHANGED <<clock, provider, observations, quotes, entry, result, clv>>
    BY DEF Finalize, facts, outcome
  <1>3. /\ next \in WorkRow /\ next.step = "finalize" /\ next.now = worker[w].now
        /\ next.todo \subseteq worker[w].todo
    BY <1>1 DEF WorkRow, At
  <1> HIDE DEF next
  <1>4. /\ worker' \in [Worker -> WorkRow] /\ worker'[w] = next
        /\ \A v \in Worker \ {w} : worker'[v] = worker[v]
    BY <1>1, <1>2, <1>3 DEF MonitoringTypes, Goes
  <1>5. worker[w].now \in Nat /\ worker[w].now <= clock /\ p \in Registered
    BY <1>1, Bounds DEF WorkRow, WorkerOK
  <1>6. PICK cutoff \in Kickoffs : cutoff = KnownAt(worker[w].now).kickoff
    BY <1>1, <1>5, KnownType DEF Observation
  <1>7. cutoff \in Nat BY Bounds
  <1>8. PICK quote \in Quote \cup {None} : quote = Candidate(p, cutoff)
    BY <1>1, <1>7, CandidateIsLatest
  <1>9. PICK overlapped \in BOOLEAN : overlapped = (InFlight(w, p) # {})
    OBVIOUS
  <1> DEFINE row == [cutoff |-> cutoff, quote |-> quote, overlapped |-> overlapped]
  <1>10. \/ UNCHANGED <<closing, monitor>>
         \/ /\ closing[p] = None /\ worker[w].now >= cutoff
            /\ closing' = [closing EXCEPT ![p] = row]
            /\ monitor' = [monitor EXCEPT ![p] = Closed]
    BY <1>6, <1>8, <1>9 DEF Finalize
  <1>11. row \in ClosingRow /\ Closed \in MonitorRow /\ Closed.state = "CLOSED"
    BY DEF ClosingRow, MonitorRow, Closed
  <1>12. /\ closing' \in [Pick -> ClosingRow \cup {None}] /\ monitor' \in [Pick -> MonitorRow]
         /\ \A r \in Pick : \/ closing'[r] = closing[r] /\ monitor'[r] = monitor[r]
                            \/ /\ r = p /\ closing[p] = None /\ worker[w].now >= cutoff
                               /\ closing'[p] = row /\ monitor'[p] = Closed
    BY <1>1, <1>10, <1>11 DEF MonitoringTypes
  <1>13. row.cutoff = cutoff /\ row.quote = quote /\ row.overlapped = overlapped OBVIOUS
  <1> HIDE DEF row
  <1>14. MonitoringTypes' BY <1>1, <1>2, <1>4, <1>12 DEF MonitoringTypes
  <1>15. Observed' BY <1>1, <1>2 DEF Observed
  <1>16. ResultOK'
    <2>1. \A r \in clv : closing'[r] = closing[r] BY <1>1, <1>12 DEF ResultOK, MonitoringTypes
    <2> QED BY <1>1, <1>2, <2>1 DEF ResultOK, Said
  <1>17. ASSUME NEW v \in Worker PROVE WorkerOK(v)'
    <2>1. WorkerOK(v) BY DEF MonitoringInv
    <2>2. \A r \in Pick : monitor[r].state # "REGISTERED" => monitor'[r].state # "REGISTERED"
      BY <1>11, <1>12
    <2>3. Registered' = Registered /\ Registered \subseteq Pick BY <1>2 DEF Registered
    <2>4. CASE v = w BY <1>1, <1>2, <1>3, <1>4, <2>2, <2>3, <2>4 DEF WorkerOK, At
    <2>5. CASE v # w BY <1>2, <1>4, <2>1, <2>2, <2>3, <2>5 DEF WorkerOK, At
    <2> QED BY <2>4, <2>5
  <1>18. ASSUME NEW r \in Pick PROVE EntryOK(r)'
    BY <1>2, <1>5, <1>12, SameQueries DEF MonitoringInv, EntryOK, Registered
  <1>19. \A v \in Worker : At(v, "captured")' => worker'[v] = worker[v] /\ At(v, "captured") /\ v # w
    BY <1>3, <1>4 DEF At
  <1>20. ASSUME NEW r \in Pick, closing'[r] = closing[r] /\ monitor'[r] = monitor[r]
         PROVE  ClosingOK(r)'
    <2>1. Complete(r) => Complete(r)' BY <1>2, <1>19, <1>20, SameQueries DEF Complete
    <2> QED BY <1>2, <1>20, <2>1 DEF MonitoringInv, ClosingOK
  <1>21. ASSUME worker[w].now >= cutoff, closing'[p] = row, monitor'[p] = Closed
         PROVE  ClosingOK(p)'
    <2>1. cutoff <= clock BY <1>1, <1>5, <1>7, <1>21
    <2>2. quote # None => quote.observed < cutoff /\ quote.captured < cutoff
      BY <1>1, <1>7, <1>8, CandidateIsLatest DEF ValidQuote
    <2>3. \A q \in quotes[p] : ValidQuote(q, cutoff) => quote # None /\ q.observed <= quote.observed
      BY <1>1, <1>7, <1>8, CandidateIsLatest
    <2>4. ASSUME entry[p].captured < cutoff
          PROVE  quote # None /\ quote.observed >= entry[p].observed
      <3>1. /\ entry[p] \in quotes[p] /\ InPlay(entry[p]) /\ entry[p] \in Quote
            /\ entry[p].observed <= entry[p].captured
        BY <1>1, <1>5 DEF MonitoringInv, EntryOK, Registered, MonitoringTypes
      <3>2. /\ entry[p].captured \in Nat /\ entry[p].observed \in Nat
            /\ KnownAt(entry[p].captured) \in Observation
        BY <1>1, <3>1, Bounds, KnownType
      <3>3. KnownAt(entry[p].captured).kickoff \in Nat BY <3>2, Bounds DEF Observation
      <3>4. ValidQuote(entry[p], cutoff)
        BY <1>7, <2>4, <3>1, <3>2, <3>3 DEF ValidQuote, InPlay
      <3>5. quote # None /\ entry[p].observed <= quote.observed BY <2>3, <3>1, <3>4
      <3> QED BY <1>8, <3>2, <3>5, Bounds
    <2>5. ~overlapped => Complete(p)'
      <3>1. ASSUME ~overlapped, NEW v \in Worker, At(v, "captured")', worker'[v].pick = p
            PROVE  FALSE
        BY <1>9, <1>19, <3>1 DEF InFlight
      <3>2. \A q \in quotes[p] : ValidQuote(q, cutoff)' =>
                quote # None /\ q.observed <= quote.observed
        BY <1>2, <2>3, SameQueries
      <3> QED BY <1>2, <1>13, <1>21, <3>1, <3>2 DEF Complete
    <2> QED BY <1>2, <1>11, <1>13, <1>21, <2>1, <2>2, <2>4, <2>5 DEF ClosingOK
  <1>22. \A r \in Pick : ClosingOK(r)' BY <1>12, <1>20, <1>21
  <1> QED BY <1>14, <1>15, <1>16, <1>17, <1>18, <1>22 DEF MonitoringInv

LEMMA RealizeKeeps ==
    ASSUME MonitoringInv, NEW p \in Pick, RealizeClv(p)
    PROVE  MonitoringInv'
  <1>1. MonitoringTypes /\ Observed /\ ResultOK BY DEF MonitoringInv
  <1>2. UNCHANGED <<clock, provider, observations, quotes, entry, monitor, closing, result, worker>>
    BY DEF RealizeClv, facts
  <1>3. /\ clv' = clv \cup {p} /\ result # None /\ closing[p] # None
        /\ closing[p].quote # None /\ closing[p].cutoff = result
    BY DEF RealizeClv
  <1>4. MonitoringTypes' BY <1>1, <1>2, <1>3 DEF MonitoringTypes
  <1>5. Observed' BY <1>1, <1>2 DEF Observed
  <1>6. ResultOK' BY <1>1, <1>2, <1>3 DEF ResultOK, Said
  <1>7. \A t \in 0 .. clock : KnownAt(t)' = KnownAt(t) BY <1>2 DEF KnownAt
  <1>8. clock' \in 0 .. MaxClock /\ clock' >= clock BY <1>1, <1>2 DEF MonitoringTypes
  <1> QED BY <1>2, <1>4, <1>5, <1>6, <1>7, <1>8, RowsStand DEF MonitoringInv

LEMMA NextKeeps == MonitoringInv /\ [Next]_vars => MonitoringInv'
  <1> SUFFICES ASSUME MonitoringInv, [Next]_vars PROVE MonitoringInv' OBVIOUS
  <1>1. ASSUME UNCHANGED <<clock, provider, observations, quotes, entry, monitor, closing,
                           result, clv, worker>>
        PROVE  MonitoringInv'
    <2>1. MonitoringTypes /\ Observed /\ ResultOK BY DEF MonitoringInv
    <2>2. MonitoringTypes' BY <1>1, <2>1 DEF MonitoringTypes
    <2>3. Observed' /\ ResultOK' BY <1>1, <2>1 DEF Observed, ResultOK, Said
    <2>4. \A t \in 0 .. clock : KnownAt(t)' = KnownAt(t) BY <1>1 DEF KnownAt
    <2>5. clock' \in 0 .. MaxClock /\ clock' >= clock BY <1>1, <2>1 DEF MonitoringTypes
    <2> QED BY <1>1, <2>2, <2>3, <2>4, <2>5, RowsStand DEF MonitoringInv
  <1>2. CASE World
    <2>1. ASSUME NEW p \in Pick, Register(p) \/ RealizeClv(p) PROVE MonitoringInv'
      BY <2>1, RegisterKeeps, RealizeKeeps
    <2> QED BY <1>2, <2>1, TickKeeps, ProviderKeeps, DiscoveryKeeps, CheckResultKeeps
        DEF World
  <1>3. ASSUME NEW w \in Worker, Round(w) \/ LoseLeadership(w) \/ Crash(w)
        PROVE  MonitoringInv'
    <2>1. CASE LoseLeadership(w) BY <1>1, <2>1 DEF LoseLeadership, facts, outcome
    <2>2. CASE \/ BeginReconcile(w) \/ ListMonitored(w) \/ LoadTargets(w)
               \/ (\E p \in Pick : FetchQuote(w, p)) \/ EndRefresh(w) \/ Crash(w)
      BY <2>2, RoundKeeps
    <2>3. CASE ClaimDue(w) BY <2>3, ClaimKeeps
    <2>4. CASE AppendQuote(w) BY <2>4, AppendKeeps
    <2>5. ASSUME NEW p \in Pick, StartMonitoring(w, p) PROVE MonitoringInv'
      BY <2>5, StartKeeps
    <2>6. ASSUME NEW p \in Pick, Finalize(w, p) PROVE MonitoringInv'
      BY <2>6, FinalizeKeeps
    <2> QED BY <1>3, <2>1, <2>2, <2>3, <2>4, <2>5, <2>6 DEF Round
  <1>4. CASE UNCHANGED vars BY <1>1, <1>4 DEF vars, facts, outcome
  <1> QED BY <1>2, <1>3, <1>4 DEF Next

-----------------------------------------------------------------------------
(* The theorems.                                                           *)

\* Every table and every round in progress keeps its shape, and a finalized
\* pick is closed (pick_monitoring_states, pick_closing_finalizations).
THEOREM MonitoringTypeCorrect == Spec => []TypeOK
  <1>1. MonitoringInv => TypeOK
    <2> SUFFICES ASSUME MonitoringInv PROVE TypeOK OBVIOUS
    <2>1. MonitoringTypes /\ \A p \in Pick : ClosingOK(p) BY DEF MonitoringInv
    <2>2. \A i \in DOMAIN provider : provider[i] \in Fact BY <2>1 DEF MonitoringTypes
    <2>3. \A i \in DOMAIN observations : observations[i] \in Observation
      BY <2>1 DEF MonitoringTypes
    <2> QED BY <2>1, <2>2, <2>3 DEF TypeOK, MonitoringTypes, ClosingOK, MonitorRow, Observation
  <1> QED BY <1>1, InitHolds, NextKeeps, PTL DEF Spec

\* The closing quote is the latest valid one of all that are ever stored for
\* the pick, unless a capture overlapped the finalization (finalize,
\* append_snapshots).
THEOREM ClosingStaysLatest == Spec => []ClosingIsLatest
  <1>1. MonitoringInv => ClosingIsLatest
    BY DEF MonitoringInv, ClosingOK, Complete, ClosingIsLatest
  <1> QED BY <1>1, InitHolds, NextKeeps, PTL DEF Spec

\* A cutoff after Entry's capture has a closing quote, and one that is not
\* older than Entry ("a registered production pick necessarily had a valid
\* Entry quote", finalize).
THEOREM EntryAlwaysBacksClosing == Spec => []EntryBacksClosing
  <1>1. MonitoringInv => EntryBacksClosing
    BY DEF MonitoringInv, ClosingOK, EntryBacksClosing
  <1> QED BY <1>1, InitHolds, NextKeeps, PTL DEF Spec

\* A realised CLV is measured on a price seen and captured before the kickoff
\* it was settled on, whatever was announced in between (finalize_clv).
THEOREM RealizedClvIsPreMatch == Spec => []ClvIsPreMatch
  <1>1. MonitoringInv => ClvIsPreMatch
    BY DEF MonitoringInv, MonitoringTypes, ClosingOK, ResultOK, ClvIsPreMatch
  <1> QED BY <1>1, InitHolds, NextKeeps, PTL DEF Spec
=============================================================================
