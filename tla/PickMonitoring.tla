--------------------------- MODULE PickMonitoring ---------------------------
(***************************************************************************)
(* Registered-pick odds monitoring, from the fixture facts it reads to the *)
(* realised CLV it feeds (persistence/postgres_pick_monitoring.py,         *)
(* use_cases/pick_monitoring.py, and the parts of                          *)
(* postgres_quote_history.py, postgres_fixtures.py and                     *)
(* postgres_result_settlement.py they share tables with).                  *)
(*                                                                         *)
(* One fixture; every pick has the quote series its Entry froze. Two facts *)
(* writers append fixture observations: discovery, from a date shard it    *)
(* may have cached hours ago, and the result worker, from a fresh fetch.   *)
(* Processes run one job at a time; one that lost the leader lock still    *)
(* ends the round it is in, so two of them can overlap.                    *)
(*                                                                         *)
(* Abstractions. Odds are left out: a quote is the provider's update time  *)
(* and the instant of its capture. An observation that repeats the latest  *)
(* facts changes no query and is not written. Observations get an instant  *)
(* of their own, so none ties with another or with a capture. The settled  *)
(* result is one fact (its confirmation is in ResultSettlement).           *)
(***************************************************************************)
EXTENDS Naturals, Sequences, FiniteSets

CONSTANTS
    Pick,           \* picks of the fixture, each with its own quote series
    Worker,         \* processes
    None,           \* no quote, no finalization, no result
    Kickoffs,       \* kickoff instants the provider may announce
    FirstKickoff,   \* the one it announces first
    Interval,       \* monitoring_interval_seconds
    ClaimLimit,     \* claim_limit of RefreshRegisteredPickOdds
    MaxClock,       \* bound on the clock
    MaxMoves,       \* bound on the changes the provider announces
    MaxFacts,       \* bound on the observations written
    MaxFaults       \* bound on crashes and lost leaderships

ASSUME MonitoringConstants ==
    /\ FirstKickoff \in Kickoffs /\ Kickoffs \subseteq 1 .. MaxClock
    /\ {Interval, ClaimLimit} \subseteq Nat \ {0}
    /\ MaxClock \in Nat
    /\ None \notin Kickoffs \cup Pick
           \cup [observed : 0 .. MaxClock, captured : 0 .. MaxClock]

VARIABLES
    clock,
    provider,       \* what the provider has said of the fixture, in order
    observations,   \* fixture_observations, in the order of observed_at
    quotes,         \* quote_snapshots of each pick's series
    entry,          \* registered_picks.entry_snapshot_id, None before registration
    monitor,        \* pick_monitoring_states
    closing,        \* pick_closing_finalizations
    result,         \* provider_kickoff_at of the settled result
    clv,            \* picks with a pick_realized_clv row
    leader, worker, faults

facts == <<provider, observations>>
outcome == <<result, clv>>
vars == <<clock, facts, quotes, entry, monitor, closing, outcome,
          leader, worker, faults>>

Fact == [kickoff : Kickoffs, status : {"NS", "PST", "FT"}]
Quote == [observed : 0 .. MaxClock, captured : 0 .. MaxClock]
Idle == [step |-> "idle", now |-> 0, todo |-> {}, quote |-> None, pick |-> None]
Unmonitored == [state |-> "REGISTERED", next |-> 0]
Closed == [state |-> "CLOSED", next |-> 0]

\* The statuses of the pick policy's configuration.
Allowed == {"NS"}

-----------------------------------------------------------------------------
(* Queries *)

Latest == observations[Len(observations)]

\* ORDER BY observed_at DESC LIMIT 1 among those observed and persisted by t.
KnownAt(t) ==
    LET known == {i \in DOMAIN observations : observations[i].at <= t}
    IN observations[CHOOSE i \in known : \A j \in known : j <= i]

\* INSERT ... ON CONFLICT (series_id, observed_at, source) DO NOTHING: the
\* first capture of an update stays.
Stored(snapshots, q) ==
    IF \E s \in snapshots : s.observed = q.observed THEN snapshots
                                                   ELSE snapshots \cup {q}

\* Mutant: the retired age veto, no quote older than one interval.
RecentQuote(q, cutoff) ==
    /\ q.observed < cutoff /\ q.captured < cutoff /\ cutoff <= q.observed + Interval
    /\ LET fact == KnownAt(q.captured)
       IN fact.status \in Allowed /\ q.observed < fact.kickoff /\ q.captured < fact.kickoff

ValidQuote(q, cutoff) ==
    /\ q.observed < cutoff /\ q.captured < cutoff
    /\ LET fact == KnownAt(q.captured)
       IN fact.status \in Allowed /\ q.observed < fact.kickoff /\ q.captured < fact.kickoff

\* Mutant: the order of the opening quote.
OpeningCandidate(p, cutoff) ==
    LET valid == {q \in quotes[p] : ValidQuote(q, cutoff)}
    IN IF valid = {} THEN None
       ELSE CHOOSE q \in valid : \A r \in valid : q.observed <= r.observed

\* _candidate with order = "latest".
Candidate(p, cutoff) ==
    LET valid == {q \in quotes[p] : ValidQuote(q, cutoff)}
    IN IF valid = {} THEN None
       ELSE CHOOSE q \in valid : \A r \in valid : r.observed <= q.observed

Registered == {p \in Pick : entry[p] # None}
Monitored == {p \in Pick : monitor[p].state = "MONITORING"}
DueRefreshes(t) == {p \in Monitored : monitor[p].next <= t}

-----------------------------------------------------------------------------
Init ==
    /\ clock = 0
    /\ provider = <<[kickoff |-> FirstKickoff, status |-> "NS"]>>
    /\ observations = <<[kickoff |-> FirstKickoff, status |-> "NS", at |-> 0]>>
    /\ quotes = [p \in Pick |-> {[observed |-> 0, captured |-> 0]}]
    /\ entry = [p \in Pick |-> None]
    /\ monitor = [p \in Pick |-> Unmonitored]
    /\ closing = [p \in Pick |-> None]
    /\ result = None
    /\ clv = {}
    /\ leader \in Worker
    /\ worker = [w \in Worker |-> Idle]
    /\ faults = 0

Tick ==
    /\ clock < MaxClock
    /\ clock' = clock + 1
    /\ UNCHANGED <<facts, quotes, entry, monitor, closing, outcome, leader, worker, faults>>

Said == provider[Len(provider)]

\* The provider moves the match, postpones it, or ends it.
Provider ==
    /\ \/ /\ Len(provider) <= MaxMoves /\ Said.status # "FT"
          /\ \E k \in Kickoffs, s \in {"NS", "PST"} :
                 /\ k > clock /\ [kickoff |-> k, status |-> s] # Said
                 /\ provider' = Append(provider, [kickoff |-> k, status |-> s])
       \/ /\ Said.status = "NS" /\ clock > Said.kickoff
          /\ provider' = Append(provider, [Said EXCEPT !.status = "FT"])
    /\ UNCHANGED <<clock, observations, quotes, entry, monitor, closing,
                   outcome, leader, worker, faults>>

\* One more fixture observation, unless it repeats the latest facts.
Observe(fact) ==
    /\ fact.kickoff # Latest.kickoff \/ fact.status # Latest.status
    /\ Len(observations) < MaxFacts /\ clock < MaxClock
    /\ clock' = clock + 1
    /\ observations' = Append(observations,
           [kickoff |-> fact.kickoff, status |-> fact.status, at |-> clock + 1])

\* DurableFixtureDiscovery.discover: what the shard cache holds of the
\* horizon is recorded as observed now, however long ago it was fetched.
RecordDiscovery ==
    \E cached \in DOMAIN provider :
        /\ clock <= provider[cached].kickoff
        /\ Observe(provider[cached])
        /\ UNCHANGED <<provider, quotes, entry, monitor, closing, outcome,
                       leader, worker, faults>>

\* The result worker's check, after a kickoff it knew, with fresh facts.
CheckResult ==
    /\ Registered # {}
    /\ \E i \in DOMAIN observations : observations[i].kickoff <= clock
    /\ Observe(Said)
    /\ result' = IF Said.status = "FT" THEN Said.kickoff ELSE result
    /\ UNCHANGED <<provider, quotes, entry, monitor, closing, clv,
                   leader, worker, faults>>

Refreshable == Latest.status \in Allowed /\ clock < Latest.kickoff

\* What the bookmaker may show: an update not older than the last one seen.
Updates(p) == {t \in 0 .. clock : \A q \in quotes[p] : q.observed <= t}

\* Registration: the snapshot the series holds of the update becomes Entry
\* (its verification and claims are in FinalQuote).
Register(p) ==
    /\ Refreshable /\ entry[p] = None
    /\ \E t \in Updates(p) :
          /\ quotes' = [quotes EXCEPT ![p] = Stored(@, [observed |-> t, captured |-> clock])]
          /\ entry' = [entry EXCEPT ![p] = CHOOSE q \in quotes'[p] : q.observed = t]
    /\ UNCHANGED <<clock, facts, monitor, closing, outcome, leader, worker, faults>>

-----------------------------------------------------------------------------
(* RegisteredPickMonitoringWorker.run_once: reconcile, then refresh *)

At(w, step) == worker[w].step = step
Goes(w, next) == worker' = [worker EXCEPT ![w] = next]

\* Only the leader starts a round.
BeginReconcile(w) ==
    /\ leader = w /\ At(w, "idle")
    /\ Goes(w, [Idle EXCEPT !.step = "start", !.now = clock,
                            !.todo = {p \in Registered : monitor[p] = Unmonitored}])
    /\ UNCHANGED <<clock, facts, quotes, entry, monitor, closing, outcome, leader, faults>>

\* start: the advisory lock of the pick serialises it, a replay returns the
\* row, a closed pick is a conflict that ends the round.
StartMonitoring(w, p) ==
    /\ At(w, "start") /\ p \in worker[w].todo
    /\ monitor' = IF monitor[p] = Unmonitored
                  THEN [monitor EXCEPT ![p] = [state |-> "MONITORING", next |-> worker[w].now]]
                  ELSE monitor
    /\ Goes(w, IF monitor[p].state = "CLOSED" THEN Idle
                                              ELSE [worker[w] EXCEPT !.todo = @ \ {p}])
    /\ UNCHANGED <<clock, facts, quotes, entry, closing, outcome, leader, faults>>

\* Mutant: only the picks due for a refresh are offered for finalization.
ListDue(w) ==
    /\ At(w, "start") /\ worker[w].todo = {}
    /\ Goes(w, [worker[w] EXCEPT !.step = "finalize", !.todo = DueRefreshes(worker[w].now)])
    /\ UNCHANGED <<clock, facts, quotes, entry, monitor, closing, outcome, leader, faults>>

ListMonitored(w) ==
    /\ At(w, "start") /\ worker[w].todo = {}
    /\ Goes(w, [worker[w] EXCEPT !.step = "finalize", !.todo = Monitored])
    /\ UNCHANGED <<clock, facts, quotes, entry, monitor, closing, outcome, leader, faults>>

\* Captures of other processes not yet appended to the series of p.
InFlight(w, p) == {v \in Worker \ {w} : At(v, "captured") /\ worker[v].pick = p}

\* finalize: with the row of the pick and its series locked. A finalization
\* that exists is returned; before the kickoff it knows it is not due.
Finalize(w, p) ==
    LET cutoff == KnownAt(worker[w].now).kickoff
        quote == Candidate(p, cutoff)
    IN /\ At(w, "finalize") /\ p \in worker[w].todo
       /\ Goes(w, [worker[w] EXCEPT !.todo = @ \ {p}])
       /\ IF closing[p] = None /\ worker[w].now >= cutoff
          THEN /\ closing' = [closing EXCEPT ![p] =
                      [cutoff |-> cutoff, quote |-> quote, overlapped |-> InFlight(w, p) # {}]]
               /\ monitor' = [monitor EXCEPT ![p] = Closed]
          ELSE UNCHANGED <<closing, monitor>>
       /\ UNCHANGED <<clock, facts, quotes, entry, outcome, leader, faults>>

\* claim_due: at most ClaimLimit due picks, the longest due first, and their
\* next refresh is stored before anything is fetched.
ClaimDue(w) ==
    /\ At(w, "finalize") /\ worker[w].todo = {}
    /\ \E claimed \in SUBSET DueRefreshes(clock) :
          /\ Cardinality(claimed) <= ClaimLimit
          /\ Cardinality(claimed) = ClaimLimit \/ claimed = DueRefreshes(clock)
          /\ \A p \in claimed, q \in DueRefreshes(clock) \ claimed :
                 monitor[p].next <= monitor[q].next
          /\ monitor' = [p \in Pick |->
                 IF p \in claimed THEN [monitor[p] EXCEPT !.next = clock + Interval]
                                  ELSE monitor[p]]
          /\ Goes(w, [Idle EXCEPT !.step = "claimed", !.todo = claimed])
    /\ UNCHANGED <<clock, facts, quotes, entry, closing, outcome, leader, faults>>

\* quote_refresh_targets_for_picks: the claimed picks still monitored.
LoadTargets(w) ==
    /\ At(w, "claimed")
    /\ Goes(w, [worker[w] EXCEPT !.step = "fetch", !.todo = @ \cap Monitored])
    /\ UNCHANGED <<clock, facts, quotes, entry, monitor, closing, outcome, leader, faults>>

\* The provider answers and ingest reads the capture clock; or it answers
\* nothing or fails (an item failure), and the next target follows.
FetchQuote(w, p) ==
    /\ At(w, "fetch") /\ p \in worker[w].todo
    /\ \/ \E t \in Updates(p) : Goes(w, [worker[w] EXCEPT !.step = "captured", !.pick = p, !.todo = @ \ {p},
                       !.quote = [observed |-> t, captured |-> clock]])
       \/ Goes(w, [worker[w] EXCEPT !.todo = @ \ {p}])
    /\ UNCHANGED <<clock, facts, quotes, entry, monitor, closing, outcome, leader, faults>>

\* append_snapshots, under the lock of the series.
AppendQuote(w) ==
    /\ At(w, "captured")
    /\ quotes' = [quotes EXCEPT ![worker[w].pick] = Stored(@, worker[w].quote)]
    /\ Goes(w, [worker[w] EXCEPT !.step = "fetch", !.quote = None, !.pick = None])
    /\ UNCHANGED <<clock, facts, entry, monitor, closing, outcome, leader, faults>>

\* No target is left, or a request met the budget (ApiBudgetExceededError).
EndRefresh(w) ==
    /\ At(w, "fetch")
    /\ Goes(w, Idle)
    /\ UNCHANGED <<clock, facts, quotes, entry, monitor, closing, outcome, leader, faults>>

-----------------------------------------------------------------------------
(* Realised CLV, leadership and crashes *)

\* Mutant: a closing quote of another kickoff is taken.
RealizeClvOfAnyCutoff(p) ==
    /\ p \in Registered \ clv /\ result # None
    /\ closing[p] # None /\ closing[p].quote # None
    /\ clv' = clv \cup {p}
    /\ UNCHANGED <<clock, facts, quotes, entry, monitor, closing, result,
                   leader, worker, faults>>

\* finalize_clv: only a captured closing whose cutoff is the kickoff of the
\* settled result gives a realised CLV; every other answer stores nothing.
RealizeClv(p) ==
    /\ p \in Registered \ clv /\ result # None
    /\ closing[p] # None /\ closing[p].quote # None
    /\ closing[p].cutoff = result
    /\ clv' = clv \cup {p}
    /\ UNCHANGED <<clock, facts, quotes, entry, monitor, closing, result,
                   leader, worker, faults>>

\* The lock session is lost: another process leads, this one ends its round.
LoseLeadership(w) ==
    /\ leader # w /\ faults < MaxFaults
    /\ leader' = w /\ faults' = faults + 1
    /\ UNCHANGED <<clock, facts, quotes, entry, monitor, closing, outcome, worker>>

\* A process dies at any step (also on QuoteHistoryConflictError, which the
\* orchestrator treats as fatal) and restarts.
Crash(w) ==
    /\ worker[w] # Idle /\ faults < MaxFaults
    /\ Goes(w, Idle) /\ faults' = faults + 1
    /\ UNCHANGED <<clock, facts, quotes, entry, monitor, closing, outcome, leader>>

Round(w) ==
    \/ BeginReconcile(w) \/ ListMonitored(w) \/ ClaimDue(w) \/ LoadTargets(w)
    \/ AppendQuote(w) \/ EndRefresh(w)
    \/ \E p \in Pick : StartMonitoring(w, p) \/ Finalize(w, p) \/ FetchQuote(w, p)

World ==
    \/ Tick \/ Provider \/ RecordDiscovery \/ CheckResult
    \/ \E p \in Pick : Register(p) \/ RealizeClv(p)

Next ==
    \/ World
    \/ \E w \in Worker : Round(w) \/ LoseLeadership(w) \/ Crash(w)

Spec == Init /\ [][Next]_vars

\* Time passes, and a process keeps running the jobs of its rounds.
FairSpec == Spec /\ WF_vars(Tick) /\ \A w \in Worker : WF_vars(Round(w))

-----------------------------------------------------------------------------
(* Properties *)

TypeOK ==
    /\ clock \in 0 .. MaxClock
    /\ \A i \in DOMAIN provider : provider[i] \in Fact
    /\ \A i \in DOMAIN observations :
           observations[i] \in [kickoff : Kickoffs, status : {"NS", "PST", "FT"}, at : 0 .. MaxClock]
    /\ quotes \in [Pick -> SUBSET Quote] /\ entry \in [Pick -> Quote \cup {None}]
    /\ monitor \in [Pick -> [state : {"REGISTERED", "MONITORING", "CLOSED"}, next : Nat]]
    /\ \A p \in Pick : closing[p] # None => monitor[p].state = "CLOSED"
    /\ result \in Kickoffs \cup {None} /\ clv \subseteq Pick

\* The closing quote is the latest valid quote of the series before the
\* cutoff, of all that are ever stored: none that was captured in time is
\* missing, unless another process was between its capture and its append at
\* the moment of the finalization (finalize, append_snapshots).
ClosingIsLatest ==
    \A p \in Pick : closing[p] # None /\ ~closing[p].overlapped =>
        \A q \in quotes[p] : ValidQuote(q, closing[p].cutoff) =>
            closing[p].quote # None /\ q.observed <= closing[p].quote.observed

\* Entry backs the close: as long as the cutoff is after Entry's capture there
\* is a closing quote, and it is not older than Entry, so that a CLV compares
\* Entry with a later price ("a registered production pick necessarily had a
\* valid Entry quote", finalize).
EntryBacksClosing ==
    \A p \in Pick : closing[p] # None /\ entry[p].captured < closing[p].cutoff =>
        closing[p].quote # None /\ closing[p].quote.observed >= entry[p].observed

\* A realised CLV is measured on a price seen and captured before the kickoff
\* of the result it is settled on, whatever moved in between (finalize_clv).
ClvIsPreMatch ==
    \A p \in clv : /\ closing[p].quote.captured < result
                   /\ closing[p].quote.observed < result

\* Every registered pick is closed for odds in the end, whatever crashes,
\* moved kickoffs and failed fetches come first.
MonitoringEnds == \A p \in Pick : entry[p] # None ~> closing[p] # None
=============================================================================
