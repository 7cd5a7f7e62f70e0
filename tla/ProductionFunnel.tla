-------------------------- MODULE ProductionFunnel --------------------------
(***************************************************************************)
(* The Production funnel: sync clones picks formed in the research         *)
(* universes (Research, GoalLab, CornerLab) while the shared exposure cap  *)
(* has room, corner buckets first; set_state records the operator's        *)
(* PLAYED/SKIPPED answer; the universes settle their own picks.            *)
(*                                                                         *)
(* Unlike the bankroll (Bankroll), there is no account row: sync holds an  *)
(* advisory lock against other syncs and set_state the row of its one      *)
(* pick, so the exposure either reads may be overtaken before it commits.  *)
(* The connections are READ COMMITTED: each query of sync (the exposure,   *)
(* then the candidates of one universe after the other) is a step of its   *)
(* own and sees what is committed then; a session's writes are one step.   *)
(*                                                                         *)
(* Data kept abstract: a candidate is the pick it becomes (pick_id hashes  *)
(* its source identity), with its fixture, kickoff and matched buckets as  *)
(* constants; the graded ROI that ranks the buckets is any ranking that    *)
(* keeps C5, then C4, first; every stake is the fallback stake.            *)
(***************************************************************************)
EXTENDS FiniteSetsExt, OperatorEvents

CONSTANTS
    Candidate,        \* picks the source universes can form
    Bucket,           \* the active intake buckets
    Fixture,          \* fixture ids
    FixtureOf,        \* source_fixture_id of a candidate
    SourceOf,         \* source_universe of a candidate
    BucketsOf,        \* the active buckets a candidate matches
    CornerRank,       \* _CORNER_FIRST_PRIORITY of a bucket, 0 for the others
    Kickoff,          \* kickoff_at of a candidate
    Tie,              \* rank of a candidate by EV, edge, decision time and id
    OpRequest,        \* request ids of operator actions
    Tx,               \* database sessions
    NoTx,             \* the owner of a free lock
    Stake,            \* fallback_stake_minor
    MaxOpenExposure,  \* max_open_exposure_minor
    MaxLead,          \* max_lead_hours
    MaxClock          \* bound: the last instant of the modelled time

ASSUME FunnelAssumption ==
    /\ Stake \in Nat \ {0} /\ MaxOpenExposure \in Nat \ {0}
    /\ MaxLead \in Nat \ {0} /\ MaxClock \in Nat
    /\ FixtureOf \in [Candidate -> Fixture]
    /\ SourceOf \in [Candidate -> {"RESEARCH", "GOALLAB", "CORNERLAB"}]
    /\ BucketsOf \in [Candidate -> (SUBSET Bucket) \ {{}}]
    /\ CornerRank \in [Bucket -> 0 .. 2]
    /\ Kickoff \in [Candidate -> Nat] /\ Tie \in [Candidate -> Nat]
    /\ \A c, d \in Candidate : Tie[c] = Tie[d] => c = d
    /\ IsFiniteSet(Candidate) /\ IsFiniteSet(Bucket) /\ IsFiniteSet(OpRequest)
    /\ EventRank \in [OpRequest -> Nat]
    /\ \A p, q \in OpRequest : EventRank[p] = EventRank[q] => p = q
    /\ NoTx \notin Tx

VARIABLES
    published,  \* candidates formed by their universe
    picks,      \* table production_funnel_picks
    opEvents,   \* table production_funnel_state_events
    settled,    \* cloned picks their universe counts as settled
    clock,      \* database time
    owner,      \* which session holds which lock
    pc,         \* where each session is in its transaction
    job,        \* the call each session is executing
    view        \* what each session read: exposure, candidates, its pick settled or not

vars == <<published, picks, opEvents, settled, clock, owner, pc, job, view>>

SyncLock == <<"advisory", "production-funnel-sync-v1">>
PickLock(c) == <<"pick", c>>
Lock == {SyncLock} \cup {PickLock(c) : c \in Candidate}

Universe == {"RESEARCH", "GOALLAB", "CORNERLAB"}

Time == 0 .. MaxClock
SyncJob == [kind : {"sync"}, now : Time]
OperatorJob == [kind : {"operator"}, request : OpRequest, pick : Candidate,
                state : OperatorState, occurred : Time, started : Time]
NoJob == [kind |-> "none"]
EventRow == [id : OpRequest, pick : Candidate, state : OperatorState,
             occurred : Time, persisted : Time]

View == [exposure : Nat, settled : BOOLEAN, seen : SUBSET Candidate]
NoView == [exposure |-> 0, settled |-> FALSE, seen |-> {}]

-----------------------------------------------------------------------------
(* _open_exposure and the intake order.                                    *)

EffectiveState(c) == StateIn(opEvents, c)

OpenPicks == {c \in picks : EffectiveState(c) # "SKIPPED" /\ c \notin settled}
OpenExposure == Stake * Cardinality(OpenPicks)

\* _research_candidates, _goallab_candidates, _cornerlab_candidates
Window(now) == {c \in published : now < Kickoff[c] /\ Kickoff[c] <= now + MaxLead}

\* Mutant: the buckets ordered by ROI alone.
OrdersByRoi ==
    {o \in [Bucket -> 1 .. Cardinality(Bucket)] : \A a, b \in Bucket : o[a] = o[b] => a = b}

\* _bucket_intake_sort_key: any ROI ranking under the operator's preference
BucketOrders ==
    {o \in [Bucket -> 1 .. Cardinality(Bucket)] :
        \A a, b \in Bucket : /\ o[a] = o[b] => a = b
                             /\ CornerRank[a] > CornerRank[b] => o[a] < o[b]}

Priority(order, c) == Min({order[b] : b \in BucketsOf[c]})

\* _candidate_sort_key
SortsBefore(order, c, d) ==
    \/ Priority(order, c) < Priority(order, d)
    \/ /\ Priority(order, c) = Priority(order, d)
       /\ \/ Kickoff[c] < Kickoff[d]
          \/ Kickoff[c] = Kickoff[d] /\ Tie[c] < Tie[d]

\* UNIQUE (source_universe, source_pick_id) and UNIQUE (source_fixture_id)
Conflicts(cloned, c) == \E d \in cloned : d = c \/ FixtureOf[d] = FixtureOf[c]

\* The picks C the intake loop clones of the candidates seen: it takes them in
\* their order, and a row is cloned unless it is blocked by the stakes of those
\* cloned before it or, ON CONFLICT DO NOTHING, a duplicate.
Intake(C, order, seen, exposure) ==
    \A c \in seen :
        LET ahead == {d \in C : SortsBefore(order, d, c)}
        IN  c \in C <=> /\ exposure + Stake * Cardinality(ahead) + Stake <= MaxOpenExposure
                        /\ ~Conflicts(picks \cup ahead, c)

-----------------------------------------------------------------------------
(* Locks and the life of a session.                                        *)

Take(t, l, next) ==
    /\ owner[l] = NoTx
    /\ owner' = [owner EXCEPT ![l] = t]
    /\ pc' = [pc EXCEPT ![t] = next]
    /\ UNCHANGED <<published, picks, opEvents, settled, clock, job, view>>

Finish(t) ==
    /\ owner' = [l \in Lock |-> IF owner[l] = t THEN NoTx ELSE owner[l]]
    /\ pc' = [pc EXCEPT ![t] = "idle"]
    /\ job' = [job EXCEPT ![t] = NoJob]
    /\ view' = [view EXCEPT ![t] = NoView]
    /\ UNCHANGED <<published, clock>>

Begin(t, j, next) ==
    /\ pc[t] = "idle"
    /\ pc' = [pc EXCEPT ![t] = next]
    /\ job' = [job EXCEPT ![t] = j]
    /\ UNCHANGED <<published, picks, opEvents, settled, clock, owner, view>>

Read(t, v, next) ==
    /\ pc[t] = "read"
    /\ pc' = [pc EXCEPT ![t] = next]
    /\ view' = [view EXCEPT ![t] = v]
    /\ UNCHANGED <<published, picks, opEvents, settled, clock, owner, job>>

-----------------------------------------------------------------------------
(* sync                                                                    *)

BeginSync(t) == Begin(t, [kind |-> "sync", now |-> clock], "sync")

LockSync(t) ==
    /\ pc[t] = "sync"
    /\ Take(t, SyncLock, "read")

ReadExposure(t) ==
    /\ job[t].kind = "sync"
    /\ Read(t, [exposure |-> OpenExposure, settled |-> FALSE, seen |-> {}], "RESEARCH")

AfterQuery == [RESEARCH |-> "GOALLAB", GOALLAB |-> "CORNERLAB", CORNERLAB |-> "commit"]

\* The candidate queries, in this order. A pick published after the query of its
\* universe is not seen by this sync. (Without an active CORNER_ bucket no
\* candidate comes from CORNERLAB, and its query is not sent.)
SelectCandidates(t) ==
    /\ pc[t] \in Universe
    /\ view' = [view EXCEPT ![t].seen = @ \cup {c \in Window(job[t].now) : SourceOf[c] = pc[t]}]
    /\ pc' = [pc EXCEPT ![t] = AfterQuery[pc[t]]]
    /\ UNCHANGED <<published, picks, opEvents, settled, clock, owner, job>>

\* All rows of the intake become visible together. A voided candidate may be
\* cloned: its universe has settled it already.
SyncCommit(t) ==
    /\ pc[t] = "commit"
    /\ job[t].kind = "sync"
    /\ \E order \in BucketOrders, C \in SUBSET view[t].seen :
          /\ Intake(C, order, view[t].seen, view[t].exposure)
          /\ picks' = picks \cup C
    /\ \E s \in SUBSET (picks' \ picks) : settled' = settled \cup s
    /\ Finish(t)
    /\ UNCHANGED opEvents

-----------------------------------------------------------------------------
(* set_state                                                               *)

Replayed(q) == \E e \in opEvents : e.id = q

\* A stored request is returned, or is a conflict, before any lock. The one
\* caller, set_operator_state of the dashboard, passes the present as occurred_at.
BeginSetState(t) ==
    \E q \in OpRequest, c \in picks, s \in OperatorState :
        /\ ~Replayed(q)
        /\ Begin(t, [kind |-> "operator", request |-> q, pick |-> c, state |-> s,
                     occurred |-> clock, started |-> clock], "pick")

LockPick(t) ==
    /\ pc[t] = "pick"
    /\ Take(t, PickLock(job[t].pick), "read")

\* Mutant: a reactivation is never checked.
NeverReactivates(j) == FALSE

\* A SKIPPED pick becomes PLAYED again and its universe has not settled it.
Reactivates(j) ==
    /\ j.state = "PLAYED"
    /\ \E e \in LatestEvents(opEvents, j.pick) : e.state = "SKIPPED" /\ j.occurred >= e.occurred
    /\ j.pick \notin settled

\* ProductionFunnelExposureError
SetStateRefuse(t) ==
    /\ pc[t] = "read"
    /\ job[t].kind = "operator"
    /\ Reactivates(job[t]) /\ OpenExposure + Stake > MaxOpenExposure
    /\ Finish(t)
    /\ UNCHANGED <<picks, opEvents, settled>>

SetStateRead(t) ==
    /\ job[t].kind = "operator"
    /\ ~(Reactivates(job[t]) /\ OpenExposure + Stake > MaxOpenExposure)
    /\ Read(t, [exposure |-> OpenExposure, settled |-> job[t].pick \in settled, seen |-> {}],
            "commit")

\* The request id was stored by another session meanwhile: UniqueViolation.
SetStateDuplicate(t) ==
    /\ pc[t] = "commit"
    /\ job[t].kind = "operator"
    /\ Replayed(job[t].request)
    /\ Finish(t)
    /\ UNCHANGED <<picks, opEvents, settled>>

SetStateCommit(t) ==
    /\ pc[t] = "commit"
    /\ job[t].kind = "operator"
    /\ ~Replayed(job[t].request)
    /\ opEvents' = opEvents \cup
          {[id |-> job[t].request, pick |-> job[t].pick, state |-> job[t].state,
            occurred |-> job[t].occurred, persisted |-> job[t].started]}
    /\ Finish(t)
    /\ UNCHANGED <<picks, settled>>

-----------------------------------------------------------------------------
(* The rest of the system.                                                 *)

\* A universe forms a pick before the kickoff.
Publish(c) ==
    /\ c \notin published
    /\ clock < Kickoff[c]
    /\ published' = published \cup {c}
    /\ UNCHANGED <<picks, opEvents, settled, clock, owner, pc, job, view>>

\* A settlement row of the universe (a void may come before the kickoff).
SettleAtSource(c) ==
    /\ c \in picks \ settled
    /\ settled' = settled \cup {c}
    /\ UNCHANGED <<published, picks, opEvents, clock, owner, pc, job, view>>

\* A Research pick is settled while the fixture's current result is terminal:
\* persist_result of a later non-terminal observation takes that back.
ReopenAtSource(c) ==
    /\ c \in settled
    /\ SourceOf[c] = "RESEARCH"
    /\ settled' = settled \ {c}
    /\ UNCHANGED <<published, picks, opEvents, clock, owner, pc, job, view>>

Abort(t) ==
    /\ pc[t] # "idle"
    /\ Finish(t)
    /\ UNCHANGED <<picks, opEvents, settled>>

Tick ==
    /\ clock < MaxClock
    /\ clock' = clock + 1
    /\ UNCHANGED <<published, picks, opEvents, settled, owner, pc, job, view>>

Init ==
    /\ published = {} /\ picks = {} /\ opEvents = {} /\ settled = {}
    /\ clock = 0
    /\ owner = [l \in Lock |-> NoTx]
    /\ pc = [t \in Tx |-> "idle"]
    /\ job = [t \in Tx |-> NoJob]
    /\ view = [t \in Tx |-> NoView]

Next ==
    \/ \E t \in Tx :
          \/ BeginSync(t) \/ LockSync(t) \/ ReadExposure(t) \/ SelectCandidates(t)
          \/ SyncCommit(t) \/ BeginSetState(t) \/ LockPick(t) \/ SetStateRefuse(t)
          \/ SetStateRead(t) \/ SetStateDuplicate(t) \/ SetStateCommit(t) \/ Abort(t)
    \/ \E c \in Candidate : Publish(c) \/ SettleAtSource(c) \/ ReopenAtSource(c)
    \/ Tick

Spec == Init /\ [][Next]_vars

-----------------------------------------------------------------------------
(* Properties.                                                             *)

\* Rows of their shapes, and sessions inside the handler of their call.
TypeOK ==
    /\ picks \subseteq published /\ published \subseteq Candidate /\ settled \subseteq picks
    /\ opEvents \subseteq EventRow
    /\ clock \in Time
    /\ owner \in [Lock -> Tx \cup {NoTx}]
    /\ pc \in [Tx -> Universe \cup {"idle", "sync", "pick", "read", "commit"}]
    /\ job \in [Tx -> SyncJob \cup OperatorJob \cup {NoJob}]
    /\ view \in [Tx -> View]
    /\ \A t \in Tx : (pc[t] = "idle" <=> job[t] = NoJob) /\ view[t].seen \subseteq published

CornerPick(c) == \E b \in BucketsOf[c] : CornerRank[b] > 0

\* PRODUCTION_CORNER_PRIORITY: a sync that clones a pick of another universe
\* leaves no corner pick that its queries returned behind, unless its fixture is
\* taken. (One published after the CornerLab query waits for the next sync.)
CornerFirst ==
    [][\A t \in Tx, c \in Candidate, d \in picks' \ picks :
         /\ pc[t] = "commit" /\ pc'[t] = "idle" /\ job[t].kind = "sync"
         /\ c \in view[t].seen /\ CornerPick(c) /\ ~CornerPick(d)
         => \E e \in picks' : FixtureOf[e] = FixtureOf[c]]_vars

\* What sync and set_state do promise about the cap: a commit that raises the
\* open exposure leaves it within max_open_exposure_minor, unless another
\* session or a universe raised it, or reopened the pick, after the read.
CapUnlessOvertaken ==
    [][\A t \in Tx :
         /\ pc[t] = "commit" /\ pc'[t] = "idle" /\ OpenExposure' > OpenExposure
         /\ view[t].exposure >= OpenExposure /\ ~view[t].settled
         => OpenExposure' <= MaxOpenExposure]_vars

\* How far writers that overtake each other exceed the cap, where no universe
\* takes a settlement back: two sessions reach twice the cap, each further one
\* may add a stake (_open_exposure is read under two different locks).
OvershootBounded ==
    OpenExposure <= 2 * MaxOpenExposure + Stake * (Cardinality(Tx) - 2)

\* "the shared exposure cap": open stakes of the funnel stay within it.
FunnelExposureCap == OpenExposure <= MaxOpenExposure

=============================================================================
