-------------------------- MODULE ResultSettlement --------------------------
(***************************************************************************)
(* The result of one fixture: how ReconcileFixtureResults claims it, polls *)
(* the provider, waits for a stable terminal result, settles the pick on   *)
(* it and keeps watching for a correction; how a result that contradicts   *)
(* the fixture's identity is quarantined.                                  *)
(*                                                                         *)
(* A worker is one execute() cycle at a time, and stamps everything it     *)
(* does with the time the cycle began. The leader lock makes one worker    *)
(* the rule, but a leader that lost its session finishes its round while   *)
(* its successor starts, so there may be two. Every repository call is one *)
(* transaction that first locks the fixture (or state) row: one action.    *)
(*                                                                         *)
(* Data kept abstract: a result observation is a member of Observation     *)
(* with its settlement fingerprint; the fixture has at most one pick (see  *)
(* Bankroll!OnePickPerFixture), whose money is Bankroll's; the fixture     *)
(* observations persist_result appends and realized CLV are left out.      *)
(***************************************************************************)
EXTENDS Integers, Sequences, FiniteSetsExt

CONSTANTS
    Worker,            \* processes that run the result worker
    Observation,       \* results the provider can report
    NoObservation,     \* NULL
    Fingerprint,       \* settlement_fingerprint of an observation
    NoFingerprint,     \* the fingerprint of a non-terminal observation (NULL)
    Contradicting,     \* observations whose team identity is not the fixture's
    Postponed,         \* observations with provider status PST
    FirstCheck,        \* kickoff_at + initial_delay_seconds
    PollInterval,      \* poll_interval_seconds, as of the other statuses
    FinalityDelay,     \* finality_delay_seconds
    RecheckInterval,   \* the 6 hours between post-settlement checks
    CorrectionWindow,  \* correction_window_seconds
    ClaimLease,        \* claim_lease_seconds
    MaxClock,          \* bound: the last instant of the modelled time
    MaxChecks          \* bound: results persisted

ASSUME ResultAssumption ==
    /\ Fingerprint[NoObservation] = NoFingerprint
    /\ Contradicting \subseteq Observation /\ Postponed \subseteq Observation
    /\ \A o \in Postponed : Fingerprint[o] = NoFingerprint
    /\ NoObservation \notin Observation
    /\ {FirstCheck, PollInterval, FinalityDelay, RecheckInterval, CorrectionWindow,
        ClaimLease} \subseteq Nat \ {0}
    /\ MaxClock \in Nat /\ MaxChecks \in Nat

VARIABLES
    row,         \* the fixture's row of fixture_result_acquisition_states
    settlement,  \* the pick's settlement event, if any
    picked,      \* a pick is registered on the fixture
    research,    \* a research signal tracks the fixture
    clock,       \* the present
    pc,          \* where each worker is in execute()
    job,         \* the worker's cycle: its time and what it carries along
    checks       \* history: the results persisted, in commit order

vars == <<row, settlement, picked, research, clock, pc, job, checks>>

Phase == {"WAITING", "POLLING", "STABILIZING", "POST_SETTLEMENT_RECHECK",
          "COMPLETE", "QUARANTINED"}
NoRow == [phase |-> "none"]
NoSettlement == [kind |-> "none"]
NoJob == [now |-> 0, result |-> NoObservation, stable |-> NoObservation]

Terminal(o) == Fingerprint[o] # NoFingerprint
NormallySettled == settlement.kind = "NORMAL"

Go(w, next) == pc' = [pc EXCEPT ![w] = next]
Drop(w) == Go(w, "idle") /\ job' = [job EXCEPT ![w] = NoJob]

\* Mutant: migration 069 without its CHECK on the quarantine columns.
AnyRow(r) == TRUE

\* fixture_result_acquisition_states_quarantine_check: the quarantine reason
\* stays with the row, so a write that moves the phase away is refused.
RowAllowed(r) == row.phase = "QUARANTINED" => r.phase = "QUARANTINED"

-----------------------------------------------------------------------------
(* The cycle: reconcile, claim, fetch.                                     *)

StartCycle(w) ==
    /\ pc[w] = "idle"
    /\ Go(w, "reconcile")
    /\ job' = [job EXCEPT ![w].now = clock]
    /\ UNCHANGED <<row, settlement, picked, research, clock, checks>>

\* A fixture tracked by a pick or a signal gets its row, once.
Reconcile(w) ==
    /\ pc[w] = "reconcile"
    /\ row' = IF row = NoRow /\ (picked \/ research)
              THEN [phase |-> "WAITING", current |-> NoObservation,
                    candidate |-> NoObservation, first |-> 0, count |-> 0, last |-> 0,
                    next |-> FirstCheck, lease |-> 0, correction |-> FALSE,
                    contradicting |-> NoObservation]
              ELSE row
    /\ Go(w, "claim")
    /\ UNCHANGED <<settlement, picked, research, clock, job, checks>>

\* lease 0 stands for NULL: it is never after now.
Due(now) ==
    /\ row.phase \notin {"none", "COMPLETE", "QUARANTINED"}
    /\ row.next <= now /\ row.lease <= now

Claim(w) ==
    /\ pc[w] = "claim"
    /\ Due(job[w].now)
    /\ row' = [row EXCEPT !.lease = job[w].now + ClaimLease]
    /\ Go(w, "fetch")
    /\ UNCHANGED <<settlement, picked, research, clock, job, checks>>

ClaimNothing(w) ==
    /\ pc[w] = "claim"
    /\ ~Due(job[w].now)
    /\ Drop(w)
    /\ UNCHANGED <<row, settlement, picked, research, clock, checks>>

\* The provider answers with any result of the fixture.
Fetch(w) ==
    /\ pc[w] = "fetch"
    /\ \E o \in Observation : job' = [job EXCEPT ![w].result = o]
    /\ Go(w, "persist")
    /\ UNCHANGED <<row, settlement, picked, research, clock, checks>>

-----------------------------------------------------------------------------
(* persist_result and _advance_state.                                      *)

\* Mutant: any terminal result confirms the candidate.
AnyTerminalConfirms(o) == row.candidate # NoObservation

Confirms(o) == row.candidate # NoObservation /\ Fingerprint[row.candidate] = Fingerprint[o]

\* The candidate after a check; only whether it was seen twice matters.
Candidate(o, checked) ==
    IF ~Terminal(o) THEN [candidate |-> NoObservation, first |-> 0, count |-> 0]
    ELSE [candidate |-> o,
          first |-> IF Confirms(o) THEN row.first ELSE checked,
          count |-> IF Confirms(o) THEN Min({row.count + 1, 2}) ELSE 1]

\* Mutant: a correction needs a third sighting.
CorrectsLate(o, checked) ==
    /\ NormallySettled /\ Terminal(o) /\ Fingerprint[settlement.result] # Fingerprint[o]
    /\ row.count >= 2 /\ checked - row.first >= FinalityDelay

\* newly_confirmed_correction
Corrects(o, checked) ==
    /\ NormallySettled
    /\ Terminal(o)
    /\ Fingerprint[settlement.result] # Fingerprint[o]
    /\ Candidate(o, checked).count >= 2
    /\ checked - Candidate(o, checked).first >= FinalityDelay

Deadline == settlement.at + CorrectionWindow

\* The phase and the time of the next check.
Plan(o, checked) ==
    CASE NormallySettled /\ (row.correction \/ Corrects(o, checked) \/ checked >= Deadline) ->
           <<"COMPLETE", Max({checked, Deadline})>>
      [] NormallySettled /\ Terminal(o) /\ Fingerprint[settlement.result] = Fingerprint[o] ->
           <<"POST_SETTLEMENT_RECHECK", Min({checked + RecheckInterval, Deadline})>>
      [] Terminal(o) -> <<"STABILIZING", checked + FinalityDelay>>
      [] OTHER -> <<"POLLING", checked + PollInterval>>

Advanced(o, checked) ==
    LET c == Candidate(o, checked) IN
    [phase |-> Plan(o, checked)[1], next |-> Plan(o, checked)[2], current |-> o,
     candidate |-> c.candidate, first |-> c.first, count |-> c.count,
     last |-> checked, lease |-> 0,
     correction |-> row.correction \/ Corrects(o, checked),
     contradicting |-> IF Corrects(o, checked) THEN o ELSE row.contradicting]

PersistResult(w) ==
    /\ pc[w] = "persist"
    /\ job[w].result \notin Contradicting
    /\ row.phase # "QUARANTINED"
    /\ Len(checks) < MaxChecks
    /\ row' = Advanced(job[w].result, job[w].now)
    /\ checks' = Append(checks, [result |-> job[w].result, at |-> job[w].now])
    /\ Go(w, "stable")
    /\ UNCHANGED <<settlement, picked, research, clock, job>>

\* ResultPersistenceConflictError: reported as the item's failure.
PersistRefused(w) ==
    /\ pc[w] = "persist"
    /\ job[w].result \notin Contradicting
    /\ row.phase = "QUARANTINED"
    /\ Drop(w)
    /\ UNCHANGED <<row, settlement, picked, research, clock, checks>>

\* quarantine_identity_conflict, a transaction of its own after the refusal
Quarantine(w) ==
    /\ pc[w] = "persist"
    /\ job[w].result \in Contradicting
    /\ row' = [row EXCEPT !.phase = "QUARANTINED",
                          !.lease = IF row.phase = "QUARANTINED" THEN row.lease ELSE 0]
    /\ Drop(w)
    /\ UNCHANGED <<settlement, picked, research, clock, checks>>

-----------------------------------------------------------------------------
(* stable_result, settle_pick and the research-only completion.            *)

Stable ==
    /\ row.candidate # NoObservation
    /\ row.count >= 2
    /\ row.last - row.first >= FinalityDelay

\* stable_result, pick_ids_for_fixture and unsettled_pick_ids
StableResult(w) ==
    /\ pc[w] = "stable"
    /\ Stable /\ row.last <= job[w].now
    /\ picked => settlement = NoSettlement
    /\ job' = [job EXCEPT ![w].stable = row.candidate]
    /\ Go(w, IF picked THEN "settle" ELSE "research")
    /\ UNCHANGED <<row, settlement, picked, research, clock, checks>>

\* Not stable yet, or nothing left to settle.
NothingToSettle(w) ==
    /\ pc[w] = "stable"
    /\ (Stable /\ row.last <= job[w].now) => (picked /\ settlement # NoSettlement)
    /\ Drop(w)
    /\ UNCHANGED <<row, settlement, picked, research, clock, checks>>

\* complete_research_only_fixture: not for a fixture that has a pick by now.
CompleteResearch(w) ==
    /\ pc[w] = "research"
    /\ ~picked /\ research
    /\ row.candidate = job[w].stable
    /\ LET done == [row EXCEPT !.phase = "COMPLETE", !.next = job[w].now, !.lease = 0] IN
          RowAllowed(done) /\ row' = done
    /\ Drop(w)
    /\ UNCHANGED <<settlement, picked, research, clock, checks>>

\* What settle_pick requires of the state row under its locks.
StillStable(o) == row.candidate = o /\ Stable

SettlePick(w) ==
    /\ pc[w] = "settle"
    /\ settlement = NoSettlement
    /\ StillStable(job[w].stable)
    /\ LET done == [row EXCEPT !.phase = "POST_SETTLEMENT_RECHECK",
                               !.next = job[w].now + RecheckInterval] IN
          RowAllowed(done) /\ row' = done
    /\ settlement' = [kind |-> "NORMAL", result |-> job[w].stable, at |-> job[w].now]
    /\ Drop(w)
    /\ UNCHANGED <<picked, research, clock, checks>>

\* An exception, a replay that changes nothing, the end of the cycle, a stop
\* between two items, a fetch that failed, a lost process: the worker starts
\* over, and the lease it may hold runs out.
EndCycle(w) ==
    /\ pc[w] # "idle"
    /\ Drop(w)
    /\ UNCHANGED <<row, settlement, picked, research, clock, checks>>

-----------------------------------------------------------------------------
(* The rest of the system.                                                 *)

\* register (Bankroll): discovery may see the fixture not started, or scheduled
\* again after a cancellation, at any time.
RegisterPick ==
    /\ ~picked
    /\ picked' = TRUE
    /\ UNCHANGED <<row, settlement, research, clock, pc, job, checks>>

\* manual_void_postponed_pick: the latest evidence is a postponement.
ManualVoid ==
    /\ picked /\ settlement = NoSettlement
    /\ row # NoRow /\ row.current \in Postponed
    /\ settlement' = [kind |-> "MANUAL_VOID", result |-> row.current, at |-> clock]
    /\ UNCHANGED <<row, picked, research, clock, pc, job, checks>>

Tick ==
    /\ clock < MaxClock
    /\ clock' = clock + 1
    /\ UNCHANGED <<row, settlement, picked, research, pc, job, checks>>

Init ==
    /\ row = NoRow /\ settlement = NoSettlement
    /\ picked \in BOOLEAN /\ research \in BOOLEAN
    /\ clock = 0
    /\ pc = [w \in Worker |-> "idle"] /\ job = [w \in Worker |-> NoJob]
    /\ checks = <<>>

Next ==
    \/ \E w \in Worker :
          \/ StartCycle(w) \/ Reconcile(w) \/ Claim(w) \/ ClaimNothing(w) \/ Fetch(w)
          \/ PersistResult(w) \/ PersistRefused(w) \/ Quarantine(w)
          \/ StableResult(w) \/ NothingToSettle(w) \/ CompleteResearch(w) \/ SettlePick(w)
          \/ EndCycle(w)
    \/ RegisterPick \/ ManualVoid \/ Tick

Spec == Init /\ [][Next]_vars

-----------------------------------------------------------------------------
(* Properties.                                                             *)

Time == 0 .. MaxClock
Row == [phase : Phase, current : Observation \cup {NoObservation},
        candidate : Observation \cup {NoObservation}, first : Time, count : 0 .. 2,
        next : Nat, lease : Nat, last : Time, correction : BOOLEAN,
        contradicting : Observation \cup {NoObservation}]

\* The state row keeps its shape and the CHECKs of migration 007, and a worker
\* past its claim has a row.
TypeOK ==
    /\ row \in Row \cup {NoRow}
    /\ row # NoRow =>
          /\ row.candidate = NoObservation <=> row.count = 0
          /\ row.correction <=> row.contradicting # NoObservation
    /\ settlement \in {NoSettlement} \cup
          [kind : {"NORMAL", "MANUAL_VOID"}, result : Observation, at : Time]
    /\ picked \in BOOLEAN /\ research \in BOOLEAN /\ clock \in Time
    /\ pc \in [Worker -> {"idle", "reconcile", "claim", "fetch", "persist", "stable",
                          "research", "settle"}]
    /\ job \in [Worker -> [now : Time, result : Observation \cup {NoObservation},
                           stable : Observation \cup {NoObservation}]]
    /\ \A w \in Worker : pc[w] \notin {"idle", "reconcile", "claim"} => row # NoRow
    /\ checks \in Seq([result : Observation, at : Time])

Seen(i) == Fingerprint[checks[i].result]

\* Checks i to j are one run of equal terminal results.
IsRun(i, j) == Seen(i) # NoFingerprint /\ \A k \in i .. j : Seen(k) = Seen(i)
Confirmed(i, j) == IsRun(i, j) /\ i < j /\ checks[j].at - checks[i].at >= FinalityDelay

\* "A result is eligible only after two matching terminal confirmations
\* separated by the configured finality delay": the persisted results show it
\* for every normal settlement, whatever another worker persisted meanwhile.
SettledOnStableResult ==
    NormallySettled =>
        \E i, j \in 1 .. Len(checks) :
            Confirmed(i, j) /\ Seen(i) = Fingerprint[settlement.result]

\* "Later provider observations may flag CORRECTION_REQUIRED": a result other
\* than the settled one is flagged as soon as its run is confirmed, and only
\* such a result is.
CorrectionsFlagged ==
    NormallySettled =>
        /\ LET n == Len(checks) IN
              \A i \in 1 .. n :
                  /\ Confirmed(i, n)
                  /\ i > 1 => Seen(i - 1) # Seen(i)
                  /\ Seen(i) # Fingerprint[settlement.result]
                  => row.correction
        /\ row.correction =>
              \E i, j \in 1 .. Len(checks) :
                  /\ Confirmed(i, j) /\ Seen(i) = Fingerprint[row.contradicting]
                  /\ Seen(i) # Fingerprint[settlement.result]

\* A quarantined fixture waits for its operator: no worker that claimed it
\* earlier moves the row on or settles the pick.
QuarantineHolds ==
    [][row.phase = "QUARANTINED" =>
         row' = row /\ (settlement' # settlement => settlement'.kind = "MANUAL_VOID")]_vars

\* "Settlement continues for every immutable registered pick": no fixture that
\* is never checked again has an open pick.
OpenPicksAreWatched == picked /\ settlement = NoSettlement => row.phase # "COMPLETE"

=============================================================================
