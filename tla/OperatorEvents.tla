--------------------------- MODULE OperatorEvents ---------------------------
(***************************************************************************)
(* The effective operator state of a pick: a projection of append-only     *)
(* PLAYED/SKIPPED events, shared by the bankroll's pick_operator_state     *)
(* events and by the Production funnel's production_funnel_state_events.   *)
(***************************************************************************)
EXTENDS Integers

CONSTANT EventRank    \* the text order of event ids (hashes): one Nat per id

OperatorState == {"PLAYED", "SKIPPED"}    \* PENDING is never stored

\* ORDER BY occurred_at, persisted_at, event_id
Before(x, y) ==
    \/ x.occurred < y.occurred
    \/ x.occurred = y.occurred /\ x.persisted < y.persisted
    \/ x.occurred = y.occurred /\ x.persisted = y.persisted /\ EventRank[x.id] < EventRank[y.id]

\* DISTINCT ON (pick_id), the greatest row first
LatestEvents(events, p) ==
    {e \in events : e.pick = p /\ \A x \in events : x.pick = p => x = e \/ Before(x, e)}

\* COALESCE(o.state, 'PENDING')
StateOf(latest) == IF latest = {} THEN "PENDING" ELSE (CHOOSE e \in latest : TRUE).state
StateIn(events, p) == StateOf(LatestEvents(events, p))

=============================================================================
