---------------------------- MODULE MCBankroll ----------------------------
(***************************************************************************)
(* Instances of Bankroll for TLC. Two evaluations of one fixture and one   *)
(* of another; one stake fills the exposure cap, so every second open pick *)
(* must be refused; two operator requests and two instants, so that two    *)
(* events of one pick tie on occurred_at and on persisted_at.              *)
(***************************************************************************)
EXTENDS Bankroll, TLC

CONSTANTS r1, r2, e1, e2, e3, f1, f2, q1, q2

MCFixtureOf == (e1 :> f1) @@ (e2 :> f1) @@ (e3 :> f2)
\* r1 is always the first evaluation of f1; r2 is submitted for either fixture,
\* as a retry with a new evaluation would (RegistrationPersistenceConflictError).
MCSubmission == {<<r1, e1>>, <<r2, e2>>, <<r2, e3>>}
MCEventRank == [i \in EventId |-> CASE i = r1 -> 0 [] i = q1 -> 1 [] i = r2 -> 2 [] i = q2 -> 3]

Sessions == Permutations(Tx)
=============================================================================
