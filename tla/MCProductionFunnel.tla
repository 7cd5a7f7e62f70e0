------------------------ MODULE MCProductionFunnel ------------------------
(***************************************************************************)
(* Instances of ProductionFunnel for TLC: a corner and a GoalLab pick of   *)
(* one fixture and a Research pick of another compete for a cap of one     *)
(* stake. Two of them leave the window when the clock moves; the GoalLab   *)
(* pick, of a kickoff moved between two picks, enters it then.             *)
(***************************************************************************)
EXTENDS ProductionFunnel, TLC

CONSTANTS c1, c2, c3, f1, f2, corner, goal, research, q1, q2

MCFixtureOf == (c1 :> f1) @@ (c2 :> f1) @@ (c3 :> f2)
MCBucketsOf == (c1 :> {corner}) @@ (c2 :> {goal}) @@ (c3 :> {goal, research})
MCCornerRank == (corner :> 2) @@ (goal :> 0) @@ (research :> 0)
MCKickoff == (c1 :> 1) @@ (c2 :> 2) @@ (c3 :> 1)
MCTie == (c1 :> 1) @@ (c2 :> 0) @@ (c3 :> 2)
MCEventRank == (q1 :> 0) @@ (q2 :> 1)

MixedSources == (c1 :> "CORNERLAB") @@ (c2 :> "GOALLAB") @@ (c3 :> "RESEARCH")
\* No universe that takes a settlement back.
FinalSources == (c1 :> "CORNERLAB") @@ (c2 :> "GOALLAB") @@ (c3 :> "GOALLAB")

Sessions == Permutations(Tx)
=============================================================================
