---------------------------- MODULE MCFinalQuote ----------------------------
(***************************************************************************)
(* Instances of FinalQuote for TLC. One unit of time is the 5 minutes of a *)
(* claim; a provider that publishes a second quote and a model lifecycle   *)
(* that activates a second generation reach every stale value of a pass.   *)
(***************************************************************************)
EXTENDS FinalQuote, TLC

Workers == Permutations(Worker)
=============================================================================
