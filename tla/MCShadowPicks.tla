--------------------------- MODULE MCShadowPicks ---------------------------
(* Three observations, the first two of one line.                          *)
EXTENDS ShadowPicks, TLC
MCObs == 1..3
MCLineOf(o) == IF o = 3 THEN 2 ELSE 1
MCSymmetry == Permutations(Worker)
(* Bound: at most one observation leaves the hot window.                   *)
OneColdAtMost == cold <= 1
=============================================================================
