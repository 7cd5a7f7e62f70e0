------------------------ MODULE MCResultSettlement ------------------------
(***************************************************************************)
(* Instances of ResultSettlement for TLC: a home and an away win, a        *)
(* cancellation, a postponement and a record with other teams; two workers *)
(* whose cycles overlap. One unit of time is the finality delay.           *)
(***************************************************************************)
EXTENDS ResultSettlement, TLC

CONSTANTS home, away, canc, pst, other

MCFingerprint == (home :> "H") @@ (away :> "A") @@ (other :> "A") @@ (canc :> "VOID") @@ (pst :> "none")
                   @@ (NoObservation :> "none")

Workers == Permutations(Worker)
=============================================================================
