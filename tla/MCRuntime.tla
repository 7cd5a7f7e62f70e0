------------------------------ MODULE MCRuntime ------------------------------
(***************************************************************************)
(* Instances of Runtime for TLC: two processes, two jobs (one of them      *)
(* model training), days of one or two instants.                           *)
(***************************************************************************)
EXTENDS Runtime, TLC

CONSTANTS training, odds

MCJob == <<"model_lifecycle", "opportunity">>
MCCategoryOf == "model_lifecycle" :> training @@ "opportunity" :> odds
MCInterval == [j \in {"model_lifecycle", "opportunity"} |-> 1]

Processes == Permutations(Client)
=============================================================================
