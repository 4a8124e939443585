---------------------------- MODULE MCActivation ----------------------------
(***************************************************************************)
(* Two ranks whose devices and budgets differ; three graphs, of which the  *)
(* first two share their program, their pool and their metadata program.   *)
(***************************************************************************)
EXTENDS Activation

CONSTANTS r1, r2

MCRank == {r1, r2}
MCTotal == [r \in MCRank |-> IF r = r1 THEN 14 ELSE 16]
MCBudgets == [r \in MCRank |-> IF r = r1 THEN 7 ELSE 5]
Shared == <<"a", "a", "b">>
=============================================================================
