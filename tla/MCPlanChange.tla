---------------------------- MODULE MCPlanChange ----------------------------
(***************************************************************************)
(* Instances of PlanChange for TLC: one change or two, three plans.        *)
(***************************************************************************)
EXTENDS PlanChange, TLC

CONSTANTS c1, c2, h1, h2, free, small, large

\* A plan that costs nothing has no reservation and no wallet entries.
Prices == free :> 0 @@ small :> 1 @@ large :> 3

AllDiffer == free :> 1 @@ small :> 2 @@ large :> 3

\* Two plans that differ in price only.
TwoAlike == free :> 1 @@ small :> 2 @@ large :> 2
=============================================================================
