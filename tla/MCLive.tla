-------------------------------- MODULE MCLive --------------------------------
(* The two things that users wait for, side by side, for TLC: the end of an *)
(* optimization and the plan they pay for.  A behaviour is one of a single  *)
(* part, the other stays as it starts: they share no variable.              *)
EXTENDS MCOptimizePipeline, Billing

VARIABLE part  \* the part whose behaviour this is

MCInit == part \in {"optimization", "billing"} /\ Init /\ BillingInit

MCNext ==
  /\ UNCHANGED part
  /\ IF part = "optimization" THEN Next ELSE UNCHANGED vars
  /\ IF part = "billing" THEN BillingNext ELSE UNCHANGED billingVars

MCFairSpec ==
  /\ MCInit /\ [][MCNext]_<<part, vars, billingVars>>
  /\ Fairness /\ BillingFairness
===============================================================================
