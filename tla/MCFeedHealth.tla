---------------------------- MODULE MCFeedHealth ----------------------------
(* FeedHealth on a small instance: an option chain with a spot and an options *)
(* leg, and the index futures, whose tokens belong to no leg.                 *)
EXTENDS FeedHealth

MCArtifacts == {"NIFTY", "INDICES_FnO"}
MCLegs == {"NIFTY:spot", "NIFTY:options"}
MCCashLegs == {"NIFTY:spot"}
MCTokens == {"spot", "option", "future"}
MCOwners ==
  [t \in MCTokens |-> IF t = "future" THEN {"INDICES_FnO"} ELSE {"NIFTY"}]
MCLegsOf ==
  [t \in MCTokens |-> CASE t = "spot" -> {"NIFTY:spot"}
                        [] t = "option" -> {"NIFTY:options"}
                        [] OTHER -> {}]
=============================================================================
