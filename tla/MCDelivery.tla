---------------------------- MODULE MCDelivery ----------------------------
(***************************************************************************)
(* Delivery on a small instance: every kind of route the router can give.  *)
(***************************************************************************)
EXTENDS Delivery, TLC

\* No route; an SMSC alone; a cluster that does not exist, with a mock one to fall back to.
MCRoutes == {<< >>, <<"upstream">>, <<"missing", "mock">>}

\* The routes that lead to an SMSC, for the liveness run.
LiveRoutes == {<<"upstream">>}

MCSymmetry == Permutations(MessageIds) \cup Permutations(SmscIds)

===========================================================================
