---------------------------- MODULE MCPipeline ----------------------------
(***************************************************************************)
(* Pipeline on a small instance.                                           *)
(***************************************************************************)
EXTENDS Pipeline, TLC

MCSubscribers == {"filter", "router", "forwarder", "response"}

\* No route; an SMSC alone; a cluster that does not exist, with a mock one to fall back to.
MCRoutes == {<< >>, <<"upstream">>, <<"missing", "mock">>}

\* An SMSC alone, for the liveness run.
LiveRoutes == {<<"upstream">>}

MCSymmetry == Permutations(Requests)
===========================================================================
