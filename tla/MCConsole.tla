------------------------------ MODULE MCConsole -----------------------------
(* Small instances of Console for TLC.                                     *)
EXTENDS Console

CONSTANTS token, ticket

\* A machine that was set up as the agent; gateways are made on the way.
AnAgent == {[role |-> "agent", agent |-> token]}
=============================================================================
