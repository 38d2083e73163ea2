---------------------------- MODULE MCAgentStore ----------------------------
(* Small instances of AgentStore for TLC.                                  *)
EXTENDS AgentStore, TLC

CONSTANTS k1, k2, k3, a1, a2, c1, c2, c3, c4

\* k1 and k2 derive the same label.
Colliding == k1 :> a1 @@ k2 :> a1 @@ k3 :> a2
TwoOfFirst == c1 :> k1 @@ c2 :> k1 @@ c3 :> k2 @@ c4 :> k3

OneKey == k1 :> a1
OneConn == c1 :> k1

\* The connections of one key are interchangeable.
Alike == Permutations({c1, c2})
=============================================================================
