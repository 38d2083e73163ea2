---------------------------- MODULE MCDataPlane ----------------------------
(* Small instances of DataPlane for TLC.                                   *)
EXTENDS DataPlane, TLC

CONSTANTS a1, a2, s1, s2, c1, c2, l1, l2, i1

\* One session, or two sessions of different agents.
OneSession == s1 :> a1
OwnAgents == s1 :> a1 @@ s2 :> a2

\* Both legs come from the first agent: they race each other for its players and
\* are strays to the players of the other agent.
OneLeg == l1 :> a1
BothOfFirst == l1 :> a1 @@ l2 :> a1

OneIP == c1 :> i1 @@ c2 :> i1

\* Players of one address and legs of one agent are interchangeable.
Alike == Permutations({c1, c2}) \cup Permutations({l1, l2})
=============================================================================
