--------------------------- MODULE MCGatewayActor ---------------------------
(* Small instances of GatewayActor. *)
EXTENDS GatewayActor, TLC

CONSTANTS a1, a2, s1, s2, s3, s4, s5, s6

\* Two sessions of one agent, from two addresses, and one of another agent,
\* which is confined to ports 1 and 2.
TwoAgents == s1 :> a1 @@ s2 :> a1 @@ s3 :> a2
TwoAgentsIP == s1 :> 1 @@ s2 :> 2 @@ s3 :> 3
TwoAgentsScope == s1 :> {} @@ s2 :> {} @@ s3 :> {1, 2}

\* One agent, whose sessions come from two addresses.
OneAgent == [s \in Sessions |-> a1]
OneAgentIP == [s \in Sessions |-> IF s \in {s1, s3, s5} THEN 1 ELSE 2]
OneAgentScope == [s \in Sessions |-> {}]

\* Sessions of OneAgent from one address are interchangeable.
SameAddress ==
  Permutations(Sessions \cap {s1, s3, s5}) \cup Permutations(Sessions \cap {s2, s4, s6})
=============================================================================
