------------------------------ MODULE PortLease ------------------------------
(***************************************************************************)
(* What the gateway promises about public ports, whatever the protocol by  *)
(* which sessions come and go: a port is leased to one live session at a   *)
(* time and changes hands only through being free; a session that loses    *)
(* its place gives up all its leases in that very step and never returns;  *)
(* and the coming or going of one agent's session touches nothing else.    *)
(***************************************************************************)
CONSTANTS Sessions, Ports, AgentOf, Nobody

VARIABLES
  live,     \* the sessions that speak for an agent
  gone,     \* the sessions that once did
  lease     \* lease[p]: the session that holds port p

lvars == <<live, gone, lease>>

Init ==
  /\ live = {}
  /\ gone = {}
  /\ lease = [p \in Ports |-> Nobody]

\* Every session in R loses its place and its leases.
Drop(R) == lease' = [p \in Ports |-> IF lease[p] \in R THEN Nobody ELSE lease[p]]

\* s takes the place of whoever spoke for its agent.
Join(s) ==
  LET R == {t \in live : AgentOf[t] = AgentOf[s]} IN
  /\ s \notin live \cup gone
  /\ live' = (live \ R) \cup {s}
  /\ gone' = gone \cup R
  /\ Drop(R)

Leave(R) ==
  /\ live' = live \ R
  /\ gone' = gone \cup R
  /\ Drop(R)

Acquire(s, p) ==
  /\ lease[p] = Nobody
  /\ lease' = [lease EXCEPT ![p] = s]
  /\ UNCHANGED <<live, gone>>

\* s gives up the ports in P.
Release(s, P) ==
  /\ lease' = [p \in Ports |-> IF p \in P /\ lease[p] = s THEN Nobody ELSE lease[p]]
  /\ UNCHANGED <<live, gone>>

Next ==
  \/ \E s \in Sessions : Join(s)
  \/ \E R \in SUBSET live : Leave(R)
  \/ \E s \in live : \E p \in Ports : Acquire(s, p)
  \/ \E s \in live : \E P \in SUBSET Ports : Release(s, P)

Spec == Init /\ [][Next]_lvars

=============================================================================
