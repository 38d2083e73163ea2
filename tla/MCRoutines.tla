----------------------------- MODULE MCRoutines -----------------------------
(***************************************************************************)
(* Three loops, each the one goroutine that owns its state, that share     *)
(* none, each checked by itself: the actor that reconciles an agent's      *)
(* listeners (GatewayActor), the agent's Run that keeps its link up        *)
(* (AgentLink), and the writer behind the queue of the history             *)
(* (WriteQueue). A behaviour has a focus and takes the steps of that part  *)
(* only.                                                                   *)
(***************************************************************************)
EXTENDS MCGatewayActor, AgentLink, WriteQueue

CONSTANTS quic, perConn, mux, p1, p2, p3

QUICFirst == <<quic, perConn, mux>>

\* A goroutine with two writes, one with one, and one that waits for a barrier.
TwoAndOne == p1 :> 2 @@ p2 :> 1 @@ p3 :> 0

VARIABLE focus

allVars == <<vars, linkVars, queueVars, focus>>

RoutinesInit ==
  /\ focus \in {"actor", "link", "queue"}
  /\ Init
  /\ LinkInit /\ (focus # "link" => transport = TransportAuto /\ blocked = {})
  /\ QueueInit

RoutinesNext ==
  /\ UNCHANGED focus
  /\ \/ focus = "actor" /\ Next /\ UNCHANGED <<linkVars, queueVars>>
     \/ focus = "link" /\ LinkNext /\ UNCHANGED <<vars, queueVars>>
     \/ focus = "queue" /\ QueueNext /\ UNCHANGED <<vars, linkVars>>

\* In their first state neither the actor nor the queue has a step that fairness
\* would ask for; the link has, so what is asked of it is asked when it is in focus.
RoutinesSpec ==
  /\ RoutinesInit /\ [][RoutinesNext]_allVars
  /\ Fairness /\ QueueFairness
  /\ WF_linkVars(focus = "link" /\ RunStep)
  /\ WF_linkVars(focus = "link" /\ TimePasses)

-----------------------------------------------------------------------------
\* The agent comes back, over the transport it prefers (AgentLink): Run and
\* runSessionAuto of agent.go.
LinkLives == focus = "link" => Reconnects /\ PreferredReturns
=============================================================================
