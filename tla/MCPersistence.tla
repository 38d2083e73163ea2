---------------------------- MODULE MCPersistence ----------------------------
(***************************************************************************)
(* What the gateway keeps across restarts, each part by itself: the agents *)
(* it has enrolled, in their file, and its bandwidth history, in the       *)
(* database. Of the history either the gateway's tiers or the agents'      *)
(* histories change; the save is that of both.                             *)
(***************************************************************************)
EXTENDS MCAgentStore, BandwidthStore

CONSTANTS
  h1, h2, h3,
  Few           \* bound: the clock, while it only orders the samples of the agents

\* A tier that is not saved, and two that are; each covers two of the one below.
Doubling == <<1, 2, 4>>
ShortRings == <<2, 3, 2>>

VARIABLE focus

allVars == <<vars, storeVars, focus>>

KeptInit ==
  /\ focus \in {"agents", "tiers", "histories"}
  /\ Init /\ StoreInit

KeptNext ==
  /\ UNCHANGED focus
  /\ \/ focus = "agents" /\ UNCHANGED storeVars /\ Next
     \/ focus = "tiers" /\ UNCHANGED <<vars, histories>> /\ StoreNext
     \/ /\ focus = "histories" /\ UNCHANGED <<vars, tiers, lastT>> /\ StoreNext
        /\ clock' <= Few

KeptSpec == KeptInit /\ [][KeptNext]_allVars
=============================================================================
