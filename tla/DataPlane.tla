------------------------------ MODULE DataPlane ------------------------------
(***************************************************************************)
(* The gateway's data plane: how a player's connection gets a leg to the   *)
(* agent, is spliced to it, and ends (gateway.go handleClient, perconn.go, *)
(* dataplane.go, limits.go connGate, and the parts of actor.go and relay.go*)
(* that start, drain and await the client goroutines).                     *)
(*                                                                         *)
(* The actors are the accept loop of each session's listener, one          *)
(* goroutine per player, one goroutine per dialed-back data connection     *)
(* (leg), and the gateway's actor, which evicts sessions and shuts down.   *)
(* Under mux transport a leg is a stream that lives and dies with the      *)
(* session; under per-conn transport (perConn) it is a connection of its   *)
(* own, handed to the waiting player through a pendingConn.                *)
(*                                                                         *)
(* A definition named X_Y is not part of the model: it is X with the bug Y *)
(* put in, and some property must fail when it takes the place of X.       *)
(***************************************************************************)
EXTENDS Integers, FiniteSets

CONSTANTS
  Clients,     \* players' connections; a connection's ID is the player
  Sessions,    \* admitted agent sessions
  Legs,        \* KindData connections
  AgentIDs,
  AgentOf,     \* [Sessions -> AgentIDs]
  LegAgent,    \* [Legs -> AgentIDs]: who the hello of a leg authenticates
  IPs,
  IPOf,        \* [Clients -> IPs]
  Modes,       \* which sets of sessions may have negotiated per-conn transport
  MaxGlobal, MaxPerIP,   \* connGate
  Stuck,       \* SUBSET Clients: players that neither send nor hang up any more
  None

ASSUME DataPlaneAssumption ==
  /\ AgentOf \in [Sessions -> AgentIDs]
  /\ LegAgent \in [Legs -> AgentIDs]
  /\ IPOf \in [Clients -> IPs]
  /\ Modes \subseteq SUBSET Sessions
  /\ Stuck \subseteq Clients
  /\ MaxGlobal \in Nat /\ MaxPerIP \in Nat
  /\ None \notin Clients \cup Sessions \cup Legs
ASSUME LoopAssumption == Clients \cap {"unbound", "accepting", "exited"} = {}

VARIABLES
  perConn,     \* the sessions that negotiated per-conn transport
  pc,          \* pc[c]: where the player's goroutine is
  own,         \* own[c]: the session whose listener the player came through
  leg,         \* leg[c]: the data connection the player's goroutine holds
  halves,      \* halves[c]: the copying directions of the splice still running
  gone,        \* players that have closed their connection
  slot,        \* slot[c]: the pendingConn: its done flag and its conn
  pendingData, \* players whose pendingConn can be looked up
  sent,        \* players whose open_data frame has reached the agent
  dataConns,   \* players whose leg is in their session's dataConns
  handler,     \* handler[l]: where the goroutine that accepted leg l is
  target,      \* target[l]: the connID in the leg's hello
  fd,          \* legs the gateway has not closed
  dead,        \* legs closed by the agent
  muxDown,     \* sessions whose mux is closed
  acc,         \* acc[s]: the accept loop of s: its state or the player in hand
  evicted,     \* sessions whose evict has begun: ctx cancelled, listener closed
  drained,     \* sessions whose evict is complete
  gate,        \* the connGate's counters
  ctxDone,     \* the serving context is cancelled
  actor        \* the actor: "running", "draining" or "stopped"

connVars == <<slot, pendingData, sent>>
legVars == <<handler, target, dead>>
sessVars == <<perConn, muxDown, acc, evicted, drained, ctxDone, actor>>
vars == <<pc, own, leg, halves, gone, connVars, dataConns, legVars, fd, sessVars, gate>>

EmptySlot == [done |-> FALSE, conn |-> None]
PCs == {"idle", "held", "accepted", "gated", "registered", "waiting", "woken", "storing",
        "opening", "splicing", "ending", "done"}

TypeOK ==
  /\ perConn \in Modes
  /\ pc \in [Clients -> PCs]
  /\ own \in [Clients -> Sessions \cup {None}]
  /\ leg \in [Clients -> Legs \cup {None}]
  /\ halves \in [Clients -> SUBSET {"up", "down"}]
  /\ slot \in [Clients -> [done : BOOLEAN, conn : Legs \cup {None}]]
  /\ handler \in [Legs -> {"unused", "new", "matched", "gone"}]
  /\ target \in [Legs -> Clients \cup {None}]
  /\ pendingData \subseteq Clients /\ sent \subseteq Clients /\ dataConns \subseteq Clients
  /\ gone \subseteq Clients
  /\ fd \subseteq Legs /\ dead \subseteq Legs
  /\ muxDown \subseteq Sessions /\ evicted \subseteq Sessions /\ drained \subseteq Sessions
  /\ acc \in [Sessions -> {"unbound", "accepting", "exited"} \cup Clients]
  /\ gate \in [global : Nat, perIP : [IPs -> Nat]]
  /\ ctxDone \in BOOLEAN
  /\ actor \in {"running", "draining", "stopped"}

Init ==
  /\ perConn \in Modes
  /\ pc = [c \in Clients |-> "idle"]
  /\ own = [c \in Clients |-> None]
  /\ leg = [c \in Clients |-> None]
  /\ halves = [c \in Clients |-> {}]
  /\ gone = {}
  /\ slot = [c \in Clients |-> EmptySlot]
  /\ pendingData = {} /\ sent = {} /\ dataConns = {}
  /\ handler = [l \in Legs |-> "unused"]
  /\ target = [l \in Legs |-> None]
  /\ fd = {} /\ dead = {}
  /\ muxDown = {} /\ evicted = {} /\ drained = {}
  /\ acc = [s \in Sessions |-> "unbound"]
  /\ gate = [global |-> 0, perIP |-> [i \in IPs |-> 0]]
  /\ ctxDone = FALSE
  /\ actor = "running"

Step(c, from, to) == pc[c] = from /\ pc' = [pc EXCEPT ![c] = to]

-----------------------------------------------------------------------------
(* The accept loop of a session's public listener.                         *)

\* The actor binds the session's listener; the session of the same agent that
\* went before has been evicted by then (see GatewayActor).
Bind(s) ==
  /\ actor = "running" /\ acc[s] = "unbound"
  /\ evicted = drained
  /\ \A t \in Sessions : AgentOf[t] = AgentOf[s] => acc[t] = "unbound" \/ t \in drained
  /\ acc' = [acc EXCEPT ![s] = "accepting"]
  /\ UNCHANGED <<pc, own, leg, halves, gone, connVars, dataConns, legVars, fd, perConn, muxDown, evicted,
                 drained, gate, ctxDone, actor>>

Accept(s, c) ==
  /\ acc[s] = "accepting" /\ s \notin evicted
  /\ Step(c, "idle", "held")
  /\ acc' = [acc EXCEPT ![s] = c]
  /\ own' = [own EXCEPT ![c] = s]
  /\ UNCHANGED <<leg, halves, gone, connVars, dataConns, legVars, fd, perConn, muxDown, evicted, drained,
                 gate, ctxDone, actor>>

\* clientWG.Add and go handleClient.
Spawn(s) ==
  \E c \in Clients :
    /\ acc[s] = c
    /\ Step(c, "held", "accepted")
    /\ acc' = [acc EXCEPT ![s] = "accepting"]
    /\ UNCHANGED <<own, leg, halves, gone, connVars, dataConns, legVars, fd, perConn, muxDown, evicted,
                   drained, gate, ctxDone, actor>>

LoopExit(s) ==
  /\ acc[s] = "accepting" /\ s \in evicted
  /\ acc' = [acc EXCEPT ![s] = "exited"]
  /\ UNCHANGED <<pc, own, leg, halves, gone, connVars, dataConns, legVars, fd, perConn, muxDown, evicted,
                 drained, gate, ctxDone, actor>>

-----------------------------------------------------------------------------
(* The connection caps.                                                    *)

HasRoom(i) == gate.global < MaxGlobal /\ gate.perIP[i] < MaxPerIP
release_PerIPOnly(i) == gate' = [gate EXCEPT !.perIP[i] = @ - 1]
release_Twice(i) == gate' = [gate EXCEPT !.global = @ - 2, !.perIP[i] = @ - 2]
release(i) == gate' = [gate EXCEPT !.global = @ - 1, !.perIP[i] = @ - 1]

Admitted(c) ==
  /\ HasRoom(IPOf[c])
  /\ Step(c, "accepted", "gated")
  /\ gate' = [gate EXCEPT !.global = @ + 1, !.perIP[IPOf[c]] = @ + 1]
  /\ UNCHANGED <<own, leg, halves, gone, connVars, dataConns, legVars, fd, sessVars>>

Rejected(c) ==
  /\ ~HasRoom(IPOf[c])
  /\ Step(c, "accepted", "done")
  /\ UNCHANGED <<own, leg, halves, gone, connVars, dataConns, legVars, fd, sessVars, gate>>

\* The agent has reported the backend down: the offline answer, then the end.
BackendDown(c) ==
  /\ Step(c, "gated", "ending")
  /\ UNCHANGED <<own, leg, halves, gone, connVars, dataConns, legVars, fd, sessVars, gate>>

-----------------------------------------------------------------------------
(* openFlow. Mux: a stream, unless the session is closed.                  *)

OpenStream(c) ==
  /\ own[c] \notin perConn /\ pc[c] = "gated"
  /\ Step(c, "gated", IF own[c] \in muxDown THEN "ending" ELSE "opening")
  /\ UNCHANGED <<own, leg, halves, gone, connVars, dataConns, legVars, fd, sessVars, gate>>

(* Per-conn: register, ask the agent to dial back, wait.                   *)

Register(c) ==
  /\ own[c] \in perConn
  /\ Step(c, "gated", "registered")
  /\ pendingData' = pendingData \cup {c}
  /\ UNCHANGED <<own, leg, halves, gone, slot, sent, dataConns, legVars, fd, sessVars, gate>>

OpenDataSent(c) ==
  /\ own[c] \notin muxDown
  /\ Step(c, "registered", "waiting")
  /\ sent' = sent \cup {c}
  /\ UNCHANGED <<own, leg, halves, gone, slot, pendingData, dataConns, legVars, fd, sessVars, gate>>

Unregister(c) == pendingData' = pendingData \ {c}

\* The write times out: openDataConn returns without marking the entry done.
OpenDataFails(c) ==
  /\ Step(c, "registered", "ending")
  /\ Unregister(c)
  /\ UNCHANGED <<own, leg, halves, gone, slot, sent, dataConns, legVars, fd, sessVars, gate>>

\* take: its select wakes on the conn ...
TakeReady(c) ==
  /\ slot[c].conn # None
  /\ Step(c, "waiting", "storing")
  /\ leg' = [leg EXCEPT ![c] = slot[c].conn]
  /\ Unregister(c)
  /\ UNCHANGED <<own, halves, gone, slot, sent, dataConns, legVars, fd, sessVars, gate>>

TakeWakes_NoTimer(c) ==
  /\ ctxDone \/ own[c] \in evicted
  /\ Step(c, "waiting", "woken")
  /\ UNCHANGED <<own, leg, halves, gone, connVars, dataConns, legVars, fd, sessVars, gate>>
\* ... or on the eviction or the timer (which may fire at any moment) ...
TakeWakes(c) ==
  /\ Step(c, "waiting", "woken")
  /\ UNCHANGED <<own, leg, halves, gone, connVars, dataConns, legVars, fd, sessVars, gate>>

\* ... and then, under the lock, takes the conn if one has come meanwhile.
TakeLate_Ignored(c) ==
  /\ slot[c].done
  /\ Step(c, "woken", "ending")
  /\ Unregister(c)
  /\ UNCHANGED <<own, leg, halves, gone, slot, sent, dataConns, legVars, fd, sessVars, gate>>
TakeLate(c) ==
  /\ slot[c].done
  /\ Step(c, "woken", "storing")
  /\ leg' = [leg EXCEPT ![c] = slot[c].conn]
  /\ Unregister(c)
  /\ UNCHANGED <<own, halves, gone, slot, sent, dataConns, legVars, fd, sessVars, gate>>

GiveUp(c) ==
  /\ ~slot[c].done
  /\ Step(c, "woken", "ending")
  /\ slot' = [slot EXCEPT ![c].done = TRUE]
  /\ Unregister(c)
  /\ UNCHANGED <<own, leg, halves, gone, sent, dataConns, legVars, fd, sessVars, gate>>

StoreLeg(c) ==
  /\ Step(c, "storing", "opening")
  /\ dataConns' = dataConns \cup {c}
  /\ UNCHANGED <<own, leg, halves, gone, connVars, legVars, fd, sessVars, gate>>

-----------------------------------------------------------------------------
(* handleDataConn: the goroutine of a dialed-back connection.              *)

\* An agent dials back for a frame it was sent. A stray connection (a connID of
\* an earlier run of the gateway) can come from an agent that was sent none.
DialBack(l, c) ==
  /\ handler[l] = "unused" /\ own[c] # None /\ actor # "stopped"
  /\ c \in sent \/ LegAgent[l] # AgentOf[own[c]]
  /\ handler' = [handler EXCEPT ![l] = "new"]
  /\ target' = [target EXCEPT ![l] = c]
  /\ fd' = fd \cup {l}
  /\ UNCHANGED <<pc, own, leg, halves, gone, connVars, dataConns, dead, sessVars, gate>>

Matches_AnyAgent(l) == target[l] \in pendingData
Matches(l) == target[l] \in pendingData /\ LegAgent[l] = AgentOf[own[target[l]]]

Match(l) ==
  /\ handler[l] = "new" /\ Matches(l)
  /\ handler' = [handler EXCEPT ![l] = "matched"]
  /\ UNCHANGED <<pc, own, leg, halves, gone, connVars, dataConns, target, fd, dead, sessVars, gate>>

NoMatch(l) ==
  /\ handler[l] = "new" /\ ~Matches(l)
  /\ handler' = [handler EXCEPT ![l] = "gone"]
  /\ fd' = fd \ {l}
  /\ UNCHANGED <<pc, own, leg, halves, gone, connVars, dataConns, target, dead, sessVars, gate>>

deliver_Overwrites(l) ==
  /\ handler[l] = "matched"
  /\ handler' = [handler EXCEPT ![l] = "gone"]
  /\ slot' = [slot EXCEPT ![target[l]] = [done |-> TRUE, conn |-> l]]
  /\ UNCHANGED <<pc, own, leg, halves, gone, pendingData, sent, dataConns, target, fd, dead,
                 sessVars, gate>>
\* deliver: the conn is handed over, unless the waiter has given up or has one.
deliver(l) ==
  /\ handler[l] = "matched" /\ ~slot[target[l]].done
  /\ handler' = [handler EXCEPT ![l] = "gone"]
  /\ slot' = [slot EXCEPT ![target[l]] = [done |-> TRUE, conn |-> l]]
  /\ UNCHANGED <<pc, own, leg, halves, gone, pendingData, sent, dataConns, target, fd, dead,
                 sessVars, gate>>

DeliverLoses(l) ==
  /\ handler[l] = "matched" /\ slot[target[l]].done
  /\ handler' = [handler EXCEPT ![l] = "gone"]
  /\ fd' = fd \ {l}
  /\ UNCHANGED <<pc, own, leg, halves, gone, connVars, dataConns, target, dead, sessVars, gate>>

\* The agent closes its end of a leg, which a player's goroutine notices.
AgentCloses(l) ==
  /\ l \in fd \ dead
  /\ \E c \in Clients : leg[c] = l /\ pc[c] \in {"opening", "splicing"}
  /\ dead' = dead \cup {l}
  /\ UNCHANGED <<pc, own, leg, halves, gone, connVars, dataConns, handler, target, fd, sessVars, gate>>

-----------------------------------------------------------------------------
(* The splice and the end of a client goroutine.                           *)

LegDown(c) ==
  IF own[c] \in perConn THEN leg[c] \notin fd \/ leg[c] \in dead ELSE own[c] \in muxDown

\* The open_conn header is written; on a leg that is down the write may fail.
OpenConn(c) ==
  /\ Step(c, "opening", "splicing")
  /\ halves' = [halves EXCEPT ![c] = {"up", "down"}]
  /\ UNCHANGED <<own, leg, gone, connVars, dataConns, legVars, fd, sessVars, gate>>

OpenConnFails(c) ==
  /\ LegDown(c)
  /\ Step(c, "opening", "ending")
  /\ UNCHANGED <<own, leg, halves, gone, connVars, dataConns, legVars, fd, sessVars, gate>>

\* copyHalf: agent to player ends with the leg, or with the player.
DownEnds(c) ==
  /\ pc[c] = "splicing" /\ "down" \in halves[c]
  /\ LegDown(c) \/ c \in gone
  /\ halves' = [halves EXCEPT ![c] = @ \ {"down"}]
  /\ UNCHANGED <<pc, own, leg, gone, connVars, dataConns, legVars, fd, sessVars, gate>>

\* copyHalf: player to agent is parked in a read of the player's connection.
UpEnds(c) ==
  /\ pc[c] = "splicing" /\ "up" \in halves[c]
  /\ c \in gone
  /\ halves' = [halves EXCEPT ![c] = @ \ {"up"}]
  /\ UNCHANGED <<pc, own, leg, gone, connVars, dataConns, legVars, fd, sessVars, gate>>

\* The player sends something to a leg that is down: the write fails.
UpWriteFails(c) ==
  /\ pc[c] = "splicing" /\ "up" \in halves[c]
  /\ LegDown(c) /\ c \notin Stuck
  /\ halves' = [halves EXCEPT ![c] = @ \ {"up"}]
  /\ UNCHANGED <<pc, own, leg, gone, connVars, dataConns, legVars, fd, sessVars, gate>>

SpliceEnds(c) ==
  /\ halves[c] = {}
  /\ Step(c, "splicing", "ending")
  /\ UNCHANGED <<own, leg, halves, gone, connVars, dataConns, legVars, fd, sessVars, gate>>

CloseLeg(c) == fd' = fd \ {leg[c]}

Finish_KeepsEntry(c) ==
  /\ Step(c, "ending", "done")
  /\ CloseLeg(c)
  /\ release(IPOf[c])
  /\ UNCHANGED <<own, leg, halves, gone, connVars, dataConns, legVars, sessVars>>
\* The deferred calls of handleClient.
Finish(c) ==
  /\ Step(c, "ending", "done")
  /\ CloseLeg(c)
  /\ dataConns' = dataConns \ {c}
  /\ release(IPOf[c])
  /\ UNCHANGED <<own, leg, halves, gone, connVars, legVars, sessVars>>

\* A player that leaves earlier is noticed when its splice begins.
PlayerLeaves(c) ==
  /\ pc[c] = "splicing" /\ c \notin gone
  /\ gone' = gone \cup {c}
  /\ UNCHANGED <<pc, own, leg, halves, connVars, dataConns, legVars, fd, sessVars, gate>>

\* What a player that is not stuck does when the gateway closes its direction.
PlayerSeesEnd(c) ==
  "down" \notin halves[c] /\ c \notin Stuck /\ PlayerLeaves(c)

-----------------------------------------------------------------------------
(* The actor: eviction and shutdown.                                       *)

LinkLost(s) ==
  /\ acc[s] # "unbound" /\ s \notin muxDown
  /\ muxDown' = muxDown \cup {s}
  /\ UNCHANGED <<pc, own, leg, halves, gone, connVars, dataConns, legVars, fd, perConn, acc, evicted,
                 drained, gate, ctxDone, actor>>

\* evict: cancel the session's context, close its listener ...
EvictBegins(s) ==
  /\ actor # "stopped" /\ evicted = drained
  /\ acc[s] # "unbound" /\ s \notin evicted
  /\ evicted' = evicted \cup {s}
  /\ UNCHANGED <<pc, own, leg, halves, gone, connVars, dataConns, legVars, fd, perConn, muxDown, acc,
                 drained, gate, ctxDone, actor>>

AcceptLoopDone_NotAwaited(s) == TRUE
AcceptLoopDone(s) == acc[s] = "exited"

DrainSet_Everyone(s) == dataConns
\* The players whose legs closeAll closes.
DrainSet(s) == {c \in dataConns : own[c] = s}

closeAll_LinkKept(s) ==
  /\ muxDown' = muxDown
  /\ fd' = fd \ {leg[c] : c \in DrainSet(s)}
closeAll(s) ==
  /\ muxDown' = muxDown \cup {s}
  /\ fd' = fd \ {leg[c] : c \in DrainSet(s)}

\* ... wait for its accept loop to exit, then close the session and its legs.
EvictEnds(s) ==
  /\ s \in evicted \ drained
  /\ AcceptLoopDone(s)
  /\ drained' = drained \cup {s}
  /\ closeAll(s)
  /\ UNCHANGED <<pc, own, leg, halves, gone, connVars, dataConns, legVars, perConn, acc, evicted, gate,
                 ctxDone, actor>>

Cancel ==
  /\ ~ctxDone /\ ctxDone' = TRUE
  /\ UNCHANGED <<pc, own, leg, halves, gone, connVars, dataConns, legVars, fd, perConn, muxDown, acc,
                 evicted, drained, gate, actor>>

ShutdownBegins ==
  /\ ctxDone /\ actor = "running" /\ evicted = drained
  /\ actor' = "draining"
  /\ UNCHANGED <<pc, own, leg, halves, gone, connVars, dataConns, legVars, fd, perConn, muxDown, acc,
                 evicted, drained, gate, ctxDone>>

clientWG_NeverDone == Cardinality({c \in Clients : pc[c] \notin {"idle", "held"}})
\* clientWG counts the goroutines that Spawn has started.
clientWG == Cardinality({c \in Clients : pc[c] \notin {"idle", "held", "done"}})

\* Everyone is evicted and clientWG.Wait returns.
Stop ==
  /\ actor = "draining"
  /\ \A s \in Sessions : acc[s] # "unbound" => s \in drained
  /\ clientWG = 0
  /\ actor' = "stopped"
  /\ UNCHANGED <<pc, own, leg, halves, gone, connVars, dataConns, legVars, fd, perConn, muxDown, acc,
                 evicted, drained, gate, ctxDone>>

-----------------------------------------------------------------------------
ClientStep(c) ==
  \/ Admitted(c) \/ Rejected(c) \/ OpenStream(c) \/ Register(c) \/ OpenDataSent(c)
  \/ OpenDataFails(c) \/ TakeReady(c) \/ TakeWakes(c) \/ TakeLate(c) \/ GiveUp(c)
  \/ StoreLeg(c) \/ OpenConn(c) \/ OpenConnFails(c) \/ DownEnds(c) \/ UpEnds(c)
  \/ SpliceEnds(c) \/ Finish(c)

LegStep(l) == Match(l) \/ NoMatch(l) \/ deliver(l) \/ DeliverLoses(l)
LoopStep(s) == Spawn(s) \/ LoopExit(s)
ShutdownStep == ShutdownBegins \/ Stop \/ (actor = "draining" /\ \E s \in Sessions : EvictBegins(s))

Next ==
  \/ \E c \in Clients : ClientStep(c) \/ BackendDown(c) \/ UpWriteFails(c)
                          \/ PlayerLeaves(c)
  \/ \E c \in Clients, s \in Sessions : Accept(s, c)
  \/ \E l \in Legs : LegStep(l) \/ AgentCloses(l) \/ \E c \in Clients : DialBack(l, c)
  \/ \E s \in Sessions : Bind(s) \/ LoopStep(s) \/ LinkLost(s) \/ EvictBegins(s) \/ EvictEnds(s)
  \/ Cancel \/ ShutdownStep

\* Goroutines that can run do, timers fire, the actor handles its commands; a
\* player that is not stuck hangs up when it sees the end of the stream. Nothing
\* is assumed of agents, links and operators.
Fairness ==
  /\ \A c \in Clients : WF_vars(ClientStep(c)) /\ WF_vars(PlayerSeesEnd(c))
  /\ \A l \in Legs : WF_vars(LegStep(l))
  /\ \A s \in Sessions : WF_vars(LoopStep(s)) /\ WF_vars(EvictEnds(s))
  /\ WF_vars(ShutdownStep)

Spec == Init /\ [][Next]_vars /\ Fairness

-----------------------------------------------------------------------------
(* Properties.                                                             *)

Holding == {"storing", "opening", "splicing", "ending"}
HasLeg(c, l) ==
  \/ pc[c] \in {"waiting", "woken"} /\ slot[c].conn = l
  \/ pc[c] \in Holding /\ leg[c] = l

\* The handoff is exactly-once and loser-closes: an open data connection always
\* has one goroutine that will close it, its acceptor or one player's.
NoLeakedLeg ==
  \A l \in fd :
    IF handler[l] # "gone" THEN \A c \in Clients : ~HasLeg(c, l)
    ELSE \E c \in Clients : HasLeg(c, l) /\ \A d \in Clients \ {c} : ~HasLeg(d, l)

\* A player is only ever spliced to a connection its own agent has dialed, and
\* one that was dialed for that player.
LegOfOwnAgent ==
  \A c \in Clients : leg[c] # None =>
    LegAgent[leg[c]] = AgentOf[own[c]] /\ target[leg[c]] = c

\* The caps count exactly the connections being served, whichever way these end.
Served == {c \in Clients : pc[c] \notin {"idle", "held", "accepted", "done"}}
GateExact ==
  /\ gate.global = Cardinality(Served)
  /\ \A i \in IPs : gate.perIP[i] = Cardinality({c \in Served : IPOf[c] = i})

\* The ghost-listener guarantee of the data plane: when the actor has stopped,
\* no client goroutine runs and none can start.
StoppedIsQuiet ==
  actor = "stopped" => \A c \in Clients : pc[c] \in {"idle", "done"}

\* What the gateway counts and waits for is what is there: the gate's counts,
\* and the clients that the stopped actor has waited for.
CountsAreExact == TypeOK /\ GateExact /\ StoppedIsQuiet

\* A leg is one player's, and the right one's, or is closed.
LegsSafe == NoLeakedLeg /\ LegOfOwnAgent

\* Eviction is isolated: no step of the gateway takes the leg away from a player
\* that is being served by another, live session.
EvictionIsolated ==
  [][\A c \in Clients :
       pc[c] = "splicing" /\ pc'[c] = "splicing" /\ leg[c] \in fd /\ own[c] \notin evicted
       => leg[c] \in fd']_vars

\* A player waiting for a dial-back is answered: by its leg or by giving up.
WaiterResolves == \A c \in Clients : pc[c] = "registered" ~> pc[c] \in {"opening", "done"}

\* A player nothing dislodges: it neither sends nor hangs up, or the drain of its
\* session has missed its leg, and its agent keeps that open.
Holdout(c) ==
  pc[c] = "splicing" /\ (c \in Stuck \/ (own[c] \in perConn /\ ~LegDown(c)))

\* An evicted session's players are gone in the end, but for the holdouts.
EvictedSessionEmpties ==
  \A s \in Sessions, c \in Clients :
    (s \in drained /\ own[c] = s) ~> (pc[c] = "done" \/ []Holdout(c))

\* The gateway's shutdown ends, unless it waits for a holdout for good.
ShutdownEnds ==
  ctxDone ~> (actor = "stopped" \/ [](\E c \in Clients : Holdout(c)))

\* An eviction and the shutdown get rid of the players they are to get rid of.
DrainsEnd == EvictedSessionEmpties /\ ShutdownEnds

-----------------------------------------------------------------------------
(* The abstract promise: see LegHandoff.                                   *)
OwnerOf(l) ==
  IF handler[l] = "unused" THEN "unused"
  ELSE IF l \notin fd THEN "closed"
  ELSE IF handler[l] # "gone" THEN "offered"
  ELSE IF \E c \in Clients : HasLeg(c, l) THEN CHOOSE c \in Clients : HasLeg(c, l)
  ELSE None
Settled == {c \in Clients : slot[c].done}

LH == INSTANCE LegHandoff WITH Players <- Clients,
                               owner <- [l \in Legs |-> OwnerOf(l)], settled <- Settled

\* The handoff of legs implements the abstract exactly-once handoff.
HandoffSpec == LH!Spec

=============================================================================
