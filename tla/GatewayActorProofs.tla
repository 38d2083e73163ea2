------------------------- MODULE GatewayActorProofs -------------------------
(***************************************************************************)
(* Machine-checked proofs about GatewayActor, for any sets of agents,      *)
(* sessions, tunnels and ports, any scopes, and any run length.            *)
(*                                                                         *)
(* The order: the effect of closing listeners (CloseKeysLemma) and of an   *)
(* eviction (EvictLemma), type correctness, the ownership invariant, the   *)
(* anti-flap bound, and the refinement of PortLease; then, resting on      *)
(* ownership, the order of admissions, the ports that a reassignment may   *)
(* choose, and what the listeners have to do with the desired set.         *)
(***************************************************************************)
EXTENDS GatewayActor, TLAPS

(***************************************************************************)
(* What CloseKeys(K) does to a well-typed state whose sockets match: the   *)
(* entries outside K and their sockets stay, those of K go, and the        *)
(* sockets still match. The code: the close-and-wait loops of evict,       *)
(* bindLocked and unbindLocked.                                            *)
(***************************************************************************)
LEMMA CloseKeysType ==
  ASSUME listeners \in [Keys -> Listener \cup {NoListener}],
         sock \in [Ports -> Sessions \cup {Free, Foreign}],
         NEW K, CloseKeys(K)
  PROVE  /\ listeners' \in [Keys -> Listener \cup {NoListener}]
         /\ sock' \in [Ports -> Sessions \cup {Free, Foreign}]
         /\ \A k \in Keys : listeners'[k] = IF k \in K THEN NoListener ELSE listeners[k]
         /\ \A p \in Ports : sock'[p] = IF \E k \in Held(K) : listeners[k].port = p
                                          THEN Free ELSE sock[p]
  BY DEF CloseKeys

LEMMA CloseKeysMatch ==
  ASSUME listeners \in [Keys -> Listener \cup {NoListener}],
         sock \in [Ports -> Sessions \cup {Free, Foreign}],
         SocketsMatchListeners,
         NEW K \in SUBSET Keys, CloseKeys(K)
  PROVE  SocketsMatchListeners'
<1>1. /\ \A k \in Keys : listeners'[k] = IF k \in K THEN NoListener ELSE listeners[k]
      /\ \A p \in Ports : sock'[p] = IF \E k \in Held(K) : listeners[k].port = p
                                       THEN Free ELSE sock[p]
  BY CloseKeysType
<1>2. ASSUME NEW k \in Keys, listeners'[k] # NoListener
      PROVE  k \notin K /\ listeners'[k] = listeners[k] /\ listeners[k] # NoListener
  BY <1>1, <1>2
<1>3. ASSUME NEW k \in Keys, listeners[k] # NoListener
      PROVE  listeners[k].port \in Ports /\ listeners[k].owner \in Sessions
  BY <1>3 DEF Listener
<1>4. ASSUME NEW k \in Keys, listeners'[k] # NoListener
      PROVE  sock'[listeners'[k].port] = listeners'[k].owner
  <2>1. ~\E j \in Held(K) : listeners[j].port = listeners[k].port
    BY <1>2, <1>4 DEF SocketsMatchListeners, Held
  <2>. QED  BY <2>1, <1>1, <1>2, <1>3, <1>4 DEF SocketsMatchListeners
<1>5. ASSUME NEW p \in Ports, sock'[p] \in Sessions
      PROVE  \E k \in Keys : listeners'[k] # NoListener /\ listeners'[k].port = p
  <2>1. ~(\E k \in Held(K) : listeners[k].port = p) /\ sock[p] \in Sessions
    BY <1>1, <1>5, NoneAssumption
  <2>2. PICK k \in Keys : listeners[k] # NoListener /\ listeners[k].port = p
    BY <2>1 DEF SocketsMatchListeners
  <2>3. k \notin K
    BY <2>1, <2>2 DEF Held
  <2>. QED  BY <1>1, <2>2, <2>3
<1>6. ASSUME NEW k \in Keys, NEW l \in Keys,
             listeners'[k] # NoListener, listeners'[l] # NoListener,
             listeners'[k].port = listeners'[l].port
      PROVE  k = l
  BY <1>2, <1>6 DEF SocketsMatchListeners
<1>. QED  BY <1>4, <1>5, <1>6 DEF SocketsMatchListeners

(***************************************************************************)
(* Type correctness.                                                       *)
(***************************************************************************)
LEMMA CurTypes ==
  ASSUME TypeOK, Pending
  PROVE  /\ cmd.sess \in Sessions
         /\ cmd.todo \in Seq(TunnelSpec)
         /\ cmd.todo # <<>>
         /\ CurSpec \in TunnelSpec
         /\ CurKey \in Keys
         /\ AgentOf[cmd.sess] \in AgentIDs
<1>1. cmd \in [sess : Sessions, todo : Seq(TunnelSpec) \ {<<>>}]
  BY DEF TypeOK, Pending
<1>2. CurSpec \in TunnelSpec
  BY <1>1 DEF CurSpec
<1>3. CurSpec.id \in Tunnels
  BY <1>2 DEF TunnelSpec
<1>. QED  BY <1>1, <1>2, <1>3, SetsAssumption DEF CurKey, Keys

LEMMA NextSpecType ==
  ASSUME TypeOK, Pending, NextSpec
  PROVE  cmd' \in {Idle} \cup [sess : Sessions, todo : Seq(TunnelSpec) \ {<<>>}]
<1>1. cmd \in [sess : Sessions, todo : Seq(TunnelSpec) \ {<<>>}]
  BY DEF TypeOK, Pending
<1>2. Tail(cmd.todo) \in Seq(TunnelSpec)
  BY <1>1
<1>. QED  BY <1>1, <1>2 DEF NextSpec

LEMMA OpenType ==
  ASSUME TypeOK, Pending, NEW p \in Ports, Open(p)
  PROVE  /\ listeners' \in [Keys -> Listener \cup {NoListener}]
         /\ sock' \in [Ports -> Sessions \cup {Free, Foreign}]
<1>1. [spec |-> CurSpec, owner |-> cmd.sess, port |-> p, limiter |-> CurSpec.limit] \in Listener
  BY CurTypes DEF Listener, TunnelSpec
<1>. QED  BY <1>1, CurTypes DEF Open, TypeOK

LEMMA EvictType ==
  ASSUME TypeOK, NEW S \in SUBSET Sessions, NEW upd \in Sessions \cup {NoSession}, evict(S, upd)
  PROVE  /\ agents' \in [AgentIDs -> Sessions \cup {NoSession}]
         /\ evicted' \subseteq Sessions
         /\ listeners' \in [Keys -> Listener \cup {NoListener}]
         /\ sock' \in [Ports -> Sessions \cup {Free, Foreign}]
  BY CloseKeysType DEF evict, TypeOK

LEMMA PortsOffered ==
  /\ \A q \in Ports \cup {0} : Listen(q) \subseteq Ports
  /\ \A s \in Sessions, q \in Ports \cup {0} : listenFirstFree(reassignCandidates(s, q)) \subseteq Ports
  BY SetsAssumption DEF Listen, listenFirstFree, reassignCandidates

LEMMA TypeInit == Init => TypeOK
<1> SUFFICES ASSUME Init PROVE TypeOK
  OBVIOUS
<1>1. damp \in [AgentIDs -> [last : Nat \cup {Never}, penalty : Nat]]
  BY DEF Init
<1>2. cmd \in {Idle} \cup [sess : Sessions, todo : Seq(TunnelSpec) \ {<<>>}]
  BY DEF Init
<1>3. phase \in [Sessions -> {"new", "serving", "done"}] /\ gen \in [Sessions -> Nat]
  BY DEF Init
<1>4. /\ listeners \in [Keys -> Listener \cup {NoListener}]
      /\ desired \in [Keys -> TunnelSpec \cup {NoSpec}]
      /\ sock \in [Ports -> Sessions \cup {Free, Foreign}]
      /\ agents \in [AgentIDs -> Sessions \cup {NoSession}]
  BY DEF Init
<1>. QED  BY <1>1, <1>2, <1>3, <1>4 DEF Init, TypeOK

LEMMA TypeStep == TypeOK /\ [Next]_vars => TypeOK'
<1> SUFFICES ASSUME TypeOK, [Next]_vars PROVE TypeOK'
  OBVIOUS
<1> USE DEF TypeOK
<1>1. ASSUME NEW s \in Sessions, AdmitFresh(s) PROVE TypeOK'
  <2>1. agents' \in [AgentIDs -> Sessions \cup {NoSession}]
    BY <1>1 DEF AdmitFresh
  <2>2. gen' \in [Sessions -> Nat] /\ generation' \in Nat
        /\ phase' \in [Sessions -> {"new", "serving", "done"}]
    BY <1>1 DEF AdmitFresh, Enter
  <2>. QED  BY <1>1, <2>1, <2>2 DEF AdmitFresh
<1>2. ASSUME NEW s \in Sessions, AdmitDampened(s) PROVE TypeOK'
  BY <1>2 DEF AdmitDampened
<1>3. ASSUME NEW s \in Sessions, AdmitSupersede(s) PROVE TypeOK'
  <2> DEFINE a == AgentOf[s]
  <2>1. a \in AgentIDs /\ {agents[a]} \in SUBSET Sessions /\ evict({agents[a]}, s)
    BY <1>3, SetsAssumption DEF AdmitSupersede
  <2>2. /\ agents' \in [AgentIDs -> Sessions \cup {NoSession}]
        /\ evicted' \subseteq Sessions
        /\ listeners' \in [Keys -> Listener \cup {NoListener}]
        /\ sock' \in [Ports -> Sessions \cup {Free, Foreign}]
    BY <2>1, EvictType
  <2>3. damp' \in [AgentIDs -> [last : Nat \cup {Never}, penalty : Nat]]
    <3>1. damp[a].penalty \in Nat
      BY <2>1
    <3>2. Minimum(2 * damp[a].penalty, CapPenalty) \in Nat /\ BasePenalty \in Nat
      BY <3>1, PenaltyAssumption DEF Minimum
    <3>. QED  BY <1>3, <2>1, <3>2 DEF AdmitSupersede, noteSupersede
  <2>4. events' \subseteq Event
    BY <1>3, <2>1 DEF AdmitSupersede, Event
  <2>5. gen' \in [Sessions -> Nat] /\ generation' \in Nat
        /\ phase' \in [Sessions -> {"new", "serving", "done"}]
    BY <1>3 DEF AdmitSupersede, Enter
  <2>6. desired' \in [Keys -> TunnelSpec \cup {NoSpec}]
    BY <1>3 DEF AdmitSupersede
  <2>. QED  BY <1>3, <2>2, <2>3, <2>4, <2>5, <2>6 DEF AdmitSupersede
<1>4. ASSUME NEW s \in Sessions, Disconnected(s) PROVE TypeOK'
  <2>1. DisconnectedScope(s) \in SUBSET Sessions /\ evict(DisconnectedScope(s), NoSession)
    BY <1>4 DEF Disconnected, DisconnectedScope
  <2>. QED  BY <1>4, <2>1, EvictType DEF Disconnected, Forget
<1>5. ASSUME NEW s \in Sessions, DoStopped(s) PROVE TypeOK'
  BY <1>5 DEF DoStopped
<1>6. ASSUME NEW s \in Sessions, NEW spec \in TunnelSpec, bindTunnel(s, spec) PROVE TypeOK'
  <2>1. <<spec>> \in Seq(TunnelSpec) \ {<<>>}
    OBVIOUS
  <2>. QED  BY <1>6, <2>1, CloseKeysType DEF bindTunnel
<1>7. ASSUME NEW s \in Sessions, NEW t \in Tunnels, unbindTunnel(s, t) PROVE TypeOK'
  BY <1>7, CloseKeysType DEF unbindTunnel
<1>8. ASSUME NEW s \in Sessions, NEW d \in DesiredSets(s), reconcile(s, d) PROVE TypeOK'
  <2>1. d \in Seq(TunnelSpec) /\ \A i \in DOMAIN d : d[i] \in TunnelSpec
    <3>1. PICK n \in 0..MaxTunnels : d \in [1..n -> TunnelSpec]
      BY DEF DesiredSets
    <3>. QED  BY <3>1, PenaltyAssumption
  <2>2. desired' \in [Keys -> TunnelSpec \cup {NoSpec}]
    BY <1>8, <2>1 DEF reconcile
  <2>3. cmd' \in {Idle} \cup [sess : Sessions, todo : Seq(TunnelSpec) \ {<<>>}]
    BY <1>8, <2>1 DEF reconcile
  <2>4. /\ listeners' \in [Keys -> Listener \cup {NoListener}]
        /\ sock' \in [Ports -> Sessions \cup {Free, Foreign}]
    BY <1>8, CloseKeysType DEF reconcile
  <2>. QED  BY <1>8, <2>2, <2>3, <2>4 DEF reconcile
<1>9. CASE KeepListener
  <2>1. KeptLimiter(listeners[CurKey], CurSpec) \in Limits
    BY <1>9, CurTypes DEF KeepListener, KeptLimiter, Listener, TunnelSpec
  <2>2. [listeners[CurKey] EXCEPT !.limiter = KeptLimiter(listeners[CurKey], CurSpec)] \in Listener
    BY <1>9, <2>1, CurTypes DEF KeepListener, Listener
  <2>3. listeners' \in [Keys -> Listener \cup {NoListener}]
    BY <1>9, <2>2, CurTypes DEF KeepListener
  <2>. QED  BY <1>9, <2>3, NextSpecType DEF KeepListener
<1>10. CASE CloseOld
  BY <1>10, CloseKeysType DEF CloseOld
<1>11. CASE BindRequested
  <2>1. PICK p \in Ports : Open(p)
    BY <1>11, CurTypes, PortsOffered DEF BindRequested, TunnelSpec
  <2>. QED  BY <1>11, <2>1, OpenType, NextSpecType DEF BindRequested
<1>12. CASE BindReassigned
  <2>1. PICK p \in Ports : Open(p)
    BY <1>12, CurTypes, PortsOffered DEF BindReassigned, Alternatives, TunnelSpec
  <2>2. events' \subseteq Event
    BY <1>12, CurTypes DEF BindReassigned, Event
  <2>. QED  BY <1>12, <2>1, <2>2, OpenType, NextSpecType DEF BindReassigned
<1>13. CASE BindFails
  BY <1>13, NextSpecType DEF BindFails
<1>14. ASSUME NEW a \in AgentIDs, EvictAgent(a) PROVE TypeOK'
  <2>1. {agents[a]} \in SUBSET Sessions /\ evict({agents[a]}, NoSession)
    BY <1>14 DEF EvictAgent
  <2>. QED  BY <1>14, <2>1, EvictType DEF EvictAgent, Forget
<1>15. CASE Cancel
  BY <1>15 DEF Cancel
<1>16. CASE Shutdown
  <2>1. snapshotSessions \in SUBSET Sessions /\ evict(snapshotSessions, NoSession)
    BY <1>16 DEF Shutdown, snapshotSessions
  <2>. QED  BY <1>16, <2>1, EvictType DEF Shutdown, Forget
<1>17. CASE Tick
  BY <1>17 DEF Tick
<1>18. ASSUME NEW p \in Ports, ForeignBind(p) \/ ForeignRelease(p) PROVE TypeOK'
  BY <1>18 DEF ForeignBind, ForeignRelease
<1>19. CASE UNCHANGED vars
  BY <1>19 DEF vars
<1>. QED
  BY <1>1, <1>2, <1>3, <1>4, <1>5, <1>6, <1>7, <1>8, <1>9, <1>10, <1>11, <1>12, <1>13, <1>14,
     <1>15, <1>16, <1>17, <1>18, <1>19
  DEF Next, ActorStep, SessionStep, HostStep

(***************************************************************************)
(* Every state the actor reaches is well typed: the records it keeps refer *)
(* to sessions, ports and tunnels that exist (newActor, and every command).*)
(***************************************************************************)
THEOREM TypeCorrect == Spec => []TypeOK
  BY TypeInit, TypeStep, PTL DEF Spec

(***************************************************************************)
(* The ownership invariant. OwnerIsLive and SocketsMatchListeners are not  *)
(* inductive alone: a bind in progress opens a listener for cmd.sess, so   *)
(* that session must still be live (CmdLive; it is, because the actor runs *)
(* nothing else meanwhile), and the session in the map must be of its      *)
(* agent and not evicted (LiveFacts).                                      *)
(***************************************************************************)
LiveFacts ==
  \A a \in AgentIDs : agents[a] # NoSession =>
    /\ AgentOf[agents[a]] = a
    /\ agents[a] \notin evicted
    /\ phase[agents[a]] # "new"
EvictedFacts == \A s \in evicted : phase[s] # "new"
CmdLive == cmd # Idle => IsLive(cmd.sess)
Ownership == OwnerIsLive /\ SocketsMatchListeners /\ LiveFacts /\ EvictedFacts /\ CmdLive

\* Closing listeners takes no entry from its owner.
LEMMA CloseKeysOwner ==
  ASSUME TypeOK, OwnerIsLive, NEW K \in SUBSET Keys, CloseKeys(K), UNCHANGED <<agents, evicted>>
  PROVE  OwnerIsLive'
<1>1. \A k \in Keys : listeners'[k] # NoListener => listeners'[k] = listeners[k]
  BY CloseKeysType DEF TypeOK
<1>. QED  BY <1>1 DEF OwnerIsLive

\* An eviction leaves every remaining listener with a live owner, and the
\* replacement, if there is one, as the live session of its agent.
LEMMA EvictOwnership ==
  ASSUME TypeOK, Ownership, cmd = Idle, cmd' = cmd,
         NEW S \in SUBSET Sessions, \A s \in S : phase[s] # "new",
         NEW upd \in Sessions \cup {NoSession}, evict(S, upd),
         upd # NoSession => /\ upd \notin evicted \cup S /\ phase'[upd] # "new"
                            /\ \A s \in S : AgentOf[s] = AgentOf[upd],
         \A s \in Sessions : phase[s] # "new" => phase'[s] # "new"
  PROVE  Ownership'
<1> DEFINE K == UNION {KeysOf(AgentOf[s]) : s \in S}
<1>1. K \in SUBSET Keys /\ CloseKeys(K)
  BY SetsAssumption DEF evict, KeysOf, Keys
<1>2. \A a \in AgentIDs : agents'[a] = IF \E s \in S : AgentOf[s] = a THEN upd ELSE agents[a]
  BY DEF evict
<1>3. evicted' = evicted \cup S
  BY DEF evict
<1>4. SocketsMatchListeners'
  BY <1>1, CloseKeysMatch DEF TypeOK, Ownership
<1>5. OwnerIsLive'
  <2> SUFFICES ASSUME NEW k \in Keys, listeners'[k] # NoListener
               PROVE  /\ listeners'[k].owner = agents'[k[1]]
                      /\ listeners'[k].owner \notin evicted'
                      /\ AgentOf[listeners'[k].owner] = k[1]
                      /\ listeners'[k].spec.id = k[2]
    BY DEF OwnerIsLive
  <2>1. k \notin K /\ listeners'[k] = listeners[k] /\ listeners[k] # NoListener
    BY <1>1, CloseKeysType DEF TypeOK
  <2>2. k[1] \in AgentIDs /\ k[2] \in Tunnels /\ k = <<k[1], k[2]>>
    BY DEF Keys
  <2>3. \A s \in S : AgentOf[s] # k[1]
    BY <2>1, <2>2 DEF KeysOf
  <2>. QED  BY <1>2, <1>3, <2>1, <2>2, <2>3 DEF OwnerIsLive, Ownership
<1>6. LiveFacts'
  <2> SUFFICES ASSUME NEW a \in AgentIDs, agents'[a] # NoSession
               PROVE  /\ AgentOf[agents'[a]] = a
                      /\ agents'[a] \notin evicted'
                      /\ phase'[agents'[a]] # "new"
    BY DEF LiveFacts
  <2>1. CASE \E s \in S : AgentOf[s] = a
    BY <1>2, <1>3, <2>1
  <2>2. CASE ~\E s \in S : AgentOf[s] = a
    BY <1>2, <1>3, <2>2 DEF LiveFacts, Ownership, TypeOK
  <2>. QED  BY <2>1, <2>2
<1>7. EvictedFacts'
  BY <1>3 DEF EvictedFacts, Ownership, TypeOK
<1>. QED  BY <1>4, <1>5, <1>6, <1>7 DEF Ownership, CmdLive

\* A port that is free when it is opened backs the new entry and no other.
LEMMA OpenOwnership ==
  ASSUME TypeOK, Ownership, Pending, listeners[CurKey] = NoListener,
         NEW p \in Ports, sock[p] = Free, Open(p), NextSpec,
         UNCHANGED <<agents, evicted, phase>>
  PROVE  Ownership'
<1> DEFINE pl == [spec |-> CurSpec, owner |-> cmd.sess, port |-> p, limiter |-> CurSpec.limit]
<1>1. /\ cmd.sess \in Sessions /\ CurKey \in Keys /\ CurSpec.id \in Tunnels
      /\ CurKey = <<AgentOf[cmd.sess], CurSpec.id>> /\ pl \in Listener /\ pl # NoListener
  BY CurTypes, NoListenerAssumption DEF CurKey, TunnelSpec, Listener
<1>2. /\ \A k \in Keys : listeners'[k] = IF k = CurKey THEN pl ELSE listeners[k]
      /\ \A q \in Ports : sock'[q] = IF q = p THEN cmd.sess ELSE sock[q]
  BY <1>1 DEF Open, TypeOK
<1>3. IsLive(cmd.sess)
  BY DEF Ownership, CmdLive, Pending
<1>4. \A k \in Keys : listeners[k] # NoListener =>
         listeners[k].port \in Ports /\ listeners[k].port # p
  BY NoneAssumption DEF TypeOK, Listener, Ownership, SocketsMatchListeners
<1>5. OwnerIsLive'
  BY <1>1, <1>2, <1>3 DEF OwnerIsLive, Ownership, IsLive
<1>6. SocketsMatchListeners'
  <2>1. ASSUME NEW k \in Keys, listeners'[k] # NoListener
        PROVE  sock'[listeners'[k].port] = listeners'[k].owner
    BY <1>1, <1>2, <1>4, <2>1 DEF Ownership, SocketsMatchListeners
  <2>2. ASSUME NEW q \in Ports, sock'[q] \in Sessions
        PROVE  \E k \in Keys : listeners'[k] # NoListener /\ listeners'[k].port = q
    <3>1. CASE q = p
      BY <1>1, <1>2, <3>1
    <3>2. CASE q # p
      <4>1. PICK k \in Keys : listeners[k] # NoListener /\ listeners[k].port = q
        BY <1>2, <2>2, <3>2 DEF Ownership, SocketsMatchListeners
      <4>. QED  BY <1>2, <4>1
    <3>. QED  BY <3>1, <3>2
  <2>3. ASSUME NEW k \in Keys, NEW l \in Keys, listeners'[k] # NoListener,
               listeners'[l] # NoListener, listeners'[k].port = listeners'[l].port
        PROVE  k = l
    BY <1>1, <1>2, <1>4, <2>3 DEF Ownership, SocketsMatchListeners
  <2>. QED  BY <2>1, <2>2, <2>3 DEF SocketsMatchListeners
<1>7. CmdLive'
  <2>1. cmd' = Idle \/ cmd'.sess = cmd.sess
    BY CurTypes DEF NextSpec, TypeOK, Pending
  <2>. QED  BY <1>3, <2>1 DEF CmdLive, IsLive
<1>. QED  BY <1>5, <1>6, <1>7 DEF Ownership, LiveFacts, EvictedFacts

LEMMA NextSpecLive ==
  ASSUME TypeOK, CmdLive, Pending, NextSpec, UNCHANGED <<agents, evicted>>
  PROVE  CmdLive'
<1>1. cmd' = Idle \/ cmd'.sess = cmd.sess
  BY CurTypes DEF NextSpec, TypeOK, Pending
<1>. QED  BY <1>1 DEF CmdLive, IsLive, Pending

\* Commands that close listeners at K and run on for a live session, or not at all.
LEMMA CloseOwnership ==
  ASSUME TypeOK, Ownership, NEW K \in SUBSET Keys, CloseKeys(K),
         UNCHANGED <<agents, evicted>>,
         \A s \in Sessions : phase[s] # "new" => phase'[s] # "new",
         cmd' # Idle => IsLive(cmd'.sess)
  PROVE  Ownership'
<1>1. SocketsMatchListeners'
  BY CloseKeysMatch DEF TypeOK, Ownership
<1>2. OwnerIsLive'
  BY CloseKeysOwner DEF Ownership
<1>3. CmdLive'
  BY DEF CmdLive, IsLive
<1>. QED  BY <1>1, <1>2, <1>3 DEF Ownership, LiveFacts, EvictedFacts, TypeOK

LEMMA OwnershipInit == Init => Ownership
  BY NoneAssumption DEF Init, Ownership, OwnerIsLive, SocketsMatchListeners, LiveFacts,
     EvictedFacts, CmdLive

LEMMA OwnershipStep == TypeOK /\ Ownership /\ [Next]_vars => Ownership'
<1> SUFFICES ASSUME TypeOK, Ownership, [Next]_vars PROVE Ownership'
  OBVIOUS
<1>1. ASSUME NEW s \in Sessions, AdmitFresh(s) PROVE Ownership'
  <2> DEFINE a == AgentOf[s]
  <2>1. /\ a \in AgentIDs /\ s \notin evicted
        /\ \A b \in AgentIDs : agents'[b] = IF b = a THEN s ELSE agents[b]
        /\ \A t \in Sessions : phase'[t] = IF t = s THEN "serving" ELSE phase[t]
    BY <1>1, SetsAssumption DEF AdmitFresh, Enter, TypeOK, Ownership, EvictedFacts
  <2>2. \A k \in Keys : listeners[k] # NoListener => k[1] # a
    BY <1>1, NoneAssumption DEF AdmitFresh, TypeOK, Ownership, OwnerIsLive, Listener
  <2>3. OwnerIsLive'
    BY <1>1, <2>1, <2>2 DEF AdmitFresh, OwnerIsLive, Ownership, Keys
  <2>4. LiveFacts' /\ EvictedFacts'
    BY <1>1, <2>1 DEF AdmitFresh, LiveFacts, EvictedFacts, Ownership, TypeOK
  <2>5. CmdLive' /\ SocketsMatchListeners'
    BY <1>1 DEF AdmitFresh, Ready, CmdLive, SocketsMatchListeners, Ownership
  <2>. QED  BY <2>3, <2>4, <2>5 DEF Ownership
<1>2. ASSUME NEW s \in Sessions, AdmitDampened(s) PROVE Ownership'
  <2>1. \A t \in Sessions : phase'[t] = IF t = s THEN "done" ELSE phase[t]
    BY <1>2 DEF AdmitDampened, TypeOK
  <2>. QED  BY <1>2, <2>1 DEF AdmitDampened, Ownership, OwnerIsLive, SocketsMatchListeners,
                LiveFacts, EvictedFacts, CmdLive, IsLive, TypeOK
<1>3. ASSUME NEW s \in Sessions, AdmitSupersede(s) PROVE Ownership'
  <2> DEFINE a == AgentOf[s]
  <2>1. a \in AgentIDs /\ agents[a] \in Sessions /\ cmd = Idle /\ cmd' = cmd
        /\ evict({agents[a]}, s) /\ phase[s] = "new"
    BY <1>3, SetsAssumption DEF AdmitSupersede, Ready, TypeOK
  <2>2. AgentOf[agents[a]] = a /\ phase[agents[a]] # "new" /\ s \notin evicted
    BY <2>1, NoneAssumption DEF Ownership, LiveFacts, EvictedFacts
  <2>3. \A t \in Sessions : phase'[t] = IF t = s THEN "serving" ELSE phase[t]
    BY <1>3 DEF AdmitSupersede, Enter, TypeOK
  <2>. QED  BY <2>1, <2>2, <2>3, EvictOwnership
<1>4. ASSUME NEW s \in Sessions, Disconnected(s) PROVE Ownership'
  <2> DEFINE S == DisconnectedScope(s)
  <2>1. S \in SUBSET Sessions /\ evict(S, NoSession) /\ cmd = Idle /\ cmd' = cmd
        /\ \A t \in S : t = s
        /\ phase[s] = "serving"
    BY <1>4 DEF Disconnected, DisconnectedScope, Ready
  <2>2. \A t \in Sessions : phase'[t] = IF t = s THEN "done" ELSE phase[t]
    BY <1>4 DEF Disconnected, TypeOK
  <2>. QED  BY <2>1, <2>2, EvictOwnership
<1>5. ASSUME NEW s \in Sessions, DoStopped(s) PROVE Ownership'
  <2>1. \A t \in Sessions : phase'[t] = IF t = s THEN "done" ELSE phase[t]
    BY <1>5 DEF DoStopped, TypeOK
  <2>. QED  BY <1>5, <2>1 DEF DoStopped, Ownership, OwnerIsLive, SocketsMatchListeners,
                LiveFacts, EvictedFacts, CmdLive, IsLive, TypeOK
<1>6. ASSUME NEW s \in Sessions, NEW spec \in TunnelSpec, bindTunnel(s, spec) PROVE Ownership'
  <2>1. {<<AgentOf[s], spec.id>>} \in SUBSET Keys
    BY SetsAssumption DEF Keys, TunnelSpec
  <2>. QED  BY <1>6, <2>1, CloseOwnership DEF bindTunnel, IsLive
<1>7. ASSUME NEW s \in Sessions, NEW t \in Tunnels, unbindTunnel(s, t) PROVE Ownership'
  <2>1. {<<AgentOf[s], t>>} \in SUBSET Keys
    BY SetsAssumption DEF Keys
  <2>. QED  BY <1>7, <2>1, CloseOwnership DEF unbindTunnel, Ready
<1>8. ASSUME NEW s \in Sessions, NEW d \in DesiredSets(s), reconcile(s, d) PROVE Ownership'
  <2> DEFINE K == Unwanted(s, {<<AgentOf[s], d[i].id>> : i \in DOMAIN d})
  <2>1. K \in SUBSET Keys /\ CloseKeys(K)
    BY <1>8, SetsAssumption DEF reconcile, Unwanted, Held, KeysOf, Keys
  <2>2. cmd' = Idle \/ cmd'.sess = s
    BY <1>8 DEF reconcile
  <2>. QED  BY <1>8, <2>1, <2>2, CloseOwnership DEF reconcile, IsLive
<1>9. CASE KeepListener
  <2>1. \A k \in Keys :
          /\ listeners'[k] # NoListener <=> listeners[k] # NoListener
          /\ listeners[k] # NoListener => /\ listeners'[k].owner = listeners[k].owner
                                          /\ listeners'[k].port = listeners[k].port
                                          /\ listeners'[k].spec = listeners[k].spec
    <3>1. listeners[CurKey] \in Listener /\ CurSpec.limit \in Limits
      BY <1>9, CurTypes DEF KeepListener, TypeOK, TunnelSpec
    <3>2. KeptLimiter(listeners[CurKey], CurSpec) \in Limits
      BY <3>1 DEF KeptLimiter, Listener
    <3>3. [listeners[CurKey] EXCEPT !.limiter = KeptLimiter(listeners[CurKey], CurSpec)] \in Listener
      BY <3>1, <3>2 DEF Listener
    <3>. QED  BY <1>9, <3>3, CurTypes, NoListenerAssumption DEF KeepListener, TypeOK, Listener
  <2>2. OwnerIsLive' /\ SocketsMatchListeners'
    BY <1>9, <2>1 DEF KeepListener, Ownership, OwnerIsLive, SocketsMatchListeners
  <2>. QED  BY <1>9, <2>2, NextSpecLive DEF KeepListener, Ownership, LiveFacts, EvictedFacts
<1>10. CASE CloseOld
  <2>1. {CurKey} \in SUBSET Keys
    BY <1>10, CurTypes DEF CloseOld
  <2>. QED  BY <1>10, <2>1, CloseOwnership DEF CloseOld, Ownership, CmdLive
<1>11. CASE BindRequested
  <2>1. PICK p \in Ports : Open(p) /\ sock[p] = Free
    BY <1>11, CurTypes, SetsAssumption DEF BindRequested, TunnelSpec, Listen
  <2>. QED  BY <1>11, <2>1, OpenOwnership DEF BindRequested
<1>12. CASE BindReassigned
  <2>1. PICK p \in Alternatives : Open(p)
    BY <1>12 DEF BindReassigned
  <2>2. p \in Ports /\ sock[p] = Free
    BY <1>12, <2>1, CurTypes, PortsOffered
    DEF BindReassigned, Alternatives, TunnelSpec, listenFirstFree, Listen
  <2>. QED  BY <1>12, <2>1, <2>2, OpenOwnership DEF BindReassigned
<1>13. CASE BindFails
  BY <1>13, NextSpecLive DEF BindFails, Ownership, OwnerIsLive, SocketsMatchListeners,
     LiveFacts, EvictedFacts
<1>14. ASSUME NEW a \in AgentIDs, EvictAgent(a) PROVE Ownership'
  <2>1. {agents[a]} \in SUBSET Sessions /\ evict({agents[a]}, NoSession) /\ cmd = Idle /\ cmd' = cmd
        /\ phase[agents[a]] # "new" /\ phase' = phase
    BY <1>14 DEF EvictAgent, Ready, TypeOK, Ownership, LiveFacts
  <2>. QED  BY <2>1, EvictOwnership
<1>15. CASE Shutdown
  <2>1. snapshotSessions \in SUBSET Sessions /\ evict(snapshotSessions, NoSession)
        /\ cmd = Idle /\ cmd' = cmd /\ phase' = phase
        /\ \A s \in snapshotSessions : phase[s] # "new"
    BY <1>15 DEF Shutdown, snapshotSessions, Ready, TypeOK, Ownership, LiveFacts
  <2>. QED  BY <2>1, EvictOwnership
<1>16. CASE Cancel \/ Tick \/ UNCHANGED vars
  BY <1>16 DEF Cancel, Tick, vars, Ownership, OwnerIsLive, SocketsMatchListeners, LiveFacts,
     EvictedFacts, CmdLive, IsLive
<1>17. ASSUME NEW p \in Ports, ForeignBind(p) \/ ForeignRelease(p) PROVE Ownership'
  <2>1. sock[p] \notin Sessions /\ sock'[p] \notin Sessions
        /\ \A q \in Ports : q # p => sock'[q] = sock[q]
    BY <1>17, NoneAssumption DEF ForeignBind, ForeignRelease, TypeOK
  <2>2. SocketsMatchListeners'
    BY <1>17, <2>1 DEF ForeignBind, ForeignRelease, TypeOK, Listener, Ownership,
       SocketsMatchListeners
  <2>. QED  BY <1>17, <2>2 DEF ForeignBind, ForeignRelease, Ownership, OwnerIsLive, LiveFacts,
                EvictedFacts, CmdLive, IsLive
<1>. QED
  BY <1>1, <1>2, <1>3, <1>4, <1>5, <1>6, <1>7, <1>8, <1>9, <1>10, <1>11, <1>12, <1>13, <1>14,
     <1>15, <1>16, <1>17
  DEF Next, ActorStep, SessionStep, HostStep

(***************************************************************************)
(* The ghost-listener guarantee (evict, bindLocked): every public listener *)
(* belongs to the session that speaks for its agent now.                   *)
(***************************************************************************)
THEOREM NoGhostListener == Spec => []OwnerIsLive
<1>1. Ownership => OwnerIsLive
  BY DEF Ownership
<1>. QED  BY <1>1, TypeInit, TypeStep, OwnershipInit, OwnershipStep, PTL DEF Spec

(***************************************************************************)
(* The gateway's map of listeners and the host's open sockets never drift  *)
(* apart, and no two tunnels share a port (evict, bindLocked, reconcile).  *)
(***************************************************************************)
THEOREM NoLeakedSocket == Spec => []SocketsMatchListeners
<1>1. Ownership => SocketsMatchListeners
  BY DEF Ownership
<1>. QED  BY <1>1, TypeInit, TypeStep, OwnershipInit, OwnershipStep, PTL DEF Spec

(***************************************************************************)
(* The anti-flap bound. A penalty of the length of the flap window cannot  *)
(* be doubled: a supersede is let in only when the penalty has lapsed, and *)
(* then the previous supersede is no longer recent.                        *)
(***************************************************************************)
PenaltyInv ==
  \A a \in AgentIDs : /\ damp[a].penalty \in {0, BasePenalty, FlapWindow}
                      /\ damp[a].penalty > 0 => damp[a].last # Never

LEMMA PenaltyStep == TypeOK /\ PenaltyInv /\ [Next]_vars => PenaltyInv'
<1> SUFFICES ASSUME TypeOK, PenaltyInv, [Next]_vars PROVE PenaltyInv'
  OBVIOUS
<1>1. ASSUME NEW s \in Sessions, AdmitSupersede(s) PROVE PenaltyInv'
  <2> DEFINE a == AgentOf[s]
  <2>1. a \in AgentIDs /\ ~Dampened(a) /\ noteSupersede(a)
    BY <1>1, SetsAssumption DEF AdmitSupersede
  <2>2. \A b \in AgentIDs : b # a => damp'[b] = damp[b]
    BY <2>1 DEF noteSupersede, TypeOK
  <2>3. /\ damp'[a].last = now
        /\ damp'[a].penalty = IF ~RecentSupersede(a) THEN 0
                              ELSE IF damp[a].penalty = 0 THEN BasePenalty
                              ELSE Minimum(2 * damp[a].penalty, CapPenalty)
    BY <2>1 DEF noteSupersede, TypeOK
  <2>4. now \in Nat /\ now # Never
    BY DEF TypeOK, Never
  <2>5. damp[a].last \in Nat \cup {-1} /\ damp[a].penalty \in {0, BasePenalty, FlapWindow}
    BY <2>1 DEF TypeOK, PenaltyInv, Never
  <2>6. damp'[a].penalty \in {0, BasePenalty, FlapWindow}
    <3>1. CASE damp[a].penalty = FlapWindow
      BY <2>1, <2>3, <2>4, <2>5, <3>1, PenaltyAssumption
      DEF Dampened, Since, RecentSupersede
    <3>2. CASE damp[a].penalty = BasePenalty
      BY <2>3, <3>2, PenaltyAssumption DEF Minimum
    <3>3. CASE damp[a].penalty = 0
      BY <2>3, <3>3
    <3>. QED  BY <2>5, <3>1, <3>2, <3>3
  <2>. QED  BY <2>2, <2>3, <2>4, <2>6 DEF PenaltyInv
<1>2. CASE UNCHANGED damp
  BY <1>2 DEF PenaltyInv
<1>. QED
  BY <1>1, <1>2
  DEF Next, ActorStep, SessionStep, HostStep, KeepListener, CloseOld, BindRequested,
      BindReassigned, BindFails, AdmitFresh, AdmitDampened, Disconnected, DoStopped, bindTunnel,
      unbindTunnel, reconcile, EvictAgent, Cancel, Shutdown, Tick, ForeignBind, ForeignRelease,
      vars

LEMMA PenaltyInit == Init => PenaltyInv
  BY DEF Init, PenaltyInv

LEMMA PenaltyInvBounds == PenaltyInv => PenaltyBounded
  BY PenaltyAssumption DEF PenaltyInv, PenaltyBounded

(***************************************************************************)
(* noteSupersede and admit: the penalty of an agent never exceeds the flap *)
(* window, whatever the cap is. So the cap of 30 s is never the penalty.   *)
(***************************************************************************)
THEOREM PenaltyNeverExceedsWindow == Spec => []PenaltyBounded
  BY TypeInit, TypeStep, PenaltyInit, PenaltyStep, PenaltyInvBounds, PTL DEF Spec

\* The only refusal before the shutdown is the dampened one, and it presupposes
\* a supersede less than a flap window ago.
LEMMA IsolatedStep ==
  ASSUME TypeOK, PenaltyInv, [Next]_vars,
         NEW s \in Sessions, phase[s] = "new", phase'[s] = "done", ~stopped
  PROVE  RecentSupersede(AgentOf[s])
<1> DEFINE a == AgentOf[s]
<1>0. a \in AgentIDs
  BY SetsAssumption
<1>1. AdmitDampened(s)
  <2>1. ASSUME NEW t \in Sessions, SessionStep(t) PROVE AdmitDampened(s)
    BY <2>1 DEF SessionStep, AdmitFresh, AdmitDampened, AdmitSupersede, Enter, Disconnected,
       DoStopped, bindTunnel, unbindTunnel, reconcile, TypeOK
  <2>2. CASE UNCHANGED phase
    BY <2>2
  <2>. QED
    BY <2>1, <2>2
    DEF Next, ActorStep, HostStep, KeepListener, CloseOld, BindRequested, BindReassigned,
        BindFails, EvictAgent, Cancel, Shutdown, Tick, ForeignBind, ForeignRelease, vars
<1>2. damp[a].penalty > 0 /\ Since(a) < damp[a].penalty
  BY <1>1 DEF AdmitDampened, Dampened
<1>3. damp[a].penalty <= FlapWindow /\ damp[a].last # Never
  BY <1>0, <1>2, PenaltyAssumption DEF PenaltyInv
<1>4. damp[a].last \in Nat \cup {-1} /\ now \in Nat /\ damp[a].penalty \in Nat
  BY <1>0 DEF TypeOK, Never
<1>. QED  BY <1>2, <1>3, <1>4, PenaltyAssumption DEF RecentSupersede, Since

(***************************************************************************)
(* "Legitimate restarts are never dampened" (noteSupersede): an agent is   *)
(* refused only within a flap window of its last supersede.                *)
(***************************************************************************)
THEOREM IsolatedNeverRefused == Spec => IsolatedReconnectAdmitted
<1>1. TypeOK /\ PenaltyInv /\ [Next]_vars =>
        [\A s \in Sessions : phase[s] = "new" /\ phase'[s] = "done" /\ ~stopped
           => RecentSupersede(AgentOf[s])]_vars
  BY IsolatedStep
<1>. QED
  BY <1>1, TypeInit, TypeStep, PenaltyInit, PenaltyStep, PTL DEF Spec, IsolatedReconnectAdmitted

(***************************************************************************)
(* The refinement of PortLease.                                            *)
(***************************************************************************)

\* Evicting live sessions drops exactly their leases.
LEMMA EvictDrops ==
  ASSUME TypeOK, Ownership, NEW S \in SUBSET Live, NEW upd, evict(S, upd)
  PROVE  PL!Drop(S)
<1> DEFINE K == UNION {KeysOf(AgentOf[s]) : s \in S}
<1>1. Live \subseteq Sessions /\ \A s \in Live : agents[AgentOf[s]] = s
  BY DEF Live, TypeOK, Ownership, LiveFacts
<1>2. K \in SUBSET Keys /\ CloseKeys(K)
  BY <1>1, SetsAssumption DEF evict, KeysOf, Keys
<1>3. ASSUME NEW p \in Ports
      PROVE  (\E k \in Held(K) : listeners[k].port = p) <=> Lease[p] \in S
  <2>1. ASSUME NEW k \in Held(K), listeners[k].port = p PROVE Lease[p] \in S
    <3>1. k \in Keys /\ listeners[k] # NoListener
      BY <1>2, <2>1 DEF Held
    <3>2. PICK s \in S : k \in KeysOf(AgentOf[s])
      BY <2>1 DEF Held
    <3>3. k[1] = AgentOf[s]
      BY <3>2 DEF KeysOf
    <3>4. listeners[k].owner = s /\ sock[p] = s
      BY <1>1, <2>1, <3>1, <3>3 DEF Ownership, OwnerIsLive, SocketsMatchListeners
    <3>. QED  BY <1>1, <3>4 DEF Lease
  <2>2. ASSUME Lease[p] \in S PROVE \E k \in Held(K) : listeners[k].port = p
    <3>1. sock[p] \in S /\ sock[p] \in Sessions
      BY <1>1, <2>2, NoneAssumption DEF Lease
    <3>2. PICK k \in Keys : listeners[k] # NoListener /\ listeners[k].port = p
      BY <3>1 DEF Ownership, SocketsMatchListeners
    <3>3. AgentOf[sock[p]] = k[1]
      BY <3>2 DEF Ownership, OwnerIsLive, SocketsMatchListeners
    <3>4. k \in KeysOf(AgentOf[sock[p]])
      BY <3>2, <3>3 DEF KeysOf, Keys
    <3>. QED  BY <3>1, <3>2, <3>4 DEF Held
  <2>. QED  BY <2>1, <2>2
<1>4. \A p \in Ports : sock'[p] = IF Lease[p] \in S THEN Free ELSE sock[p]
  <2>1. \A p \in Ports : sock'[p] = IF \E k \in Held(K) : listeners[k].port = p
                                     THEN Free ELSE sock[p]
    BY <1>2, CloseKeysType DEF TypeOK
  <2> HIDE DEF K
  <2>. QED  BY <1>3, <2>1
<1>5. Lease' = [p \in Ports |-> IF Lease[p] \in S THEN NoSession ELSE Lease[p]]
  BY <1>4, NoneAssumption DEF Lease
<1>. QED  BY <1>5 DEF PL!Drop

\* Evicting live sessions with no replacement is the abstract Leave.
LEMMA EvictLeaves ==
  ASSUME TypeOK, Ownership, NEW S \in SUBSET Live, evict(S, NoSession)
  PROVE  PL!Leave(S)
<1>1. \A s \in Live : agents[AgentOf[s]] = s /\ AgentOf[s] \in AgentIDs
  BY SetsAssumption DEF Live, TypeOK, Ownership, LiveFacts
<1>2. \A a \in AgentIDs : agents[a] # NoSession => AgentOf[agents[a]] = a
  BY DEF Ownership, LiveFacts
<1>3. \A a \in AgentIDs : agents'[a] = IF agents[a] \in S THEN NoSession ELSE agents[a]
  <2>1. ASSUME NEW a \in AgentIDs PROVE (\E s \in S : AgentOf[s] = a) <=> agents[a] \in S
    BY <1>1, <1>2 DEF Live
  <2>. QED  BY <2>1 DEF evict
<1>4. Live' = Live \ S
  BY <1>3 DEF Live
<1>5. evicted' = evicted \cup S
  BY DEF evict
<1>. QED  BY <1>4, <1>5, EvictDrops DEF PL!Leave

\* A live session closing some of its listeners is the abstract Release.
LEMMA CloseReleases ==
  ASSUME TypeOK, Ownership, NEW s \in Live, NEW K \in SUBSET Keys,
         \A k \in Held(K) : listeners[k].owner = s,
         CloseKeys(K), UNCHANGED <<agents, evicted>>
  PROVE  \E t \in Live : \E P \in SUBSET Ports : PL!Release(t, P)
<1> DEFINE P == {p \in Ports : \E k \in Held(K) : listeners[k].port = p}
<1>1. s \in Sessions
  BY DEF Live, TypeOK
<1>2. \A p \in P : sock[p] = s
  BY DEF Held, Ownership, SocketsMatchListeners
<1>3. \A p \in Ports : sock'[p] = IF p \in P THEN Free ELSE sock[p]
  BY CloseKeysType DEF TypeOK
<1>4. Lease' = [p \in Ports |-> IF p \in P /\ Lease[p] = s THEN NoSession ELSE Lease[p]]
  BY <1>1, <1>2, <1>3, NoneAssumption DEF Lease
<1>5. PL!Release(s, P)
  BY <1>4 DEF PL!Release, Live
<1>. QED  BY <1>5

\* Opening a free port for the command's session is the abstract Acquire.
LEMMA OpenAcquires ==
  ASSUME TypeOK, Ownership, Pending, NEW p \in Ports, sock[p] = Free, Open(p),
         UNCHANGED <<agents, evicted>>
  PROVE  \E t \in Live : \E q \in Ports : PL!Acquire(t, q)
<1>1. cmd.sess \in Sessions /\ agents[AgentOf[cmd.sess]] = cmd.sess
      /\ AgentOf[cmd.sess] \in AgentIDs
  BY CurTypes DEF Ownership, CmdLive, IsLive, Pending
<1>2. cmd.sess \in Live
  BY <1>1, NoneAssumption DEF Live
<1>3. Lease[p] = NoSession
  BY NoneAssumption DEF Lease
<1>4. Lease' = [Lease EXCEPT ![p] = cmd.sess]
  BY <1>1 DEF Lease, Open, TypeOK
<1>5. PL!Acquire(cmd.sess, p)
  BY <1>3, <1>4 DEF PL!Acquire, Live
<1>. QED  BY <1>2, <1>5

LEMMA LeaseStutter ==
  ASSUME UNCHANGED <<agents, evicted>>, \A p \in Ports : sock'[p] = sock[p] \/
           (sock[p] \notin Sessions /\ sock'[p] \notin Sessions)
  PROVE  UNCHANGED <<Live, evicted, Lease>>
  BY DEF Live, Lease

LEMMA LeaseInit == Init => PL!Init
<1> SUFFICES ASSUME Init PROVE PL!Init
  OBVIOUS
<1>1. Live = {} /\ evicted = {}
  BY DEF Init, Live
<1>2. Lease = [p \in Ports |-> NoSession]
  BY NoneAssumption DEF Init, Lease
<1>. QED  BY <1>1, <1>2 DEF PL!Init

LEMMA LeaseStep == TypeOK /\ Ownership /\ [Next]_vars => [PL!Next]_<<Live, evicted, Lease>>
<1> DEFINE Goal == [PL!Next]_<<Live, evicted, Lease>>
<1> SUFFICES ASSUME TypeOK, Ownership, [Next]_vars PROVE Goal
  OBVIOUS
<1>0. /\ Live \subseteq Sessions /\ \A s \in Live : agents[AgentOf[s]] = s
      /\ \A s \in Sessions : agents[AgentOf[s]] = s => s \in Live
  BY SetsAssumption, NoneAssumption DEF Live, TypeOK, Ownership, LiveFacts
<1>a. ASSUME UNCHANGED <<agents, evicted>>, UNCHANGED sock PROVE Goal
  BY <1>a, LeaseStutter
<1>1. ASSUME NEW s \in Sessions, AdmitFresh(s) PROVE Goal
  <2>1. /\ AgentOf[s] \in AgentIDs /\ agents[AgentOf[s]] = NoSession /\ s \notin evicted
        /\ evicted' = evicted /\ sock' = sock
        /\ \A b \in AgentIDs : agents'[b] = IF b = AgentOf[s] THEN s ELSE agents[b]
    BY <1>1, SetsAssumption DEF AdmitFresh, TypeOK, Ownership, EvictedFacts
  <2>2. s \notin Live /\ \A t \in Live : AgentOf[t] # AgentOf[s]
    BY <1>0, <2>1, NoneAssumption DEF Live
  <2>3. Live' = Live \cup {s}
    BY <2>1, NoneAssumption DEF Live
  <2>4. Lease' = Lease /\ \A p \in Ports : Lease[p] \notin {}
    BY <2>1 DEF Lease
  <2>5. {t \in Live : AgentOf[t] = AgentOf[s]} = {}
    BY <2>2
  <2>6. PL!Drop({t \in Live : AgentOf[t] = AgentOf[s]})
    BY <2>4, <2>5 DEF PL!Drop, Lease
  <2>7. PL!Join(s)
    BY <2>1, <2>2, <2>3, <2>5, <2>6 DEF PL!Join
  <2>. QED  BY <2>7 DEF PL!Next
<1>2. ASSUME NEW s \in Sessions, AdmitSupersede(s) PROVE Goal
  <2> DEFINE a == AgentOf[s]
  <2>1. /\ a \in AgentIDs /\ agents[a] # NoSession /\ evict({agents[a]}, s)
        /\ AgentOf[agents[a]] = a /\ s \notin evicted /\ phase[s] = "new"
    BY <1>2, SetsAssumption
    DEF AdmitSupersede, TypeOK, Ownership, LiveFacts, EvictedFacts
  <2>2. agents[a] \in Live /\ s \notin Live
    BY <2>1, <1>0 DEF Live, Ownership, LiveFacts
  <2>3. {t \in Live : AgentOf[t] = a} = {agents[a]}
    BY <1>0, <2>1, <2>2
  <2>4. \A b \in AgentIDs : agents'[b] = IF b = a THEN s ELSE agents[b]
    BY <2>1 DEF evict
  <2>5. Live' = (Live \ {agents[a]}) \cup {s}
    BY <2>1, <2>4, NoneAssumption DEF Live, Ownership, LiveFacts
  <2>6. evicted' = evicted \cup {agents[a]}
    BY <2>1 DEF evict
  <2>7. PL!Drop({agents[a]})
    BY <2>1, <2>2, EvictDrops
  <2>8. PL!Join(s)
    BY <2>1, <2>2, <2>3, <2>5, <2>6, <2>7 DEF PL!Join
  <2>. QED  BY <2>8 DEF PL!Next
<1>3. ASSUME NEW S \in SUBSET Live, evict(S, NoSession) PROVE Goal
  BY <1>3, EvictLeaves DEF PL!Next
<1>4. ASSUME NEW s \in Sessions, Disconnected(s) PROVE Goal
  <2>1. DisconnectedScope(s) \in SUBSET Live
    BY <1>0 DEF DisconnectedScope
  <2>. QED  BY <1>3, <1>4, <2>1 DEF Disconnected
<1>5. ASSUME NEW b \in AgentIDs, EvictAgent(b) PROVE Goal
  <2>1. {agents[b]} \in SUBSET Live
    BY <1>5 DEF EvictAgent, Live
  <2>. QED  BY <1>3, <1>5, <2>1 DEF EvictAgent
<1>6. CASE Shutdown
  <2>1. snapshotSessions \in SUBSET Live
    BY DEF snapshotSessions, Live
  <2>. QED  BY <1>3, <1>6, <2>1 DEF Shutdown
<1>7. ASSUME NEW s \in Live, NEW K \in SUBSET Keys, CloseKeys(K), UNCHANGED <<agents, evicted>>,
             \A k \in Held(K) : listeners[k].owner = s
      PROVE  Goal
  BY <1>7, CloseReleases DEF PL!Next
<1>8. ASSUME NEW s \in Sessions, NEW spec \in TunnelSpec, bindTunnel(s, spec) PROVE Goal
  <2>1. s \in Live /\ {<<AgentOf[s], spec.id>>} \in SUBSET Keys
    BY <1>0, <1>8, SetsAssumption DEF bindTunnel, IsLive, Keys, TunnelSpec
  <2>2. \A k \in Held({<<AgentOf[s], spec.id>>}) : listeners[k].owner = s
    BY <1>0, <2>1 DEF Held, Ownership, OwnerIsLive
  <2>. QED  BY <1>7, <1>8, <2>1, <2>2 DEF bindTunnel
<1>9. ASSUME NEW s \in Sessions, NEW t \in Tunnels, unbindTunnel(s, t) PROVE Goal
  <2>1. {<<AgentOf[s], t>>} \in SUBSET Keys
    BY SetsAssumption DEF Keys
  <2>2. /\ \A k \in Held({<<AgentOf[s], t>>}) : listeners[k].owner = s
        /\ agents[AgentOf[s]] = s
    BY <1>9, <2>1 DEF unbindTunnel, Held, Ownership, OwnerIsLive
  <2>3. s \in Live
    BY <1>0, <2>2
  <2>. QED  BY <1>7, <1>9, <2>1, <2>2, <2>3 DEF unbindTunnel
<1>10. ASSUME NEW s \in Sessions, NEW d \in DesiredSets(s), reconcile(s, d) PROVE Goal
  <2> DEFINE K == Unwanted(s, {<<AgentOf[s], d[i].id>> : i \in DOMAIN d})
  <2>1. /\ s \in Live /\ K \in SUBSET Keys /\ CloseKeys(K)
        /\ UNCHANGED <<agents, evicted>> /\ \A k \in Held(K) : listeners[k].owner = s
    BY <1>0, <1>10, SetsAssumption DEF reconcile, IsLive, Unwanted, Held, KeysOf, Keys
  <2>. QED  BY <1>7, <2>1
<1>11. CASE CloseOld
  <2>1. cmd.sess \in Live /\ {CurKey} \in SUBSET Keys
    BY <1>0, <1>11, CurTypes DEF CloseOld, Ownership, CmdLive, IsLive, Pending
  <2>2. \A k \in Held({CurKey}) : listeners[k].owner = cmd.sess
    BY <1>0, <2>1 DEF Held, CurKey, Ownership, OwnerIsLive
  <2>. QED  BY <1>7, <1>11, <2>1, <2>2 DEF CloseOld
<1>12. CASE BindRequested
  <2>1. PICK p \in Ports : Open(p) /\ sock[p] = Free
    BY <1>12, CurTypes, SetsAssumption DEF BindRequested, TunnelSpec, Listen
  <2>. QED  BY <1>12, <2>1, OpenAcquires DEF BindRequested, PL!Next
<1>13. CASE BindReassigned
  <2>1. PICK p \in Alternatives : Open(p)
    BY <1>13 DEF BindReassigned
  <2>2. p \in Ports /\ sock[p] = Free
    BY <1>13, <2>1, CurTypes, PortsOffered
    DEF BindReassigned, Alternatives, TunnelSpec, listenFirstFree, Listen
  <2>. QED  BY <1>13, <2>1, <2>2, OpenAcquires DEF BindReassigned, PL!Next
<1>14. ASSUME NEW p \in Ports, ForeignBind(p) \/ ForeignRelease(p) PROVE Goal
  <2>1. /\ UNCHANGED <<agents, evicted>>
        /\ \A q \in Ports : sock'[q] = sock[q] \/ (sock[q] \notin Sessions /\ sock'[q] \notin Sessions)
    BY <1>14, NoneAssumption DEF ForeignBind, ForeignRelease, TypeOK
  <2>. QED  BY <2>1, LeaseStutter
<1>15. ASSUME NEW s \in Sessions, AdmitDampened(s) \/ DoStopped(s) PROVE Goal
  BY <1>a, <1>15 DEF AdmitDampened, DoStopped
<1>16. CASE KeepListener \/ BindFails \/ Cancel \/ Tick \/ UNCHANGED vars
  BY <1>a, <1>16 DEF KeepListener, BindFails, Cancel, Tick, vars
<1> HIDE DEF Goal
<1>. QED
  BY <1>1, <1>2, <1>4, <1>5, <1>6, <1>8, <1>9, <1>10, <1>11, <1>12, <1>13, <1>14, <1>15, <1>16
  DEF Next, ActorStep, SessionStep, HostStep

(***************************************************************************)
(* The actor implements PortLease: a port serves one live session at a     *)
(* time, a session that lost its place holds none and never returns, and   *)
(* an eviction touches the ports of no other agent (evict, admit).         *)
(***************************************************************************)
THEOREM ActorImplementsLeases == Spec => LeaseSpec
  BY LeaseInit, LeaseStep, TypeInit, TypeStep, OwnershipInit, OwnershipStep, PTL
  DEF Spec, LeaseSpec, PL!Spec, PL!lvars

-----------------------------------------------------------------------------
(* Every step either runs a command that leaves the listeners alone, closes *)
(* some of them, changes the limiter of one, or opens one. The lemmas below *)
(* say so of each action, once for the three invariants.                    *)

\* No listener appears, and the ones that stay are as they were.
OnlyCloses == \A k \in Keys : listeners'[k] # NoListener => listeners'[k] = listeners[k]

LEMMA CloseKeysOnlyCloses ==
  ASSUME TypeOK, NEW K, CloseKeys(K)
  PROVE  OnlyCloses /\ \A k \in Keys \cap K : listeners'[k] = NoListener
  BY CloseKeysType DEF TypeOK, OnlyCloses

LEMMA EvictCloses ==
  ASSUME TypeOK, NEW S, NEW upd, evict(S, upd)
  PROVE  /\ OnlyCloses
         /\ \A k \in Keys, s \in S : k \in KeysOf(AgentOf[s]) => listeners'[k] = NoListener
<1> DEFINE K == UNION {KeysOf(AgentOf[s]) : s \in S}
<1>1. CloseKeys(K)
  BY DEF evict
<1>2. OnlyCloses /\ \A k \in Keys \cap K : listeners'[k] = NoListener
  BY <1>1, CloseKeysOnlyCloses
<1>. QED  BY <1>2

\* reconcile keeps a listener: its limiter alone may change.
LEMMA KeepChangesLimiter ==
  ASSUME TypeOK, KeepListener
  PROVE  \A k \in Keys :
           /\ listeners'[k] # NoListener <=> listeners[k] # NoListener
           /\ listeners[k] # NoListener =>
                /\ listeners'[k].owner = listeners[k].owner
                /\ listeners'[k].port = listeners[k].port
                /\ listeners'[k].spec = listeners[k].spec
                /\ listeners'[k].limiter = IF k = CurKey THEN KeptLimiter(listeners[k], CurSpec)
                                                         ELSE listeners[k].limiter
<1>1. Pending /\ listeners[CurKey] # NoListener
  BY DEF KeepListener
<1>2. CurKey \in Keys /\ CurSpec \in TunnelSpec /\ listeners[CurKey] \in Listener
  BY <1>1, CurTypes DEF TypeOK
<1>3. KeptLimiter(listeners[CurKey], CurSpec) \in Limits
  BY <1>2 DEF KeptLimiter, Listener, TunnelSpec
<1>4. [listeners[CurKey] EXCEPT !.limiter = KeptLimiter(listeners[CurKey], CurSpec)] \in Listener
  BY <1>2, <1>3 DEF Listener
<1>. QED  BY <1>2, <1>4, NoListenerAssumption DEF KeepListener, TypeOK, Listener

\* bindLocked opens one listener, at the key of the spec in hand.
LEMMA OpenAddsOne ==
  ASSUME TypeOK, Pending, NEW p \in Ports, Open(p)
  PROVE  \A k \in Keys :
           listeners'[k] = IF k = CurKey
             THEN [spec |-> CurSpec, owner |-> cmd.sess, port |-> p, limiter |-> CurSpec.limit]
             ELSE listeners[k]
  BY CurTypes DEF Open, TypeOK

\* What the two ways to open a listener have in common.
LEMMA BindOpens ==
  ASSUME TypeOK, BindRequested \/ BindReassigned
  PROVE  /\ Pending /\ listeners[CurKey] = NoListener /\ NextSpec
         /\ UNCHANGED <<agents, evicted, desired>>
         /\ \E p \in Ports : Open(p)
<1>1. CASE BindRequested
  BY <1>1, CurTypes, PortsOffered DEF BindRequested, TunnelSpec
<1>2. CASE BindReassigned
  BY <1>2, CurTypes, PortsOffered DEF BindReassigned, Alternatives, TunnelSpec
<1>. QED  BY <1>1, <1>2

-----------------------------------------------------------------------------
(* The order of admissions.                                                *)

\* An eviction of live sessions, with no newcomer of a served agent.
LEMMA EvictGenerations ==
  ASSUME TypeOK, Ownership, LatestGenerationWins, UNCHANGED <<gen, generation>>,
         NEW S \in SUBSET Live, evict(S, NoSession),
         \A s \in Sessions : phase'[s] = "serving" => phase[s] = "serving"
  PROVE  LatestGenerationWins'
<1>1. \A s \in S : s \in Sessions /\ agents[AgentOf[s]] = s
  BY SetsAssumption DEF Live, TypeOK, Ownership, LiveFacts
<1>2. \A s \in Sessions : agents'[AgentOf[s]] =
        IF \E t \in S : AgentOf[t] = AgentOf[s] THEN NoSession ELSE agents[AgentOf[s]]
  BY SetsAssumption DEF evict
<1>3. evicted' = evicted \cup S
  BY DEF evict
<1>4. ASSUME NEW s \in Sessions, agents'[AgentOf[s]] = s
      PROVE  agents[AgentOf[s]] = s
  BY <1>2, <1>4, NoneAssumption
<1>5. ASSUME NEW s \in Sessions, phase'[s] = "serving"
      PROVE  agents'[AgentOf[s]] = s <=> s \notin evicted'
  <2>1. agents[AgentOf[s]] = s <=> s \notin evicted
    BY <1>5 DEF LatestGenerationWins
  <2>2. CASE \E t \in S : AgentOf[t] = AgentOf[s]
    BY <1>1, <1>2, <1>3, <2>1, <2>2, NoneAssumption
  <2>3. CASE ~\E t \in S : AgentOf[t] = AgentOf[s]
    BY <1>2, <1>3, <2>1, <2>3
  <2>. QED  BY <2>2, <2>3
<1>. QED  BY <1>4, <1>5 DEF LatestGenerationWins

LEMMA GenerationsInit == Init => LatestGenerationWins
  BY NoneAssumption, SetsAssumption DEF Init, LatestGenerationWins

LEMMA GenerationsStep ==
  TypeOK /\ Ownership /\ LatestGenerationWins /\ [Next]_vars => LatestGenerationWins'
<1> SUFFICES ASSUME TypeOK, Ownership, LatestGenerationWins, [Next]_vars
             PROVE  LatestGenerationWins'
  OBVIOUS
<1>0. UNCHANGED <<agents, phase, evicted, gen, generation>> => LatestGenerationWins'
  BY DEF LatestGenerationWins
<1>1. ASSUME NEW s \in Sessions, AdmitFresh(s) \/ AdmitSupersede(s) PROVE LatestGenerationWins'
  <2> DEFINE a == AgentOf[s]
  <2>1. /\ a \in AgentIDs /\ phase[s] = "new" /\ s \notin evicted
        /\ generation' = generation + 1
        /\ \A t \in Sessions : gen'[t] = IF t = s THEN generation + 1 ELSE gen[t]
        /\ \A t \in Sessions : phase'[t] = IF t = s THEN "serving" ELSE phase[t]
    BY <1>1, SetsAssumption
    DEF AdmitFresh, AdmitSupersede, Enter, TypeOK, Ownership, EvictedFacts
  <2>2. \A b \in AgentIDs : agents'[b] = IF b = a THEN s ELSE agents[b]
    <3>1. CASE AdmitFresh(s)
      BY <2>1, <3>1 DEF AdmitFresh, TypeOK
    <3>2. CASE AdmitSupersede(s)
      BY <2>1, <3>2 DEF AdmitSupersede, evict, Ownership, LiveFacts
    <3>. QED  BY <1>1, <3>1, <3>2
  <2>3. evicted' = evicted \cup ({agents[a]} \ {NoSession})
    <3>1. CASE AdmitFresh(s)
      BY <3>1 DEF AdmitFresh
    <3>2. CASE AdmitSupersede(s)
      BY <3>2 DEF AdmitSupersede, evict
    <3>. QED  BY <1>1, <3>1, <3>2
  <2>4. \A t \in Sessions : gen[t] \in Nat /\ gen[t] <= generation /\ generation \in Nat
    BY DEF LatestGenerationWins, TypeOK
  <2>5. ASSUME NEW t \in Sessions PROVE gen'[t] <= generation'
    BY <2>1, <2>4
  <2>6. ASSUME NEW t \in Sessions, agents'[AgentOf[t]] = t,
               NEW u \in Sessions, AgentOf[u] = AgentOf[t], u # t
        PROVE  gen'[u] < gen'[t]
    <3>1. CASE AgentOf[t] = a
      <4>1. t = s
        BY <2>1, <2>2, <2>6, <3>1
      <4>. QED  BY <2>1, <2>4, <2>6, <4>1
    <3>2. CASE AgentOf[t] # a
      <4>1. agents[AgentOf[t]] = t /\ t # s /\ u # s
        BY <2>2, <2>6, <3>2, SetsAssumption
      <4>. QED  BY <2>1, <2>6, <4>1 DEF LatestGenerationWins
    <3>. QED  BY <3>1, <3>2
  <2>7. ASSUME NEW t \in Sessions, phase'[t] = "serving"
        PROVE  agents'[AgentOf[t]] = t <=> t \notin evicted'
    <3>0. AgentOf[t] \in AgentIDs
      BY SetsAssumption
    <3>1. CASE t = s
      <4>1. agents[a] # s
        BY <2>1, NoneAssumption DEF Ownership, LiveFacts, TypeOK
      <4>. QED  BY <2>1, <2>2, <2>3, <3>1, <4>1
    <3>2. CASE t # s
      <4>1. agents[AgentOf[t]] = t <=> t \notin evicted
        BY <2>1, <2>7, <3>2 DEF LatestGenerationWins
      <4>2. CASE AgentOf[t] = a
        BY <2>1, <2>2, <2>3, <3>2, <4>1, <4>2, NoneAssumption
      <4>3. CASE AgentOf[t] # a
        <5>1. agents[a] # t
          BY <2>1, <4>3, NoneAssumption DEF Ownership, LiveFacts
        <5>. QED  BY <2>2, <2>3, <3>0, <4>1, <4>3, <5>1
      <4>. QED  BY <4>2, <4>3
    <3>. QED  BY <3>1, <3>2
  <2>. QED  BY <2>5, <2>6, <2>7 DEF LatestGenerationWins
<1>2. ASSUME NEW s \in Sessions, AdmitDampened(s) \/ DoStopped(s) PROVE LatestGenerationWins'
  <2>1. \A t \in Sessions : phase'[t] = IF t = s THEN "done" ELSE phase[t]
    BY <1>2 DEF AdmitDampened, DoStopped, TypeOK
  <2>. QED  BY <1>2, <2>1 DEF AdmitDampened, DoStopped, LatestGenerationWins
<1>3. ASSUME NEW s \in Sessions, Disconnected(s) PROVE LatestGenerationWins'
  <2>1. DisconnectedScope(s) \in SUBSET Live
    BY SetsAssumption, NoneAssumption DEF DisconnectedScope, Live
  <2>2. \A t \in Sessions : phase'[t] = IF t = s THEN "done" ELSE phase[t]
    BY <1>3 DEF Disconnected, TypeOK
  <2>3. \A t \in Sessions : phase'[t] = "serving" => phase[t] = "serving"
    BY <2>2
  <2>. QED  BY <1>3, <2>1, <2>3, EvictGenerations DEF Disconnected
<1>4. ASSUME NEW a \in AgentIDs, EvictAgent(a) PROVE LatestGenerationWins'
  <2>1. {agents[a]} \in SUBSET Live
    BY <1>4 DEF EvictAgent, Live
  <2>. QED  BY <1>4, <2>1, EvictGenerations DEF EvictAgent
<1>5. CASE Shutdown
  <2>1. snapshotSessions \in SUBSET Live
    BY DEF snapshotSessions, Live
  <2>. QED  BY <1>5, <2>1, EvictGenerations DEF Shutdown
<1>6. CASE ActorStep \/ Cancel \/ HostStep \/ UNCHANGED vars
  BY <1>0, <1>6
  DEF ActorStep, KeepListener, CloseOld, BindRequested, BindReassigned, BindFails, Cancel,
      HostStep, Tick, ForeignBind, ForeignRelease, vars
<1>7. ASSUME NEW s \in Sessions,
             \/ \E spec \in TunnelSpec : bindTunnel(s, spec)
             \/ \E t \in Tunnels : unbindTunnel(s, t)
             \/ \E d \in DesiredSets(s) : reconcile(s, d)
      PROVE  LatestGenerationWins'
  BY <1>0, <1>7 DEF bindTunnel, unbindTunnel, reconcile
<1>. QED  BY <1>1, <1>2, <1>3, <1>4, <1>5, <1>6, <1>7 DEF Next, SessionStep

(***************************************************************************)
(* The last admission wins: the live session of an agent has the highest   *)
(* generation of all its sessions, and the serving sessions that are not   *)
(* live are exactly the evicted ones, so none of them can come back. The   *)
(* code: admit, evict, disconnected and the generation check of gateway.go.*)
(***************************************************************************)
THEOREM LastAdmissionWins == Spec => []LatestGenerationWins
  BY TypeInit, TypeStep, OwnershipInit, OwnershipStep, GenerationsInit, GenerationsStep, PTL
  DEF Spec

-----------------------------------------------------------------------------
(* The ports a session may be given.                                       *)

\* What bindLocked may open for the spec in hand: the port asked for, any port
\* for a session nothing confines, or one that the policy would have let through.
Permitted(s, spec, p) ==
  spec.port # 0 =>
    \/ p = spec.port
    \/ ScopeOf[s] = {} /\ Allowlist = {}
    \/ validateSpec(s, [spec EXCEPT !.port = p])

LEMMA OfferedPermitted ==
  ASSUME NEW s \in Sessions, NEW spec \in TunnelSpec, NEW p \in Ports,
         p \in Listen(spec.port) \cup listenFirstFree(reassignCandidates(s, spec.port))
  PROVE  Permitted(s, spec, p)
<1> SUFFICES ASSUME spec.port # 0, p # spec.port, ~(ScopeOf[s] = {} /\ Allowlist = {})
             PROVE  validateSpec(s, [spec EXCEPT !.port = p])
  BY DEF Permitted
<1> DEFINE C == reassignCandidates(s, spec.port)
<1>1. p \in listenFirstFree(C)
  BY DEF Listen
<1>2. /\ C \subseteq Ports
      /\ \A q \in C : AllowsPort(s, q) /\ portInAllowlist(q)
  BY SetsAssumption DEF reassignCandidates
<1>3. C # {0}
  BY <1>2, SetsAssumption
<1>4. p \in C
  BY <1>1, <1>3 DEF listenFirstFree
<1>5. [spec EXCEPT !.port = p].port = p
  BY DEF TunnelSpec
<1>. QED  BY <1>2, <1>4, <1>5 DEF validateSpec

LEMMA PolicyInit == Init => PolicyRespected
  BY DEF Init, PolicyRespected

LEMMA PolicyStep == TypeOK /\ PolicyRespected /\ [Next]_vars => PolicyRespected'
<1> SUFFICES ASSUME TypeOK, PolicyRespected, [Next]_vars PROVE PolicyRespected'
  OBVIOUS
<1>1. OnlyCloses => PolicyRespected'
  BY DEF OnlyCloses, PolicyRespected
<1>2. CASE KeepListener
  BY <1>2, KeepChangesLimiter DEF PolicyRespected
<1>3. CASE BindRequested \/ BindReassigned
  <2>1. Pending /\ listeners[CurKey] = NoListener
    BY <1>3, BindOpens
  <2>2. PICK p \in Ports : Open(p) /\ Permitted(cmd.sess, CurSpec, p)
    <3>1. CASE BindRequested
      BY <2>1, <3>1, CurTypes, PortsOffered, OfferedPermitted DEF BindRequested, TunnelSpec
    <3>2. CASE BindReassigned
      BY <2>1, <3>2, CurTypes, PortsOffered, OfferedPermitted
      DEF BindReassigned, Alternatives, TunnelSpec
    <3>. QED  BY <1>3, <3>1, <3>2
  <2>3. \A k \in Keys : IF k = CurKey
          THEN /\ listeners'[k].spec = CurSpec /\ listeners'[k].owner = cmd.sess
               /\ listeners'[k].port = p
          ELSE listeners'[k] = listeners[k]
    <3> DEFINE pl == [spec |-> CurSpec, owner |-> cmd.sess, port |-> p, limiter |-> CurSpec.limit]
    <3>1. \A k \in Keys : listeners'[k] = IF k = CurKey THEN pl ELSE listeners[k]
      BY <2>1, <2>2, OpenAddsOne
    <3>2. pl.spec = CurSpec /\ pl.owner = cmd.sess /\ pl.port = p
      OBVIOUS
    <3> HIDE DEF pl
    <3>. QED  BY <3>1, <3>2
  <2>. QED  BY <2>2, <2>3 DEF PolicyRespected, Permitted
<1>4. ASSUME NEW S, NEW upd, evict(S, upd) PROVE PolicyRespected'
  BY <1>1, <1>4, EvictCloses
<1>5. ASSUME NEW K, CloseKeys(K) PROVE PolicyRespected'
  BY <1>1, <1>5, CloseKeysOnlyCloses
<1>6. CASE UNCHANGED listeners
  BY <1>1, <1>6 DEF OnlyCloses
<1>7. ASSUME NEW s \in Sessions, SessionStep(s) PROVE PolicyRespected'
  BY <1>4, <1>5, <1>6, <1>7
  DEF SessionStep, AdmitFresh, AdmitDampened, AdmitSupersede, Disconnected, DoStopped,
      bindTunnel, unbindTunnel, reconcile
<1>. QED
  BY <1>2, <1>3, <1>4, <1>5, <1>6, <1>7
  DEF Next, ActorStep, CloseOld, BindFails, EvictAgent, Cancel, Shutdown, HostStep, Tick,
      ForeignBind, ForeignRelease, vars

(***************************************************************************)
(* A tunnel whose port was taken is moved only where its agent may be: to  *)
(* any port when neither scope nor allowlist confine it, else to one that  *)
(* validateSpec would have accepted. The code: reassignCandidates,         *)
(* listenFirstFree, bindLocked.                                            *)
(***************************************************************************)
THEOREM ReassignmentWithinPolicy == Spec => []PolicyRespected
  BY TypeInit, TypeStep, PolicyInit, PolicyStep, PTL DEF Spec

-----------------------------------------------------------------------------
(* The listeners and the desired set.                                      *)

\* The keys that the command in progress has still to handle.
TodoKeys ==
  IF cmd = Idle THEN {} ELSE {<<AgentOf[cmd.sess], cmd.todo[i].id>> : i \in DOMAIN cmd.todo}

\* What the command has still to handle is what its session asked for, each
\* tunnel once.
TodoIsDesired ==
  cmd # Idle =>
    /\ \A i \in DOMAIN cmd.todo : desired[<<AgentOf[cmd.sess], cmd.todo[i].id>>] = cmd.todo[i]
    /\ \A i, j \in DOMAIN cmd.todo : cmd.todo[i].id = cmd.todo[j].id => i = j

\* The listener pl is the one wanted by d, its limiter up to date or the bound one.
Serves(pl, d) ==
  /\ d # NoSpec
  /\ SameButLimit(pl.spec, d)
  /\ pl.limiter = d.limit \/ pl.spec.limit = d.limit

\* Every listener that the command does not have ahead of it is up to date.
OthersInSync ==
  \A k \in Keys \ TodoKeys : listeners[k] # NoListener => Serves(listeners[k], desired[k])

SyncInv == TodoIsDesired /\ OthersInSync

\* With nothing ahead, the invariant is the two properties.
LEMMA SyncMeaning ==
  ASSUME SyncInv PROVE ListenersMatchDesired /\ LimiterStaleOnlyAtBoundCap
  BY DEF SyncInv, OthersInSync, TodoKeys, Serves, ListenersMatchDesired, LimiterStaleOnlyAtBoundCap

\* The spec in hand is the desired one of its key, and the others of the command
\* have other keys.
LEMMA CurIsDesired ==
  ASSUME TypeOK, SyncInv, Pending
  PROVE  /\ desired[CurKey] = CurSpec
         /\ CurKey \in TodoKeys
<1>1. 1 \in DOMAIN cmd.todo /\ CurSpec = cmd.todo[1]
  BY CurTypes DEF CurSpec
<1>. QED  BY <1>1 DEF SyncInv, TodoIsDesired, TodoKeys, Pending, CurKey

\* A sequence with nothing behind its head.
LEMMA TailEmpty ==
  ASSUME NEW S, NEW q \in Seq(S), q # <<>>, Tail(q) = <<>>
  PROVE  DOMAIN q = {1}
<1>1. Len(q) \in Nat /\ DOMAIN q = 1..Len(q) /\ Len(q) # 0
  OBVIOUS
<1>2. Len(Tail(q)) = Len(q) - 1
  OBVIOUS
<1>3. Len(Tail(q)) = 0
  <2>1. Len(<<>>) = 0
    OBVIOUS
  <2>. QED  BY <2>1, Zenon
<1>. QED  BY <1>1, <1>2, <1>3

LEMMA NextSpecTodo ==
  ASSUME TypeOK, SyncInv, Pending, NextSpec, UNCHANGED desired
  PROVE  /\ TodoIsDesired'
         /\ TodoKeys' = TodoKeys \ {CurKey}
<1> DEFINE td == cmd.todo
           key(i) == <<AgentOf[cmd.sess], td[i].id>>
<1>1. /\ td \in Seq(TunnelSpec) /\ td # <<>> /\ cmd # Idle
      /\ cmd \in [sess : Sessions, todo : Seq(TunnelSpec) \ {<<>>}]
  BY CurTypes DEF TypeOK, Pending
<1>2. /\ 1 \in DOMAIN td /\ CurSpec = td[1] /\ CurKey = key(1)
  BY <1>1 DEF CurSpec, CurKey
<1>3. /\ \A i \in DOMAIN td : desired[key(i)] = td[i]
      /\ \A i, j \in DOMAIN td : td[i].id = td[j].id => i = j
  BY <1>1 DEF SyncInv, TodoIsDesired
<1>4. TodoKeys = {key(i) : i \in DOMAIN td}
  BY <1>1 DEF TodoKeys
<1>5. CASE Tail(td) = <<>>
  <2>1. DOMAIN td = {1}
    BY <1>1, <1>5, TailEmpty
  <2>2. cmd' = Idle
    BY <1>5 DEF NextSpec
  <2>. QED  BY <1>2, <1>4, <2>1, <2>2 DEF TodoIsDesired, TodoKeys, Idle
<1>6. CASE Tail(td) # <<>>
  <2>1. cmd' = [cmd EXCEPT !.todo = Tail(td)]
    BY <1>6 DEF NextSpec
  <2>2. /\ cmd'.sess = cmd.sess /\ cmd'.todo = Tail(td)
    BY <1>1, <2>1
  <2>3. cmd' # Idle
    <3>1. Idle.todo = <<>>
      BY DEF Idle
    <3>. QED  BY <1>6, <2>2, <3>1
  <2>4. \A i \in DOMAIN Tail(td) : i \in Nat /\ i + 1 \in DOMAIN td /\ Tail(td)[i] = td[i + 1]
    BY <1>1
  <2>5. \A i \in DOMAIN td : i # 1 => i \in Nat /\ i - 1 \in DOMAIN Tail(td)
    BY <1>1
  <2>6. TodoIsDesired'
    <3>1. ASSUME NEW i \in DOMAIN Tail(td) PROVE desired[<<AgentOf[cmd.sess], Tail(td)[i].id>>] = Tail(td)[i]
      BY <1>3, <2>4
    <3>2. ASSUME NEW i \in DOMAIN Tail(td), NEW j \in DOMAIN Tail(td), Tail(td)[i].id = Tail(td)[j].id
          PROVE  i = j
      <4>1. i \in Nat /\ j \in Nat /\ i + 1 = j + 1
        BY <1>3, <2>4, <3>2
      <4>. QED  BY <4>1
    <3>. QED  BY <2>2, <2>3, <3>1, <3>2 DEF TodoIsDesired
  <2>7. TodoKeys' = {<<AgentOf[cmd.sess], Tail(td)[i].id>> : i \in DOMAIN Tail(td)}
    BY <2>2, <2>3 DEF TodoKeys
  <2>8. ASSUME NEW k \in TodoKeys' PROVE k \in TodoKeys \ {CurKey}
    <3>1. PICK i \in DOMAIN Tail(td) : k = <<AgentOf[cmd.sess], Tail(td)[i].id>>
      BY <2>7
    <3>2. i + 1 \in DOMAIN td /\ k = key(i + 1) /\ i + 1 # 1
      BY <1>1, <2>4, <3>1
    <3>3. td[i + 1].id # td[1].id
      BY <1>2, <1>3, <3>2
    <3>. QED  BY <1>2, <1>4, <3>2, <3>3
  <2>9. ASSUME NEW k \in TodoKeys, k # CurKey PROVE k \in TodoKeys'
    <3>1. PICK i \in DOMAIN td : k = key(i)
      BY <1>4
    <3>2. i # 1
      BY <1>2, <2>9, <3>1
    <3>3. i - 1 \in DOMAIN Tail(td) /\ Tail(td)[i - 1] = td[i]
      BY <1>1, <2>4, <2>5, <3>2
    <3>. QED  BY <2>7, <3>1, <3>3
  <2>. QED  BY <2>6, <2>8, <2>9
<1>. QED  BY <1>5, <1>6

LEMMA SyncInit == Init => SyncInv
  BY DEF Init, SyncInv, TodoIsDesired, OthersInSync, Idle

\* A command that drops listeners, forgetting no key it leaves a listener at.
LEMMA DropSync ==
  ASSUME TypeOK, SyncInv, cmd = Idle, cmd' = cmd, OnlyCloses,
         \A k \in Keys : listeners'[k] # NoListener => desired'[k] = desired[k]
  PROVE  SyncInv'
<1>1. TodoKeys = {} /\ TodoKeys' = {} /\ TodoIsDesired'
  BY DEF TodoKeys, TodoIsDesired
<1>. QED  BY <1>1 DEF SyncInv, OthersInSync, OnlyCloses

\* A listener that sameListener keeps differs from the wanted one in its limit.
LEMMA SameListenerMeaning ==
  ASSUME NEW x \in TunnelSpec, NEW y \in TunnelSpec
  PROVE  sameListener(x, y) <=> SameButLimit(x, y)
<1>1. [x EXCEPT !.limit = y.limit] = [id |-> x.id, port |-> x.port, name |-> x.name, limit |-> y.limit]
  BY DEF TunnelSpec
<1>2. y = [id |-> y.id, port |-> y.port, name |-> y.name, limit |-> y.limit]
  BY DEF TunnelSpec
<1>. QED  BY <1>1, <1>2 DEF SameButLimit, sameListener

LEMMA SyncStep == TypeOK /\ Ownership /\ SyncInv /\ [Next]_vars => SyncInv'
<1> SUFFICES ASSUME TypeOK, Ownership, SyncInv, [Next]_vars PROVE SyncInv'
  OBVIOUS
<1>0. ASSUME UNCHANGED <<listeners, cmd, desired>> PROVE SyncInv'
  BY <1>0 DEF SyncInv, TodoIsDesired, OthersInSync, TodoKeys
<1>1. ASSUME NEW s \in Sessions, AdmitSupersede(s) PROVE SyncInv'
  <2>1. agents[AgentOf[s]] \in Sessions /\ AgentOf[agents[AgentOf[s]]] = AgentOf[s]
    BY <1>1, SetsAssumption DEF AdmitSupersede, TypeOK, Ownership, LiveFacts
  <2>2. OnlyCloses /\ \A k \in KeysOf(AgentOf[s]) \cap Keys : listeners'[k] = NoListener
    BY <1>1, <2>1, EvictCloses DEF AdmitSupersede
  <2>. QED  BY <1>1, <2>2, DropSync DEF AdmitSupersede, Ready
<1>2. ASSUME NEW s \in Sessions, Disconnected(s) PROVE SyncInv'
  <2>1. OnlyCloses /\ \A k \in Keys, t \in DisconnectedScope(s) :
          k \in KeysOf(AgentOf[t]) => listeners'[k] = NoListener
    BY <1>2, EvictCloses DEF Disconnected
  <2>2. \A k \in Keys : listeners'[k] # NoListener => desired'[k] = desired[k]
    BY <1>2, <2>1 DEF Disconnected, Forget
  <2>. QED  BY <1>2, <2>1, <2>2, DropSync DEF Disconnected, Ready
<1>3. ASSUME NEW a \in AgentIDs, EvictAgent(a) PROVE SyncInv'
  <2>1. AgentOf[agents[a]] = a
    BY <1>3 DEF EvictAgent, Ownership, LiveFacts
  <2>2. OnlyCloses /\ \A k \in KeysOf(a) \cap Keys : listeners'[k] = NoListener
    BY <1>3, <2>1, EvictCloses DEF EvictAgent
  <2>. QED  BY <1>3, <2>2, DropSync DEF EvictAgent, Ready, Forget
<1>4. CASE Shutdown
  <2>1. OnlyCloses /\ \A k \in Keys, s \in snapshotSessions :
          k \in KeysOf(AgentOf[s]) => listeners'[k] = NoListener
    BY <1>4, EvictCloses DEF Shutdown
  <2>2. ASSUME NEW k \in Keys PROVE listeners'[k] = NoListener
    <3>1. CASE listeners[k] = NoListener
      BY <2>1, <3>1 DEF OnlyCloses
    <3>2. CASE listeners[k] # NoListener
      <4>1. agents[k[1]] \in snapshotSessions /\ AgentOf[agents[k[1]]] = k[1]
        BY <3>2, NoneAssumption
        DEF snapshotSessions, Ownership, OwnerIsLive, Keys, TypeOK, Listener
      <4>. QED  BY <2>1, <4>1 DEF KeysOf, Keys
    <3>. QED  BY <3>1, <3>2
  <2>. QED  BY <1>4, <2>1, <2>2, DropSync DEF Shutdown, Ready
<1>5. ASSUME NEW s \in Sessions, NEW spec \in TunnelSpec, bindTunnel(s, spec) PROVE SyncInv'
  <2> DEFINE k0 == <<AgentOf[s], spec.id>>
  <2>1. OnlyCloses /\ k0 \in Keys
    BY <1>5, CloseKeysOnlyCloses, SetsAssumption DEF bindTunnel, Keys, TunnelSpec
  <2>2. /\ cmd = Idle /\ TodoKeys = {}
        /\ cmd'.sess = s /\ cmd'.todo = <<spec>> /\ cmd' # Idle
        /\ desired' = [desired EXCEPT ![k0] = spec]
    <3>1. s # NoSession /\ Idle.sess = NoSession
      BY NoneAssumption DEF Idle
    <3>. QED  BY <1>5, <3>1 DEF bindTunnel, Ready, TodoKeys
  <2>3. DOMAIN cmd'.todo = {1} /\ cmd'.todo[1] = spec
    BY <2>2
  <2>4. TodoKeys' = {k0}
    BY <2>2, <2>3 DEF TodoKeys
  <2>5. TodoIsDesired'
    BY <2>1, <2>2, <2>3 DEF TodoIsDesired, TypeOK
  <2>. QED  BY <2>1, <2>2, <2>4, <2>5 DEF SyncInv, OthersInSync, OnlyCloses, TypeOK
<1>6. ASSUME NEW s \in Sessions, NEW t \in Tunnels, unbindTunnel(s, t) PROVE SyncInv'
  <2>1. OnlyCloses /\ <<AgentOf[s], t>> \in Keys /\ listeners'[<<AgentOf[s], t>>] = NoListener
    BY <1>6, CloseKeysOnlyCloses, SetsAssumption DEF unbindTunnel, Keys
  <2>2. \A k \in Keys : listeners'[k] # NoListener => desired'[k] = desired[k]
    BY <1>6, <2>1 DEF unbindTunnel, TypeOK
  <2>. QED  BY <1>6, <2>1, <2>2, DropSync DEF unbindTunnel, Ready
<1>7. ASSUME NEW s \in Sessions, NEW d \in DesiredSets(s), reconcile(s, d) PROVE SyncInv'
  <2> DEFINE a == AgentOf[s]
             key(i) == <<a, d[i].id>>
             wanted == {key(i) : i \in DOMAIN d}
             K == Unwanted(s, wanted)
  <2>1. /\ cmd = Idle /\ CloseKeys(K) /\ agents[a] = s /\ a \in AgentIDs /\ s # NoSession
        /\ cmd' = IF d = <<>> THEN Idle ELSE [sess |-> s, todo |-> d]
        /\ desired' = [k \in Keys |-> IF \E i \in DOMAIN d : k = key(i)
                                        THEN d[CHOOSE i \in DOMAIN d : k = key(i)]
                                        ELSE IF k \in KeysOf(a) THEN NoSpec ELSE desired[k]]
    BY <1>7, SetsAssumption, NoneAssumption DEF reconcile, IsLive, Ready
  <2>2. /\ \A i \in DOMAIN d : d[i] \in TunnelSpec /\ d[i].id \in Tunnels
        /\ \A i, j \in DOMAIN d : d[i].id = d[j].id => i = j
    BY DEF DesiredSets, TunnelSpec
  <2>3. OnlyCloses /\ \A k \in Keys \cap K : listeners'[k] = NoListener
    BY <2>1, CloseKeysOnlyCloses
  <2>4. TodoKeys = {}
    BY <2>1 DEF TodoKeys
  <2>5. TodoKeys' = wanted
    <3>1. CASE d = <<>>
      BY <2>1, <3>1 DEF TodoKeys
    <3>2. CASE d # <<>>
      <4>1. cmd'.sess = s /\ cmd'.todo = d /\ Idle.sess = NoSession
        BY <2>1, <3>2 DEF Idle
      <4>2. cmd' # Idle
        BY <2>1, <4>1
      <4>. QED  BY <4>1, <4>2 DEF TodoKeys
    <3>. QED  BY <3>1, <3>2
  <2>6. ASSUME NEW i \in DOMAIN d PROVE key(i) \in Keys /\ desired'[key(i)] = d[i]
    <3>1. key(i) \in Keys
      BY <2>1, <2>2 DEF Keys
    <3> DEFINE j == CHOOSE j \in DOMAIN d : key(i) = key(j)
    <3>2. j \in DOMAIN d /\ key(i) = key(j)
      OBVIOUS
    <3>3. j = i
      BY <2>2, <3>2
    <3>4. desired'[key(i)] = d[j]
      BY <2>1, <3>1
    <3>. QED  BY <3>1, <3>3, <3>4
  <2>7. TodoIsDesired'
    <3>1. CASE d = <<>>
      BY <2>1, <3>1 DEF TodoIsDesired
    <3>2. CASE d # <<>>
      <4>1. cmd'.sess = s /\ cmd'.todo = d
        BY <2>1, <3>2
      <4>. QED  BY <2>2, <2>6, <4>1 DEF TodoIsDesired
    <3>. QED  BY <3>1, <3>2
  <2>8. ASSUME NEW k \in Keys, k \notin wanted, listeners'[k] # NoListener
        PROVE  Serves(listeners'[k], desired'[k])
    <3>1. listeners'[k] = listeners[k] /\ listeners[k] # NoListener /\ k \notin K
      BY <2>3, <2>8 DEF OnlyCloses
    <3>2. k \notin KeysOf(a)
      <4>1. k \in KeysOf(a) => listeners[k].owner = s
        BY <2>1, <3>1 DEF KeysOf, Ownership, OwnerIsLive
      <4>. QED  BY <2>8, <3>1, <4>1 DEF Unwanted, Held
    <3>3. desired'[k] = desired[k]
      BY <2>1, <2>8, <3>2
    <3>. QED  BY <2>4, <3>1, <3>3 DEF SyncInv, OthersInSync
  <2>. QED  BY <2>5, <2>7, <2>8 DEF SyncInv, OthersInSync
<1>8. CASE KeepListener
  <2>1. /\ Pending /\ listeners[CurKey] # NoListener /\ NextSpec /\ UNCHANGED desired
        /\ sameListener(listeners[CurKey].spec, CurSpec)
    BY <1>8 DEF KeepListener
  <2>2. TodoIsDesired' /\ TodoKeys' = TodoKeys \ {CurKey} /\ desired[CurKey] = CurSpec
    BY <2>1, NextSpecTodo, CurIsDesired
  <2>3. /\ CurKey \in Keys /\ CurSpec \in TunnelSpec /\ listeners[CurKey] \in Listener
        /\ listeners[CurKey].spec \in TunnelSpec
    BY <2>1, CurTypes DEF TypeOK, Listener
  <2>4. SameButLimit(listeners[CurKey].spec, CurSpec)
    BY <2>1, <2>3, SameListenerMeaning
  <2>5. Serves(listeners'[CurKey], desired'[CurKey])
    <3>1. listeners'[CurKey].limiter = KeptLimiter(listeners[CurKey], CurSpec)
          /\ listeners'[CurKey].spec = listeners[CurKey].spec
      BY <1>8, <2>1, <2>3, KeepChangesLimiter
    <3>2. CurSpec # NoSpec
      BY <2>3, NoListenerAssumption DEF NoSpec
    <3>. QED  BY <2>1, <2>2, <2>4, <3>1, <3>2 DEF Serves, KeptLimiter
  <2>6. ASSUME NEW k \in Keys, k # CurKey, k \notin TodoKeys, listeners'[k] # NoListener
        PROVE  Serves(listeners'[k], desired'[k])
    <3>1. listeners[k] # NoListener /\ listeners'[k].spec = listeners[k].spec
          /\ listeners'[k].limiter = listeners[k].limiter
      BY <1>8, <2>6, KeepChangesLimiter
    <3>2. Serves(listeners[k], desired[k])
      BY <2>6, <3>1 DEF SyncInv, OthersInSync
    <3>. QED  BY <2>1, <3>1, <3>2 DEF Serves
  <2>. QED  BY <2>2, <2>5, <2>6 DEF SyncInv, OthersInSync
<1>9. CASE CloseOld
  <2>1. OnlyCloses /\ UNCHANGED <<cmd, desired>>
    BY <1>9, CloseKeysOnlyCloses DEF CloseOld
  <2>. QED  BY <2>1 DEF SyncInv, TodoIsDesired, OthersInSync, TodoKeys, OnlyCloses
<1>10. CASE BindRequested \/ BindReassigned
  <2>1. /\ Pending /\ NextSpec /\ UNCHANGED desired
    BY <1>10, BindOpens
  <2>2. TodoIsDesired' /\ TodoKeys' = TodoKeys \ {CurKey} /\ desired[CurKey] = CurSpec
    BY <2>1, NextSpecTodo, CurIsDesired
  <2>3. PICK p \in Ports : Open(p)
    BY <1>10, BindOpens
  <2> DEFINE pl == [spec |-> CurSpec, owner |-> cmd.sess, port |-> p, limiter |-> CurSpec.limit]
  <2>4. \A k \in Keys : listeners'[k] = IF k = CurKey THEN pl ELSE listeners[k]
    BY <2>1, <2>3, OpenAddsOne
  <2>5. pl.spec = CurSpec /\ pl.limiter = CurSpec.limit
    OBVIOUS
  <2>6. CurSpec \in TunnelSpec /\ CurSpec # NoSpec
    BY <2>1, CurTypes, NoListenerAssumption DEF NoSpec
  <2> HIDE DEF pl
  <2>7. SameButLimit(CurSpec, CurSpec)
    BY <2>6, SameListenerMeaning DEF sameListener
  <2>8. Serves(pl, CurSpec)
    BY <2>5, <2>6, <2>7 DEF Serves
  <2>. QED  BY <2>1, <2>2, <2>4, <2>8 DEF SyncInv, OthersInSync
<1>11. CASE BindFails
  <2>1. /\ Pending /\ listeners[CurKey] = NoListener /\ NextSpec /\ UNCHANGED <<desired, listeners>>
    BY <1>11 DEF BindFails
  <2>. QED  BY <2>1, NextSpecTodo DEF SyncInv, OthersInSync
<1>12. CASE Cancel \/ HostStep \/ UNCHANGED vars
  BY <1>0, <1>12 DEF Cancel, HostStep, Tick, ForeignBind, ForeignRelease, vars
<1>13. ASSUME NEW s \in Sessions, AdmitFresh(s) \/ AdmitDampened(s) \/ DoStopped(s) PROVE SyncInv'
  BY <1>0, <1>13 DEF AdmitFresh, AdmitDampened, DoStopped
<1>. QED
  BY <1>1, <1>2, <1>3, <1>4, <1>5, <1>6, <1>7, <1>8, <1>9, <1>10, <1>11, <1>12, <1>13
  DEF Next, ActorStep, SessionStep

(***************************************************************************)
(* Between two commands every listener is one its session last asked for,  *)
(* the same in all but its limit, and nothing dropped from a desired set   *)
(* survives. The code: reconcile, bindLocked, unbindLocked, evict.         *)
(***************************************************************************)
THEOREM ListenersInSync == Spec => []ListenersMatchDesired
  BY TypeInit, TypeStep, OwnershipInit, OwnershipStep, SyncInit, SyncStep, SyncMeaning, PTL
  DEF Spec

(***************************************************************************)
(* Between two commands a limiter is out of date only when the limit asked *)
(* for is the one its listener was bound with. The code: the comparison of *)
(* specs in reconcile, which never sees the spec of the update before.     *)
(***************************************************************************)
THEOREM LimiterInSync == Spec => []LimiterStaleOnlyAtBoundCap
  BY TypeInit, TypeStep, OwnershipInit, OwnershipStep, SyncInit, SyncStep, SyncMeaning, PTL
  DEF Spec

\* A step inside a command closes no listener but the one whose spec has changed.
LEMMA ResyncStep ==
  ASSUME TypeOK, Ownership, SyncInv, [Next]_vars, NEW k \in Keys,
         cmd # Idle, listeners[k] # NoListener, desired[k] # NoSpec,
         SameButLimit(listeners[k].spec, desired[k])
  PROVE  listeners'[k] # NoListener /\ listeners'[k].port = listeners[k].port
<1>1. CASE UNCHANGED listeners
  BY <1>1
<1>2. CASE KeepListener
  BY <1>2, KeepChangesLimiter
<1>3. CASE CloseOld
  <2>1. /\ Pending /\ ~sameListener(listeners[CurKey].spec, CurSpec)
        /\ CloseKeys({CurKey}) /\ listeners[CurKey] # NoListener
    BY <1>3 DEF CloseOld
  <2>2. /\ desired[CurKey] = CurSpec /\ CurSpec \in TunnelSpec /\ CurKey \in Keys
        /\ listeners[CurKey].spec \in TunnelSpec
    BY <2>1, CurIsDesired, CurTypes DEF TypeOK, Listener
  <2>3. k # CurKey
    BY <2>1, <2>2, SameListenerMeaning
  <2>. QED  BY <2>1, <2>3, CloseKeysType DEF TypeOK
<1>4. CASE BindRequested \/ BindReassigned
  <2>1. Pending /\ listeners[CurKey] = NoListener /\ \E p \in Ports : Open(p)
    BY <1>4, BindOpens
  <2>. QED  BY <2>1, OpenAddsOne
<1>. QED
  BY <1>1, <1>2, <1>3, <1>4
  DEF Next, ActorStep, BindFails, SessionStep, AdmitFresh, AdmitDampened, AdmitSupersede,
      Disconnected, DoStopped, bindTunnel, unbindTunnel, reconcile, EvictAgent, Cancel, Shutdown,
      HostStep, Tick, ForeignBind, ForeignRelease, Ready, vars

(***************************************************************************)
(* A reconcile keeps the socket of a tunnel whose wanted spec differs in   *)
(* nothing but the limit, so its clients stay connected. The code:         *)
(* reconcile and sameListener.                                             *)
(***************************************************************************)
THEOREM ResyncKeepsSockets == Spec => ResyncKeepsListener
<1>1. TypeOK /\ Ownership /\ SyncInv /\ [Next]_vars =>
        [\A k \in Keys :
           cmd # Idle /\ listeners[k] # NoListener /\ desired[k] # NoSpec
             /\ SameButLimit(listeners[k].spec, desired[k])
           => listeners'[k] # NoListener /\ listeners'[k].port = listeners[k].port]_vars
  BY ResyncStep
<1>. QED
  BY <1>1, TypeInit, TypeStep, OwnershipInit, OwnershipStep, SyncInit, SyncStep, PTL
  DEF Spec, ResyncKeepsListener

=============================================================================
