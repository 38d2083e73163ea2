--------------------------- MODULE DataPlaneProofs ---------------------------
(***************************************************************************)
(* Machine-checked proofs about DataPlane, for any sets of players, legs,  *)
(* sessions and agents, any caps and any mixture of transports.            *)
(*                                                                         *)
(* The order: the counts and the type correctness that rests on them, the  *)
(* quiet end of the actor, the ownership of legs, the isolation of         *)
(* evictions, and the refinement of LegHandoff.                            *)
(***************************************************************************)
EXTENDS DataPlane, FiniteSetTheorems, TLAPS

-----------------------------------------------------------------------------
(* The inductive invariants.                                               *)

\* Only finitely many players have come so far, so that they can be counted.
Started == {c \in Clients : pc[c] # "idle"}
ServedFrom(i) == {c \in Served : IPOf[c] = i}
CountInv == IsFiniteSet(Started) /\ TypeOK /\ GateExact

\* An evicted session's loop has exited before its legs are closed, a player that
\* is held is held by the loop of its session, and the actor that has stopped
\* leaves no loop running.
LoopsInv ==
  /\ drained \subseteq evicted
  /\ \A s \in drained : acc[s] = "exited"
  /\ \A c \in Clients : pc[c] = "held" => own[c] \in Sessions /\ acc[own[c]] = c
  /\ actor = "stopped" => \A s \in Sessions : acc[s] \in {"unbound", "exited"}
  /\ StoppedIsQuiet

\* What the acceptor's goroutine has done with leg l. It is matched with a player
\* of its agent only when that player's open_data frame was sent, and a leg that
\* it has handed over and that is open is in the hands of the player it names.
AcceptorOf(l) ==
  /\ handler[l] = "unused" => l \notin fd
  /\ handler[l] \in {"new", "matched"} => l \in fd
  /\ handler[l] # "unused" =>
       /\ target[l] \in Clients /\ pc[target[l]] # "idle"
       /\ target[l] \in sent \/ LegAgent[l] # AgentOf[own[target[l]]]
  /\ handler[l] = "matched" => LegAgent[l] = AgentOf[own[target[l]]]
  /\ l \in fd /\ handler[l] = "gone" => HasLeg(target[l], l)

\* What the goroutine of player c knows. Its pendingConn is settled when it stops
\* waiting, and holds at most one leg, which named this player.
WaiterOf(c) ==
  /\ own[c] = None <=> pc[c] = "idle"
  /\ c \in sent => pc[c] \notin {"idle", "held", "accepted", "gated", "registered"}
  /\ pc[c] \in {"waiting", "woken"} \/ slot[c].done => c \in sent
  /\ c \in sent /\ pc[c] \notin {"waiting", "woken"} => slot[c].done
  /\ pc[c] \in {"waiting", "woken"} /\ slot[c].done => slot[c].conn # None
  /\ slot[c].conn # None =>
       /\ slot[c].done
       /\ handler[slot[c].conn] = "gone" /\ target[slot[c].conn] = c
       /\ LegAgent[slot[c].conn] = AgentOf[own[c]]
  /\ leg[c] # None => leg[c] = slot[c].conn

LegInv == (\A l \in Legs : AcceptorOf(l)) /\ (\A c \in Clients : WaiterOf(c))

-----------------------------------------------------------------------------
(* Type correctness, but for the counters.                                 *)

GateType == gate \in [global : Nat, perIP : [IPs -> Nat]]

LEMMA TypeInit == Init => TypeOK
<1> SUFFICES ASSUME Init PROVE TypeOK
  OBVIOUS
<1>1. /\ pc \in [Clients -> PCs] /\ halves \in [Clients -> SUBSET {"up", "down"}]
      /\ own \in [Clients -> Sessions \cup {None}] /\ leg \in [Clients -> Legs \cup {None}]
  BY DEF Init, PCs
<1>2. slot \in [Clients -> [done : BOOLEAN, conn : Legs \cup {None}]]
  BY DEF Init, EmptySlot
<1>3. /\ handler \in [Legs -> {"unused", "new", "matched", "gone"}]
      /\ target \in [Legs -> Clients \cup {None}]
      /\ acc \in [Sessions -> {"unbound", "accepting", "exited"} \cup Clients]
  BY DEF Init
<1>4. gate \in [global : Nat, perIP : [IPs -> Nat]]
  BY DEF Init
<1>. QED  BY <1>1, <1>2, <1>3, <1>4 DEF Init, TypeOK

LEMMA TypeStep ==
  ASSUME TypeOK, [Next]_vars, GateType'
  PROVE  TypeOK'
<1> USE DataPlaneAssumption
<1> USE DEF TypeOK, GateType, connVars, legVars, sessVars
<1>0. ASSUME NEW c \in Clients, NEW from \in PCs, NEW to \in PCs, Step(c, from, to)
      PROVE  pc' \in [Clients -> PCs]
  BY <1>0 DEF Step
<1>1. ASSUME NEW c \in Clients,
             \/ Admitted(c) \/ Rejected(c) \/ BackendDown(c) \/ OpenStream(c) \/ Register(c)
             \/ OpenDataSent(c) \/ OpenDataFails(c) \/ TakeWakes(c)
      PROVE  TypeOK'
  <2>1. pc' \in [Clients -> PCs]
    BY <1>0, <1>1 DEF Admitted, Rejected, BackendDown, OpenStream, Register, OpenDataSent,
       OpenDataFails, TakeWakes, PCs
  <2>2. pendingData' \subseteq Clients /\ sent' \subseteq Clients
    BY <1>1 DEF Admitted, Rejected, BackendDown, OpenStream, Register, OpenDataSent,
       OpenDataFails, Unregister, TakeWakes, connVars, TypeOK
  <2>3. UNCHANGED <<own, leg, halves, gone, slot, dataConns, legVars, fd, sessVars>>
    BY <1>1 DEF Admitted, Rejected, BackendDown, OpenStream, Register, OpenDataSent,
       OpenDataFails, TakeWakes, connVars
  <2>. QED  BY <2>1, <2>2, <2>3
<1>2. ASSUME NEW c \in Clients, TakeReady(c) \/ TakeLate(c) PROVE TypeOK'
  <2>1. pc' \in [Clients -> PCs]
    BY <1>0, <1>2 DEF TakeReady, TakeLate, PCs
  <2>2. leg' \in [Clients -> Legs \cup {None}]
    BY <1>2 DEF TakeReady, TakeLate, TypeOK
  <2>3. pendingData' \subseteq Clients /\ UNCHANGED <<own, halves, gone, slot, sent, dataConns, legVars, fd, sessVars>>
    BY <1>2 DEF TakeReady, TakeLate, Unregister, TypeOK
  <2>. QED  BY <2>1, <2>2, <2>3
<1>3. ASSUME NEW c \in Clients, GiveUp(c) PROVE TypeOK'
  <2>1. pc' \in [Clients -> PCs]
    BY <1>0, <1>3 DEF GiveUp, PCs
  <2>2. slot' \in [Clients -> [done : BOOLEAN, conn : Legs \cup {None}]]
    <3>1. [slot[c] EXCEPT !.done = TRUE] \in [done : BOOLEAN, conn : Legs \cup {None}]
      <4>1. slot[c] \in [done : BOOLEAN, conn : Legs \cup {None}]
        BY DEF TypeOK
      <4>. QED  BY <4>1, Zenon
    <3>2. slot' = [slot EXCEPT ![c] = [slot[c] EXCEPT !.done = TRUE]]
      BY <1>3 DEF GiveUp
    <3>. QED  BY <3>1, <3>2 DEF TypeOK
  <2>3. pendingData' \subseteq Clients /\ UNCHANGED <<own, leg, halves, gone, sent, dataConns, legVars, fd, sessVars>>
    BY <1>3 DEF GiveUp, Unregister, TypeOK
  <2>. QED  BY <2>1, <2>2, <2>3
<1>4. ASSUME NEW c \in Clients, StoreLeg(c) \/ OpenConn(c) \/ OpenConnFails(c) PROVE TypeOK'
  <2>1. pc' \in [Clients -> PCs]
    BY <1>0, <1>4 DEF StoreLeg, OpenConn, OpenConnFails, PCs
  <2>2. halves' \in [Clients -> SUBSET {"up", "down"}] /\ dataConns' \subseteq Clients
    BY <1>4 DEF StoreLeg, OpenConn, OpenConnFails, TypeOK
  <2>3. UNCHANGED <<own, leg, gone, connVars, legVars, fd, sessVars>>
    BY <1>4 DEF StoreLeg, OpenConn, OpenConnFails
  <2>. QED  BY <2>1, <2>2, <2>3
<1>5. ASSUME NEW c \in Clients, DownEnds(c) \/ UpEnds(c) \/ UpWriteFails(c) PROVE TypeOK'
  <2>1. halves' \in [Clients -> SUBSET {"up", "down"}]
    BY <1>5 DEF DownEnds, UpEnds, UpWriteFails, TypeOK
  <2>2. UNCHANGED <<pc, own, leg, gone, connVars, dataConns, legVars, fd, sessVars, gate>>
    BY <1>5 DEF DownEnds, UpEnds, UpWriteFails
  <2>. QED  BY <2>1, <2>2
<1>6. ASSUME NEW c \in Clients, SpliceEnds(c) \/ Finish(c) \/ PlayerLeaves(c) PROVE TypeOK'
  <2>1. pc' \in [Clients -> PCs]
    BY <1>0, <1>6 DEF SpliceEnds, Finish, PlayerLeaves, PCs, TypeOK
  <2>2. fd' \subseteq Legs /\ dataConns' \subseteq Clients /\ gone' \subseteq Clients
    BY <1>6 DEF SpliceEnds, Finish, CloseLeg, PlayerLeaves, TypeOK
  <2>3. UNCHANGED <<own, leg, halves, connVars, legVars, sessVars>>
    BY <1>6 DEF SpliceEnds, Finish, PlayerLeaves
  <2>. QED  BY <2>1, <2>2, <2>3
<1>7. ASSUME NEW s \in Sessions, NEW c \in Clients, Accept(s, c) PROVE TypeOK'
  <2>1. pc' \in [Clients -> PCs]
    BY <1>0, <1>7 DEF Accept, PCs
  <2>. QED  BY <1>7, <2>1 DEF Accept
<1>8. ASSUME NEW l \in Legs, NEW c \in Clients, DialBack(l, c) PROVE TypeOK'
  BY <1>8 DEF DialBack
<1>9. ASSUME NEW l \in Legs, Match(l) \/ NoMatch(l) \/ DeliverLoses(l) \/ AgentCloses(l) PROVE TypeOK'
  BY <1>9 DEF Match, NoMatch, DeliverLoses, AgentCloses
<1>10. ASSUME NEW l \in Legs, deliver(l) PROVE TypeOK'
  <2>1. slot' \in [Clients -> [done : BOOLEAN, conn : Legs \cup {None}]]
    BY <1>10 DEF deliver, TypeOK
  <2>2. handler' \in [Legs -> {"unused", "new", "matched", "gone"}]
    BY <1>10 DEF deliver, TypeOK
  <2>. QED  BY <1>10, <2>1, <2>2 DEF deliver
<1>11. ASSUME NEW s \in Sessions, Bind(s) \/ LoopExit(s) \/ LinkLost(s) \/ EvictBegins(s) PROVE TypeOK'
  BY <1>11 DEF Bind, LoopExit, LinkLost, EvictBegins
<1>12. ASSUME NEW s \in Sessions, Spawn(s) PROVE TypeOK'
  <2>1. PICK c \in Clients :
          /\ Step(c, "held", "accepted")
          /\ acc' = [acc EXCEPT ![s] = "accepting"]
          /\ UNCHANGED <<own, leg, halves, gone, connVars, dataConns, legVars, fd, perConn, muxDown,
                         evicted, drained, gate, ctxDone, actor>>
    BY <1>12 DEF Spawn
  <2>2. pc' \in [Clients -> PCs]
    BY <1>0, <2>1 DEF PCs
  <2>3. acc' \in [Sessions -> {"unbound", "accepting", "exited"} \cup Clients]
    BY <2>1 DEF TypeOK
  <2>. QED  BY <2>1, <2>2, <2>3
<1>13. ASSUME NEW s \in Sessions, EvictEnds(s) PROVE TypeOK'
  <2>1. fd' \subseteq Legs /\ muxDown' \subseteq Sessions /\ drained' \subseteq Sessions
    BY <1>13 DEF EvictEnds, closeAll, TypeOK
  <2>2. UNCHANGED <<pc, own, leg, halves, gone, connVars, dataConns, legVars, perConn, acc, evicted,
                    gate, ctxDone, actor>>
    BY <1>13 DEF EvictEnds
  <2>. QED  BY <2>1, <2>2
<1>14. CASE Cancel \/ ShutdownBegins \/ Stop
  <2>1. ctxDone' \in BOOLEAN /\ actor' \in {"running", "draining", "stopped"}
    BY <1>14 DEF Cancel, ShutdownBegins, Stop, TypeOK
  <2>2. UNCHANGED <<pc, own, leg, halves, gone, connVars, dataConns, legVars, fd, perConn, muxDown,
                    acc, evicted, drained, gate>>
    BY <1>14 DEF Cancel, ShutdownBegins, Stop
  <2>. QED  BY <2>1, <2>2
<1>15. CASE UNCHANGED vars
  BY <1>15 DEF vars
<1>. QED
  BY <1>1, <1>2, <1>3, <1>4, <1>5, <1>6, <1>7, <1>8, <1>9, <1>10, <1>11, <1>12, <1>13, <1>14, <1>15
  DEF Next, ClientStep, LegStep, LoopStep, ShutdownStep

-----------------------------------------------------------------------------
(* The counts.                                                             *)

\* One connection more in a finite set, and one less.
LEMMA CountUp ==
  ASSUME NEW S, IsFiniteSet(S), NEW x, x \notin S
  PROVE  /\ IsFiniteSet(S \cup {x})
         /\ Cardinality(S) \in Nat /\ Cardinality(S \cup {x}) = Cardinality(S) + 1
  BY FS_AddElement, FS_CardinalityType

LEMMA CountDown ==
  ASSUME NEW S, IsFiniteSet(S), NEW x \in S
  PROVE  /\ IsFiniteSet(S \ {x})
         /\ Cardinality(S) \in Nat \ {0} /\ Cardinality(S \ {x}) = Cardinality(S) - 1
  BY FS_RemoveElement, FS_CardinalityType, FS_EmptySet

LEMMA ServedFinite ==
  ASSUME IsFiniteSet(Started)
  PROVE  IsFiniteSet(Served) /\ \A i : IsFiniteSet(ServedFrom(i))
<1>1. Served \in SUBSET Started
  BY DEF Served, Started
<1>2. \A i : ServedFrom(i) \in SUBSET Started
  BY <1>1 DEF ServedFrom
<1>. QED  BY <1>1, <1>2, FS_Subset

\* The gate's counters after a connection was let in or has ended.
LEMMA GateUp ==
  ASSUME CountInv, NEW c \in Clients \ Served, Served' = Served \cup {c},
         gate' = [gate EXCEPT !.global = @ + 1, !.perIP[IPOf[c]] = @ + 1]
  PROVE  GateType' /\ GateExact'
<1> DEFINE i == IPOf[c]
<1>1. /\ gate.global \in Nat /\ gate.perIP \in [IPs -> Nat] /\ i \in IPs
      /\ gate = [global |-> gate.global, perIP |-> gate.perIP]
  BY DataPlaneAssumption DEF CountInv, TypeOK
<1>2. gate' = [global |-> gate.global + 1, perIP |-> [gate.perIP EXCEPT ![i] = @ + 1]]
  BY <1>1
<1>3. gate'.global = gate.global + 1 /\ gate'.perIP = [gate.perIP EXCEPT ![i] = @ + 1]
  BY <1>2
<1>4. IsFiniteSet(Served) /\ \A j : IsFiniteSet(ServedFrom(j))
  BY ServedFinite DEF CountInv
<1>5. Cardinality(Served') = Cardinality(Served) + 1
  BY <1>4, CountUp
<1>6. ASSUME NEW j \in IPs PROVE gate'.perIP[j] = Cardinality(ServedFrom(j))'
  <2>1. CASE j = i
    <3>1. ServedFrom(j)' = ServedFrom(j) \cup {c} /\ c \notin ServedFrom(j)
      BY <2>1 DEF ServedFrom
    <3>2. Cardinality(ServedFrom(j)') = Cardinality(ServedFrom(j)) + 1
      BY <1>4, <3>1, CountUp
    <3>. QED  BY <1>1, <1>3, <2>1, <3>2 DEF CountInv, GateExact, ServedFrom
  <2>2. CASE j # i
    <3>1. ServedFrom(j)' = ServedFrom(j)
      BY <2>2 DEF ServedFrom
    <3>. QED  BY <1>1, <1>3, <2>2, <3>1 DEF CountInv, GateExact, ServedFrom
  <2>. QED  BY <2>1, <2>2
<1>7. GateType'
  <2>1. gate.global + 1 \in Nat /\ gate.perIP[i] + 1 \in Nat
    BY <1>1
  <2>2. [gate.perIP EXCEPT ![i] = @ + 1] \in [IPs -> Nat]
    BY <1>1, <2>1
  <2>. QED  BY <1>2, <2>1, <2>2 DEF GateType
<1>. QED  BY <1>3, <1>5, <1>6, <1>7 DEF CountInv, GateExact, ServedFrom

LEMMA GateDown ==
  ASSUME CountInv, NEW c \in Served, Served' = Served \ {c}, release(IPOf[c])
  PROVE  GateType' /\ GateExact'
<1> DEFINE i == IPOf[c]
<1>0. c \in Clients
  BY DEF Served
<1>1. /\ gate.global \in Nat /\ gate.perIP \in [IPs -> Nat] /\ i \in IPs
      /\ gate = [global |-> gate.global, perIP |-> gate.perIP]
  BY <1>0, DataPlaneAssumption DEF CountInv, TypeOK
<1>2. gate' = [global |-> gate.global - 1, perIP |-> [gate.perIP EXCEPT ![i] = @ - 1]]
  BY <1>1 DEF release
<1>3. gate'.global = gate.global - 1 /\ gate'.perIP = [gate.perIP EXCEPT ![i] = @ - 1]
  BY <1>2
<1>4. IsFiniteSet(Served) /\ \A j : IsFiniteSet(ServedFrom(j))
  BY ServedFinite DEF CountInv
<1>5. Cardinality(Served') = Cardinality(Served) - 1 /\ Cardinality(Served) \in Nat \ {0}
  BY <1>4, CountDown
<1>6. c \in ServedFrom(i) /\ ServedFrom(i)' = ServedFrom(i) \ {c}
  BY DEF ServedFrom
<1>7. /\ Cardinality(ServedFrom(i)') = Cardinality(ServedFrom(i)) - 1
      /\ Cardinality(ServedFrom(i)) \in Nat \ {0}
  BY <1>4, <1>6, CountDown
<1>8. ASSUME NEW j \in IPs PROVE gate'.perIP[j] = Cardinality(ServedFrom(j))'
  <2>1. CASE j = i
    BY <1>1, <1>3, <1>7, <2>1 DEF CountInv, GateExact, ServedFrom
  <2>2. CASE j # i
    <3>1. ServedFrom(j)' = ServedFrom(j)
      BY <2>2 DEF ServedFrom
    <3>. QED  BY <1>1, <1>3, <2>2, <3>1 DEF CountInv, GateExact, ServedFrom
  <2>. QED  BY <2>1, <2>2
<1>9. GateType'
  <2>1. gate.global - 1 \in Nat
    BY <1>1, <1>5 DEF CountInv, GateExact
  <2>2. gate.perIP[i] - 1 \in Nat
    BY <1>1, <1>7 DEF CountInv, GateExact, ServedFrom
  <2>3. [gate.perIP EXCEPT ![i] = @ - 1] \in [IPs -> Nat]
    BY <1>1, <2>2
  <2>. QED  BY <1>2, <2>1, <2>3 DEF GateType
<1>. QED  BY <1>3, <1>5, <1>8, <1>9 DEF CountInv, GateExact, ServedFrom

LEMMA CountInit == Init => CountInv
<1> SUFFICES ASSUME Init PROVE CountInv
  OBVIOUS
<1>1. Started = {} /\ Served = {}
  BY DEF Init, Started, Served
<1>2. \A i : ServedFrom(i) = {}
  BY <1>1 DEF ServedFrom
<1>3. GateExact
  BY <1>1, <1>2, FS_EmptySet DEF Init, GateExact, ServedFrom
<1>. QED  BY <1>1, <1>3, TypeInit, FS_EmptySet DEF CountInv

\* The places of a goroutine that the gate does not count.
Uncounted == {"idle", "held", "accepted", "done"}

LEMMA CountStep == CountInv /\ [Next]_vars => CountInv'
<1> SUFFICES ASSUME CountInv, [Next]_vars PROVE CountInv'
  OBVIOUS
<1>0. IsFiniteSet(Started) /\ TypeOK /\ GateExact /\ GateType
  BY DEF CountInv, TypeOK, GateType
<1>1. ASSUME GateType', GateExact', IsFiniteSet(Started') PROVE CountInv'
  BY <1>0, <1>1, TypeStep DEF CountInv
\* A step that moves one goroutine, which the gate counts before and after or not.
<1>2. ASSUME NEW c \in Clients, NEW from \in PCs \ {"idle"}, NEW to \in PCs \ {"idle"},
             Step(c, from, to), gate' = gate, from \in Uncounted <=> to \in Uncounted
      PROVE  CountInv'
  <2>1. \A d \in Clients : pc'[d] = IF d = c THEN to ELSE pc[d]
    BY <1>0, <1>2 DEF Step, TypeOK
  <2>2. Started' = Started
    BY <1>2, <2>1 DEF Started, Step
  <2>3. Served' = Served
    BY <1>2, <2>1 DEF Served, Step, Uncounted
  <2>4. GateExact' /\ GateType'
    BY <1>0, <1>2, <2>3 DEF GateExact, GateType
  <2>. QED  BY <1>0, <1>1, <2>2, <2>4
<1>3. ASSUME UNCHANGED <<pc, gate>> PROVE CountInv'
  BY <1>0, <1>1, <1>3 DEF Started, GateExact, GateType, Served
<1>4. ASSUME NEW c \in Clients, NEW s \in Sessions, Accept(s, c) PROVE CountInv'
  <2>1. \A d \in Clients : pc'[d] = IF d = c THEN "held" ELSE pc[d]
    BY <1>0, <1>4 DEF Accept, Step, TypeOK
  <2>2. Started' = Started \cup {c}
    BY <2>1 DEF Started
  <2>3. Served' = Served
    BY <1>4, <2>1 DEF Served, Accept, Step
  <2>4. GateExact' /\ GateType'
    BY <1>0, <1>4, <2>3 DEF GateExact, GateType, Accept
  <2>. QED  BY <1>0, <1>1, <2>2, <2>4, FS_AddElement
<1>5. ASSUME NEW c \in Clients, Admitted(c) PROVE CountInv'
  <2>1. \A d \in Clients : pc'[d] = IF d = c THEN "gated" ELSE pc[d]
    BY <1>0, <1>5 DEF Admitted, Step, TypeOK
  <2>2. Started' = Started
    BY <1>5, <2>1 DEF Started, Admitted, Step
  <2>3. c \notin Served /\ Served' = Served \cup {c}
    BY <1>5, <2>1 DEF Served, Admitted, Step
  <2>4. GateExact' /\ GateType'
    BY <1>5, <2>3, GateUp DEF Admitted
  <2>. QED  BY <1>0, <1>1, <2>2, <2>4
<1>6. ASSUME NEW c \in Clients, Finish(c) PROVE CountInv'
  <2>1. \A d \in Clients : pc'[d] = IF d = c THEN "done" ELSE pc[d]
    BY <1>0, <1>6 DEF Finish, Step, TypeOK
  <2>2. Started' = Started
    BY <1>6, <2>1 DEF Started, Finish, Step
  <2>3. c \in Served /\ Served' = Served \ {c}
    BY <1>6, <2>1 DEF Served, Finish, Step
  <2>4. GateExact' /\ GateType'
    BY <1>6, <2>3, GateDown DEF Finish
  <2>. QED  BY <1>0, <1>1, <2>2, <2>4
<1>7. ASSUME NEW c \in Clients, Rejected(c) PROVE CountInv'
  BY <1>2, <1>7 DEF Rejected, PCs, Uncounted
<1>8. ASSUME NEW c \in Clients,
             \/ BackendDown(c) \/ OpenStream(c) \/ Register(c) \/ OpenDataSent(c)
             \/ OpenDataFails(c) \/ TakeReady(c) \/ TakeWakes(c) \/ TakeLate(c) \/ GiveUp(c)
             \/ StoreLeg(c) \/ OpenConn(c) \/ OpenConnFails(c) \/ SpliceEnds(c)
      PROVE  CountInv'
  <2>1. PICK from \in PCs \ Uncounted, to \in PCs \ Uncounted : Step(c, from, to) /\ gate' = gate
    BY <1>8
    DEF BackendDown, OpenStream, Register, OpenDataSent, OpenDataFails, TakeReady, TakeWakes,
        TakeLate, GiveUp, StoreLeg, OpenConn, OpenConnFails, SpliceEnds, PCs, Uncounted
  <2>2. "idle" \in Uncounted
    BY DEF Uncounted
  <2>. QED  BY <1>2, <2>1, <2>2
<1>9. ASSUME NEW s \in Sessions, Spawn(s) PROVE CountInv'
  <2>1. PICK c \in Clients : Step(c, "held", "accepted") /\ gate' = gate
    BY <1>9 DEF Spawn
  <2>. QED  BY <1>2, <2>1 DEF PCs, Uncounted
<1>. QED
  BY <1>3, <1>4, <1>5, <1>6, <1>7, <1>8, <1>9
  DEF Next, ClientStep, LegStep, LoopStep, ShutdownStep, DownEnds, UpEnds, UpWriteFails,
      PlayerLeaves, DialBack, Match, NoMatch, deliver, DeliverLoses, AgentCloses, Bind, LoopExit,
      LinkLost, EvictBegins, EvictEnds, Cancel, ShutdownBegins, Stop, vars

-----------------------------------------------------------------------------
(* The loops and the quiet end.                                            *)

LEMMA LoopsInit == Init => LoopsInv
  BY DEF Init, LoopsInv, StoppedIsQuiet

\* A step that moves the goroutine of one player already served by the gateway
\* changes nothing of the loops.
LEMMA LoopsMove ==
  ASSUME TypeOK, LoopsInv, UNCHANGED <<own, acc, evicted, drained, actor>>,
         NEW c \in Clients, NEW from, NEW to, Step(c, from, to),
         from \notin {"idle", "done"}, to # "held"
  PROVE  LoopsInv'
<1>1. \A d \in Clients : pc'[d] = IF d = c THEN to ELSE pc[d]
  BY DEF Step, TypeOK
<1>2. actor # "stopped"
  BY DEF LoopsInv, StoppedIsQuiet, Step
<1>. QED  BY <1>1, <1>2 DEF LoopsInv, StoppedIsQuiet

LEMMA LoopsStep == CountInv /\ LoopsInv /\ [Next]_vars => LoopsInv'
<1> SUFFICES ASSUME CountInv, LoopsInv, [Next]_vars PROVE LoopsInv'
  OBVIOUS
<1> USE LoopAssumption
<1>0. TypeOK /\ IsFiniteSet(Started)
  BY DEF CountInv
<1>1. ASSUME NEW c \in Clients, NEW s \in Sessions, Accept(s, c) PROVE LoopsInv'
  <2>1. /\ acc[s] = "accepting" /\ s \notin evicted /\ pc[c] = "idle"
        /\ UNCHANGED <<evicted, drained, actor>>
        /\ \A d \in Clients : pc'[d] = IF d = c THEN "held" ELSE pc[d]
        /\ \A t \in Sessions : acc'[t] = IF t = s THEN c ELSE acc[t]
        /\ \A d \in Clients : own'[d] = IF d = c THEN s ELSE own[d]
    BY <1>0, <1>1 DEF Accept, Step, TypeOK
  <2>2. actor # "stopped"
    BY <2>1 DEF LoopsInv
  <2>3. \A d \in Clients : pc[d] = "held" => own[d] # s
    BY <2>1 DEF LoopsInv
  <2>. QED  BY <1>0, <2>1, <2>2, <2>3 DEF LoopsInv, StoppedIsQuiet, TypeOK
<1>2. ASSUME NEW s \in Sessions, Spawn(s) PROVE LoopsInv'
  <2>1. PICK c \in Clients :
          /\ acc[s] = c /\ pc[c] = "held"
          /\ pc' = [pc EXCEPT ![c] = "accepted"]
          /\ acc' = [acc EXCEPT ![s] = "accepting"]
          /\ UNCHANGED <<own, evicted, drained, actor>>
    BY <1>2 DEF Spawn, Step
  <2>2. /\ \A d \in Clients : pc'[d] = IF d = c THEN "accepted" ELSE pc[d]
        /\ \A t \in Sessions : acc'[t] = IF t = s THEN "accepting" ELSE acc[t]
    BY <1>0, <2>1 DEF TypeOK
  <2>3. acc[s] \notin {"unbound", "exited"}
    BY <2>1
  <2>4. actor # "stopped" /\ s \notin drained
    BY <2>3 DEF LoopsInv
  <2>5. \A d \in Clients : pc'[d] = "held" => acc'[own[d]] = d /\ own[d] \in Sessions
    BY <2>1, <2>2 DEF LoopsInv
  <2>. QED  BY <2>1, <2>2, <2>4, <2>5 DEF LoopsInv, StoppedIsQuiet
<1>3. ASSUME NEW s \in Sessions, Bind(s) PROVE LoopsInv'
  <2>1. /\ acc[s] = "unbound" /\ actor = "running" /\ actor' = "running"
        /\ UNCHANGED <<pc, own, evicted, drained>>
        /\ \A t \in Sessions : acc'[t] = IF t = s THEN "accepting" ELSE acc[t]
    BY <1>0, <1>3 DEF Bind, TypeOK
  <2>2. s \notin drained /\ \A d \in Clients : pc[d] = "held" => own[d] # s
    BY <2>1 DEF LoopsInv
  <2>3. drained \subseteq Sessions
    BY <1>0 DEF TypeOK
  <2>. QED  BY <2>1, <2>2, <2>3 DEF LoopsInv, StoppedIsQuiet
<1>4. ASSUME NEW s \in Sessions, LoopExit(s) PROVE LoopsInv'
  <2>1. /\ acc[s] = "accepting" /\ UNCHANGED <<pc, own, evicted, drained, actor>>
        /\ \A t \in Sessions : acc'[t] = IF t = s THEN "exited" ELSE acc[t]
    BY <1>0, <1>4 DEF LoopExit, TypeOK
  <2>2. \A d \in Clients : pc[d] = "held" => own[d] # s
    BY <2>1 DEF LoopsInv
  <2>3. drained \subseteq Sessions
    BY <1>0 DEF TypeOK
  <2>. QED  BY <2>1, <2>2, <2>3 DEF LoopsInv, StoppedIsQuiet
<1>5. ASSUME NEW s \in Sessions, EvictBegins(s) PROVE LoopsInv'
  BY <1>5 DEF EvictBegins, LoopsInv, StoppedIsQuiet
<1>6. ASSUME NEW s \in Sessions, EvictEnds(s) PROVE LoopsInv'
  BY <1>6 DEF EvictEnds, AcceptLoopDone, LoopsInv, StoppedIsQuiet
<1>7. CASE Stop
  <2>1. /\ UNCHANGED <<pc, own, acc, evicted, drained>>
        /\ \A s \in Sessions : acc[s] # "unbound" => s \in drained
        /\ clientWG = 0
    BY <1>7 DEF Stop
  <2>2. \A s \in Sessions : acc[s] \in {"unbound", "exited"}
    BY <2>1 DEF LoopsInv
  <2>3. \A c \in Clients : pc[c] # "held"
    BY <2>2 DEF LoopsInv
  <2> DEFINE W == {c \in Clients : pc[c] \notin {"idle", "held", "done"}}
  <2>4. W = {}
    <3>1. W \in SUBSET Started
      BY DEF Started
    <3>2. IsFiniteSet(W)
      BY <1>0, <3>1, FS_Subset
    <3>3. Cardinality(W) = 0
      BY <2>1 DEF clientWG
    <3>. QED  BY <3>2, <3>3, FS_EmptySet
  <2>5. \A c \in Clients : pc[c] \in {"idle", "done"}
    BY <2>3, <2>4
  <2>. QED  BY <2>1, <2>2, <2>5 DEF LoopsInv, StoppedIsQuiet
<1>8. CASE Cancel \/ ShutdownBegins
  BY <1>8 DEF Cancel, ShutdownBegins, LoopsInv, StoppedIsQuiet
<1>9. ASSUME UNCHANGED <<pc, own, acc, evicted, drained, actor>> PROVE LoopsInv'
  BY <1>9 DEF LoopsInv, StoppedIsQuiet
<1>10. ASSUME NEW c \in Clients,
              \/ Admitted(c) \/ Rejected(c) \/ BackendDown(c) \/ OpenStream(c) \/ Register(c)
              \/ OpenDataSent(c) \/ OpenDataFails(c) \/ TakeReady(c) \/ TakeWakes(c)
              \/ TakeLate(c) \/ GiveUp(c) \/ StoreLeg(c) \/ OpenConn(c) \/ OpenConnFails(c)
              \/ SpliceEnds(c) \/ Finish(c)
       PROVE  LoopsInv'
  <2>1. PICK from \in PCs \ {"idle", "done"}, to \in PCs \ {"held"} : Step(c, from, to)
    BY <1>10
    DEF Admitted, Rejected, BackendDown, OpenStream, Register, OpenDataSent, OpenDataFails,
        TakeReady, TakeWakes, TakeLate, GiveUp, StoreLeg, OpenConn, OpenConnFails, SpliceEnds,
        Finish, PCs
  <2>2. UNCHANGED <<own, acc, evicted, drained, actor>>
    BY <1>10
    DEF Admitted, Rejected, BackendDown, OpenStream, Register, OpenDataSent, OpenDataFails,
        TakeReady, TakeWakes, TakeLate, GiveUp, StoreLeg, OpenConn, OpenConnFails, SpliceEnds,
        Finish, sessVars
  <2>. QED  BY <1>0, <2>1, <2>2, LoopsMove
<1>. QED
  BY <1>1, <1>2, <1>3, <1>4, <1>5, <1>6, <1>7, <1>8, <1>9, <1>10
  DEF Next, ClientStep, LegStep, LoopStep, ShutdownStep, DownEnds, UpEnds, UpWriteFails,
      PlayerLeaves, DialBack, Match, NoMatch, deliver, DeliverLoses, AgentCloses, LinkLost,
      sessVars, vars

(***************************************************************************)
(* The gate counts exactly the connections being served, whichever way     *)
(* each of them ends, and the actor that has stopped leaves no player's    *)
(* goroutine behind and lets none start. The code: connGate, handleClient, *)
(* the accept loop's clientWG and the actor's shutdown.                    *)
(***************************************************************************)
THEOREM CountsExact == Spec => []CountsAreExact
<1>1. CountInv /\ LoopsInv => CountsAreExact
  BY DEF CountInv, LoopsInv, CountsAreExact
<1>. QED  BY <1>1, CountInit, CountStep, LoopsInit, LoopsStep, PTL DEF Spec

-----------------------------------------------------------------------------
(* The ownership of legs.                                                  *)

\* A player's goroutine before it has asked for a leg, and while it waits for one.
Early == {"idle", "held", "accepted", "gated", "registered"}
Wait == {"waiting", "woken"}

\* The leg a player holds is the one in its slot, so no two players hold one leg.
LEMMA HolderIsTarget ==
  ASSUME TypeOK, LegInv, NEW c \in Clients, NEW l \in Legs, HasLeg(c, l)
  PROVE  handler[l] = "gone" /\ target[l] = c /\ slot[c].conn = l
<1>1. l # None
  BY DataPlaneAssumption
<1>2. slot[c].conn = l
  BY <1>1 DEF HasLeg, LegInv, WaiterOf
<1>. QED  BY <1>1, <1>2 DEF LegInv, WaiterOf

LEMMA LegInit == Init => LegInv
<1> SUFFICES ASSUME Init PROVE LegInv
  OBVIOUS
<1>1. ASSUME NEW c \in Clients PROVE WaiterOf(c)
  BY DEF Init, WaiterOf, EmptySlot
<1>2. ASSUME NEW l \in Legs PROVE AcceptorOf(l)
  BY DEF Init, AcceptorOf
<1>. QED  BY <1>1, <1>2 DEF LegInv

\* A step that only moves the goroutine of one player, not out of its wait.
LEMMA LegMove ==
  ASSUME TypeOK, LegInv, UNCHANGED <<own, leg, slot, sent, handler, target, fd>>,
         NEW c \in Clients, NEW from, NEW to, Step(c, from, to),
         from # "idle", to # "idle", to \in Early => from \in Early,
         from \in Wait <=> to \in Wait, from \in Holding => to \in Holding
  PROVE  LegInv'
<1>1. \A d \in Clients : pc'[d] = IF d = c THEN to ELSE pc[d]
  BY DEF Step, TypeOK
<1>2. pc[c] = from
  BY DEF Step
<1>3. ASSUME NEW d \in Clients PROVE WaiterOf(d)'
  <2>1. WaiterOf(d)
    BY DEF LegInv
  <2>2. CASE d = c
    <3>1. c \in sent => from \notin Early
      BY <1>2, <2>1, <2>2 DEF WaiterOf, Early
    <3>. QED  BY <1>1, <1>2, <2>1, <2>2, <3>1 DEF WaiterOf, Early, Wait
  <2>3. CASE d # c
    BY <1>1, <2>1, <2>3 DEF WaiterOf
  <2>. QED  BY <2>2, <2>3
<1>4. ASSUME NEW l \in Legs PROVE AcceptorOf(l)'
  <2>1. AcceptorOf(l)
    BY DEF LegInv
  <2>2. ASSUME NEW d \in Clients, HasLeg(d, l) PROVE HasLeg(d, l)'
    BY <1>1, <1>2, <2>2 DEF HasLeg, Wait, Holding
  <2>3. ASSUME handler[l] # "unused" PROVE target[l] \in Clients /\ pc'[target[l]] # "idle"
    BY <1>1, <2>1, <2>3 DEF AcceptorOf
  <2>. QED  BY <2>1, <2>2, <2>3 DEF AcceptorOf
<1>. QED  BY <1>3, <1>4 DEF LegInv

\* A step that only closes legs, none that an acceptor has in hand and none that a
\* player keeps.
LEMMA LegClose ==
  ASSUME TypeOK, LegInv, UNCHANGED <<pc, own, leg, slot, sent, handler, target>>,
         fd' \subseteq fd, \A l \in fd \ fd' : handler[l] = "gone"
  PROVE  LegInv'
<1>1. ASSUME NEW l \in Legs PROVE AcceptorOf(l)'
  BY DEF LegInv, AcceptorOf, HasLeg
<1>2. ASSUME NEW d \in Clients PROVE WaiterOf(d)'
  BY DEF LegInv, WaiterOf
<1>. QED  BY <1>1, <1>2 DEF LegInv

\* A leg that a player's goroutine has closed, or a drain closes for it.
LEMMA LegHeld ==
  ASSUME TypeOK, LegInv, NEW c \in Clients, leg[c] # None
  PROVE  leg[c] \in Legs /\ handler[leg[c]] = "gone" /\ target[leg[c]] = c
         /\ LegAgent[leg[c]] = AgentOf[own[c]]
  BY DEF TypeOK, LegInv, WaiterOf

LEMMA LegAccept ==
  ASSUME TypeOK, LegInv, NEW c \in Clients, NEW s \in Sessions, Accept(s, c)
  PROVE  LegInv'
<1>1. /\ pc[c] = "idle" /\ s # None
      /\ \A d \in Clients : pc'[d] = IF d = c THEN "held" ELSE pc[d]
      /\ \A d \in Clients : own'[d] = IF d = c THEN s ELSE own[d]
      /\ UNCHANGED <<leg, slot, sent, handler, target, fd>>
  BY DataPlaneAssumption DEF Accept, Step, TypeOK, connVars, legVars
<1>2. ASSUME NEW d \in Clients PROVE WaiterOf(d)'
  BY <1>1 DEF LegInv, WaiterOf
<1>3. ASSUME NEW l \in Legs PROVE AcceptorOf(l)'
  <2>1. AcceptorOf(l)
    BY DEF LegInv
  <2>2. ASSUME handler[l] # "unused" PROVE target[l] \in Clients /\ target[l] # c
    BY <1>1, <2>1, <2>2 DEF AcceptorOf
  <2>. QED  BY <1>1, <2>1, <2>2 DEF AcceptorOf, HasLeg
<1>. QED  BY <1>2, <1>3 DEF LegInv

LEMMA LegSent ==
  ASSUME TypeOK, LegInv, NEW c \in Clients, OpenDataSent(c)
  PROVE  LegInv'
<1>1. /\ pc[c] = "registered" /\ sent' = sent \cup {c}
      /\ \A d \in Clients : pc'[d] = IF d = c THEN "waiting" ELSE pc[d]
      /\ UNCHANGED <<own, leg, slot, handler, target, fd>>
  BY DEF OpenDataSent, Step, TypeOK, legVars
<1>2. c \notin sent /\ ~slot[c].done /\ slot[c].conn = None /\ leg[c] = None
  BY <1>1 DEF LegInv, WaiterOf
<1>3. ASSUME NEW d \in Clients PROVE WaiterOf(d)'
  <2>1. WaiterOf(d)
    BY DEF LegInv
  <2>2. CASE d = c
    BY <1>1, <1>2, <2>1, <2>2 DEF WaiterOf
  <2>3. CASE d # c
    BY <1>1, <2>1, <2>3 DEF WaiterOf
  <2>. QED  BY <2>2, <2>3
<1>4. ASSUME NEW l \in Legs PROVE AcceptorOf(l)'
  <2>1. AcceptorOf(l) /\ l # None
    BY DataPlaneAssumption DEF LegInv
  <2>2. ASSUME NEW d \in Clients, HasLeg(d, l) PROVE HasLeg(d, l)'
    BY <1>1, <1>2, <2>1, <2>2 DEF HasLeg, Holding
  <2>3. ASSUME handler[l] # "unused" PROVE target[l] \in Clients /\ pc'[target[l]] # "idle"
    BY <1>1, <2>1, <2>3 DEF AcceptorOf
  <2>. QED  BY <1>1, <2>1, <2>2, <2>3 DEF AcceptorOf
<1>. QED  BY <1>3, <1>4 DEF LegInv

\* The waiter takes its leg out of the slot.
LEMMA LegTake ==
  ASSUME TypeOK, LegInv, NEW c \in Clients, TakeReady(c) \/ TakeLate(c)
  PROVE  LegInv'
<1>1. /\ pc[c] \in Wait
      /\ \A d \in Clients : pc'[d] = IF d = c THEN "storing" ELSE pc[d]
      /\ \A d \in Clients : leg'[d] = IF d = c THEN slot[c].conn ELSE leg[d]
      /\ UNCHANGED <<own, slot, sent, handler, target, fd>>
  BY DEF TakeReady, TakeLate, Step, TypeOK, legVars, Wait
<1>2. slot[c].done
  BY DEF TakeReady, TakeLate, LegInv, WaiterOf
<1>3. ASSUME NEW d \in Clients PROVE WaiterOf(d)'
  <2>1. WaiterOf(d)
    BY DEF LegInv
  <2>2. CASE d = c
    BY <1>1, <1>2, <2>1, <2>2 DEF WaiterOf, Wait
  <2>3. CASE d # c
    BY <1>1, <2>1, <2>3 DEF WaiterOf
  <2>. QED  BY <2>2, <2>3
<1>4. ASSUME NEW l \in Legs PROVE AcceptorOf(l)'
  <2>1. AcceptorOf(l)
    BY DEF LegInv
  <2>2. ASSUME NEW d \in Clients, HasLeg(d, l) PROVE HasLeg(d, l)'
    BY <1>1, <2>2 DEF HasLeg, Holding, Wait
  <2>3. ASSUME handler[l] # "unused" PROVE target[l] \in Clients /\ pc'[target[l]] # "idle"
    BY <1>1, <2>1, <2>3 DEF AcceptorOf
  <2>. QED  BY <1>1, <2>1, <2>2, <2>3 DEF AcceptorOf
<1>. QED  BY <1>3, <1>4 DEF LegInv

LEMMA LegGiveUp ==
  ASSUME TypeOK, LegInv, NEW c \in Clients, GiveUp(c)
  PROVE  LegInv'
<1>1. /\ pc[c] = "woken" /\ ~slot[c].done
      /\ \A d \in Clients : pc'[d] = IF d = c THEN "ending" ELSE pc[d]
      /\ UNCHANGED <<own, leg, sent, handler, target, fd>>
  BY DEF GiveUp, Step, TypeOK, legVars
<1>2. slot'[c].done /\ slot'[c].conn = slot[c].conn /\ \A d \in Clients \ {c} : slot'[d] = slot[d]
  <2>1. slot[c] \in [done : BOOLEAN, conn : Legs \cup {None}]
    BY DEF TypeOK
  <2>. QED  BY <2>1 DEF GiveUp, TypeOK
<1>3. slot[c].conn = None /\ leg[c] = None
  BY <1>1 DEF LegInv, WaiterOf
<1>4. ASSUME NEW d \in Clients PROVE WaiterOf(d)'
  <2>1. WaiterOf(d)
    BY DEF LegInv
  <2>2. CASE d = c
    BY <1>1, <1>2, <1>3, <2>1, <2>2 DEF WaiterOf
  <2>3. CASE d # c
    BY <1>1, <1>2, <2>1, <2>3 DEF WaiterOf
  <2>. QED  BY <2>2, <2>3
<1>5. ASSUME NEW l \in Legs PROVE AcceptorOf(l)'
  <2>1. AcceptorOf(l) /\ l # None
    BY DataPlaneAssumption DEF LegInv
  <2>2. ASSUME NEW d \in Clients, HasLeg(d, l) PROVE HasLeg(d, l)'
    BY <1>1, <1>2, <1>3, <2>1, <2>2 DEF HasLeg
  <2>3. ASSUME handler[l] # "unused" PROVE target[l] \in Clients /\ pc'[target[l]] # "idle"
    BY <1>1, <2>1, <2>3 DEF AcceptorOf
  <2>. QED  BY <1>1, <2>1, <2>2, <2>3 DEF AcceptorOf
<1>. QED  BY <1>4, <1>5 DEF LegInv

LEMMA LegDialBack ==
  ASSUME TypeOK, LegInv, NEW l \in Legs, NEW c \in Clients, DialBack(l, c)
  PROVE  LegInv'
<1>1. /\ handler[l] = "unused" /\ own[c] # None
      /\ c \in sent \/ LegAgent[l] # AgentOf[own[c]]
      /\ \A k \in Legs : handler'[k] = IF k = l THEN "new" ELSE handler[k]
      /\ \A k \in Legs : target'[k] = IF k = l THEN c ELSE target[k]
      /\ fd' = fd \cup {l}
      /\ UNCHANGED <<pc, own, leg, slot, sent>>
  BY DEF DialBack, TypeOK, connVars
<1>2. ASSUME NEW d \in Clients PROVE WaiterOf(d)'
  <2>1. slot[d].conn \in Legs \cup {None}
    BY DEF TypeOK
  <2>. QED  BY <1>1, <2>1 DEF LegInv, WaiterOf
<1>3. ASSUME NEW k \in Legs PROVE AcceptorOf(k)'
  <2>1. AcceptorOf(k) /\ pc[c] # "idle"
    BY <1>1 DEF LegInv, WaiterOf
  <2>. QED  BY <1>1, <2>1 DEF AcceptorOf, HasLeg
<1>. QED  BY <1>2, <1>3 DEF LegInv

\* The acceptor finds its player, or closes the leg, or comes too late with it.
LEMMA LegAnswer ==
  ASSUME TypeOK, LegInv, NEW l \in Legs, Match(l) \/ NoMatch(l) \/ DeliverLoses(l)
  PROVE  LegInv'
<1>1. /\ handler[l] \in {"new", "matched"}
      /\ \A k \in Legs : k # l => handler'[k] = handler[k] /\ (k \in fd' <=> k \in fd)
      /\ UNCHANGED <<pc, own, leg, slot, sent, target>>
      /\ \/ handler'[l] = "matched" /\ Matches(l) /\ fd' = fd
         \/ handler'[l] = "gone" /\ l \notin fd'
  BY DEF Match, NoMatch, DeliverLoses, TypeOK, connVars
<1>2. ASSUME NEW d \in Clients PROVE WaiterOf(d)'
  <2>1. slot[d].conn \in Legs \cup {None}
    BY DEF TypeOK
  <2>2. WaiterOf(d)
    BY DEF LegInv
  <2>3. slot[d].conn # None => slot[d].conn \in Legs \ {l}
    BY <1>1, <2>1, <2>2 DEF WaiterOf
  <2>. QED  BY <1>1, <2>2, <2>3 DEF WaiterOf
<1>3. ASSUME NEW k \in Legs PROVE AcceptorOf(k)'
  <2>1. AcceptorOf(k) /\ AcceptorOf(l)
    BY DEF LegInv
  <2>2. CASE k = l
    BY <1>1, <2>1, <2>2 DEF AcceptorOf, Matches
  <2>3. CASE k # l
    BY <1>1, <2>1, <2>3 DEF AcceptorOf, HasLeg
  <2>. QED  BY <2>2, <2>3
<1>. QED  BY <1>2, <1>3 DEF LegInv

\* A leg that is handed over goes to a player who still waits for one.
LEMMA Waiting ==
  ASSUME TypeOK, LegInv, NEW l \in Legs, handler[l] = "matched", ~slot[target[l]].done
  PROVE  /\ l \in fd /\ target[l] \in Clients /\ pc[target[l]] \in Wait
         /\ slot[target[l]].conn = None /\ leg[target[l]] = None
         /\ LegAgent[l] = AgentOf[own[target[l]]] /\ target[l] \in sent
<1>1. /\ l \in fd /\ target[l] \in Clients
      /\ LegAgent[l] = AgentOf[own[target[l]]] /\ target[l] \in sent
  BY DEF LegInv, AcceptorOf
<1>. QED  BY <1>1 DEF LegInv, WaiterOf, Wait

LEMMA LegDeliver ==
  ASSUME TypeOK, LegInv, NEW l \in Legs, deliver(l)
  PROVE  LegInv'
<1> DEFINE c == target[l]
<1>1. /\ handler[l] = "matched" /\ ~slot[c].done
      /\ UNCHANGED <<pc, own, leg, sent, target, fd>>
      /\ \A k \in Legs : handler'[k] = IF k = l THEN "gone" ELSE handler[k]
  BY DEF deliver, TypeOK
<1>2. /\ l \in fd /\ c \in Clients /\ pc[c] \in Wait /\ slot[c].conn = None /\ leg[c] = None
      /\ LegAgent[l] = AgentOf[own[c]] /\ c \in sent
  BY <1>1, Waiting
<1>3. \A d \in Clients : slot'[d] = IF d = c THEN [done |-> TRUE, conn |-> l] ELSE slot[d]
  BY <1>2 DEF deliver, TypeOK
<1>4. ASSUME NEW d \in Clients PROVE WaiterOf(d)'
  <2>1. WaiterOf(d) /\ slot[d].conn \in Legs \cup {None} /\ l # None
    BY DataPlaneAssumption DEF LegInv, TypeOK
  <2>2. CASE d = c
    <3>1. slot'[d].done /\ slot'[d].conn = l
      BY <1>3, <2>2
    <3>. QED  BY <1>1, <1>2, <2>1, <2>2, <3>1 DEF WaiterOf, Wait
  <2>3. CASE d # c
    BY <1>1, <1>3, <2>1, <2>3 DEF WaiterOf
  <2>. QED  BY <2>2, <2>3
<1>5. ASSUME NEW k \in Legs PROVE AcceptorOf(k)'
  <2>1. AcceptorOf(k) /\ k # None
    BY DataPlaneAssumption DEF LegInv
  <2>2. CASE k = l
    <3>1. HasLeg(c, l)'
      BY <1>1, <1>2, <1>3 DEF HasLeg, Wait
    <3>. QED  BY <1>1, <2>1, <2>2, <3>1 DEF AcceptorOf
  <2>3. CASE k # l
    <3>1. ASSUME NEW d \in Clients, HasLeg(d, k) PROVE HasLeg(d, k)'
      BY <1>1, <1>2, <1>3, <2>1, <3>1 DEF HasLeg
    <3>. QED  BY <1>1, <2>1, <2>3, <3>1 DEF AcceptorOf
  <2>. QED  BY <2>2, <2>3
<1>. QED  BY <1>4, <1>5 DEF LegInv

\* A goroutine that ends has closed the leg it held, and no other player's.
LEMMA LegFinish ==
  ASSUME TypeOK, LegInv, NEW c \in Clients, Finish(c)
  PROVE  LegInv'
<1>1. /\ pc[c] = "ending" /\ fd' = fd \ {leg[c]}
      /\ \A d \in Clients : pc'[d] = IF d = c THEN "done" ELSE pc[d]
      /\ UNCHANGED <<own, leg, slot, sent, handler, target>>
  BY DEF Finish, CloseLeg, Step, TypeOK, connVars, legVars
<1>2. ASSUME NEW d \in Clients PROVE WaiterOf(d)'
  BY <1>1 DEF LegInv, WaiterOf
<1>3. ASSUME NEW l \in Legs PROVE AcceptorOf(l)'
  <2>1. AcceptorOf(l) /\ l # None
    BY DataPlaneAssumption DEF LegInv
  <2>2. l = leg[c] => handler[l] = "gone"
    BY <2>1, LegHeld
  <2>3. ASSUME NEW d \in Clients, HasLeg(d, l), l # leg[c] PROVE HasLeg(d, l)'
    BY <1>1, <2>3 DEF HasLeg
  <2>4. ASSUME handler[l] # "unused" PROVE target[l] \in Clients /\ pc'[target[l]] # "idle"
    BY <1>1, <2>1, <2>4 DEF AcceptorOf
  <2>. QED  BY <1>1, <2>1, <2>2, <2>3, <2>4 DEF AcceptorOf
<1>. QED  BY <1>2, <1>3 DEF LegInv

\* The legs a drain closes are in the hands of players.
LEMMA DrainedLegs ==
  ASSUME TypeOK, LegInv, NEW s \in Sessions, EvictEnds(s)
  PROVE  /\ fd' = fd \ {leg[c] : c \in DrainSet(s)} /\ DrainSet(s) \subseteq Clients
         /\ \A l \in fd \ fd' :
               handler[l] = "gone" /\ target[l] \in DrainSet(s) /\ leg[target[l]] = l
<1>1. fd' = fd \ {leg[c] : c \in DrainSet(s)} /\ DrainSet(s) \subseteq Clients
  BY DEF EvictEnds, closeAll, DrainSet, TypeOK
<1>2. ASSUME NEW l \in fd \ fd'
      PROVE  handler[l] = "gone" /\ target[l] \in DrainSet(s) /\ leg[target[l]] = l
  <2>1. PICK c \in DrainSet(s) : l = leg[c]
    BY <1>1
  <2>2. c \in Clients /\ l # None
    BY <1>1, DataPlaneAssumption DEF TypeOK
  <2>. QED  BY <2>1, <2>2, LegHeld
<1>. QED  BY <1>1, <1>2

LEMMA LegEvict ==
  ASSUME TypeOK, LegInv, NEW s \in Sessions, EvictEnds(s)
  PROVE  LegInv'
<1>1. UNCHANGED <<pc, own, leg, slot, sent, handler, target>>
  BY DEF EvictEnds, connVars, legVars
<1>2. fd' \subseteq fd /\ \A l \in fd \ fd' : handler[l] = "gone"
  BY DrainedLegs
<1>. QED  BY <1>1, <1>2, LegClose

LEMMA LegStepInv == TypeOK /\ LegInv /\ [Next]_vars => LegInv'
<1> SUFFICES ASSUME TypeOK, LegInv, [Next]_vars PROVE LegInv'
  OBVIOUS
<1>1. ASSUME NEW c \in Clients,
             \/ Admitted(c) \/ Rejected(c) \/ BackendDown(c) \/ OpenStream(c) \/ Register(c)
             \/ OpenDataFails(c) \/ TakeWakes(c) \/ StoreLeg(c) \/ OpenConn(c)
             \/ OpenConnFails(c) \/ SpliceEnds(c)
      PROVE  LegInv'
  <2>1. PICK from, to : /\ Step(c, from, to)
                        /\ from # "idle" /\ to # "idle" /\ (to \in Early => from \in Early)
                        /\ (from \in Wait <=> to \in Wait) /\ (from \in Holding => to \in Holding)
    BY <1>1
    DEF Admitted, Rejected, BackendDown, OpenStream, Register, OpenDataFails, TakeWakes, StoreLeg,
        OpenConn, OpenConnFails, SpliceEnds, Early, Wait, Holding
  <2>2. UNCHANGED <<own, leg, slot, sent, handler, target, fd>>
    BY <1>1
    DEF Admitted, Rejected, BackendDown, OpenStream, Register, OpenDataFails, TakeWakes, StoreLeg,
        OpenConn, OpenConnFails, SpliceEnds, connVars, legVars
  <2>. QED  BY <2>1, <2>2, LegMove
<1>2. ASSUME NEW s \in Sessions, Spawn(s) PROVE LegInv'
  <2>1. PICK c \in Clients : /\ Step(c, "held", "accepted")
                             /\ UNCHANGED <<own, leg, slot, sent, handler, target, fd>>
    BY <1>2 DEF Spawn, connVars, legVars
  <2>. QED  BY <2>1, LegMove DEF Early, Wait, Holding
<1>3. ASSUME UNCHANGED <<pc, own, leg, slot, sent, handler, target, fd>> PROVE LegInv'
  BY <1>3 DEF LegInv, AcceptorOf, WaiterOf, HasLeg
<1>. QED
  BY <1>1, <1>2, <1>3, LegAccept, LegSent, LegTake, LegGiveUp, LegDialBack, LegAnswer, LegDeliver,
     LegFinish, LegEvict
  DEF Next, ClientStep, LegStep, LoopStep, ShutdownStep, DownEnds, UpEnds, UpWriteFails,
      PlayerLeaves, AgentCloses, Bind, LoopExit, LinkLost, EvictBegins, Cancel, ShutdownBegins,
      Stop, connVars, legVars, vars

LEMMA LegsInvariant == Spec => [](TypeOK /\ LegInv)
<1>1. CountInv => TypeOK
  BY DEF CountInv
<1>. QED  BY <1>1, CountInit, CountStep, LegInit, LegStepInv, PTL DEF Spec

(***************************************************************************)
(* A leg the gateway has open is in the hands of exactly one goroutine,    *)
(* its acceptor's or one player's, and that player's own agent dialed it   *)
(* for that player, however the dial-back, the timeout of the wait and the *)
(* eviction race. The code: pendingConn.take and deliver, handleDataConn   *)
(* and the deferred closes of handleClient.                                *)
(***************************************************************************)
THEOREM LegsStaySafe == Spec => []LegsSafe
<1>1. TypeOK /\ LegInv => LegsSafe
  <2> SUFFICES ASSUME TypeOK, LegInv PROVE LegsSafe
    OBVIOUS
  <2>1. ASSUME NEW l \in fd
        PROVE  IF handler[l] # "gone" THEN \A c \in Clients : ~HasLeg(c, l)
               ELSE \E c \in Clients : HasLeg(c, l) /\ \A d \in Clients \ {c} : ~HasLeg(d, l)
    <3>1. l \in Legs
      BY DEF TypeOK
    <3>2. \A c \in Clients : HasLeg(c, l) => handler[l] = "gone" /\ target[l] = c
      BY <3>1, HolderIsTarget
    <3>3. handler[l] = "gone" => target[l] \in Clients /\ HasLeg(target[l], l)
      BY <3>1 DEF LegInv, AcceptorOf
    <3>. QED  BY <3>2, <3>3
  <2>2. LegOfOwnAgent
    BY LegHeld DEF LegOfOwnAgent
  <2>. QED  BY <2>1, <2>2 DEF LegsSafe, NoLeakedLeg
<1>. QED  BY <1>1, LegsInvariant, PTL

\* No step takes the leg away from a player that another, live session serves.
KeepsLegs ==
  \A c \in Clients :
    pc[c] = "splicing" /\ pc'[c] = "splicing" /\ leg[c] \in fd /\ own[c] \notin evicted
    => leg[c] \in fd'

LEMMA LegsKept == TypeOK /\ LegInv /\ [Next]_vars => [KeepsLegs]_vars
<1> SUFFICES ASSUME TypeOK, LegInv, Next, NEW c \in Clients,
                    pc[c] = "splicing", pc'[c] = "splicing", leg[c] \in fd, own[c] \notin evicted,
                    leg[c] \notin fd'
             PROVE  FALSE
  BY DEF KeepsLegs
<1>1. leg[c] \in Legs /\ handler[leg[c]] = "gone" /\ target[leg[c]] = c /\ leg[c] # None
  BY LegHeld, DataPlaneAssumption DEF TypeOK
<1>2. ASSUME NEW s \in Sessions, EvictEnds(s) PROVE FALSE
  BY <1>1, <1>2, DrainedLegs DEF DrainSet, EvictEnds
<1>3. ASSUME NEW d \in Clients, Finish(d) PROVE FALSE
  <2>1. leg[c] = leg[d] /\ pc[d] = "ending"
    BY <1>3 DEF Finish, CloseLeg, Step
  <2>. QED  BY <1>1, <2>1, LegHeld
<1>4. ASSUME NEW l \in Legs, NoMatch(l) \/ DeliverLoses(l) PROVE FALSE
  BY <1>1, <1>4 DEF NoMatch, DeliverLoses
<1>5. fd \subseteq fd' => FALSE
  OBVIOUS
<1>. QED
  BY <1>2, <1>3, <1>4, <1>5
  DEF Next, ClientStep, LegStep, LoopStep, ShutdownStep, Admitted, Rejected, BackendDown,
      OpenStream, Register, OpenDataSent, OpenDataFails, TakeReady, TakeWakes, TakeLate, GiveUp,
      StoreLeg, OpenConn, OpenConnFails, SpliceEnds, DownEnds, UpEnds, UpWriteFails, PlayerLeaves,
      Accept, Spawn, DialBack, Match, deliver, AgentCloses, Bind, LoopExit, LinkLost, EvictBegins,
      Cancel, ShutdownBegins, Stop

(***************************************************************************)
(* An eviction takes the legs of its own session only: a player that a     *)
(* live session serves keeps its leg, through the drain of any other       *)
(* session and the end of any other player. The code: serverSession's      *)
(* closeAll over dataConns, and the deferred close of handleClient.        *)
(***************************************************************************)
THEOREM EvictionsAreIsolated == Spec => EvictionIsolated
<1>1. CountInv => TypeOK
  BY DEF CountInv
<1>. QED
  BY <1>1, CountInit, CountStep, LegInit, LegStepInv, LegsKept, PTL
  DEF Spec, EvictionIsolated, KeepsLegs

-----------------------------------------------------------------------------
(* The refinement of LegHandoff.                                           *)

\* The owner of a leg, said without the players' goroutines.
Owns(l) ==
  IF handler[l] = "unused" THEN "unused"
  ELSE IF l \notin fd THEN "closed"
  ELSE IF handler[l] # "gone" THEN "offered"
  ELSE target[l]
Owners == [l \in Legs |-> Owns(l)]

LEMMA OwnersAre == TypeOK /\ LegInv => [l \in Legs |-> OwnerOf(l)] = Owners
<1> SUFFICES ASSUME TypeOK, LegInv, NEW l \in Legs PROVE OwnerOf(l) = Owns(l)
  BY DEF Owners
<1>1. CASE handler[l] # "gone" \/ l \notin fd
  BY <1>1 DEF OwnerOf, Owns, LegInv, AcceptorOf
<1>2. CASE handler[l] = "gone" /\ l \in fd
  <2>1. target[l] \in Clients /\ HasLeg(target[l], l)
    BY <1>2 DEF LegInv, AcceptorOf
  <2>2. \A c \in Clients : HasLeg(c, l) => c = target[l]
    BY HolderIsTarget
  <2>3. (CHOOSE c \in Clients : HasLeg(c, l)) = target[l]
    BY <2>1, <2>2
  <2>. QED  BY <1>2, <2>1, <2>3 DEF OwnerOf, Owns
<1>. QED  BY <1>1, <1>2

\* A step that leaves the acceptors and the slots alone.
LEMMA HandoffStutters ==
  ASSUME UNCHANGED <<handler, target, slot, fd>>
  PROVE  UNCHANGED <<Owners, Settled>>
  BY DEF Owners, Owns, Settled

\* A step that only closes legs which some goroutine has in hand.
LEMMA HandoffCloses ==
  ASSUME TypeOK, LegInv, UNCHANGED <<target, slot>>, fd' \subseteq fd,
         \A l \in Legs : handler'[l] # handler[l] =>
           l \notin fd' /\ handler[l] # "unused" /\ handler'[l] # "unused"
  PROVE  \E L \in SUBSET Legs :
           /\ \A l \in L : Owners[l] \in {"offered"} \cup Clients
           /\ Owners' = [l \in Legs |-> IF l \in L THEN "closed" ELSE Owners[l]]
           /\ UNCHANGED Settled
<1>1. fd \ fd' \in SUBSET Legs
  BY DEF TypeOK
<1>2. ASSUME NEW l \in fd \ fd' PROVE Owners[l] \in {"offered"} \cup Clients
  BY <1>1 DEF Owners, Owns, LegInv, AcceptorOf
<1>3. ASSUME NEW l \in Legs PROVE Owns(l)' = IF l \in fd \ fd' THEN "closed" ELSE Owns(l)
  BY DEF Owns, LegInv, AcceptorOf
<1>4. Owners' = [l \in Legs |-> IF l \in fd \ fd' THEN "closed" ELSE Owners[l]]
  BY <1>3 DEF Owners
<1>5. UNCHANGED Settled
  BY DEF Settled
<1>. QED  BY <1>1, <1>2, <1>4, <1>5

LEMMA HandoffStep ==
  ASSUME TypeOK, LegInv, TypeOK', LegInv', [Next]_vars,
         [l \in Legs |-> OwnerOf(l)] = Owners, [l \in Legs |-> OwnerOf(l)]' = Owners'
  PROVE  [LH!Next]_<<[l \in Legs |-> OwnerOf(l)], Settled>>
<1> DEFINE Goal == [LH!Next]_<<[l \in Legs |-> OwnerOf(l)], Settled>>
<1>0. ASSUME UNCHANGED <<Owners, Settled>> PROVE Goal
  BY <1>0
<1>1. ASSUME UNCHANGED <<target, slot>>, fd' \subseteq fd,
             \A l \in Legs : handler'[l] # handler[l] =>
               l \notin fd' /\ handler[l] # "unused" /\ handler'[l] # "unused"
      PROVE  Goal
  <2>1. PICK L \in SUBSET Legs :
           /\ \A l \in L : Owners[l] \in {"offered"} \cup Clients
           /\ Owners' = [l \in Legs |-> IF l \in L THEN "closed" ELSE Owners[l]]
           /\ UNCHANGED Settled
    BY <1>1, HandoffCloses DEF TypeOK
  <2>2. LH!Close(L)
    BY <2>1 DEF LH!Close
  <2>. QED  BY <2>2 DEF LH!Next
<1>2. ASSUME NEW l \in Legs, NEW c \in Clients, DialBack(l, c) PROVE Goal
  <2>1. /\ handler[l] = "unused"
        /\ \A k \in Legs : handler'[k] = IF k = l THEN "new" ELSE handler[k]
        /\ \A k \in Legs : target'[k] = IF k = l THEN c ELSE target[k]
        /\ fd' = fd \cup {l} /\ slot' = slot
    BY <1>2 DEF DialBack, TypeOK, connVars
  <2>2. \A k \in Legs : Owns(k)' = IF k = l THEN "offered" ELSE Owns(k)
    BY <2>1 DEF Owns
  <2>3. Owners[l] = "unused" /\ Owners' = [Owners EXCEPT ![l] = "offered"] /\ UNCHANGED Settled
    BY <2>1, <2>2 DEF Owners, Owns, Settled
  <2>4. LH!Offer(l)
    BY <2>3 DEF LH!Offer
  <2>. QED  BY <2>4 DEF LH!Next
<1>3. ASSUME NEW l \in Legs, Match(l) PROVE Goal
  <2>1. /\ handler[l] = "new" /\ UNCHANGED <<slot, target, fd>>
        /\ \A k \in Legs : handler'[k] = IF k = l THEN "matched" ELSE handler[k]
    BY <1>3 DEF Match, TypeOK, connVars
  <2>2. UNCHANGED <<Owners, Settled>>
    BY <2>1 DEF Owners, Owns, Settled
  <2>. QED  BY <1>0, <2>2
<1>4. ASSUME NEW l \in Legs, deliver(l) PROVE Goal
  <2> DEFINE c == target[l]
  <2>1. /\ handler[l] = "matched" /\ ~slot[c].done /\ UNCHANGED <<target, fd>>
        /\ \A k \in Legs : handler'[k] = IF k = l THEN "gone" ELSE handler[k]
    BY <1>4 DEF deliver, TypeOK
  <2>2. l \in fd /\ c \in Clients
    BY <2>1, Waiting
  <2>3. /\ slot'[c].done /\ c \notin Settled
        /\ \A d \in Clients \ {c} : slot'[d] = slot[d]
    BY <1>4, <2>1, <2>2 DEF deliver, TypeOK, Settled
  <2>4. Settled' = Settled \cup {c}
    BY <2>2, <2>3 DEF Settled
  <2>5. \A k \in Legs : Owns(k)' = IF k = l THEN c ELSE Owns(k)
    BY <2>1, <2>2 DEF Owns
  <2>6. Owners[l] = "offered" /\ Owners' = [Owners EXCEPT ![l] = c]
    BY <2>1, <2>2, <2>5 DEF Owners, Owns
  <2>7. LH!Take(l, c)
    BY <2>3, <2>4, <2>6 DEF LH!Take
  <2>. QED  BY <2>2, <2>7 DEF LH!Next
<1>5. ASSUME NEW c \in Clients, GiveUp(c) PROVE Goal
  <2>1. ~slot[c].done /\ UNCHANGED <<handler, target, fd>>
    BY <1>5 DEF GiveUp, legVars
  <2>2. slot'[c].done /\ \A d \in Clients \ {c} : slot'[d] = slot[d]
    <3>1. slot[c] \in [done : BOOLEAN, conn : Legs \cup {None}]
      BY DEF TypeOK
    <3>. QED  BY <1>5, <3>1 DEF GiveUp, TypeOK
  <2>3. c \notin Settled /\ Settled' = Settled \cup {c}
    BY <2>1, <2>2 DEF Settled
  <2>4. UNCHANGED Owners
    BY <2>1 DEF Owners, Owns
  <2>5. LH!GiveUp(c)
    BY <2>3, <2>4 DEF LH!GiveUp
  <2>. QED  BY <2>5 DEF LH!Next
<1>6. ASSUME NEW l \in Legs, NoMatch(l) \/ DeliverLoses(l) PROVE Goal
  BY <1>1, <1>6 DEF NoMatch, DeliverLoses, TypeOK, connVars
<1>7. ASSUME NEW c \in Clients, Finish(c) PROVE Goal
  BY <1>1, <1>7 DEF Finish, CloseLeg, connVars, legVars
<1>8. ASSUME NEW s \in Sessions, EvictEnds(s) PROVE Goal
  BY <1>1, <1>8 DEF EvictEnds, closeAll, connVars, legVars
<1>9. ASSUME UNCHANGED <<handler, target, slot, fd>> PROVE Goal
  BY <1>0, <1>9, HandoffStutters
<1>. QED
  BY <1>2, <1>3, <1>4, <1>5, <1>6, <1>7, <1>8, <1>9
  DEF Next, ClientStep, LegStep, LoopStep, ShutdownStep, Admitted, Rejected, BackendDown,
      OpenStream, Register, OpenDataSent, OpenDataFails, TakeReady, TakeWakes, TakeLate,
      StoreLeg, OpenConn, OpenConnFails, SpliceEnds, DownEnds, UpEnds, UpWriteFails, PlayerLeaves,
      Accept, Spawn, AgentCloses, Bind, LoopExit, LinkLost, EvictBegins, Cancel, ShutdownBegins,
      Stop, connVars, legVars, vars

(***************************************************************************)
(* The handoff of legs implements the exactly-once handoff of LegHandoff:  *)
(* each leg is offered once and taken at most once, each wait is settled   *)
(* once, and what is not handed on is closed. The code: perconn.go's       *)
(* pendingConn, handleDataConn, and who closes what in handleClient and    *)
(* closeAll.                                                               *)
(***************************************************************************)
THEOREM HandoffRefines == Spec => HandoffSpec
<1>1. Init => LH!Init
  BY DEF Init, LH!Init, OwnerOf, Settled, EmptySlot
<1>2. CountInv => TypeOK
  BY DEF CountInv
<1>3. TypeOK /\ LegInv /\ (TypeOK /\ LegInv)' /\ [Next]_vars
        => [LH!Next]_<<[l \in Legs |-> OwnerOf(l)], Settled>>
  <2>1. (TypeOK /\ LegInv => [l \in Legs |-> OwnerOf(l)] = Owners)'
    BY OwnersAre, PTL
  <2>. QED  BY <2>1, OwnersAre, HandoffStep
<1>. QED
  BY <1>1, <1>2, <1>3, CountInit, CountStep, LegInit, LegStepInv, PTL DEF Spec, HandoffSpec, LH!Spec

=============================================================================
