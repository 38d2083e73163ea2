---------------------------- MODULE ConfigProofs ----------------------------
(***************************************************************************)
(* Machine-checked proofs about the configuration. The gateway and the     *)
(* agent of ConfigSync agree once nothing is under way between them, for   *)
(* any tunnels, scopes and any number of sessions and events; the desktop  *)
(* window and the process behind it keep together (ConsoleSafe of          *)
(* Console), for any pairing codes, backups and numbers of links.          *)
(*                                                                         *)
(* The order, of ConfigSync: types, what one message more or less means,   *)
(* the order of sessions and pushes (OrderInv), what the session that is   *)
(* up keeps (SessionInv), and the theorem; of Console: what a render       *)
(* leaves behind, what a bound call leaves of the engine, the kinds of     *)
(* steps, the steps, and the theorem.                                      *)
(***************************************************************************)
EXTENDS ConfigSync, Console, TLAPS

-----------------------------------------------------------------------------
(* The inductive invariants.                                               *)

\* A handler before it reads its first message, and one whose session the actor has.
Early == {"hello", "admitted", "connecting", "reconciling"}
Admitted == {"admitted", "connecting", "reconciling", "loop", "storing"}

\* Sessions follow one another, each with its handler.
Sequenced ==
  \A s \in Sessions :
    /\ ap[s] = "none" <=> hp[s] = "new"
    /\ ap[s] # "none" => \A r \in Sessions : r < s => ap[r] = "over"
    /\ ap[s] = "over" => s \in down
    /\ ap[s] \in {"established", "serving"} <=> cur = s
    /\ hp[s] \in {"hello", "admitted"} => ap[s] \in {"dialing", "over"}

\* The session that the actor has is the one that was admitted and is not down.
LiveIsAdmitted ==
  \A s \in Sessions :
    /\ live = s => hp[s] \in Admitted
    /\ s \notin down => hp[s] # "done" /\ (hp[s] \in Admitted => live = s)

\* Nothing is pushed or asked for before its time, and a push has a generation.
HasAck(q) == \E i \in DOMAIN q : q[i].type = "ack"
NothingEarlyOf(s) ==
  /\ hp[s] \in Early \cup {"new"} =>
       toAgent[s] = <<>> /\ reader[s] = NoPush /\ ~HasAck(toGateway[s])
  /\ hp[s] \in {"new", "hello", "admitted"} => s \notin seed
  /\ hp[s] = "reconciling" => job[s].gen # 0
  /\ \A i \in DOMAIN toAgent[s] : toAgent[s][i].gen # 0
NothingEarly == \A s \in Sessions : NothingEarlyOf(s)

\* Before the first generation there is nothing to push.
Unseeded ==
  stored.gen = 0 =>
    /\ stored.set = {} /\ configGen = 0
    /\ \A s \in Sessions :
         toAgent[s] = <<>> /\ reader[s] = NoPush /\ reported[s].gen = 0 /\ hp[s] # "reconciling"

OrderInv == SyncTypeOK /\ Sequenced /\ LiveIsAdmitted /\ NothingEarly /\ Unseeded

\* The session that the agent has now, up to the loss of its link.
Up(s) == ap[s] # "none" /\ s \notin down

\* No edit is under way to the gateway.
HasProposal(q) == \E i \in DOMAIN q : q[i].type = "propose"
Quiet(s) == edit.at = "idle" /\ ~offline /\ ~HasProposal(toGateway[s])

\* With the acks of q, the session that is at generation a gets to g.
AcksReach(q, a, g) ==
  /\ ~HasAck(q) => a = g
  /\ \A i \in DOMAIN q :
       q[i].type = "ack" /\ (\A j \in DOMAIN q : i < j => q[j].type # "ack") => q[i].gen = g

IsStored(s, T) == T \in {stored.set, stored.set \cap grant[s]}
Bound(T) == listeners \subseteq T /\ T \ Fragile \subseteq listeners

\* While a session connects, what its agent has reported is what the agent runs.
ConnectingOf(s) ==
  /\ hp[s] \in Early => /\ configGen = reported[s].gen
                        /\ Quiet(s) => enabled = reported[s].set
  /\ hp[s] \in Early \ {"hello"} => agentGen[s] = reported[s].gen /\ listeners = {}
  /\ hp[s] = "connecting" =>
       /\ s \in seed <=> stored.gen = 0
       /\ s \in seed /\ ap[s] = "serving" => HasProposal(toGateway[s])
  /\ hp[s] = "reconciling" =>
       s \notin seed /\ job[s] = [set |-> stored.set \cap grant[s], gen |-> stored.gen]

\* Once it is connected, the last of the pushes under way is of what is stored, the
\* agent and the session get to its generation, and the agent's set to the stored one.
ServingOf(s) ==
  hp[s] \in {"loop", "storing"} =>
    /\ toAgent[s] # <<>> =>
         LET m == toAgent[s][Len(toAgent[s])] IN IsStored(s, m.set) /\ m.gen = stored.gen
    /\ toAgent[s] = <<>> /\ reader[s] # NoPush => reader[s].gen = stored.gen
    /\ toAgent[s] = <<>> /\ reader[s] = NoPush =>
         configGen = stored.gen /\ AcksReach(toGateway[s], agentGen[s], stored.gen)
    /\ toAgent[s] = <<>> /\ hp[s] = "loop" /\ Quiet(s) /\ (s \in seed => ap[s] = "serving")
         => IsStored(s, enabled)
    /\ hp[s] = "loop" => Bound(stored.set \cap grant[s])
    /\ hp[s] = "storing" => Bound(job[s].set) /\ job[s].set \subseteq grant[s]

SessionInv == ~stray => \A s \in Sessions : Up(s) => ConnectingOf(s) /\ ServingOf(s)

-----------------------------------------------------------------------------
(* Type correctness, and what sending and receiving do.                    *)

GatewayMsg == [type : {"propose", "ack"}, set : SUBSET Tunnels, gen : Nat]

\* Sessions are numbers in order, and Nobody is none of them.
LEMMA SessionsAre ==
  /\ \A s \in Sessions : s \in Nat /\ s # Nobody
  /\ \A r, s \in Sessions : r < s \/ s < r \/ r = s
  BY ConfigAssumption DEF Sessions, Nobody

\* A message sent goes to the end of one queue, unless the connection is closed.
LEMMA SendIs ==
  ASSUME NEW M, NEW q \in [Sessions -> Seq(M)], NEW s \in Sessions, NEW m \in M
  PROVE  /\ Send(q, s, m) \in [Sessions -> Seq(M)]
         /\ \A r \in Sessions :
              Send(q, s, m)[r] = IF r = s /\ s \notin down THEN Append(q[s], m) ELSE q[r]
<1>1. Append(q[s], m) \in Seq(M)
  OBVIOUS
<1>. QED  BY <1>1 DEF Send

\* The facts about Append and Tail that the queues need.
LEMMA AppendIs ==
  ASSUME NEW M, NEW q \in Seq(M), NEW m \in M
  PROVE  /\ Append(q, m) \in Seq(M) /\ Append(q, m) # <<>>
         /\ Len(q) \in Nat /\ Len(Append(q, m)) = Len(q) + 1
         /\ DOMAIN q = 1..Len(q) /\ DOMAIN Append(q, m) = 1..Len(q) + 1
         /\ \A i \in 1..Len(q) : Append(q, m)[i] = q[i]
         /\ Append(q, m)[Len(q) + 1] = m
  OBVIOUS

LEMMA TailIs ==
  ASSUME NEW M, NEW q \in Seq(M), q # <<>>
  PROVE  /\ Head(q) \in M /\ Head(q) = q[1] /\ Tail(q) \in Seq(M)
         /\ Len(q) \in Nat \ {0} /\ Len(Tail(q)) = Len(q) - 1
         /\ DOMAIN q = 1..Len(q) /\ DOMAIN Tail(q) = 1..Len(q) - 1
         /\ \A i \in 1..Len(q) - 1 : Tail(q)[i] = q[i + 1]
  OBVIOUS

\* What the gateway receives it takes from the head of one queue.
LEMMA ReceiveIs ==
  ASSUME SyncTypeOK, NEW s \in Sessions, NEW t, Receive(s, t)
  PROVE  /\ Head(toGateway[s]) \in GatewayMsg /\ Head(toGateway[s]).type = t
         /\ toGateway' \in [Sessions -> Seq(GatewayMsg)]
         /\ toGateway[s] # <<>> /\ toGateway'[s] = Tail(toGateway[s])
         /\ \A r \in Sessions \ {s} : toGateway'[r] = toGateway[r]
<1>1. toGateway \in [Sessions -> Seq(GatewayMsg)] /\ toGateway[s] # <<>>
  BY DEF SyncTypeOK, Receive, GatewayMsg
<1>2. Head(toGateway[s]) \in GatewayMsg /\ Tail(toGateway[s]) \in Seq(GatewayMsg)
  BY <1>1, TailIs
<1>. QED  BY <1>1, <1>2 DEF Receive

\* What a push, a proposal and an ack do to the queues.
LEMMA PushIs ==
  ASSUME SyncTypeOK, NEW s \in Sessions, NEW T \in SUBSET Tunnels, NEW g \in Nat, Push(s, T, g)
  PROVE  /\ toAgent' \in [Sessions -> Seq(View)]
         /\ \A r \in Sessions :
              toAgent'[r] = IF r = s /\ s \notin down THEN Append(toAgent[s], [set |-> T, gen |-> g])
                            ELSE toAgent[r]
<1>. DEFINE m == [set |-> T, gen |-> g]
<1>1. m \in View
  BY DEF View
<1>2. toAgent \in [Sessions -> Seq(View)] /\ toAgent' = Send(toAgent, s, m)
  BY DEF SyncTypeOK, Push
<1>. HIDE DEF m
<1>3. /\ toAgent' \in [Sessions -> Seq(View)]
      /\ \A r \in Sessions :
           toAgent'[r] = IF r = s /\ s \notin down THEN Append(toAgent[s], m) ELSE toAgent[r]
  BY <1>1, <1>2, SendIs
<1>. QED  BY <1>3 DEF m

LEMMA ProposeIs ==
  ASSUME SyncTypeOK, NEW s \in Sessions, NEW T \in SUBSET Tunnels, toGateway' = Send(toGateway, s, Propose(T))
  PROVE  /\ toGateway' \in [Sessions -> Seq(GatewayMsg)]
         /\ \A r \in Sessions :
              toGateway'[r] = IF r = s /\ s \notin down THEN Append(toGateway[s], Propose(T))
                              ELSE toGateway[r]
<1>1. Propose(T) \in GatewayMsg
  BY DEF GatewayMsg, Propose
<1>2. toGateway \in [Sessions -> Seq(GatewayMsg)]
  BY DEF SyncTypeOK, GatewayMsg
<1>. QED  BY <1>1, <1>2, SendIs

LEMMA AckIs ==
  ASSUME SyncTypeOK, NEW s \in Sessions, NEW g \in Nat, toGateway' = Send(toGateway, s, Ack(g))
  PROVE  /\ toGateway' \in [Sessions -> Seq(GatewayMsg)]
         /\ \A r \in Sessions :
              toGateway'[r] = IF r = s /\ s \notin down THEN Append(toGateway[s], Ack(g))
                              ELSE toGateway[r]
<1>1. Ack(g) \in GatewayMsg
  BY DEF GatewayMsg, Ack
<1>2. toGateway \in [Sessions -> Seq(GatewayMsg)]
  BY DEF SyncTypeOK, GatewayMsg
<1>. QED  BY <1>1, <1>2, SendIs

\* Only the live session's reconcile binds, and it binds all that nobody else may hold.
LEMMA ReconcileIs ==
  ASSUME SyncTypeOK, NEW s \in Sessions, NEW T \in SUBSET Tunnels, reconcile(s, T)
  PROVE  /\ listeners' \subseteq Tunnels
         /\ live # s => listeners' = listeners
         /\ live = s => listeners' \subseteq T /\ T \ Fragile \subseteq listeners'
  BY DEF SyncTypeOK, reconcile

\* Type correctness.
LEMMA TypeInit == SyncInit => SyncTypeOK
<1> SUFFICES ASSUME SyncInit PROVE SyncTypeOK
  OBVIOUS
<1>1. /\ NoSet \in View /\ NoPush \in [set : SUBSET Tunnels, gen : Nat, gone : SUBSET Tunnels]
      /\ NoEdit \in [at : {"idle", "forgetting", "proposing"}, set : SUBSET Tunnels, gone : SUBSET Tunnels]
  BY DEF NoSet, View, NoPush, NoEdit
<1>2. saved \in SUBSET Tunnels /\ \E sc \in SUBSET Tunnels : stored = [set |-> {}, gen |-> 0, scope |-> sc]
  BY ConfigAssumption DEF SyncInit
<1>3. toGateway \in [Sessions -> Seq(GatewayMsg)] /\ toAgent \in [Sessions -> Seq(View)]
  BY DEF SyncInit
<1>4. job \in [Sessions -> View] /\ reported \in [Sessions -> View]
  BY <1>1 DEF SyncInit
<1>5. reader \in [Sessions -> [set : SUBSET Tunnels, gen : Nat, gone : SUBSET Tunnels]]
  BY <1>1 DEF SyncInit
<1>6. hp \in [Sessions -> {"new", "hello", "admitted", "connecting", "reconciling", "loop", "storing", "done"}]
      /\ ap \in [Sessions -> {"none", "dialing", "established", "serving", "over"}]
      /\ grant \in [Sessions -> SUBSET Tunnels] /\ agentGen \in [Sessions -> Nat]
  BY DEF SyncInit
<1>7. events \in 0..MaxEvents
  BY ConfigAssumption DEF SyncInit
<1>8. stored \in [set : SUBSET Tunnels, gen : Nat, scope : SUBSET Tunnels]
  BY <1>2
<1>9. edit \in [at : {"idle", "forgetting", "proposing"}, set : SUBSET Tunnels, gone : SUBSET Tunnels]
  BY <1>1 DEF SyncInit
<1>10. live \in Sessions \cup {Nobody} /\ cur \in Sessions \cup {Nobody} /\ seed \subseteq Sessions
       /\ down \subseteq Sessions /\ listeners \subseteq Tunnels /\ enabled \subseteq Tunnels
       /\ ports \subseteq Tunnels /\ saved \subseteq Tunnels /\ configGen \in Nat
  BY <1>2 DEF SyncInit
<1>11. stray \in BOOLEAN /\ offline \in BOOLEAN
  BY DEF SyncInit
<1>. QED  BY <1>3, <1>4, <1>5, <1>6, <1>7, <1>8, <1>9, <1>10, <1>11, Zenon DEF SyncTypeOK, GatewayMsg

LEMMA TypeStep == SyncTypeOK /\ [SyncNext]_syncVars => SyncTypeOK'
<1> SUFFICES ASSUME SyncTypeOK, [SyncNext]_syncVars PROVE SyncTypeOK'
  OBVIOUS
<1>. USE DEF gwVars, agentVars, linkVars
<1>1. ASSUME NEW s \in Sessions, Dial(s) PROVE SyncTypeOK'
  <2>1. [set |-> enabled, gen |-> configGen] \in View /\ stored.scope \in SUBSET Tunnels
    BY DEF SyncTypeOK, View
  <2>. QED  BY <1>1, <2>1 DEF Dial, Handler, SyncTypeOK
<1>2. ASSUME NEW s \in Sessions, Admit(s) PROVE SyncTypeOK'
  <2>1. reported[s].gen \in Nat /\ Displaced \subseteq Sessions
    BY DEF SyncTypeOK, View, Displaced
  <2>. QED  BY <1>2, <2>1 DEF Admit, Handler, SyncTypeOK
<1>3. ASSUME NEW s \in Sessions, HelloOK(s) PROVE SyncTypeOK'
  BY <1>3 DEF HelloOK, Handler, SyncTypeOK
<1>4. ASSUME NEW s \in Sessions, Establish(s) PROVE SyncTypeOK'
  BY <1>4 DEF Establish, SyncTypeOK
<1>5. ASSUME NEW s \in Sessions, Register(s) PROVE SyncTypeOK'
  <2>1. toGateway' \in [Sessions -> Seq(GatewayMsg)]
    BY <1>5, ProposeIs DEF Register, SyncTypeOK, GatewayMsg
  <2>2. ports' \subseteq Tunnels /\ ap' \in [Sessions -> {"none", "dialing", "established", "serving", "over"}]
    BY <1>5 DEF Register, SyncTypeOK
  <2>. QED  BY <1>5, <2>1, <2>2 DEF Register, SyncTypeOK, GatewayMsg
<1>6. ASSUME NEW s \in Sessions, SessionEnds(s) PROVE SyncTypeOK'
  <2>1. toAgent' \in [Sessions -> Seq(View)]
    BY <1>6 DEF SessionEnds, SyncTypeOK
  <2>. QED  BY <1>6, <2>1 DEF SessionEnds, SyncTypeOK
<1>7. ASSUME NEW s \in Sessions, LinkLost(s) PROVE SyncTypeOK'
  BY <1>7 DEF LinkLost, SyncTypeOK
<1>8. ASSUME NEW s \in Sessions, ConnectRead(s) PROVE SyncTypeOK'
  <2>1. [set |-> validSpecs(s, stored.set), gen |-> stored.gen] \in View
    BY DEF SyncTypeOK, View, validSpecs
  <2>2. job' \in [Sessions -> View]
    BY <1>8, <2>1 DEF ConnectRead, SyncTypeOK
  <2>3. hp' \in [Sessions -> {"new", "hello", "admitted", "connecting", "reconciling", "loop", "storing", "done"}]
    BY <1>8 DEF ConnectRead, Handler, SyncTypeOK
  <2>. QED  BY <1>8, <2>2, <2>3 DEF ConnectRead, SyncTypeOK
<1>9. ASSUME NEW s \in Sessions, ConnectPush(s) PROVE SyncTypeOK'
  <2>1. job[s].set \in SUBSET Tunnels /\ job[s].gen \in Nat
    BY DEF SyncTypeOK, View
  <2>2. listeners' \subseteq Tunnels
    BY <1>9, <2>1, ReconcileIs DEF ConnectPush
  <2>3. toAgent' \in [Sessions -> Seq(View)]
    BY <1>9, <2>1, PushIs DEF ConnectPush, SyncTypeOK
  <2>. QED  BY <1>9, <2>2, <2>3 DEF ConnectPush, Handler, SyncTypeOK
<1>10. ASSUME NEW s \in Sessions, RefuseProposal(s) PROVE SyncTypeOK'
  <2>1. toAgent' \in [Sessions -> Seq(View)]
    BY <1>10, PushIs DEF RefuseProposal, SyncTypeOK
  <2>2. toGateway' \in [Sessions -> Seq(GatewayMsg)]
    BY <1>10, ReceiveIs DEF RefuseProposal
  <2>. QED  BY <1>10, <2>1, <2>2 DEF RefuseProposal, SyncTypeOK, GatewayMsg
<1>11. ASSUME NEW s \in Sessions, TakeProposal(s) PROVE SyncTypeOK'
  <2>1. toGateway' \in [Sessions -> Seq(GatewayMsg)] /\ Head(toGateway[s]) \in GatewayMsg
    BY <1>11, ReceiveIs DEF TakeProposal
  <2>. DEFINE T == validSpecs(s, Head(toGateway[s]).set)
  <2>2. T \in SUBSET Tunnels /\ [set |-> T, gen |-> stored.gen] \in View
    BY <2>1 DEF SyncTypeOK, View, validSpecs, GatewayMsg
  <2>3. listeners' \subseteq Tunnels
    BY <1>11, <2>2, ReconcileIs DEF TakeProposal
  <2>4. job' \in [Sessions -> View]
    BY <1>11, <2>2 DEF TakeProposal, SyncTypeOK
  <2>. QED  BY <1>11, <2>1, <2>3, <2>4 DEF TakeProposal, Handler, SyncTypeOK, GatewayMsg
<1>12. ASSUME NEW s \in Sessions, AdoptConfig(s) PROVE SyncTypeOK'
  <2>1. job[s].set \in SUBSET Tunnels /\ stored.gen + 1 \in Nat
    <3>1. job[s] \in View /\ stored.gen \in Nat
      BY DEF SyncTypeOK
    <3>. QED  BY <3>1 DEF View
  <2>2. toAgent' \in [Sessions -> Seq(View)]
    BY <1>12, <2>1, PushIs DEF AdoptConfig
  <2>3. stored' \in [set : SUBSET Tunnels, gen : Nat, scope : SUBSET Tunnels]
    BY <1>12, <2>1 DEF AdoptConfig, SyncTypeOK
  <2>4. stray' \in BOOLEAN
    BY <1>12 DEF AdoptConfig
  <2>5. agentGen' \in [Sessions -> Nat]
    BY <1>12, <2>1 DEF AdoptConfig, SyncTypeOK
  <2>. QED  BY <1>12, <2>2, <2>3, <2>4, <2>5 DEF AdoptConfig, Handler, SyncTypeOK
<1>13. ASSUME NEW s \in Sessions, ReceiveAck(s) PROVE SyncTypeOK'
  <2>1. toGateway' \in [Sessions -> Seq(GatewayMsg)] /\ Head(toGateway[s]).gen \in Nat
    BY <1>13, ReceiveIs DEF ReceiveAck, GatewayMsg
  <2>. QED  BY <1>13, <2>1 DEF ReceiveAck, SyncTypeOK, GatewayMsg
<1>14. ASSUME NEW s \in Sessions, HandlerExit(s) PROVE SyncTypeOK'
  <2>1. NoSet \in View
    BY DEF NoSet, View
  <2>2. /\ job' \in [Sessions -> View] /\ reported' \in [Sessions -> View]
        /\ grant' \in [Sessions -> SUBSET Tunnels] /\ agentGen' \in [Sessions -> Nat]
    BY <1>14, <2>1 DEF HandlerExit, SyncTypeOK
  <2>3. toGateway' \in [Sessions -> Seq(GatewayMsg)]
    <3>1. toGateway \in [Sessions -> Seq(GatewayMsg)]
      BY DEF SyncTypeOK, GatewayMsg
    <3>. QED  BY <1>14, <3>1 DEF HandlerExit
  <2>4. live' \in Sessions \cup {Nobody} /\ listeners' \subseteq Tunnels
    BY <1>14 DEF HandlerExit, SyncTypeOK
  <2>5. hp' \in [Sessions -> {"new", "hello", "admitted", "connecting", "reconciling", "loop", "storing", "done"}]
    BY <1>14 DEF HandlerExit, SyncTypeOK
  <2>. QED  BY <1>14, <2>2, <2>3, <2>4, <2>5 DEF HandlerExit, SyncTypeOK, GatewayMsg
<1>15. ASSUME NEW sc \in Scopes, SetAgentScope(sc) PROVE SyncTypeOK'
  <2>1. sc \in SUBSET Tunnels /\ Displaced \subseteq Sessions
    BY ConfigAssumption DEF SyncTypeOK, Displaced
  <2>2. events' \in 0..MaxEvents
    BY <1>15, ConfigAssumption DEF SetAgentScope, Event, SyncTypeOK
  <2>. QED  BY <1>15, <2>1, <2>2 DEF SetAgentScope, SyncTypeOK
<1>16. ASSUME NEW T \in Sets, EditSwap(T) PROVE SyncTypeOK'
  <2>1. T \in SUBSET Tunnels
    BY ConfigAssumption
  <2>2. events' \in 0..MaxEvents
    BY <1>16, ConfigAssumption DEF EditSwap, Event, SyncTypeOK
  <2>. QED  BY <1>16, <2>1, <2>2 DEF EditSwap, SyncTypeOK
<1>17. EditForget => SyncTypeOK'
  BY DEF EditForget, SyncTypeOK
<1>18. ASSUME EditPropose PROVE SyncTypeOK'
  <2>1. toGateway' \in [Sessions -> Seq(GatewayMsg)]
    <3>1. CASE cur = Nobody
      BY <1>18, <3>1 DEF EditPropose, SyncTypeOK, GatewayMsg
    <3>2. CASE cur # Nobody
      <4>1. cur \in Sessions /\ edit.set \in SUBSET Tunnels
        BY <3>2 DEF SyncTypeOK
      <4>. QED  BY <1>18, <3>2, <4>1, ProposeIs DEF EditPropose
    <3>. QED  BY <3>1, <3>2
  <2>2. NoEdit \in [at : {"idle", "forgetting", "proposing"}, set : SUBSET Tunnels, gone : SUBSET Tunnels]
    BY DEF NoEdit
  <2>3. offline' \in BOOLEAN
    BY <1>18 DEF EditPropose
  <2>. QED  BY <1>18, <2>1, <2>2, <2>3 DEF EditPropose, SyncTypeOK, GatewayMsg
<1>19. ASSUME NEW s \in Sessions, PushSwap(s) PROVE SyncTypeOK'
  <2>. DEFINE m == Head(toAgent[s])
  <2>1. toAgent[s] \in Seq(View) /\ toAgent[s] # <<>>
    BY <1>19 DEF PushSwap, SyncTypeOK
  <2>2. m \in View /\ Tail(toAgent[s]) \in Seq(View)
    BY <2>1, TailIs
  <2>3. enabled' \subseteq Tunnels
        /\ reader' \in [Sessions -> [set : SUBSET Tunnels, gen : Nat, gone : SUBSET Tunnels]]
    BY <1>19, <2>2 DEF PushSwap, SyncTypeOK, View
  <2>4. toAgent' \in [Sessions -> Seq(View)]
    BY <1>19, <2>2 DEF PushSwap, SyncTypeOK
  <2>5. stray' \in BOOLEAN
    BY <1>19 DEF PushSwap
  <2>. QED  BY <1>19, <2>3, <2>4, <2>5 DEF PushSwap, SyncTypeOK
<1>20. ASSUME NEW s \in Sessions, PushApply(s) PROVE SyncTypeOK'
  <2>1. reader[s].gen \in Nat /\ reader[s].set \subseteq Tunnels
    BY DEF SyncTypeOK
  <2>2. toGateway' \in [Sessions -> Seq(GatewayMsg)]
    BY <1>20, <2>1, AckIs DEF PushApply
  <2>3. NoPush \in [set : SUBSET Tunnels, gen : Nat, gone : SUBSET Tunnels]
    BY DEF NoPush
  <2>4. stray' \in BOOLEAN
    BY <1>20 DEF PushApply
  <2>. QED  BY <1>20, <2>1, <2>2, <2>3, <2>4 DEF PushApply, SyncTypeOK, GatewayMsg
<1>21. ASSUME RestartAgent PROVE SyncTypeOK'
  <2>1. NoPush \in [set : SUBSET Tunnels, gen : Nat, gone : SUBSET Tunnels]
    BY DEF NoPush
  <2>2. events' \in 0..MaxEvents
    BY <1>21, ConfigAssumption DEF RestartAgent, Event, SyncTypeOK
  <2>3. toAgent' \in [Sessions -> Seq(View)]
    BY <1>21 DEF RestartAgent
  <2>. QED  BY <1>21, <2>1, <2>2, <2>3 DEF RestartAgent, SyncTypeOK
<1>22. CASE UNCHANGED syncVars
  BY <1>22 DEF syncVars, SyncTypeOK
<1>. QED
  BY <1>1, <1>2, <1>3, <1>4, <1>5, <1>6, <1>7, <1>8, <1>9, <1>10, <1>11, <1>12, <1>13, <1>14,
     <1>15, <1>16, <1>17, <1>18, <1>19, <1>20, <1>21, <1>22
  DEF SyncNext, HandlerStep, AgentStep, ReaderStep, EditStep

-----------------------------------------------------------------------------
(* The order of sessions, of their handlers and of what is pushed.         *)

\* Each action keeps the order of sessions: their agent's and their handler's part of it ...
LEMMA SequencedStep == SyncTypeOK /\ Sequenced /\ [SyncNext]_syncVars => Sequenced'
<1> SUFFICES ASSUME SyncTypeOK, Sequenced, [SyncNext]_syncVars PROVE Sequenced'
  OBVIOUS
<1>. USE SessionsAre DEF gwVars, agentVars, linkVars
<1>. DEFINE Calm == UNCHANGED <<ap, cur>> /\ down \subseteq down'
<1>0. ASSUME Calm, UNCHANGED hp PROVE Sequenced'
  BY <1>0 DEF Sequenced
<1>1. ASSUME NEW s \in Sessions, Dial(s) PROVE Sequenced'
  <2>1. \A r \in Sessions : r < s => ap[r] = "over"
    BY <1>1 DEF Dial, Sessions
  <2>2. \A r \in Sessions : ap[r] # "none" => r < s
    BY <1>1, <2>1 DEF Dial, Sequenced
  <2>3. /\ ap'[s] = "dialing" /\ hp[s] = "new" /\ hp'[s] = "hello"
        /\ \A r \in Sessions \ {s} : ap'[r] = ap[r] /\ hp'[r] = hp[r]
    BY <1>1 DEF Dial, Handler, SyncTypeOK
  <2>4. cur # s /\ cur' = cur /\ down' = down
    BY <1>1 DEF Dial, Sequenced
  <2>. QED  BY <2>1, <2>2, <2>3, <2>4 DEF Sequenced
<1>2. ASSUME NEW s \in Sessions, NEW h, Calm,
             hp' = [hp EXCEPT ![s] = h], hp[s] # "new", h # "new",
             h \in {"hello", "admitted"} => hp[s] \in {"hello", "admitted"}
      PROVE  Sequenced'
  <2>1. hp'[s] = h /\ \A r \in Sessions \ {s} : hp'[r] = hp[r]
    BY <1>2 DEF SyncTypeOK
  <2>. QED  BY <1>2, <2>1 DEF Sequenced
<1>3. ASSUME NEW s \in Sessions, Establish(s) PROVE Sequenced'
  <2>1. /\ ap'[s] = "established" /\ cur' = s /\ hp' = hp /\ down' = down
        /\ \A r \in Sessions \ {s} : ap'[r] = ap[r]
    BY <1>3 DEF Establish, Sequenced, SyncTypeOK
  <2>2. ap[s] # "none" /\ ap[s] # "over"
    BY <1>3 DEF Establish
  <2>. QED  BY <1>3, <2>1, <2>2 DEF Establish, Sequenced
<1>4. ASSUME NEW s \in Sessions, Register(s) PROVE Sequenced'
  <2>1. /\ ap'[s] = "serving" /\ cur' = cur /\ cur = s /\ hp' = hp /\ down' = down
        /\ \A r \in Sessions \ {s} : ap'[r] = ap[r]
    BY <1>4 DEF Register, Sequenced, SyncTypeOK
  <2>2. ap[s] # "none" /\ ap[s] # "over"
    BY <1>4 DEF Register
  <2>. QED  BY <1>4, <2>1, <2>2 DEF Register, Sequenced
<1>5. ASSUME NEW s \in Sessions, SessionEnds(s) PROVE Sequenced'
  <2>1. /\ ap'[s] = "over" /\ cur' = Nobody /\ hp' = hp /\ down' = down
        /\ \A r \in Sessions \ {s} : ap'[r] = ap[r]
    BY <1>5 DEF SessionEnds, Sequenced, SyncTypeOK
  <2>2. ap[s] # "none" /\ ap[s] # "over"
    BY <1>5 DEF SessionEnds
  <2>. QED  BY <1>5, <2>1, <2>2 DEF SessionEnds, Sequenced
<1>6. ASSUME NEW s \in Sessions, HandlerStep(s) PROVE Sequenced'
  <2>1. CASE Admit(s)
    BY <1>2, <2>1 DEF Admit, Handler
  <2>2. CASE HelloOK(s)
    BY <1>2, <2>2 DEF HelloOK, Handler
  <2>3. CASE ConnectRead(s)
    BY <1>2, <2>3 DEF ConnectRead, Handler
  <2>4. CASE ConnectPush(s)
    BY <1>2, <2>4 DEF ConnectPush, Handler
  <2>5. CASE RefuseProposal(s)
    BY <1>0, <2>5 DEF RefuseProposal
  <2>6. CASE TakeProposal(s)
    BY <1>2, <2>6 DEF TakeProposal, Handler
  <2>7. CASE AdoptConfig(s)
    BY <1>2, <2>7 DEF AdoptConfig, Handler
  <2>8. CASE ReceiveAck(s)
    BY <1>0, <2>8 DEF ReceiveAck
  <2>9. CASE HandlerExit(s)
    BY <1>2, <2>9 DEF HandlerExit
  <2>. QED  BY <1>6, <2>1, <2>2, <2>3, <2>4, <2>5, <2>6, <2>7, <2>8, <2>9 DEF HandlerStep
<1>7. ASSUME NEW s \in Sessions, ReaderStep(s) \/ LinkLost(s) PROVE Sequenced'
  BY <1>0, <1>7 DEF ReaderStep, PushSwap, PushApply, LinkLost
<1>8. ASSUME (\E sc \in Scopes : SetAgentScope(sc)) \/ (\E T \in Sets : EditSwap(T)) \/ EditStep \/ RestartAgent
      PROVE  Sequenced'
  BY <1>0, <1>8 DEF SetAgentScope, EditSwap, EditStep, EditForget, EditPropose, RestartAgent
<1>9. CASE UNCHANGED syncVars
  BY <1>0, <1>9 DEF syncVars
<1>. QED
  BY <1>1, <1>3, <1>4, <1>5, <1>6, <1>7, <1>8, <1>9 DEF SyncNext, AgentStep

\* ... and the gateway's.
LEMMA LiveStep == SyncTypeOK /\ LiveIsAdmitted /\ [SyncNext]_syncVars => LiveIsAdmitted'
<1> SUFFICES ASSUME SyncTypeOK, LiveIsAdmitted, [SyncNext]_syncVars PROVE LiveIsAdmitted'
  OBVIOUS
<1>. USE SessionsAre DEF gwVars, agentVars, linkVars
<1>0. ASSUME UNCHANGED <<hp, live>>, down \subseteq down' PROVE LiveIsAdmitted'
  BY <1>0 DEF LiveIsAdmitted
<1>1. ASSUME NEW s \in Sessions, NEW h, UNCHANGED <<live, down>>, hp' = [hp EXCEPT ![s] = h],
             h # "done", hp[s] \in Admitted <=> h \in Admitted
      PROVE  LiveIsAdmitted'
  <2>1. hp'[s] = h /\ \A r \in Sessions \ {s} : hp'[r] = hp[r]
    BY <1>1 DEF SyncTypeOK
  <2>. QED  BY <1>1, <2>1 DEF LiveIsAdmitted
<1>2. ASSUME NEW s \in Sessions, HandlerStep(s) PROVE LiveIsAdmitted'
  <2>. USE DEF Admitted
  <2>1. CASE Admit(s)
    <3>1. hp[s] = "hello" /\ hp'[s] = "admitted" /\ \A r \in Sessions \ {s} : hp'[r] = hp[r]
      BY <2>1 DEF Admit, Handler, SyncTypeOK
    <3>2. \A r \in Sessions \ {s} : r \notin down' => r \notin down /\ live # r
      BY <2>1 DEF Admit, Displaced
    <3>. QED  BY <2>1, <3>1, <3>2 DEF Admit, LiveIsAdmitted
  <2>2. CASE HelloOK(s)
    BY <1>1, <2>2 DEF HelloOK, Handler
  <2>3. CASE ConnectRead(s)
    BY <1>1, <2>3 DEF ConnectRead, Handler
  <2>4. CASE ConnectPush(s)
    BY <1>1, <2>4 DEF ConnectPush, Handler
  <2>5. CASE RefuseProposal(s)
    BY <1>0, <2>5 DEF RefuseProposal
  <2>6. CASE TakeProposal(s)
    BY <1>1, <2>6 DEF TakeProposal, Handler
  <2>7. CASE AdoptConfig(s)
    BY <1>1, <2>7 DEF AdoptConfig, Handler
  <2>8. CASE ReceiveAck(s)
    BY <1>0, <2>8 DEF ReceiveAck
  <2>9. CASE HandlerExit(s)
    <3>1. hp'[s] = "done" /\ \A r \in Sessions \ {s} : hp'[r] = hp[r]
      BY <2>9 DEF HandlerExit, SyncTypeOK
    <3>2. /\ s \in down /\ down' = down
          /\ \A r \in Sessions \ {s} : live' = r <=> live = r
          /\ live' # s
      BY <2>9 DEF HandlerExit
    <3>. QED  BY <3>1, <3>2 DEF LiveIsAdmitted
  <2>. QED  BY <1>2, <2>1, <2>2, <2>3, <2>4, <2>5, <2>6, <2>7, <2>8, <2>9 DEF HandlerStep
<1>3. ASSUME NEW s \in Sessions, Dial(s) PROVE LiveIsAdmitted'
  BY <1>1, <1>3 DEF Dial, Handler, Admitted
<1>4. ASSUME NEW s \in Sessions, AgentStep(s) \/ ReaderStep(s) \/ LinkLost(s) PROVE LiveIsAdmitted'
  BY <1>0, <1>4 DEF AgentStep, Establish, Register, SessionEnds, ReaderStep, PushSwap, PushApply, LinkLost
<1>5. ASSUME NEW sc \in Scopes, SetAgentScope(sc) PROVE LiveIsAdmitted'
  <2>1. hp' = hp /\ live' = Nobody /\ \A r \in Sessions : r \notin down' => r \notin down /\ live # r
    BY <1>5 DEF SetAgentScope, Displaced
  <2>. QED  BY <2>1 DEF LiveIsAdmitted
<1>6. ASSUME (\E T \in Sets : EditSwap(T)) \/ EditStep \/ RestartAgent PROVE LiveIsAdmitted'
  BY <1>0, <1>6 DEF EditSwap, EditStep, EditForget, EditPropose, RestartAgent
<1>7. CASE UNCHANGED syncVars
  BY <1>0, <1>7 DEF syncVars
<1>. QED
  BY <1>2, <1>3, <1>4, <1>5, <1>6, <1>7 DEF SyncNext

\* What belongs to session r, and only its handler, its agent or its reader changes.
Untouched(r) ==
  /\ hp'[r] = hp[r] /\ job'[r] = job[r] /\ grant'[r] = grant[r]
  /\ reported'[r] = reported[r] /\ agentGen'[r] = agentGen[r]
  /\ toGateway'[r] = toGateway[r] /\ toAgent'[r] = toAgent[r]
  /\ ap'[r] = ap[r] /\ reader'[r] = reader[r] /\ (r \in seed' <=> r \in seed)

OwnStep(s) == HandlerStep(s) \/ Dial(s) \/ AgentStep(s) \/ ReaderStep(s) \/ LinkLost(s)

\* A step of one session's handler, agent or reader leaves the others' alone.
LEMMA OthersUntouched ==
  ASSUME SyncTypeOK, NEW s \in Sessions, OwnStep(s), NEW r \in Sessions \ {s}
  PROVE  Untouched(r)
<1>. USE DEF gwVars, agentVars, linkVars
<1>1. /\ DOMAIN hp = Sessions /\ DOMAIN job = Sessions /\ DOMAIN grant = Sessions
      /\ DOMAIN reported = Sessions /\ DOMAIN agentGen = Sessions /\ DOMAIN toGateway = Sessions
      /\ DOMAIN toAgent = Sessions /\ DOMAIN ap = Sessions /\ DOMAIN reader = Sessions
  BY DEF SyncTypeOK
<1>2. CASE Dial(s)
  BY <1>1, <1>2 DEF Dial, Handler, Untouched
<1>3. CASE Admit(s)
  BY <1>1, <1>3 DEF Admit, Handler, Untouched
<1>4. CASE HelloOK(s)
  BY <1>1, <1>4 DEF HelloOK, Handler, Untouched
<1>5. CASE ConnectRead(s)
  BY <1>1, <1>5 DEF ConnectRead, Handler, Untouched
<1>6. CASE ConnectPush(s)
  BY <1>1, <1>6 DEF ConnectPush, Handler, Push, Send, Untouched
<1>7. CASE RefuseProposal(s)
  BY <1>1, <1>7 DEF RefuseProposal, Receive, Push, Send, Untouched
<1>8. CASE TakeProposal(s)
  BY <1>1, <1>8 DEF TakeProposal, Receive, Handler, Untouched
<1>9. CASE AdoptConfig(s)
  BY <1>1, <1>9 DEF AdoptConfig, Handler, Push, Send, Untouched
<1>10. CASE ReceiveAck(s)
  BY <1>1, <1>10 DEF ReceiveAck, Receive, Untouched
<1>11. CASE HandlerExit(s)
  BY <1>1, <1>11 DEF HandlerExit, Untouched
<1>12. CASE AgentStep(s)
  BY <1>1, <1>12 DEF AgentStep, Establish, Register, SessionEnds, Send, Untouched
<1>13. CASE ReaderStep(s)
  BY <1>1, <1>13 DEF ReaderStep, PushSwap, PushApply, Send, Untouched
<1>14. CASE LinkLost(s)
  BY <1>14 DEF LinkLost, Untouched
<1>. QED
  BY <1>2, <1>3, <1>4, <1>5, <1>6, <1>7, <1>8, <1>9, <1>10, <1>11, <1>12, <1>13, <1>14
  DEF OwnStep, HandlerStep

\* What a message more or less at the gateway means.
LEMMA SentIs ==
  ASSUME NEW q \in Seq(GatewayMsg), NEW m \in GatewayMsg
  PROVE  LET p == Append(q, m) IN
         /\ HasAck(p) <=> HasAck(q) \/ m.type = "ack"
         /\ HasProposal(p) <=> HasProposal(q) \/ m.type = "propose"
         /\ \A a, g : m.type = "ack" /\ m.gen = g => AcksReach(p, a, g)
         /\ \A a, g : m.type = "propose" /\ AcksReach(q, a, g) => AcksReach(p, a, g)
<1>. DEFINE p == Append(q, m)
<1>1. /\ Len(q) \in Nat /\ DOMAIN q = 1..Len(q) /\ DOMAIN p = 1..Len(q) + 1
      /\ \A i \in 1..Len(q) : p[i] = q[i]
      /\ p[Len(q) + 1] = m
  BY AppendIs
<1>. HIDE DEF p
<1>2. \A i \in 1..Len(q) : i \in 1..Len(q) + 1 /\ i < Len(q) + 1
  BY <1>1
<1>3. \A i \in 1..Len(q) + 1 : i \in 1..Len(q) \/ i = Len(q) + 1
  BY <1>1
<1>4. HasAck(p) <=> HasAck(q) \/ m.type = "ack"
  BY <1>1, <1>2, <1>3 DEF HasAck
<1>5. HasProposal(p) <=> HasProposal(q) \/ m.type = "propose"
  BY <1>1, <1>2, <1>3 DEF HasProposal
<1>6. ASSUME NEW a, NEW g PROVE m.type = "ack" /\ m.gen = g => AcksReach(p, a, g)
  BY <1>1, <1>2, <1>3, <1>4 DEF AcksReach
<1>7. ASSUME NEW a, NEW g PROVE m.type = "propose" /\ AcksReach(q, a, g) => AcksReach(p, a, g)
  BY <1>1, <1>2, <1>3, <1>4 DEF AcksReach
<1>. QED  BY <1>4, <1>5, <1>6, <1>7 DEF p

\* In particular a proposal, ...
LEMMA ProposedIs ==
  ASSUME NEW q \in Seq(GatewayMsg), NEW T \in SUBSET Tunnels
  PROVE  /\ HasAck(Append(q, Propose(T))) <=> HasAck(q)
         /\ HasProposal(Append(q, Propose(T)))
         /\ \A a, g : AcksReach(q, a, g) => AcksReach(Append(q, Propose(T)), a, g)
<1>. DEFINE m == Propose(T)
<1>1. m \in GatewayMsg /\ m.type = "propose"
  BY DEF Propose, GatewayMsg
<1>. HIDE DEF m
<1>2. /\ HasAck(Append(q, m)) <=> HasAck(q) \/ m.type = "ack"
      /\ HasProposal(Append(q, m)) <=> HasProposal(q) \/ m.type = "propose"
      /\ \A a, g : m.type = "propose" /\ AcksReach(q, a, g) => AcksReach(Append(q, m), a, g)
  BY <1>1, SentIs, Zenon
<1>. QED  BY <1>1, <1>2 DEF m

\* ... an ack, ...
LEMMA AckedIs ==
  ASSUME NEW q \in Seq(GatewayMsg), NEW g \in Nat
  PROVE  /\ HasProposal(Append(q, Ack(g))) <=> HasProposal(q)
         /\ \A a : AcksReach(Append(q, Ack(g)), a, g)
<1>. DEFINE m == Ack(g)
<1>1. m \in GatewayMsg /\ m.type = "ack" /\ m.gen = g
  BY DEF Ack, GatewayMsg
<1>. HIDE DEF m
<1>2. /\ HasProposal(Append(q, m)) <=> HasProposal(q) \/ m.type = "propose"
      /\ \A a : m.type = "ack" /\ m.gen = g => AcksReach(Append(q, m), a, g)
  BY <1>1, SentIs, Zenon
<1>. QED  BY <1>1, <1>2 DEF m

\* ... and a message taken from the head.
LEMMA ReceivedIs ==
  ASSUME NEW q \in Seq(GatewayMsg), q # <<>>
  PROVE  LET m == Head(q)
             p == Tail(q) IN
         /\ HasAck(p) => HasAck(q)
         /\ HasProposal(p) => HasProposal(q)
         /\ m.type = "propose" => HasProposal(q)
         /\ m.type = "ack" => (HasProposal(q) <=> HasProposal(p))
         /\ \A a, g : m.type = "propose" /\ AcksReach(q, a, g) => AcksReach(p, a, g)
         /\ \A a, g : m.type = "ack" /\ AcksReach(q, a, g) => AcksReach(p, m.gen, g)
<1>. DEFINE p == Tail(q)
            n == Len(q)
            m == Head(q)
<1>1. /\ n \in Nat \ {0} /\ DOMAIN q = 1..n /\ DOMAIN p = 1..n - 1
      /\ m \in GatewayMsg /\ m = q[1] /\ \A i \in 1..n - 1 : p[i] = q[i + 1]
  BY TailIs
<1>. HIDE DEF p, n, m
<1>2. \A i \in 1..n - 1 : i + 1 \in 1..n
  BY <1>1
<1>3. \A i \in 1..n : i = 1 \/ (i - 1 \in 1..n - 1 /\ q[i] = p[i - 1])
  BY <1>1
<1>4. HasAck(p) => HasAck(q)
  BY <1>1, <1>2 DEF HasAck
<1>5. HasAck(q) => HasAck(p) \/ m.type = "ack"
  BY <1>1, <1>3 DEF HasAck
<1>6. HasProposal(p) => HasProposal(q)
  BY <1>1, <1>2 DEF HasProposal
<1>7. 1 \in 1..n
  BY <1>1
<1>8. m.type = "propose" => HasProposal(q)
  BY <1>1, <1>7 DEF HasProposal
<1>9. m.type = "ack" /\ HasProposal(q) => HasProposal(p)
  BY <1>1, <1>3 DEF HasProposal
\* An ack that is the last of p is the last of q.
<1>10. ASSUME NEW a, NEW g, AcksReach(q, a, g), NEW i \in 1..n - 1, p[i].type = "ack",
              \A j \in 1..n - 1 : i < j => p[j].type # "ack"
       PROVE  p[i].gen = g
  <2>1. \A j \in 1..n : i + 1 < j => q[j].type # "ack"
    <3>1. SUFFICES ASSUME NEW j \in 1..n, i + 1 < j PROVE q[j].type # "ack"
      OBVIOUS
    <3>2. j - 1 \in 1..n - 1 /\ i < j - 1 /\ q[j] = p[j - 1]
      BY <1>1, <1>3, <3>1
    <3>. QED  BY <1>10, <3>2
  <2>2. i + 1 \in 1..n /\ q[i + 1] = p[i]
    BY <1>1, <1>2
  <2>. QED  BY <1>1, <1>10, <2>1, <2>2 DEF AcksReach
<1>11. ASSUME NEW a, NEW g PROVE m.type = "propose" /\ AcksReach(q, a, g) => AcksReach(p, a, g)
  <2>1. m.type = "propose" /\ AcksReach(q, a, g) /\ ~HasAck(p) => a = g
    BY <1>5 DEF AcksReach
  <2>. QED  BY <1>1, <1>10, <2>1 DEF AcksReach
<1>12. ASSUME NEW a, NEW g PROVE m.type = "ack" /\ AcksReach(q, a, g) => AcksReach(p, m.gen, g)
  <2>1. ASSUME m.type = "ack", AcksReach(q, a, g), ~HasAck(p) PROVE m.gen = g
    <3>1. ASSUME NEW j \in 1..n, 1 < j PROVE q[j].type # "ack"
      <4>1. j - 1 \in 1..n - 1 /\ q[j] = p[j - 1]
        BY <1>1, <1>3, <3>1
      <4>. QED  BY <1>1, <2>1, <4>1 DEF HasAck
    <3>. QED  BY <1>1, <1>7, <2>1, <3>1 DEF AcksReach
  <2>. QED  BY <1>1, <1>10, <2>1 DEF AcksReach
<1>. QED  BY <1>4, <1>6, <1>8, <1>9, <1>11, <1>12 DEF p, n, m

\* With no message there is no ack to come.
LEMMA NoneIs ==
  ASSUME NEW a, NEW g
  PROVE  /\ ~HasAck(<<>>) /\ ~HasProposal(<<>>)
         /\ AcksReach(<<>>, a, g) <=> a = g
<1>1. DOMAIN <<>> = {}
  OBVIOUS
<1>. QED  BY <1>1, Zenon DEF HasAck, HasProposal, AcksReach

\* The last of the pushes under way, after one more and after the first is taken.
LEMMA LastIs ==
  ASSUME NEW q \in Seq(View), NEW m \in View
  PROVE  /\ Append(q, m)[Len(Append(q, m))] = m
         /\ q # <<>> /\ Tail(q) # <<>> => Tail(q)[Len(Tail(q))] = q[Len(q)]
         /\ q # <<>> /\ Tail(q) = <<>> => Head(q) = q[Len(q)]
<1>1. Append(q, m)[Len(Append(q, m))] = m
  BY AppendIs
<1>2. q # <<>> /\ Tail(q) # <<>> => Tail(q)[Len(Tail(q))] = q[Len(q)]
  OBVIOUS
<1>3. ASSUME q # <<>>, Tail(q) = <<>> PROVE Head(q) = q[Len(q)]
  <2>1. Len(q) \in Nat \ {0} /\ Len(Tail(q)) = Len(q) - 1 /\ Len(<<>>) = 0 /\ Head(q) = q[1]
    BY <1>3, TailIs
  <2>2. Len(q) = 1
    BY <1>3, <2>1
  <2>. QED  BY <2>1, <2>2
<1>. QED  BY <1>1, <1>2, <1>3

\* Nothing is pushed, acknowledged or seeded before its time.
LEMMA EarlyOwn ==
  ASSUME SyncTypeOK, NothingEarly, NEW s \in Sessions, OwnStep(s)
  PROVE  NothingEarlyOf(s)'
<1>. USE DEF gwVars, agentVars, linkVars, Early
<1>1. /\ hp[s] \in {"new", "hello", "admitted", "connecting", "reconciling", "loop", "storing", "done"}
      /\ \A h : hp' = [hp EXCEPT ![s] = h] => hp'[s] = h
      /\ toAgent \in [Sessions -> Seq(View)] /\ toGateway \in [Sessions -> Seq(GatewayMsg)]
      /\ toAgent[s] \in Seq(View) /\ toGateway[s] \in Seq(GatewayMsg)
      /\ toGateway'[s] = toGateway[s] => (HasAck(toGateway[s])' <=> HasAck(toGateway[s]))
      /\ NothingEarlyOf(s)
  BY DEF SyncTypeOK, GatewayMsg, HasAck, NothingEarly
<1>2. ASSUME NEW T \in SUBSET Tunnels, NEW g \in Nat \ {0}, Push(s, T, g)
      PROVE  \A i \in DOMAIN toAgent'[s] : toAgent'[s][i].gen # 0
  <2>. DEFINE m == [set |-> T, gen |-> g]
              q == toAgent[s]
  <2>1. toAgent'[s] = toAgent[s] \/ toAgent'[s] = Append(q, m)
    BY <1>2, PushIs
  <2>2. m \in View /\ m.gen # 0
    BY DEF View
  <2>. HIDE DEF m
  <2>3. \A i \in DOMAIN Append(q, m) : (i \in DOMAIN q /\ Append(q, m)[i] = q[i]) \/ Append(q, m)[i] = m
    BY <1>1, <2>2, AppendIs
  <2>. QED  BY <1>1, <2>1, <2>2, <2>3 DEF NothingEarlyOf
<1>3. CASE Dial(s)
  BY <1>1, <1>3 DEF Dial, Handler, NothingEarlyOf
<1>4. CASE Admit(s)
  BY <1>1, <1>4 DEF Admit, Handler, NothingEarlyOf
<1>5. CASE HelloOK(s)
  BY <1>1, <1>5 DEF HelloOK, Handler, NothingEarlyOf
<1>6. CASE ConnectRead(s)
  <2>1. stored.gen # 0 => job'[s].gen # 0
    BY <1>6 DEF ConnectRead, SyncTypeOK
  <2>2. /\ hp[s] = "connecting"
        /\ stored.gen = 0 => hp'[s] = "loop"
        /\ stored.gen # 0 => hp'[s] = "reconciling"
    BY <1>6 DEF ConnectRead, Handler, SyncTypeOK
  <2>. QED  BY <1>1, <1>6, <2>1, <2>2 DEF ConnectRead, NothingEarlyOf
<1>7. CASE ConnectPush(s)
  <2>1. hp[s] = "reconciling" /\ hp'[s] = "loop" /\ job[s] \in View /\ job[s].gen # 0
    BY <1>1, <1>7 DEF ConnectPush, Handler, SyncTypeOK, NothingEarlyOf
  <2>2. job[s].set \in SUBSET Tunnels /\ job[s].gen \in Nat \ {0}
    BY <2>1 DEF View
  <2>3. toAgent'[s] = toAgent[s] \/ \A i \in DOMAIN toAgent'[s] : toAgent'[s][i].gen # 0
    BY <1>2, <1>7, <2>2 DEF ConnectPush
  <2>. QED  BY <1>1, <2>1, <2>3 DEF NothingEarlyOf
<1>8. CASE RefuseProposal(s)
  <2>1. stored.set \in SUBSET Tunnels /\ stored.gen \in Nat \ {0} /\ hp[s] = "loop" /\ hp'[s] = "loop"
    BY <1>8 DEF RefuseProposal, Stale, SyncTypeOK
  <2>2. \A i \in DOMAIN toAgent'[s] : toAgent'[s][i].gen # 0
    BY <1>2, <1>8, <2>1 DEF RefuseProposal
  <2>. QED  BY <2>1, <2>2 DEF NothingEarlyOf
<1>9. CASE TakeProposal(s)
  BY <1>1, <1>9 DEF TakeProposal, Handler, NothingEarlyOf
<1>10. CASE AdoptConfig(s)
  <2>1. hp'[s] = "loop" /\ job[s] \in View /\ stored.gen \in Nat
    BY <1>1, <1>10 DEF AdoptConfig, Handler, SyncTypeOK
  <2>2. job[s].set \in SUBSET Tunnels /\ stored.gen + 1 \in Nat \ {0}
    BY <2>1 DEF View
  <2>3. \A i \in DOMAIN toAgent'[s] : toAgent'[s][i].gen # 0
    BY <1>2, <1>10, <2>2 DEF AdoptConfig
  <2>. QED  BY <2>1, <2>3 DEF NothingEarlyOf
<1>11. CASE ReceiveAck(s)
  BY <1>1, <1>11 DEF ReceiveAck, NothingEarlyOf
<1>12. CASE HandlerExit(s)
  BY <1>1, <1>12 DEF HandlerExit, NothingEarlyOf
<1>13. CASE Establish(s) \/ LinkLost(s)
  BY <1>1, <1>13 DEF Establish, LinkLost, NothingEarlyOf
<1>14. CASE Register(s)
  <2>1. HasAck(toGateway'[s]) <=> HasAck(toGateway[s])
    <3>1. CASE s \in seed
      <4>1. enabled \in SUBSET Tunnels
        BY DEF SyncTypeOK
      <4>2. toGateway'[s] = toGateway[s] \/ toGateway'[s] = Append(toGateway[s], Propose(enabled))
        BY <1>14, <3>1, <4>1, ProposeIs DEF Register
      <4>. QED  BY <1>1, <4>1, <4>2, ProposedIs
    <3>2. CASE s \notin seed
      BY <1>14, <3>2 DEF Register
    <3>. QED  BY <3>1, <3>2
  <2>. QED  BY <1>1, <1>14, <2>1 DEF Register, NothingEarlyOf
<1>15. CASE SessionEnds(s)
  <2>1. toAgent'[s] = toAgent[s] \/ toAgent'[s] = <<>>
    BY <1>1, <1>15 DEF SessionEnds
  <2>. QED  BY <1>1, <1>15, <2>1 DEF SessionEnds, NothingEarlyOf
<1>16. CASE PushSwap(s)
  <2>1. /\ hp' = hp /\ job' = job /\ seed' = seed
        /\ toAgent[s] # <<>> /\ toAgent'[s] = Tail(toAgent[s])
    BY <1>1, <1>16 DEF PushSwap
  <2>2. \A i \in DOMAIN Tail(toAgent[s]) : i + 1 \in DOMAIN toAgent[s] /\ Tail(toAgent[s])[i] = toAgent[s][i + 1]
    BY <1>1, <2>1, TailIs
  <2>. QED  BY <1>1, <2>1, <2>2 DEF NothingEarlyOf
<1>17. CASE PushApply(s)
  BY <1>1, <1>17 DEF PushApply, NothingEarlyOf
<1>. QED
  BY <1>3, <1>4, <1>5, <1>6, <1>7, <1>8, <1>9, <1>10, <1>11, <1>12, <1>13, <1>14, <1>15, <1>16, <1>17
  DEF OwnStep, HandlerStep, AgentStep, ReaderStep

LEMMA NothingEarlyStep == SyncTypeOK /\ NothingEarly /\ [SyncNext]_syncVars => NothingEarly'
<1> SUFFICES ASSUME SyncTypeOK, NothingEarly, [SyncNext]_syncVars, NEW r \in Sessions PROVE NothingEarlyOf(r)'
  BY DEF NothingEarly
<1>. USE DEF gwVars, agentVars, linkVars
<1>0. NothingEarlyOf(r)
  BY DEF NothingEarly
<1>1. ASSUME Untouched(r) PROVE NothingEarlyOf(r)'
  BY <1>0, <1>1 DEF Untouched, NothingEarlyOf, HasAck
<1>2. ASSUME NEW s \in Sessions, OwnStep(s) PROVE NothingEarlyOf(r)'
  BY <1>1, <1>2, EarlyOwn, OthersUntouched
<1>3. ASSUME (\E sc \in Scopes : SetAgentScope(sc)) \/ (\E T \in Sets : EditSwap(T)) \/ EditForget
      PROVE  NothingEarlyOf(r)'
  BY <1>0, <1>3 DEF SetAgentScope, EditSwap, EditForget, NothingEarlyOf, HasAck
<1>4. CASE EditPropose
  <2>1. toGateway'[r] = toGateway[r] \/ toGateway'[r] = Append(toGateway[r], Propose(edit.set))
    <3>1. CASE cur = Nobody
      BY <1>4, <3>1 DEF EditPropose
    <3>2. CASE cur # Nobody
      <4>1. cur \in Sessions /\ edit.set \in SUBSET Tunnels
        BY <3>2 DEF SyncTypeOK
      <4>. QED  BY <1>4, <3>2, <4>1, ProposeIs DEF EditPropose
    <3>. QED  BY <3>1, <3>2
  <2>2. edit.set \in SUBSET Tunnels
    BY DEF SyncTypeOK
  <2>3. toGateway[r] \in Seq(GatewayMsg)
    BY DEF SyncTypeOK, GatewayMsg
  <2>4. HasAck(toGateway'[r]) <=> HasAck(toGateway[r])
    BY <2>1, <2>2, <2>3, ProposedIs
  <2>. QED  BY <1>0, <1>4, <2>4 DEF EditPropose, NothingEarlyOf
<1>5. CASE RestartAgent
  BY <1>0, <1>5 DEF RestartAgent, NothingEarlyOf, HasAck
<1>6. CASE UNCHANGED syncVars
  BY <1>0, <1>6 DEF syncVars, NothingEarlyOf, HasAck
<1>. QED
  BY <1>2, <1>3, <1>4, <1>5, <1>6 DEF SyncNext, OwnStep, EditStep

\* Before the first generation nothing can be pushed.
LEMMA UnseededStep == SyncTypeOK /\ NothingEarly /\ Unseeded /\ [SyncNext]_syncVars => Unseeded'
<1> SUFFICES ASSUME SyncTypeOK, NothingEarly, Unseeded, [SyncNext]_syncVars, stored'.gen = 0
             PROVE  /\ stored'.set = {} /\ configGen' = 0
                    /\ \A s \in Sessions : /\ toAgent'[s] = <<>> /\ reader'[s] = NoPush
                                           /\ reported'[s].gen = 0 /\ hp'[s] # "reconciling"
  BY DEF Unseeded
<1>. USE DEF gwVars, agentVars, linkVars
<1>. DEFINE Before(s) == /\ toAgent[s] = <<>> /\ reader[s] = NoPush
                         /\ reported[s].gen = 0 /\ hp[s] # "reconciling"
            After(s) == /\ toAgent'[s] = <<>> /\ reader'[s] = NoPush
                        /\ reported'[s].gen = 0 /\ hp'[s] # "reconciling"
            Goal == stored'.set = {} /\ configGen' = 0 /\ \A s \in Sessions : After(s)
<1>0. stored.gen = 0 => stored.set = {} /\ configGen = 0 /\ \A s \in Sessions : Before(s)
  BY DEF Unseeded
<1>1. ASSUME NEW s \in Sessions, OwnStep(s), stored' = stored, configGen' = configGen, stored.gen = 0 => After(s)
      PROVE  Goal
  <2>1. \A r \in Sessions \ {s} : Untouched(r)
    BY <1>1, OthersUntouched
  <2>2. \A r \in Sessions \ {s} : Before(r) => After(r)
    BY <2>1 DEF Untouched
  <2>. QED  BY <1>0, <1>1, <2>2
<1>2. ASSUME UNCHANGED <<stored, configGen, toAgent, reader, reported, hp>> PROVE Goal
  BY <1>0, <1>2
<1>3. ASSUME NEW s \in Sessions, HandlerStep(s) PROVE Goal
  <2>. USE <1>3 DEF OwnStep
  <2>0. OwnStep(s) /\ hp \in [Sessions -> {"new", "hello", "admitted", "connecting", "reconciling", "loop", "storing", "done"}]
    BY DEF SyncTypeOK
  <2>1. CASE Admit(s)
    BY <1>0, <1>1, <2>0, <2>1 DEF Admit, Handler
  <2>2. CASE HelloOK(s)
    BY <1>0, <1>1, <2>0, <2>2 DEF HelloOK, Handler
  <2>3. CASE ConnectRead(s)
    BY <1>0, <1>1, <2>0, <2>3 DEF ConnectRead, Handler
  <2>4. CASE ConnectPush(s)
    BY <1>0, <1>1, <2>0, <2>4 DEF ConnectPush, Handler
  <2>5. CASE RefuseProposal(s)
    BY <1>0, <1>1, <2>0, <2>5 DEF RefuseProposal, Stale
  <2>6. CASE TakeProposal(s)
    BY <1>0, <1>1, <2>0, <2>6 DEF TakeProposal, Handler
  <2>7. CASE AdoptConfig(s)
    <3>1. stored.gen \in Nat /\ stored'.gen = stored.gen + 1
      BY <2>7 DEF AdoptConfig, SyncTypeOK
    <3>. QED  BY <3>1
  <2>8. CASE ReceiveAck(s)
    BY <1>2, <2>8 DEF ReceiveAck
  <2>9. CASE HandlerExit(s)
    <3>1. reported'[s].gen = 0
      BY <2>9 DEF HandlerExit, SyncTypeOK, NoSet
    <3>. QED  BY <1>0, <1>1, <2>0, <2>9, <3>1 DEF HandlerExit
  <2>. QED  BY <2>1, <2>2, <2>3, <2>4, <2>5, <2>6, <2>7, <2>8, <2>9 DEF HandlerStep
<1>4. ASSUME NEW s \in Sessions, Dial(s) PROVE Goal
  <2>1. reported'[s].gen = configGen /\ hp'[s] = "hello"
    BY <1>4 DEF Dial, Handler, SyncTypeOK
  <2>. QED  BY <1>0, <1>1, <1>4, <2>1 DEF Dial, OwnStep
<1>5. ASSUME NEW s \in Sessions, Establish(s) \/ Register(s) \/ LinkLost(s) PROVE Goal
  BY <1>2, <1>5 DEF Establish, Register, LinkLost
<1>6. ASSUME NEW s \in Sessions, SessionEnds(s) PROVE Goal
  <2>1. toAgent'[s] = toAgent[s] \/ toAgent'[s] = <<>>
    BY <1>6 DEF SessionEnds, SyncTypeOK
  <2>. QED  BY <1>0, <1>1, <1>6, <2>1 DEF SessionEnds, OwnStep, AgentStep
<1>7. ASSUME NEW s \in Sessions, ReaderStep(s) PROVE Goal
  BY <1>0, <1>1, <1>7 DEF ReaderStep, PushSwap, PushApply, OwnStep
<1>8. ASSUME NEW sc \in Scopes, SetAgentScope(sc) PROVE Goal
  <2>1. stored'.set = stored.set /\ stored'.gen = stored.gen
    BY <1>8 DEF SetAgentScope, SyncTypeOK
  <2>. QED  BY <1>0, <1>8, <2>1 DEF SetAgentScope
<1>9. ASSUME (\E T \in Sets : EditSwap(T)) \/ EditStep PROVE Goal
  BY <1>2, <1>9 DEF EditSwap, EditStep, EditForget, EditPropose
<1>10. CASE RestartAgent
  BY <1>0, <1>10 DEF RestartAgent
<1>11. CASE UNCHANGED syncVars
  BY <1>2, <1>11 DEF syncVars
<1>. QED
  BY <1>3, <1>4, <1>5, <1>6, <1>7, <1>8, <1>9, <1>10, <1>11 DEF SyncNext, AgentStep

\* The order as a whole.
LEMMA OrderStep == OrderInv /\ [SyncNext]_syncVars => OrderInv'
BY TypeStep, SequencedStep, LiveStep, NothingEarlyStep, UnseededStep DEF OrderInv

LEMMA OrderInit == SyncInit => OrderInv
<1> SUFFICES ASSUME SyncInit PROVE OrderInv
  OBVIOUS
<1>1. SyncTypeOK
  BY TypeInit
<1>2. Sequenced
  BY SessionsAre DEF SyncInit, Sequenced
<1>3. LiveIsAdmitted
  BY SessionsAre DEF SyncInit, LiveIsAdmitted, Admitted
<1>4. NothingEarly
  BY DEF SyncInit, NothingEarly, NothingEarlyOf, HasAck, Early
<1>5. Unseeded
  BY DEF SyncInit, Unseeded, NoSet
<1>. QED  BY <1>1, <1>2, <1>3, <1>4, <1>5 DEF OrderInv

-----------------------------------------------------------------------------
(* What the session that is up keeps.                                      *)

\* The sessions before the one that is up are over, and those after it have not begun.
LEMMA OneIsUp ==
  ASSUME SyncTypeOK, Sequenced, NEW s \in Sessions, Up(s)
  PROVE  /\ cur \in {s, Nobody}
         /\ \A r \in Sessions \ {s} :
              /\ ap[r] # "none" => r < s /\ ap[r] = "over" /\ r \in down
              /\ Succeeded(r) \/ hp[r] = "new"
<1>1. ap[s] # "none" /\ ap[s] # "over"
  BY DEF Up, Sequenced
<1>2. ASSUME NEW r \in Sessions \ {s}, ap[r] # "none" PROVE r < s /\ ap[r] = "over" /\ r \in down
  BY <1>1, <1>2, SessionsAre DEF Sequenced
<1>3. ASSUME NEW r \in Sessions \ {s} PROVE Succeeded(r) \/ hp[r] = "new"
  BY <1>1, <1>2 DEF Succeeded, Sequenced
<1>4. cur \in {s, Nobody}
  BY <1>2, SessionsAre DEF Sequenced, SyncTypeOK
<1>. QED  BY <1>2, <1>3, <1>4

\* Steps for other sessions leave the one that is up as it is, once it is admitted.
LEMMA OthersAtRest ==
  ASSUME OrderInv, NEW s \in Sessions, Up(s), NEW r \in Sessions \ {s}, OwnStep(r),
         ~stray', s \notin down'
  PROVE  /\ Untouched(s)
         /\ UNCHANGED <<enabled, configGen, edit, offline>>
         /\ hp[s] # "hello" => UNCHANGED <<stored, listeners>>
<1>. USE DEF gwVars, agentVars, linkVars
<1>1. SyncTypeOK /\ Sequenced /\ LiveIsAdmitted
  BY DEF OrderInv
<1>2. Untouched(s)
  BY <1>1, OthersUntouched
<1>3. (ap[r] = "none" \/ ap[r] = "over") /\ (Succeeded(r) \/ hp[r] = "new")
  BY <1>1, OneIsUp
<1>4. hp[s] # "hello" => live = s
  BY <1>1 DEF Up, Sequenced, LiveIsAdmitted, Admitted, SyncTypeOK
<1>5. r # s /\ r # Nobody /\ s # Nobody
  BY SessionsAre
<1>6. ~ReaderStep(r)
  <2>1. hp[r] = "new" => ap[r] = "none" /\ reader[r] = NoPush
    BY DEF OrderInv, Sequenced, NothingEarly, NothingEarlyOf
  <2>2. ~PushSwap(r)
    BY <1>3, <2>1 DEF PushSwap
  <2>3. ~PushApply(r)
    BY <1>3, <2>1 DEF PushApply
  <2>. QED  BY <2>2, <2>3 DEF ReaderStep
<1>7. ~AgentStep(r) /\ ~LinkLost(r)
  BY <1>3 DEF AgentStep, Establish, Register, SessionEnds, LinkLost
<1>8. CASE HandlerStep(r)
  <2>1. UNCHANGED <<enabled, configGen, edit, offline>>
    BY <1>8 DEF HandlerStep, Admit, HelloOK, ConnectRead, ConnectPush, RefuseProposal, TakeProposal,
                AdoptConfig, ReceiveAck, HandlerExit
  <2>2. ASSUME live = s PROVE UNCHANGED <<stored, listeners>>
    <3>1. ~Admit(r)
      BY <1>5, <2>2 DEF Admit, Displaced
    <3>2. ~AdoptConfig(r)
      BY <1>5, <2>2 DEF AdoptConfig
    <3>. QED
      BY <1>5, <1>8, <2>2, <3>1, <3>2
      DEF HandlerStep, HelloOK, ConnectRead, ConnectPush, RefuseProposal, TakeProposal, ReceiveAck,
          HandlerExit, reconcile
  <2>. QED  BY <1>2, <1>4, <2>1, <2>2
<1>9. CASE Dial(r)
  BY <1>2, <1>9 DEF Dial
<1>. QED  BY <1>6, <1>7, <1>8, <1>9 DEF OwnStep

\* Connections stay closed, and what has strayed stays so.
LEMMA OwnKeeps ==
  ASSUME NEW s \in Sessions, OwnStep(s)
  PROVE  down \subseteq down' /\ (stray => stray')
<1>. USE DEF gwVars, agentVars, linkVars
<1>1. down \subseteq down'
  BY DEF OwnStep, HandlerStep, AgentStep, ReaderStep, Dial, Admit, HelloOK, ConnectRead, ConnectPush,
         RefuseProposal, TakeProposal, AdoptConfig, ReceiveAck, HandlerExit, Establish, Register,
         SessionEnds, PushSwap, PushApply, LinkLost
<1>2. stray => stray'
  BY DEF OwnStep, HandlerStep, AgentStep, ReaderStep, Dial, Admit, HelloOK, ConnectRead, ConnectPush,
         RefuseProposal, TakeProposal, AdoptConfig, ReceiveAck, HandlerExit, Establish, Register,
         SessionEnds, PushSwap, PushApply, LinkLost
<1>. QED  BY <1>1, <1>2

\* What a session has before a step of its own that leaves it up.
LEMMA OwnBefore ==
  ASSUME OrderInv, SessionInv, NEW s \in Sessions, OwnStep(s), ~stray', Up(s)'
  PROVE  /\ s \notin down /\ hp[s] # "done"
         /\ ap[s] # "none" => ConnectingOf(s) /\ ServingOf(s)
         /\ ap[s] = "none" => Dial(s)
<1>. USE DEF gwVars, agentVars, linkVars
<1>1. down \subseteq down' /\ ~stray
  BY OwnKeeps
<1>2. s \notin down /\ hp[s] # "done"
  BY <1>1 DEF Up, OrderInv, LiveIsAdmitted
<1>3. ap[s] # "none" => ConnectingOf(s) /\ ServingOf(s)
  BY <1>1, <1>2 DEF SessionInv, Up
<1>4. ap'[s] = ap[s] \/ Dial(s) \/ AgentStep(s)
  BY DEF OwnStep, HandlerStep, ReaderStep, Admit, HelloOK, ConnectRead, ConnectPush,
         RefuseProposal, TakeProposal, AdoptConfig, ReceiveAck, HandlerExit,
         PushSwap, PushApply, LinkLost
<1>5. ap[s] = "none" => ~AgentStep(s)
  BY DEF AgentStep, Establish, Register, SessionEnds
<1>. QED  BY <1>2, <1>3, <1>4, <1>5 DEF Up

\* The messages and the places of one session, with their types.
TypeOf(s) ==
  /\ hp \in [Sessions -> {"new", "hello", "admitted", "connecting", "reconciling",
                          "loop", "storing", "done"}]
  /\ ap \in [Sessions -> {"none", "dialing", "established", "serving", "over"}]
  /\ job \in [Sessions -> View] /\ reported \in [Sessions -> View]
  /\ agentGen \in [Sessions -> Nat]
  /\ toAgent \in [Sessions -> Seq(View)] /\ toAgent[s] \in Seq(View)
  /\ toGateway \in [Sessions -> Seq(GatewayMsg)] /\ toGateway[s] \in Seq(GatewayMsg)
  /\ DOMAIN grant = Sessions /\ DOMAIN reader = Sessions
  /\ stored.set \in SUBSET Tunnels /\ stored.gen \in Nat /\ enabled \in SUBSET Tunnels
  /\ configGen \in Nat /\ job[s].set \in SUBSET Tunnels /\ job[s].gen \in Nat

LEMMA TypesAre == ASSUME SyncTypeOK, NEW s \in Sessions PROVE TypeOf(s)
<1>1. job[s] \in View
  BY DEF SyncTypeOK
<1>. QED  BY <1>1 DEF SyncTypeOK, TypeOf, View, GatewayMsg

\* The agent's own steps.
LEMMA ConnectingAgent ==
  ASSUME OrderInv, SessionInv, NEW s \in Sessions, ~stray', Up(s)', Dial(s) \/ AgentStep(s)
  PROVE  ConnectingOf(s)' /\ ServingOf(s)'
<1>. USE DEF gwVars, agentVars, linkVars, Early
<1>1. TypeOf(s) /\ OwnStep(s) /\ NothingEarlyOf(s) /\ Sequenced
  BY TypesAre DEF OrderInv, OwnStep, NothingEarly
<1>2. s \notin down /\ (ap[s] # "none" => ConnectingOf(s) /\ ServingOf(s))
  BY <1>1, OwnBefore
<1>3. CASE Dial(s)
  <2>1. hp'[s] = "hello" /\ reported'[s] = [set |-> enabled, gen |-> configGen]
    BY <1>1, <1>3 DEF Dial, Handler, TypeOf
  <2>. QED  BY <1>3, <2>1 DEF Dial, ConnectingOf, ServingOf
<1>4. CASE Establish(s)
  <2>1. ap[s] = "dialing" /\ ap'[s] = "established"
    BY <1>1, <1>4 DEF Establish, TypeOf
  <2>2. Quiet(s)' <=> Quiet(s)
    BY <1>4 DEF Establish, Quiet
  <2>3. ConnectingOf(s)'
    BY <1>2, <1>4, <2>1, <2>2 DEF Establish, ConnectingOf
  <2>4. ServingOf(s)'
    BY <1>2, <1>4, <2>1, <2>2 DEF Establish, ServingOf, IsStored, Bound
  <2>. QED  BY <2>3, <2>4
<1>5. CASE Register(s)
  <2>1. ap[s] = "established" /\ ap'[s] = "serving"
    BY <1>1, <1>5 DEF Register, TypeOf
  <2>2. CASE s \in seed
    <3>1. toGateway'[s] = Append(toGateway[s], Propose(enabled))
      BY <1>1, <1>2, <1>5, <2>2, ProposeIs DEF Register, OrderInv, TypeOf
    <3>2. /\ HasProposal(toGateway'[s])
          /\ \A a, g : AcksReach(toGateway[s], a, g) => AcksReach(toGateway'[s], a, g)
      BY <1>1, <3>1, ProposedIs DEF TypeOf
    <3>3. ~Quiet(s)'
      BY <3>2 DEF Quiet
    <3>4. ConnectingOf(s)'
      BY <1>2, <1>5, <2>1, <2>2, <3>2, <3>3 DEF Register, ConnectingOf
    <3>5. ServingOf(s)'
      BY <1>2, <1>5, <2>1, <2>2, <3>2, <3>3 DEF Register, ServingOf, IsStored, Bound
    <3>. QED  BY <3>4, <3>5
  <2>3. CASE s \notin seed
    <3>1. Quiet(s)' <=> Quiet(s)
      BY <1>5, <2>3 DEF Register, Quiet
    <3>2. ConnectingOf(s)'
      BY <1>2, <1>5, <2>1, <2>3, <3>1 DEF Register, ConnectingOf
    <3>3. ServingOf(s)'
      BY <1>2, <1>5, <2>1, <2>3, <3>1 DEF Register, ServingOf, IsStored, Bound
    <3>. QED  BY <3>2, <3>3
  <2>. QED  BY <2>2, <2>3
<1>6. ~SessionEnds(s)
  BY <1>2 DEF SessionEnds
<1>. QED  BY <1>3, <1>4, <1>5, <1>6 DEF AgentStep

\* What is pushed is the last of the pushes under way.
LEMMA PushedIs ==
  ASSUME SyncTypeOK, NEW s \in Sessions, s \notin down,
         NEW T \in SUBSET Tunnels, NEW g \in Nat, Push(s, T, g)
  PROVE  toAgent'[s] # <<>> /\ toAgent'[s][Len(toAgent'[s])] = [set |-> T, gen |-> g]
<1>. DEFINE m == [set |-> T, gen |-> g]
<1>1. m \in View /\ toAgent[s] \in Seq(View)
  BY DEF View, SyncTypeOK
<1>2. toAgent'[s] = Append(toAgent[s], m)
  BY PushIs
<1>. HIDE DEF m
<1>3. toAgent'[s] # <<>> /\ toAgent'[s][Len(toAgent'[s])] = m
  BY <1>1, <1>2, AppendIs, LastIs
<1>. QED  BY <1>3 DEF m

\* The gateway's handler, from the hello to the first push.
LEMMA ConnectingHandler ==
  ASSUME OrderInv, SessionInv, NEW s \in Sessions, ~stray', Up(s)',
         Admit(s) \/ HelloOK(s) \/ ConnectRead(s) \/ ConnectPush(s)
  PROVE  ConnectingOf(s)' /\ ServingOf(s)'
<1>. USE DEF gwVars, agentVars, linkVars, Early
<1>1. TypeOf(s) /\ OwnStep(s) /\ NothingEarlyOf(s) /\ Sequenced /\ SyncTypeOK
  BY TypesAre DEF OrderInv, OwnStep, HandlerStep, NothingEarly
<1>2. /\ s \notin down /\ hp[s] # "new" /\ ConnectingOf(s)
      /\ ap[s] # "none" /\ ap[s] # "over"
  <2>1. s \notin down /\ hp[s] # "new"
    BY <1>1, OwnBefore DEF Admit, HelloOK, ConnectRead, ConnectPush, Handler
  <2>2. ap[s] # "none" /\ ap[s] # "over"
    BY <1>1, <2>1 DEF Sequenced
  <2>. QED  BY <1>1, <2>1, <2>2, OwnBefore DEF Dial
<1>3. Quiet(s)' <=> Quiet(s)
  BY DEF Admit, HelloOK, ConnectRead, ConnectPush, Quiet
<1>4. CASE Admit(s)
  <2>1. hp[s] = "hello" /\ hp'[s] = "admitted" /\ agentGen'[s] = reported[s].gen
    BY <1>1, <1>4 DEF Admit, Handler, TypeOf
  <2>. QED  BY <1>2, <1>3, <1>4, <2>1 DEF Admit, ConnectingOf, ServingOf
<1>5. CASE HelloOK(s)
  <2>1. hp[s] = "admitted" /\ hp'[s] = "connecting" /\ s \notin seed
    BY <1>1, <1>5 DEF HelloOK, Handler, TypeOf, NothingEarlyOf
  <2>2. ap[s] # "serving" /\ (s \in seed' <=> stored.gen = 0)
    BY <1>1, <1>5, <2>1 DEF HelloOK, needsConfigSeed, Sequenced
  <2>. QED  BY <1>2, <1>3, <1>5, <2>1, <2>2 DEF HelloOK, ConnectingOf, ServingOf
<1>6. ASSUME hp[s] \in {"connecting", "reconciling"}
      PROVE  /\ toAgent[s] = <<>> /\ reader[s] = NoPush /\ ~HasAck(toGateway[s])
             /\ configGen = agentGen[s] /\ listeners = {} /\ (Quiet(s) => enabled = reported[s].set)
  BY <1>1, <1>2, <1>6 DEF NothingEarlyOf, ConnectingOf
<1>7. CASE ConnectRead(s) /\ stored.gen = 0
  <2>1. hp[s] = "connecting" /\ hp'[s] = "loop"
    BY <1>1, <1>7 DEF ConnectRead, Handler, TypeOf
  <2>2. stored.set = {} /\ configGen = 0
    BY <1>7 DEF OrderInv, Unseeded
  <2>3. AcksReach(toGateway[s], agentGen[s], stored.gen)
    BY <1>6, <1>7, <2>1, <2>2 DEF AcksReach, HasAck
  <2>4. s \in seed /\ (ap[s] = "serving" => ~Quiet(s))
    BY <1>2, <1>7, <2>1 DEF ConnectingOf, Quiet
  <2>5. Bound(stored.set \cap grant[s])
    BY <1>6, <2>1, <2>2 DEF Bound
  <2>6. ServingOf(s)'
    BY <1>3, <1>6, <1>7, <2>1, <2>2, <2>3, <2>4, <2>5 DEF ConnectRead, ServingOf, Bound
  <2>. QED  BY <2>1, <2>6 DEF ConnectingOf
<1>8. CASE ConnectRead(s) /\ stored.gen # 0
  <2>1. /\ hp[s] = "connecting" /\ hp'[s] = "reconciling"
        /\ job'[s] = [set |-> stored.set \cap grant[s], gen |-> stored.gen]
    BY <1>1, <1>8 DEF ConnectRead, Handler, TypeOf, validSpecs
  <2>2. s \notin seed
    BY <1>2, <1>8, <2>1 DEF ConnectingOf
  <2>3. configGen = reported[s].gen /\ agentGen[s] = reported[s].gen
    BY <1>2, <2>1 DEF ConnectingOf
  <2>. QED  BY <1>3, <1>6, <1>8, <2>1, <2>2, <2>3 DEF ConnectRead, ConnectingOf, ServingOf
<1>9. CASE ConnectPush(s)
  <2>. DEFINE T == stored.set \cap grant[s]
  <2>1. hp[s] = "reconciling" /\ hp'[s] = "loop"
    BY <1>1, <1>9 DEF ConnectPush, Handler, TypeOf
  <2>2. job[s] = [set |-> T, gen |-> stored.gen]
    BY <1>2, <2>1 DEF ConnectingOf
  <2>3. live = s /\ T \in SUBSET Tunnels /\ job[s].set = T /\ job[s].gen = stored.gen
    BY <1>1, <1>2, <2>1, <2>2 DEF OrderInv, LiveIsAdmitted, Admitted, TypeOf
  <2>4. Bound(stored.set \cap grant[s])'
    BY <1>1, <1>9, <2>3, ReconcileIs DEF ConnectPush, Bound
  <2>5. CASE InSync(s)
    <3>1. reported[s].set = T /\ agentGen[s] = stored.gen
      BY <2>3, <2>5 DEF InSync
    <3>2. AcksReach(toGateway[s], agentGen[s], stored.gen)
      BY <1>6, <2>1, <3>1 DEF AcksReach, HasAck
    <3>3. Quiet(s) => IsStored(s, enabled)
      BY <1>6, <2>1, <3>1 DEF IsStored
    <3>4. ServingOf(s)'
      BY <1>3, <1>6, <1>9, <2>1, <2>4, <2>5, <3>1, <3>2, <3>3 DEF ConnectPush, ServingOf, IsStored
    <3>. QED  BY <2>1, <3>4 DEF ConnectingOf
  <2>6. CASE ~InSync(s)
    <3>1. /\ toAgent'[s] # <<>>
          /\ toAgent'[s][Len(toAgent'[s])] = [set |-> T, gen |-> stored.gen]
      <4>1. Push(s, T, stored.gen) /\ stored.gen \in Nat
        BY <1>1, <1>9, <2>3, <2>6 DEF ConnectPush, TypeOf
      <4>. HIDE DEF T
      <4>. QED  BY <1>1, <1>2, <2>3, <4>1, PushedIs
    <3>2. stored' = stored /\ grant' = grant
      BY <1>9 DEF ConnectPush
    <3>3. ServingOf(s)'
      BY <2>1, <2>4, <3>1, <3>2 DEF ServingOf, IsStored
    <3>. QED  BY <2>1, <3>3 DEF ConnectingOf
  <2>. QED  BY <2>5, <2>6
<1>. QED  BY <1>4, <1>5, <1>7, <1>8, <1>9

\* The gateway's handler, once it reads messages.
LEMMA ServingHandler ==
  ASSUME OrderInv, SessionInv, NEW s \in Sessions, ~stray', Up(s)',
         RefuseProposal(s) \/ TakeProposal(s) \/ AdoptConfig(s) \/ ReceiveAck(s) \/ HandlerExit(s)
  PROVE  ConnectingOf(s)' /\ ServingOf(s)'
<1>. USE DEF gwVars, agentVars, linkVars, Early
<1>1. TypeOf(s) /\ OwnStep(s) /\ Sequenced /\ SyncTypeOK
  BY TypesAre DEF OrderInv, OwnStep, HandlerStep
<1>2. s \notin down /\ ap[s] # "none" /\ ServingOf(s)
  <2>1. s \notin down /\ hp[s] # "new" /\ ap[s] # "none"
    BY <1>1, OwnBefore
    DEF RefuseProposal, TakeProposal, AdoptConfig, ReceiveAck, HandlerExit, Handler, Sequenced
  <2>. QED  BY <1>1, <2>1, OwnBefore
<1>3. CASE RefuseProposal(s)
  <2>1. hp[s] = "loop" /\ hp' = hp /\ stored' = stored /\ grant' = grant /\ listeners' = listeners
    BY <1>3 DEF RefuseProposal
  <2>2. toAgent'[s] # <<>> /\ toAgent'[s][Len(toAgent'[s])] = [set |-> stored.set, gen |-> stored.gen]
    <3>1. Push(s, stored.set, stored.gen)
      BY <1>3 DEF RefuseProposal
    <3>. QED  BY <1>1, <1>2, <3>1, PushedIs DEF TypeOf
  <2>3. Bound(stored.set \cap grant[s])
    BY <1>2, <2>1 DEF ServingOf
  <2>4. ServingOf(s)'
    BY <2>1, <2>2, <2>3 DEF ServingOf, IsStored, Bound
  <2>. QED  BY <2>1, <2>4 DEF ConnectingOf
<1>4. CASE TakeProposal(s)
  <2>. DEFINE T == validSpecs(s, Head(toGateway[s]).set)
  <2>1. hp[s] = "loop" /\ hp'[s] = "storing"
    BY <1>1, <1>4 DEF TakeProposal, Handler, TypeOf
  <2>2. live = s
    BY <1>2, <2>1 DEF OrderInv, LiveIsAdmitted, Admitted
  <2>3. /\ toGateway[s] # <<>> /\ toGateway'[s] = Tail(toGateway[s])
        /\ Head(toGateway[s]) \in GatewayMsg /\ Head(toGateway[s]).type = "propose"
    BY <1>1, <1>4, ReceiveIs DEF TakeProposal
  <2>4. T \in SUBSET Tunnels /\ T \subseteq grant[s] /\ job'[s].set = T
    BY <1>1, <1>4, <2>3 DEF TakeProposal, GatewayMsg, validSpecs, TypeOf
  <2>5. reconcile(s, T) /\ grant' = grant /\ stored' = stored
    BY <1>4 DEF TakeProposal
  <2>. HIDE DEF T
  <2>6. Bound(job[s].set)'
    <3>1. listeners' \subseteq T /\ T \ Fragile \subseteq listeners'
      BY <1>1, <2>2, <2>4, <2>5, ReconcileIs
    <3>. QED  BY <2>4, <3>1 DEF Bound
  <2>7. \A a, g : AcksReach(toGateway[s], a, g) => AcksReach(toGateway'[s], a, g)
    BY <1>1, <2>3, ReceivedIs DEF TypeOf
  <2>8. ServingOf(s)'
    BY <1>2, <1>4, <2>1, <2>4, <2>5, <2>6, <2>7 DEF TakeProposal, ServingOf, IsStored
  <2>. QED  BY <2>1, <2>8 DEF ConnectingOf
<1>5. CASE AdoptConfig(s)
  <2>1. hp[s] = "storing" /\ hp'[s] = "loop" /\ stored'.set = job[s].set /\ stored'.gen = stored.gen + 1
        /\ listeners' = listeners /\ grant' = grant
    BY <1>1, <1>5 DEF AdoptConfig, Handler, TypeOf, SyncTypeOK
  <2>2. toAgent'[s] # <<>> /\ toAgent'[s][Len(toAgent'[s])] = [set |-> job[s].set, gen |-> stored.gen + 1]
    <3>1. Push(s, job[s].set, stored.gen + 1) /\ stored.gen + 1 \in Nat
      BY <1>1, <1>5 DEF AdoptConfig, TypeOf
    <3>. QED  BY <1>1, <1>2, <3>1, PushedIs DEF TypeOf
  <2>3. Bound(job[s].set) /\ job[s].set \cap grant[s] = job[s].set
    BY <1>2, <2>1 DEF ServingOf
  <2>4. ServingOf(s)'
    BY <2>1, <2>2, <2>3 DEF ServingOf, IsStored, Bound
  <2>. QED  BY <2>1, <2>4 DEF ConnectingOf
<1>6. CASE ReceiveAck(s)
  <2>1. hp[s] = "loop" /\ hp' = hp /\ agentGen'[s] = Head(toGateway[s]).gen
    BY <1>1, <1>6 DEF ReceiveAck, TypeOf
  <2>2. /\ toGateway[s] # <<>> /\ toGateway'[s] = Tail(toGateway[s])
        /\ Head(toGateway[s]) \in GatewayMsg /\ Head(toGateway[s]).type = "ack"
    BY <1>1, <1>6, ReceiveIs DEF ReceiveAck
  <2>3. /\ \A a, g : AcksReach(toGateway[s], a, g) => AcksReach(toGateway'[s], agentGen'[s], g)
        /\ HasProposal(toGateway[s]) <=> HasProposal(toGateway'[s])
    BY <1>1, <2>1, <2>2, ReceivedIs DEF TypeOf
  <2>4. Quiet(s)' <=> Quiet(s)
    BY <1>6, <2>3 DEF ReceiveAck, Quiet
  <2>5. ServingOf(s)'
    BY <1>2, <1>6, <2>1, <2>3, <2>4 DEF ReceiveAck, ServingOf, IsStored, Bound
  <2>. QED  BY <2>1, <2>5 DEF ConnectingOf
<1>7. ~HandlerExit(s)
  BY <1>2 DEF HandlerExit
<1>. QED  BY <1>3, <1>4, <1>5, <1>6, <1>7

\* The agent's reader.
LEMMA ServingReader ==
  ASSUME OrderInv, SessionInv, NEW s \in Sessions, ~stray', Up(s)', ReaderStep(s)
  PROVE  ConnectingOf(s)' /\ ServingOf(s)'
<1>. USE DEF gwVars, agentVars, linkVars, Early
<1>1. TypeOf(s) /\ OwnStep(s) /\ NothingEarlyOf(s) /\ Sequenced /\ SyncTypeOK
  BY TypesAre DEF OrderInv, OwnStep, NothingEarly
<1>2. hp[s] \in {"loop", "storing"} /\ hp' = hp /\ s \notin down /\ ServingOf(s)
  <2>1. toAgent[s] # <<>> \/ reader[s] # NoPush
    BY DEF ReaderStep, PushSwap, PushApply
  <2>2. hp[s] \notin Early \cup {"new"}
    BY <1>1, <2>1 DEF NothingEarlyOf
  <2>3. s \notin down /\ hp[s] # "done"
    BY <1>1, OwnBefore
  <2>4. hp[s] \in {"loop", "storing"} /\ ap[s] # "none"
    BY <1>1, <2>2, <2>3 DEF TypeOf, Sequenced
  <2>5. ServingOf(s)
    BY <1>1, <2>4, OwnBefore
  <2>. QED  BY <2>3, <2>4, <2>5 DEF ReaderStep, PushSwap, PushApply
<1>3. CASE PushSwap(s)
  <2>. DEFINE m == Head(toAgent[s])
  <2>1. toAgent[s] # <<>> /\ toAgent'[s] = Tail(toAgent[s]) /\ enabled' = m.set
        /\ reader'[s] = [set |-> m.set, gen |-> m.gen, gone |-> enabled \ m.set]
    BY <1>1, <1>3 DEF PushSwap, TypeOf
  <2>2. m.gen # 0
    <3>1. m = toAgent[s][1] /\ 1 \in DOMAIN toAgent[s]
      BY <1>1, <2>1, TailIs DEF TypeOf
    <3>. QED  BY <1>1, <3>1 DEF NothingEarlyOf
  <2>3. /\ toAgent'[s] # <<>> => toAgent'[s][Len(toAgent'[s])] = toAgent[s][Len(toAgent[s])]
        /\ toAgent'[s] = <<>> => m = toAgent[s][Len(toAgent[s])]
    BY <1>1, <2>1, LastIs DEF TypeOf
  <2>4. reader'[s].gen = m.gen /\ reader'[s] # NoPush
    BY <2>1, <2>2 DEF NoPush
  <2>. HIDE DEF m
  <2>5. ServingOf(s)'
    BY <1>2, <1>3, <2>1, <2>3, <2>4 DEF PushSwap, ServingOf, IsStored, Bound
  <2>. QED  BY <1>2, <2>5 DEF ConnectingOf
<1>4. CASE PushApply(s)
  <2>1. /\ reader[s] # NoPush /\ reader'[s] = NoPush /\ configGen' = reader[s].gen
        /\ reader[s].gen \in Nat /\ toAgent' = toAgent
    BY <1>1, <1>4 DEF PushApply, TypeOf, SyncTypeOK
  <2>2. toGateway'[s] = Append(toGateway[s], Ack(reader[s].gen))
    BY <1>1, <1>2, <1>4, <2>1, AckIs DEF PushApply
  <2>3. /\ HasProposal(toGateway'[s]) <=> HasProposal(toGateway[s])
        /\ \A a : AcksReach(toGateway'[s], a, reader[s].gen)
    BY <1>1, <2>1, <2>2, AckedIs DEF TypeOf
  <2>4. Quiet(s)' <=> Quiet(s)
    BY <1>4, <2>3 DEF PushApply, Quiet
  <2>5. ServingOf(s)'
    BY <1>2, <1>4, <2>1, <2>3, <2>4 DEF PushApply, ServingOf, IsStored, Bound
  <2>. QED  BY <1>2, <2>5 DEF ConnectingOf
<1>. QED  BY <1>3, <1>4 DEF ReaderStep

\* Steps of other sessions.
LEMMA ServingOthers ==
  ASSUME OrderInv, SessionInv, NEW s \in Sessions, NEW r \in Sessions \ {s}, OwnStep(r), ~stray', Up(s)'
  PROVE  ConnectingOf(s)' /\ ServingOf(s)'
<1>. USE DEF Early
<1>1. down \subseteq down' /\ ~stray
  BY OwnKeeps
<1>2. Untouched(s)
  BY OthersUntouched DEF OrderInv
<1>3. Up(s) /\ s \notin down'
  BY <1>1, <1>2 DEF Up, Untouched
<1>4. ConnectingOf(s) /\ ServingOf(s)
  BY <1>1, <1>3 DEF SessionInv
<1>5. /\ UNCHANGED <<enabled, configGen, edit, offline>>
      /\ hp[s] # "hello" => UNCHANGED <<stored, listeners>>
  BY <1>3, OthersAtRest
<1>6. Quiet(s)' <=> Quiet(s)
  BY <1>2, <1>5 DEF Untouched, Quiet, HasProposal
<1>7. CASE hp[s] = "hello"
  <2>1. hp'[s] = "hello" /\ reported'[s] = reported[s]
    BY <1>2, <1>7 DEF Untouched
  <2>2. ConnectingOf(s)'
    BY <1>4, <1>5, <1>6, <1>7, <2>1 DEF ConnectingOf
  <2>. QED  BY <2>1, <2>2 DEF ServingOf
<1>8. CASE hp[s] # "hello"
  <2>1. UNCHANGED <<stored, listeners>>
    BY <1>5, <1>8
  <2>2. ConnectingOf(s)'
    BY <1>2, <1>4, <1>5, <1>6, <2>1 DEF Untouched, ConnectingOf, HasProposal
  <2>3. ServingOf(s)'
    BY <1>2, <1>4, <1>5, <1>6, <2>1 DEF Untouched, ServingOf, AcksReach, HasAck, IsStored, Bound
  <2>. QED  BY <2>2, <2>3
<1>. QED  BY <1>7, <1>8

\* A step for no session in particular.
LEMMA ServingRest ==
  ASSUME OrderInv, SessionInv, NEW s \in Sessions, ~stray', Up(s)',
         \/ \E sc \in Scopes : SetAgentScope(sc)
         \/ \E T \in Sets : EditSwap(T)
         \/ EditStep \/ RestartAgent \/ UNCHANGED syncVars
  PROVE  ConnectingOf(s)' /\ ServingOf(s)'
<1>. USE DEF gwVars, agentVars, linkVars, Early
<1>1. Up(s) /\ ~stray
  BY DEF SetAgentScope, EditSwap, EditStep, EditForget, EditPropose, RestartAgent, syncVars, Up
<1>2. TypeOf(s) /\ ConnectingOf(s) /\ ServingOf(s) /\ SyncTypeOK /\ Sequenced /\ LiveIsAdmitted
  BY <1>1, TypesAre DEF OrderInv, SessionInv
<1>3. ASSUME NEW sc \in Scopes, SetAgentScope(sc) PROVE ConnectingOf(s)' /\ ServingOf(s)'
  <2>1. live # s
    BY <1>3, SessionsAre DEF SetAgentScope, Displaced, Up
  <2>2. hp[s] = "hello"
    BY <1>1, <1>2, <2>1 DEF LiveIsAdmitted, Admitted, Up, Sequenced, TypeOf
  <2>3. hp'[s] = "hello" /\ (Quiet(s)' <=> Quiet(s))
    BY <1>3, <2>2 DEF SetAgentScope, Quiet
  <2>4. ConnectingOf(s)'
    BY <1>2, <1>3, <2>2, <2>3 DEF SetAgentScope, ConnectingOf
  <2>. QED  BY <2>3, <2>4 DEF ServingOf
<1>4. ASSUME NEW T \in Sets, EditSwap(T) PROVE ConnectingOf(s)' /\ ServingOf(s)'
  <2>1. ~Quiet(s)'
    BY <1>4 DEF EditSwap, Quiet
  <2>. QED
    BY <1>2, <1>4, <2>1 DEF EditSwap, ConnectingOf, ServingOf, HasProposal, AcksReach, HasAck, IsStored, Bound
<1>5. ASSUME EditForget PROVE ConnectingOf(s)' /\ ServingOf(s)'
  <2>1. ~Quiet(s)'
    BY <1>2, <1>5 DEF EditForget, Quiet, SyncTypeOK
  <2>. QED
    BY <1>2, <1>5, <2>1 DEF EditForget, ConnectingOf, ServingOf, HasProposal, AcksReach, HasAck, IsStored, Bound
<1>6. ASSUME EditPropose PROVE ConnectingOf(s)' /\ ServingOf(s)'
  <2>1. CASE cur = Nobody
    <3>1. ~Quiet(s)' /\ toGateway' = toGateway
      BY <1>6, <2>1 DEF EditPropose, Quiet
    <3>. QED
      BY <1>2, <1>6, <3>1 DEF EditPropose, ConnectingOf, ServingOf, HasProposal, AcksReach, HasAck, IsStored, Bound
  <2>2. CASE cur # Nobody
    <3>1. cur = s /\ s \notin down /\ edit.set \in SUBSET Tunnels
      BY <1>1, <1>2, <2>2, OneIsUp DEF Up, SyncTypeOK
    <3>2. toGateway'[s] = Append(toGateway[s], Propose(edit.set))
      BY <1>2, <1>6, <2>2, <3>1, ProposeIs DEF EditPropose
    <3>3. /\ HasProposal(toGateway'[s])
          /\ \A a, g : AcksReach(toGateway[s], a, g) => AcksReach(toGateway'[s], a, g)
      BY <1>2, <3>1, <3>2, ProposedIs DEF TypeOf
    <3>4. ~Quiet(s)'
      BY <3>3 DEF Quiet
    <3>. QED  BY <1>2, <1>6, <3>3, <3>4 DEF EditPropose, ConnectingOf, ServingOf, IsStored, Bound
  <2>. QED  BY <2>1, <2>2
<1>7. ~RestartAgent
  <2>1. ap[s] # "none" /\ ap[s] # "over"
    BY <1>1, <1>2 DEF Up, Sequenced
  <2>. QED  BY <2>1 DEF RestartAgent
<1>8. CASE UNCHANGED syncVars
  BY <1>2, <1>8 DEF syncVars, ConnectingOf, ServingOf, Quiet, HasProposal, AcksReach, HasAck, IsStored, Bound
<1>. QED  BY <1>3, <1>4, <1>5, <1>6, <1>7, <1>8 DEF EditStep

\* Each action keeps what is said of the session that is up.
LEMMA SessionStep == OrderInv /\ SessionInv /\ [SyncNext]_syncVars => SessionInv'
<1> SUFFICES ASSUME OrderInv, SessionInv, [SyncNext]_syncVars, ~stray', NEW s \in Sessions, Up(s)'
             PROVE  ConnectingOf(s)' /\ ServingOf(s)'
  BY DEF SessionInv
<1>1. ASSUME NEW r \in Sessions, OwnStep(r) PROVE ConnectingOf(s)' /\ ServingOf(s)'
  <2>1. CASE r # s
    BY <1>1, <2>1, ServingOthers
  <2>2. CASE r = s /\ (Dial(s) \/ AgentStep(s))
    BY <2>2, ConnectingAgent
  <2>3. CASE r = s /\ HandlerStep(s)
    BY <2>3, ConnectingHandler, ServingHandler DEF HandlerStep
  <2>4. CASE r = s /\ ReaderStep(s)
    BY <2>4, ServingReader
  <2>5. CASE r = s /\ LinkLost(s)
    BY <2>5 DEF LinkLost, Up
  <2>. QED  BY <1>1, <2>1, <2>2, <2>3, <2>4, <2>5 DEF OwnStep
<1>2. CASE \E r \in Sessions : OwnStep(r)
  BY <1>1, <1>2
<1>3. CASE \/ \E sc \in Scopes : SetAgentScope(sc)
           \/ \E T \in Sets : EditSwap(T)
           \/ EditStep \/ RestartAgent \/ UNCHANGED syncVars
  BY <1>3, ServingRest
<1>. QED  BY <1>2, <1>3 DEF SyncNext, OwnStep

-----------------------------------------------------------------------------
(* The theorem.                                                            *)

\* With nothing under way, what is said of the session that is up is the agreement.
LEMMA SettledAreOfOneMind == OrderInv /\ SessionInv => AllAgree
<1> SUFFICES ASSUME OrderInv, SessionInv, Settled, ~stray
             PROVE  /\ Bound(stored.set \cap grant[live])
                    /\ configGen = agentGen[live] /\ agentGen[live] = stored.gen
                    /\ ~offline => IsStored(live, enabled)
  BY DEF AllAgree, OrderInv, ListenersAreStored, EndsAgree, Bound, IsStored
<1>1. /\ live \in Sessions /\ Up(live) /\ ap[live] = "serving"
      /\ reader[live] = NoPush /\ hp[live] \in {"new", "loop", "done"}
      /\ toGateway[live] = <<>> /\ toAgent[live] = <<>> /\ edit.at = "idle"
  BY DEF Settled, Up, OrderInv, SyncTypeOK
<1>2. hp[live] = "loop"
  BY <1>1 DEF OrderInv, LiveIsAdmitted, Admitted
<1>3. ServingOf(live)
  BY <1>1 DEF SessionInv
<1>4. ~offline => Quiet(live)
  BY <1>1, NoneIs DEF Quiet
<1>5. configGen = stored.gen /\ agentGen[live] = stored.gen
  BY <1>1, <1>2, <1>3, NoneIs DEF ServingOf
<1>. QED  BY <1>1, <1>2, <1>3, <1>4, <1>5 DEF ServingOf

\* When proposals, refusals and pushes have come to rest, the record, the session,
\* the agent and the listeners agree (gateway.go adoptProposal, pushConfigOnConnect
\* and handleControlMsg; hotapply.go ApplyTunnels and applyPushedConfig), with any
\* number of sessions, edits, changes of the scope, lost links and restarts.
THEOREM SettledAgree == SyncSpec => []AllAgree
<1>1. SyncInit => OrderInv /\ SessionInv
  <2>1. SyncInit => SessionInv
    BY DEF SyncInit, SessionInv, Up
  <2>. QED  BY <2>1, OrderInit
<1>2. (OrderInv /\ SessionInv) /\ [SyncNext]_syncVars => (OrderInv /\ SessionInv)'
  BY OrderStep, SessionStep
<1>3. OrderInv /\ SessionInv => AllAgree
  BY SettledAreOfOneMind
<1>. QED  BY <1>1, <1>2, <1>3, PTL DEF SyncSpec

-----------------------------------------------------------------------------
(* The console.                                                            *)

\* A switch of roles that is to save a configuration has read one.
SwitcherHasRead == sw.target = "agent" => sw.read \in Setup

\* A configuration in memory that validates is the one in the file, and an engine
\* of this process runs one; an attached app and one that has not begun have none.
EngineInv ==
  /\ Valid(cfg) => cfg = disk
  /\ engine # "none" => Valid(cfg) /\ (runs = cfg.role \/ sw.target = "saved")
  /\ mode = "attached" \/ phase = "cold" => engine = "none"
  /\ phase = "cold" => mode # "engine"

\* A code that is asked for is asked for by the step on display, in its kind.
CodeInv ==
  /\ ask # "none" => LiveGateway(status, hold, wiz) /\ ask = CodeKind(wiz.reusable)
  /\ CodeFitsToggle

\* Nothing is asked of the app before the window is on screen.
ShellInv == phase # "mounted" => status = None /\ call = None /\ sw.target = None

ConsoleInv ==
  TypeOK /\ SwitcherHasRead /\ ShellInv /\ ScreenFitsRole /\ EngineInv /\ CodeInv

-----------------------------------------------------------------------------
(* A render.                                                               *)

Views == <<status, nav, hold, deepLink, wiz, ask, late>>

ViewTypeOK ==
  /\ status \in Snapshot \cup {None} /\ nav \in Screens
  /\ hold \in BOOLEAN /\ deepLink \in Codes \cup {None}
  /\ wiz \in Wizard
  /\ ask \in {"none", "single", "reusable"} /\ late \in {"none", "single", "reusable"}

SwitcherTypeOK ==
  sw \in [paired : BOOLEAN, target : {None, "agent", "gateway", "saved"}, read : Setup \cup {None}]

\* What any render leaves behind: a screen that its role has, a switcher as far as it
\* was, and no code but of the kind that the toggle asks for.
LEMMA RenderKeeps ==
  ASSUME TypeOK, CodeInv, cfg' \in Setup,
         NEW st \in Snapshot \cup {None}, NEW h \in BOOLEAN, NEW url \in Codes \cup {None},
         NEW n \in Screens, NEW w \in Wizard, NEW again \in BOOLEAN,
         again \/ (w.code = wiz.code /\ w.reusable = wiz.reusable),
         Render(st, h, url, n, w, again)
  PROVE  /\ ViewTypeOK' /\ SwitcherTypeOK' /\ ScreenFitsRole' /\ CodeInv'
         /\ sw'.target = sw.target /\ sw'.read = sw.read
<1>. DEFINE held == h \/ (Unconfigured(st) /\ ~Unconfigured(status))
            shown == ShowsWizard(st, held)
            fresh == shown /\ ~ShowsWizard(status, hold)
            next == IF ~shown THEN FreshWizard
                    ELSE IF fresh THEN FollowLink(FreshWizard, url)
                    ELSE IF url # deepLink THEN FollowLink(w, url) ELSE w
            was == LiveGateway(status, hold, wiz)
            is == LiveGateway(st, held, next)
            enters == is /\ (again \/ ~was)
<1>1. /\ status' = st /\ hold' = held /\ deepLink' = url /\ nav' = Reachable(st, n)
      /\ wiz' = IF enters THEN [next EXCEPT !.code = "none", !.reusable = w.reusable /\ was]
                ELSE [next EXCEPT !.code = IF is THEN @ ELSE "none", !.reusable = @ /\ is]
      /\ sw' = IF ShowsConsole(st, held) /\ (~ShowsConsole(status, hold) \/ st.role # status.role)
               THEN [sw EXCEPT !.paired = cfg'.agent \in TokenCodes]
               ELSE [sw EXCEPT !.paired = @ /\ ShowsConsole(st, held)]
      /\ ask' = IF enters THEN CodeKind(w.reusable /\ was) ELSE IF is THEN ask ELSE "none"
      /\ late' = IF ~is \/ ~was THEN "none" ELSE IF again /\ ask # "none" THEN ask ELSE late
  BY DEF Render
<1>2. held \in BOOLEAN /\ is \in BOOLEAN /\ was \in BOOLEAN /\ enters \in BOOLEAN
  BY DEF Unconfigured, LiveGateway, ShowsWizard
<1>3. next \in Wizard
  BY DEF FreshWizard, FollowLink, Wizard
<1>4. is => next = w
  BY DEF LiveGateway, FreshWizard, FollowLink, Wizard
<1>. HIDE DEF held, shown, fresh, next, was, is, enters
<1>5. sw' \in [paired : BOOLEAN, target : {None, "agent", "gateway", "saved"}, read : Setup \cup {None}]
      /\ sw'.target = sw.target /\ sw'.read = sw.read
  <2>1. PICK p \in BOOLEAN : sw' = [sw EXCEPT !.paired = p]
    <3>1. /\ (cfg'.agent \in TokenCodes) \in BOOLEAN
          /\ (sw.paired /\ ShowsConsole(st, held)) \in BOOLEAN
      OBVIOUS
    <3>. QED  BY <1>1, <3>1, Zenon
  <2>. QED  BY <2>1 DEF TypeOK
<1>6. /\ wiz' \in Wizard /\ wiz'.act = next.act /\ wiz'.kind = next.kind
      /\ wiz'.code = IF is /\ ~enters THEN next.code ELSE "none"
      /\ wiz'.reusable = IF enters THEN w.reusable /\ was ELSE next.reusable /\ is
  BY <1>1, <1>2, <1>3 DEF Wizard
<1>7. LiveGateway(status', hold', wiz') <=> is
  BY <1>1, <1>6 DEF LiveGateway, is
<1>8. ask' \in {"none", "single", "reusable"} /\ late' \in {"none", "single", "reusable"}
  BY <1>1 DEF TypeOK, CodeKind
<1>9. ScreenFitsRole'
  BY <1>1 DEF ScreenFitsRole, Reachable, Rail, Screens, ShowsConsole
<1>10. nav' \in Screens
  BY <1>1 DEF Reachable, Screens
<1>11. CodeInv'
  <2>1. CASE enters
    BY <1>1, <1>2, <1>6, <1>7, <2>1 DEF CodeInv, CodeFitsToggle, enters
  <2>2. CASE ~enters /\ is
    <3>1. w.code = wiz.code /\ w.reusable = wiz.reusable /\ was /\ next = w
      BY <1>4, <2>2 DEF enters
    <3>2. wiz.reusable \in BOOLEAN
      BY DEF TypeOK, Wizard
    <3>3. ask' = ask /\ wiz'.code = wiz.code /\ wiz'.reusable = wiz.reusable
      BY <1>1, <1>6, <2>2, <3>1, <3>2
    <3>. QED  BY <1>7, <2>2, <3>1, <3>3 DEF CodeInv, CodeFitsToggle, was
  <2>3. CASE ~is
    BY <1>1, <1>7, <2>3 DEF CodeInv, CodeFitsToggle, enters
  <2>. QED  BY <2>1, <2>2, <2>3
<1>. QED
  BY <1>1, <1>2, <1>5, <1>6, <1>8, <1>9, <1>10, <1>11 DEF ViewTypeOK, SwitcherTypeOK

-----------------------------------------------------------------------------
(* The app object.                                                         *)

AppTypeOK ==
  /\ mode \in {"wizard", "engine", "attached"} /\ cfg \in Setup /\ disk \in Setup
  /\ engine \in {"none", "up", "dead"} /\ runs \in Roles /\ link \in BOOLEAN

\* The facts of EngineInv when no switch is about to restart the engine. A bound
\* call that starts or stops it brings them about, whatever they were.
Fresh ==
  /\ Valid(cfg) => cfg = disk
  /\ engine # "none" => Valid(cfg) /\ runs = cfg.role
  /\ mode = "attached" => engine = "none"

LEMMA StartIs ==
  ASSUME NEW c \in Setup, NEW m \in {"wizard", "attached"}, Start(c, m)
  PROVE  /\ engine' \in {"none", "up"} /\ runs' \in Roles /\ link' \in BOOLEAN
         /\ mode' \in {"wizard", "engine", "attached"}
         /\ engine' # "none" => runs' = c.role /\ mode' = "engine"
  BY DEF Start, Setup, Roles

LEMMA AdoptIs ==
  ASSUME TypeOK, EngineInv, NEW c \in Setup, Adopt(c)
  PROVE  AppTypeOK' /\ (Fresh' \/ NoChange)
<1>1. CASE mode = "attached"
  BY <1>1 DEF Adopt, NoChange, TypeOK, AppTypeOK
<1>2. CASE mode # "attached" /\ Valid(c)
  <2>1. cfg' = c /\ disk' = c /\ Start(c, "wizard")
    BY <1>2 DEF Adopt
  <2>. QED  BY <1>2, <2>1, StartIs DEF AppTypeOK, Fresh, Valid
<1>3. CASE mode # "attached" /\ ~Valid(c)
  <2>1. cfg' = c /\ disk' = disk /\ Stop
    BY <1>3 DEF Adopt
  <2>2. ~Valid(cfg)'
    BY <1>3, <2>1 DEF Valid
  <2>. QED  BY <2>1, <2>2 DEF Stop, TypeOK, AppTypeOK, Fresh, Roles
<1>. QED  BY <1>1, <1>2, <1>3

LEMMA ImportIs ==
  ASSUME TypeOK, EngineInv, NEW file \in Backups, ImportSetup(file)
  PROVE  AppTypeOK' /\ (Fresh' \/ NoChange)
<1>1. file \in Setup /\ Valid(file)
  BY ConsoleAssumption
<1>2. CASE NoChange
  BY <1>2 DEF NoChange, TypeOK, AppTypeOK
<1>3. CASE Stop /\ UNCHANGED <<cfg, disk>>
  BY <1>3 DEF Stop, TypeOK, AppTypeOK, Fresh, Roles, EngineInv, Valid
<1>4. CASE cfg' = file /\ disk' = file /\ Start(file, "wizard")
  BY <1>1, <1>4, StartIs DEF AppTypeOK, Fresh, Valid
<1>. QED  BY <1>2, <1>3, <1>4 DEF ImportSetup

LEMMA RestartIs ==
  ASSUME TypeOK, EngineInv, RestartEngine
  PROVE  AppTypeOK' /\ Fresh'
<1>1. CASE mode = "attached"
  BY <1>1 DEF RestartEngine, NoChange, TypeOK, AppTypeOK, Fresh, EngineInv, Valid
<1>2. CASE mode # "attached" /\ cfg.role # "unset" /\ Valid(cfg)
  <2>1. UNCHANGED <<cfg, disk>> /\ Start(cfg, "wizard") /\ cfg \in Setup
    BY <1>2 DEF RestartEngine, TypeOK
  <2>. QED  BY <1>2, <2>1, StartIs DEF TypeOK, AppTypeOK, Fresh, EngineInv, Valid
<1>3. CASE mode # "attached" /\ ~(cfg.role # "unset" /\ Valid(cfg))
  BY <1>3 DEF RestartEngine, Stop, TypeOK, AppTypeOK, Fresh, EngineInv, Valid, Roles
<1>. QED  BY <1>1, <1>2, <1>3

LEMMA PollIs ==
  ASSUME TypeOK, EngineInv, Poll
  PROVE  AppTypeOK' /\ daemon' \in {"none", "up", "lost"} /\ (Fresh' \/ NoChange)
<1>1. CASE mode = "attached" /\ daemon = "lost" /\ cfg.role # "unset" /\ Valid(cfg)
  <2>1. UNCHANGED <<cfg, disk>> /\ daemon' = "none" /\ Start(cfg, "attached") /\ cfg \in Setup
    BY <1>1 DEF Poll, TypeOK
  <2>. QED  BY <1>1, <2>1, StartIs DEF TypeOK, AppTypeOK, Fresh, EngineInv, Valid
<1>2. CASE mode = "attached" /\ daemon = "lost" /\ ~(cfg.role # "unset" /\ Valid(cfg))
  BY <1>2 DEF Poll, TypeOK, AppTypeOK, Fresh, EngineInv, Valid
<1>3. CASE ~(mode = "attached" /\ daemon = "lost")
  BY <1>3 DEF Poll, TypeOK, AppTypeOK, NoChange
<1>. QED  BY <1>1, <1>2, <1>3

\* Either way the facts about the engine are kept, once the app has begun, by a step
\* that drops no restart that is due.
LEMMA EngineKept ==
  ASSUME EngineInv, phase' # "cold", Fresh' \/ NoChange, sw.target = "saved" => sw'.target = "saved"
  PROVE  EngineInv'
<1>1. CASE Fresh'
  BY <1>1 DEF Fresh, EngineInv
<1>2. CASE NoChange
  BY <1>2 DEF NoChange, EngineInv, Valid
<1>. QED  BY <1>1, <1>2

-----------------------------------------------------------------------------
(* The steps.                                                              *)

\* A step of the app that draws nothing.
LEMMA Undrawn ==
  ASSUME ConsoleInv, UNCHANGED Views
  PROVE  ViewTypeOK' /\ ScreenFitsRole' /\ CodeInv'
BY DEF ConsoleInv, Views, ViewTypeOK, TypeOK, ScreenFitsRole, ShowsConsole, ShowsWizard, Unconfigured,
       CodeInv, CodeFitsToggle, LiveGateway

\* The types, put together again.
LEMMA TypeFrom ==
  ASSUME AppTypeOK', ViewTypeOK', SwitcherTypeOK',
         phase' \in {"cold", "started", "mounted"}, daemon' \in {"none", "up", "lost"},
         stash' \in Codes \cup {None}, links' \in 0..MaxLinks, morph' \in Screens \cup {None},
         call' \in {None, "gateway"} \cup Codes
  PROVE  TypeOK'
BY DEF AppTypeOK, ViewTypeOK, SwitcherTypeOK, TypeOK

\* A render and a step of the app at most, once the window is on screen.
LEMMA DrawnStep ==
  ASSUME ConsoleInv, phase = "mounted", phase' = "mounted",
         AppTypeOK', Fresh' \/ NoChange,
         daemon' \in {"none", "up", "lost"}, UNCHANGED <<stash, morph>>, links' \in 0..MaxLinks,
         call' \in {None, "gateway"} \cup Codes,
         NEW st \in Snapshot \cup {None}, NEW h \in BOOLEAN, NEW url \in Codes \cup {None},
         NEW n \in Screens, NEW w \in Wizard, NEW again \in BOOLEAN,
         again \/ (w.code = wiz.code /\ w.reusable = wiz.reusable),
         Render(st, h, url, n, w, again)
  PROVE  ConsoleInv'
<1>1. TypeOK /\ CodeInv /\ EngineInv /\ cfg' \in Setup
  BY DEF ConsoleInv, AppTypeOK
<1>2. /\ ViewTypeOK' /\ SwitcherTypeOK' /\ ScreenFitsRole' /\ CodeInv'
      /\ sw'.target = sw.target /\ sw'.read = sw.read
  BY <1>1, RenderKeeps
<1>3. stash' \in Codes \cup {None} /\ morph' \in Screens \cup {None}
  BY <1>1 DEF TypeOK
<1>4. TypeOK'
  BY <1>2, <1>3, TypeFrom
<1>5. EngineInv'
  BY <1>1, <1>2, EngineKept
<1>6. SwitcherHasRead' /\ ShellInv'
  BY <1>2 DEF ConsoleInv, SwitcherHasRead, ShellInv
<1>. QED  BY <1>2, <1>4, <1>5, <1>6 DEF ConsoleInv

\* A step of the app alone, once the window is on screen.
LEMMA UndrawnStep ==
  ASSUME ConsoleInv, phase = "mounted", Keeps, UNCHANGED Views, UNCHANGED call,
         AppTypeOK', Fresh' \/ NoChange, SwitcherTypeOK', SwitcherHasRead',
         Fresh' \/ (sw.target = "saved" => sw'.target = "saved")
  PROVE  ConsoleInv'
<1>1. TypeOK /\ EngineInv
  BY DEF ConsoleInv
<1>2. ViewTypeOK' /\ ScreenFitsRole' /\ CodeInv'
  BY Undrawn
<1>3. TypeOK'
  BY <1>1, <1>2, TypeFrom DEF Keeps, TypeOK
<1>4. EngineInv'
  <2>1. CASE Fresh'
    BY <2>1 DEF Fresh, EngineInv, Keeps
  <2>2. CASE ~Fresh'
    BY <1>1, <2>2, EngineKept DEF Keeps
  <2>. QED  BY <2>1, <2>2
<1>. QED  BY <1>2, <1>3, <1>4 DEF ConsoleInv, ShellInv, Keeps

\* What the arguments of a render are.
LEMMA RenderArgs ==
  ASSUME TypeOK
  PROVE  /\ status \in Snapshot \cup {None} /\ hold \in BOOLEAN /\ deepLink \in Codes \cup {None}
         /\ nav \in Screens /\ wiz \in Wizard /\ None \in Codes \cup {None}
         /\ TRUE \in BOOLEAN /\ FALSE \in BOOLEAN /\ links \in 0..MaxLinks
         /\ call \in {None, "gateway"} \cup Codes /\ daemon \in {"none", "up", "lost"}
         /\ Idle => AppTypeOK' /\ NoChange
         /\ Seen \in Snapshot
<1>1. Idle => AppTypeOK' /\ NoChange
  BY DEF TypeOK, Idle, AppTypeOK, NoChange
<1>2. Seen \in Snapshot
  <2>1. cfg.role \in Roles /\ mode \in {"wizard", "engine", "attached"} /\ link \in BOOLEAN
    BY DEF TypeOK, Setup
  <2>2. (mode = "engine" /\ engine = "dead") \in BOOLEAN
    OBVIOUS
  <2>. QED  BY <2>1, <2>2 DEF Seen, Snapshot
<1>. QED  BY <1>1, <1>2 DEF TypeOK

LEMMA MountedWhen ==
  ASSUME ConsoleInv
  PROVE  status # None \/ call # None \/ sw.target # None => phase = "mounted"
BY DEF ConsoleInv, ShellInv

LEMMA ConsoleStep == ConsoleInv /\ [Next]_vars => ConsoleInv'
<1> SUFFICES ASSUME ConsoleInv, [Next]_vars PROVE ConsoleInv'
  OBVIOUS
<1>0. TypeOK /\ EngineInv /\ CodeInv /\ ShellInv /\ SwitcherHasRead /\ ScreenFitsRole
  BY DEF ConsoleInv
<1>. DEFINE Same(w) == w \in Wizard /\ w.code = wiz.code /\ w.reusable = wiz.reusable
<1>a. /\ Same(wiz) /\ [wiz EXCEPT !.reusable = ~@] \in Wizard
      /\ \A a \in {"role", "gateway", "agent", "import", "live"} : Same([wiz EXCEPT !.act = a])
      /\ \A b \in BOOLEAN : Same([wiz EXCEPT !.busy = b])
      /\ \A k \in {"gateway", "agent"} : Same([wiz EXCEPT !.busy = FALSE, !.act = "live", !.kind = k])
  <2>1. wiz \in Wizard /\ (~wiz.reusable) \in BOOLEAN
    BY <1>0 DEF TypeOK
  <2>2. [wiz EXCEPT !.reusable = ~@] \in Wizard
    BY <2>1 DEF Wizard
  <2>3. \A a \in {"role", "gateway", "agent", "import", "live"} : Same([wiz EXCEPT !.act = a])
    BY <2>1 DEF Wizard
  <2>4. \A b \in BOOLEAN : Same([wiz EXCEPT !.busy = b])
    BY <2>1 DEF Wizard
  <2>5. \A k \in {"gateway", "agent"} : Same([wiz EXCEPT !.busy = FALSE, !.act = "live", !.kind = k])
    BY <2>1 DEF Wizard
  <2>. QED  BY <2>1, <2>2, <2>3, <2>4, <2>5
<1>. HIDE DEF Same
\* What most of the wizard's and the console's steps are.
<1>b. ASSUME Keeps, phase = "mounted", AppTypeOK', Fresh' \/ NoChange,
             call' \in {None, "gateway"} \cup Codes, NEW w, Same(w), InWizard(w)
      PROVE  ConsoleInv'
  BY <1>0, <1>b, RenderArgs, DrawnStep DEF InWizard, Same, Keeps
<1>1. CASE Boot
  <2>1. phase = "cold" /\ phase' = "started" /\ engine = "none" /\ mode # "engine"
    BY <1>0, <1>1 DEF Boot, EngineInv
  <2>2. UNCHANGED <<cfg, disk, daemon, stash, links, Views, morph, call, sw>>
    BY <1>1 DEF Boot, Views
  <2>3. AppTypeOK' /\ Fresh'
    <3>1. CASE daemon = "up"
      BY <1>0, <1>1, <2>1, <3>1 DEF Boot, TypeOK, AppTypeOK, Fresh, EngineInv, Valid
    <3>2. CASE daemon # "up" /\ cfg.role # "unset" /\ Valid(cfg)
      <4>1. Start(cfg, "wizard") /\ cfg \in Setup
        BY <1>0, <1>1, <3>2 DEF Boot, TypeOK
      <4>. QED  BY <1>0, <2>2, <3>2, <4>1, StartIs DEF TypeOK, AppTypeOK, Fresh, EngineInv, Valid
    <3>3. CASE daemon # "up" /\ ~(cfg.role # "unset" /\ Valid(cfg))
      BY <1>0, <1>1, <2>1, <3>3 DEF Boot, TypeOK, AppTypeOK, Fresh, EngineInv, Valid
    <3>. QED  BY <3>1, <3>2, <3>3
  <2>4. ViewTypeOK' /\ ScreenFitsRole' /\ CodeInv'
    BY <2>2, Undrawn
  <2>5. TypeOK'
    BY <1>0, <2>1, <2>2, <2>3, <2>4, TypeFrom DEF TypeOK, SwitcherTypeOK
  <2>6. EngineInv'
    BY <2>1, <2>3 DEF Fresh, EngineInv
  <2>7. SwitcherHasRead' /\ ShellInv'
    BY <1>0, <2>1, <2>2 DEF SwitcherHasRead, ShellInv, Views
  <2>. QED  BY <2>4, <2>5, <2>6, <2>7 DEF ConsoleInv
<1>2. CASE Mount
  <2>1. /\ phase = "started" /\ phase' = "mounted" /\ stash' = None
        /\ Render(status, stash # None, stash, nav, wiz, FALSE)
        /\ Idle /\ UNCHANGED <<daemon, links, morph, call>>
    BY <1>2 DEF Mount
  <2>2. (stash # None) \in BOOLEAN /\ stash \in Codes \cup {None} /\ cfg' \in Setup
    BY <1>0, <2>1 DEF TypeOK, Idle
  <2>3. /\ ViewTypeOK' /\ SwitcherTypeOK' /\ ScreenFitsRole' /\ CodeInv'
        /\ sw'.target = sw.target /\ sw'.read = sw.read
    <3>1. /\ status \in Snapshot \cup {None} /\ nav \in Screens /\ wiz \in Wizard /\ FALSE \in BOOLEAN
      BY <1>0, RenderArgs
    <3>. QED  BY <1>0, <2>1, <2>2, <3>1, RenderKeeps
  <2>4. AppTypeOK' /\ NoChange
    BY <1>0, <2>1, RenderArgs
  <2>5. TypeOK'
    BY <1>0, <2>1, <2>3, <2>4, TypeFrom DEF TypeOK
  <2>6. EngineInv'
    BY <1>0, <2>1, <2>3, <2>4, EngineKept
  <2>. QED  BY <1>0, <2>1, <2>3, <2>5, <2>6 DEF ConsoleInv, SwitcherHasRead, ShellInv
<1>3. CASE OpenLink
  <2>1. PICK url \in Links :
          \/ phase = "cold" /\ stash' = url /\ UNCHANGED <<Views, sw>>
          \/ phase = "started" /\ UNCHANGED <<stash, Views, sw>>
          \/ phase = "mounted" /\ Render(status, TRUE, url, nav, wiz, FALSE) /\ UNCHANGED stash
    BY <1>3 DEF OpenLink, Views
  <2>2. Idle /\ UNCHANGED <<phase, daemon, morph, call>> /\ links' \in 0..MaxLinks /\ url \in Codes
    BY <1>0, <1>3, ConsoleAssumption DEF OpenLink, TypeOK
  <2>3. AppTypeOK' /\ NoChange
    BY <1>0, <2>2, RenderArgs
  <2>4. CASE phase = "mounted"
    <3>1. Render(status, TRUE, url, nav, wiz, FALSE) /\ UNCHANGED stash
      BY <2>1, <2>4
    <3>. QED
      BY <1>0, <2>2, <2>3, <2>4, <3>1, RenderArgs, DrawnStep
  <2>5. CASE phase # "mounted"
    <3>1. stash' \in Codes \cup {None} /\ UNCHANGED Views /\ sw' = sw
      BY <1>0, <2>1, <2>2, <2>5 DEF TypeOK
    <3>2. ViewTypeOK' /\ ScreenFitsRole' /\ CodeInv'
      BY <3>1, Undrawn
    <3>3. TypeOK'
      BY <1>0, <2>2, <2>3, <3>1, <3>2, TypeFrom DEF TypeOK, SwitcherTypeOK
    <3>4. EngineInv'
      BY <1>0, <2>2, <2>3, <3>1 DEF EngineInv, NoChange, Valid
    <3>. QED  BY <1>0, <2>2, <3>1, <3>2, <3>3, <3>4 DEF ConsoleInv, SwitcherHasRead, ShellInv, Views
  <2>. QED  BY <2>4, <2>5
<1>4. CASE Tick
  <2>1. AppTypeOK' /\ daemon' \in {"none", "up", "lost"} /\ (Fresh' \/ NoChange)
    BY <1>0, <1>4, PollIs DEF Tick
  <2>. QED  BY <1>0, <1>4, <2>1, RenderArgs, DrawnStep DEF Tick
<1>5. CASE Navigate \/ TransitionRuns
  <2>1. /\ Idle /\ UNCHANGED <<phase, daemon, stash, links, status, hold, deepLink, wiz, call, ask, late, sw>>
        /\ nav' = nav \/ \E n \in Screens : nav' = Reachable(status, n)
        /\ morph' \in Screens \cup {None}
    BY <1>0, <1>5 DEF Navigate, TransitionRuns, TypeOK, Rail, Screens
  <2>2. nav' \in Screens /\ ScreenFitsRole'
    BY <1>0, <2>1 DEF Reachable, Rail, Screens, ScreenFitsRole, ShowsConsole, ShowsWizard, Unconfigured, TypeOK
  <2>3. TypeOK'
    BY <1>0, <2>1, <2>2 DEF TypeOK, Idle
  <2>4. EngineInv' /\ SwitcherHasRead' /\ ShellInv'
    BY <1>0, <2>1 DEF EngineInv, SwitcherHasRead, ShellInv, Idle, Valid
  <2>5. CodeInv'
    BY <1>0, <2>1 DEF CodeInv, CodeFitsToggle, LiveGateway, ShowsWizard, Unconfigured
  <2>. QED  BY <2>2, <2>3, <2>4, <2>5 DEF ConsoleInv
<1>6. CASE ChooseAct
  <2>1. PICK a \in {"role", "gateway", "agent", "import", "live"} : InWizard([wiz EXCEPT !.act = a])
    BY <1>6 DEF ChooseAct
  <2>2. Keeps /\ Idle /\ UNCHANGED call /\ phase = "mounted"
    BY <1>6, MountedWhen DEF ChooseAct, WizardStep, ShowsWizard
  <2>. QED  BY <1>0, <1>a, <1>b, <2>1, <2>2, RenderArgs
<1>7. CASE StartSetup
  <2>1. /\ Keeps /\ Idle /\ phase = "mounted" /\ InWizard([wiz EXCEPT !.busy = TRUE])
        /\ call' \in {None, "gateway"} \cup Codes
    BY <1>7, MountedWhen DEF StartSetup, WizardStep, ShowsWizard
  <2>. QED  BY <1>0, <1>a, <1>b, <2>1, RenderArgs
<1>8. CASE EndSetup
  <2>1. call # None /\ call' = None /\ Keeps /\ phase = "mounted"
    BY <1>8, MountedWhen DEF EndSetup
  <2>2. PICK c \in Setup : Adopt(c)
    <3>1. CASE call = "gateway"
      <4>1. [cfg EXCEPT !.role = "gateway"] \in Setup
        BY <1>0 DEF TypeOK, Setup, Roles
      <4>. QED  BY <1>8, <3>1, <4>1 DEF EndSetup, SetupGateway
    <3>2. CASE call # "gateway"
      <4>1. call \in Codes
        BY <1>0, <2>1, <3>2 DEF TypeOK
      <4>2. [cfg EXCEPT !.role = "agent", !.agent = call] \in Setup
        BY <1>0, <4>1 DEF TypeOK, Setup, Roles
      <4>. QED  BY <1>8, <3>2, <4>2 DEF EndSetup, SetupAgent
    <3>. QED  BY <3>1, <3>2
  <2>3. PICK w : Same(w) /\ InWizard(w)
    <3>. DEFINE done == mode # "attached" /\ Valid(cfg')
                w == IF ~wiz.busy THEN wiz
                     ELSE IF done THEN [wiz EXCEPT !.busy = FALSE, !.act = "live",
                                        !.kind = IF call = "gateway" THEN "gateway" ELSE "agent"]
                     ELSE [wiz EXCEPT !.busy = FALSE]
    <3>1. InWizard(w)
      BY <1>8 DEF EndSetup
    <3>2. Same(w)
      BY <1>a
    <3>. QED  BY <3>1, <3>2
  <2>. QED  BY <1>0, <1>b, <2>1, <2>2, <2>3, AdoptIs
<1>9. CASE Import
  <2>1. Keeps /\ UNCHANGED call /\ phase = "mounted" /\ InWizard(wiz) /\ \E file \in Backups : ImportSetup(file)
    BY <1>9, MountedWhen DEF Import
  <2>. QED  BY <1>0, <1>a, <1>b, <2>1, ImportIs, RenderArgs
<1>10. CASE OpenConsole \/ HandOver
  <2>1. Keeps /\ Idle /\ UNCHANGED call /\ phase = "mounted" /\ Finish
    BY <1>10, MountedWhen DEF OpenConsole, HandOver, WizardStep, ShowsWizard
  <2>. QED  BY <1>0, <2>1, RenderArgs, DrawnStep DEF Finish, Keeps
<1>11. CASE RequestCode
  <2>1. /\ Keeps /\ Idle /\ UNCHANGED call /\ phase = "mounted"
        /\ \/ Render(status, hold, deepLink, nav, [wiz EXCEPT !.reusable = ~@], TRUE)
           \/ Render(status, hold, deepLink, nav, wiz, TRUE)
    BY <1>11, MountedWhen DEF RequestCode, WizardStep, ShowsWizard
  <2>. QED  BY <1>0, <1>a, <2>1, RenderArgs, DrawnStep DEF Keeps
<1>12. CASE CodeArrives
  <2>1. /\ Idle /\ Keeps /\ UNCHANGED <<status, nav, hold, deepLink, call, sw>>
        /\ \/ ask # "none" /\ ask' = "none" /\ late' = late
              /\ (wiz' = [wiz EXCEPT !.code = ask] \/ wiz' = wiz)
           \/ late' = "none" /\ UNCHANGED <<wiz, ask>>
    BY <1>12 DEF CodeArrives
  <2>2. wiz' \in Wizard /\ wiz'.act = wiz.act /\ wiz'.kind = wiz.kind /\ wiz'.reusable = wiz.reusable
        /\ wiz'.code \in {wiz.code, ask} /\ (ask = "none" => wiz'.code = wiz.code)
        /\ ask' \in {"none", ask}
    BY <1>0, <2>1 DEF TypeOK, Wizard
  <2>3. CodeInv'
    BY <1>0, <2>1, <2>2 DEF CodeInv, CodeFitsToggle, LiveGateway, ShowsWizard, Unconfigured
  <2>4. TypeOK'
    BY <1>0, <2>1, <2>2 DEF TypeOK, Idle, Keeps
  <2>5. EngineInv' /\ SwitcherHasRead' /\ ShellInv' /\ ScreenFitsRole'
    BY <1>0, <2>1 DEF EngineInv, SwitcherHasRead, ShellInv, ScreenFitsRole, Idle, Keeps, Valid,
                      ShowsConsole, ShowsWizard, Unconfigured
  <2>. QED  BY <2>3, <2>4, <2>5 DEF ConsoleInv
<1>13. CASE PickRole
  <2>1. /\ Keeps /\ Idle /\ UNCHANGED call /\ phase = "mounted" /\ sw.target = None
        /\ \/ Render(status, TRUE, deepLink, nav, wiz, FALSE)
           \/ UNCHANGED Views /\ \E target \in {"agent", "gateway"} :
                sw' = [sw EXCEPT !.target = target, !.read = IF target = "agent" THEN cfg ELSE None]
    BY <1>13, MountedWhen DEF PickRole, Views
  <2>2. CASE Render(status, TRUE, deepLink, nav, wiz, FALSE)
    BY <1>0, <2>1, <2>2, RenderArgs, DrawnStep DEF Keeps
  <2>3. ASSUME UNCHANGED Views, NEW target \in {"agent", "gateway"},
               sw' = [sw EXCEPT !.target = target, !.read = IF target = "agent" THEN cfg ELSE None]
        PROVE  ConsoleInv'
    <3>1. SwitcherTypeOK' /\ SwitcherHasRead'
      BY <1>0, <2>1, <2>3 DEF TypeOK, SwitcherTypeOK, SwitcherHasRead, Idle
    <3>2. sw.target # "saved"
      BY <2>1, ConsoleAssumption
    <3>. QED  BY <1>0, <2>1, <2>3, <3>1, <3>2, RenderArgs, UndrawnStep
  <2>. QED  BY <2>1, <2>2, <2>3
<1>14. CASE Switch
  <2>1. Keeps /\ UNCHANGED <<Views, call>> /\ sw.target \in {"agent", "gateway"} /\ phase = "mounted"
    BY <1>14, ConsoleAssumption, MountedWhen DEF Switch, Views
  <2>2. CASE sw.target = "gateway"
    <3>1. SetupGateway /\ sw' = [sw EXCEPT !.target = None, !.read = None]
      BY <1>14, <2>2 DEF Switch
    <3>2. [cfg EXCEPT !.role = "gateway"] \in Setup
      BY <1>0 DEF TypeOK, Setup, Roles
    <3>3. AppTypeOK' /\ (Fresh' \/ NoChange)
      BY <1>0, <3>1, <3>2, AdoptIs DEF SetupGateway
    <3>4. SwitcherTypeOK' /\ SwitcherHasRead'
      BY <1>0, <3>1, ConsoleAssumption DEF TypeOK, SwitcherTypeOK, SwitcherHasRead
    <3>. QED  BY <2>1, <2>2, <3>3, <3>4, UndrawnStep
  <2>3. CASE sw.target = "agent"
    <3>. DEFINE c == [sw.read EXCEPT !.role = "agent"]
    <3>1. c \in Setup
      BY <1>0, <2>3 DEF SwitcherHasRead, Setup, Roles
    <3>2. /\ SaveSettings(c)
          /\ sw' = [sw EXCEPT !.target = IF Valid(c) THEN "saved" ELSE None, !.read = None]
      BY <1>14, <2>3 DEF Switch
    <3>. HIDE DEF c
    <3>3. SwitcherTypeOK' /\ SwitcherHasRead' /\ sw'.target = IF Valid(c) THEN "saved" ELSE None
      BY <1>0, <3>2, ConsoleAssumption DEF TypeOK, SwitcherTypeOK, SwitcherHasRead
    <3>4. CASE Valid(c)
      <4>1. cfg' = c /\ disk' = c /\ UNCHANGED <<mode, engine, runs, link>> /\ sw'.target = "saved"
        BY <3>2, <3>3, <3>4 DEF SaveSettings
      <4>2. ViewTypeOK' /\ ScreenFitsRole' /\ CodeInv'
        BY <2>1, Undrawn
      <4>3. AppTypeOK'
        BY <1>0, <3>1, <4>1 DEF TypeOK, AppTypeOK
      <4>4. TypeOK'
        BY <1>0, <2>1, <3>3, <4>2, <4>3, TypeFrom DEF TypeOK, Keeps
      <4>5. EngineInv'
        BY <1>0, <2>1, <3>4, <4>1 DEF EngineInv, Valid, Keeps
      <4>. QED  BY <2>1, <3>3, <4>2, <4>4, <4>5 DEF ConsoleInv, ShellInv, Keeps
    <3>5. CASE ~Valid(c)
      <4>1. NoChange /\ AppTypeOK'
        BY <1>0, <3>2, <3>5 DEF SaveSettings, NoChange, TypeOK, AppTypeOK
      <4>. QED  BY <2>1, <2>3, <3>3, <4>1, UndrawnStep
    <3>. QED  BY <3>4, <3>5
  <2>. QED  BY <2>1, <2>2, <2>3
<1>15. CASE SwitchRestarts
  <2>1. /\ Keeps /\ UNCHANGED <<Views, call>> /\ sw.target = "saved" /\ phase = "mounted"
        /\ RestartEngine /\ sw' = [sw EXCEPT !.target = None]
    BY <1>15, ConsoleAssumption, MountedWhen DEF SwitchRestarts, Views
  <2>2. SwitcherTypeOK' /\ SwitcherHasRead'
    BY <1>0, <2>1, ConsoleAssumption DEF TypeOK, SwitcherTypeOK, SwitcherHasRead
  <2>. QED  BY <1>0, <2>1, <2>2, RestartIs, UndrawnStep
<1>16. CASE Restart
  <2>1. Keeps /\ UNCHANGED <<Views, call, sw>> /\ phase = "mounted" /\ RestartEngine
    BY <1>16, MountedWhen DEF Restart, Views, ShowsConsole
  <2>2. SwitcherTypeOK' /\ SwitcherHasRead'
    BY <1>0, <2>1 DEF TypeOK, SwitcherTypeOK, SwitcherHasRead
  <2>. QED  BY <1>0, <2>1, <2>2, RestartIs, UndrawnStep
<1>17. CASE World
  <2>1. UNCHANGED <<phase, mode, cfg, disk, runs, stash, links, Views, morph, call, sw>>
    BY <1>17 DEF World, Views
  <2>2. /\ engine' \in {engine, "dead"} /\ (engine = "none" => engine' = "none")
        /\ link' \in BOOLEAN /\ daemon' \in {"none", "up", "lost"}
    BY <1>0, <1>17 DEF World, TypeOK
  <2>3. ViewTypeOK' /\ ScreenFitsRole' /\ CodeInv'
    BY <2>1, Undrawn
  <2>4. TypeOK'
    BY <1>0, <2>1, <2>2, <2>3 DEF TypeOK, ViewTypeOK
  <2>5. EngineInv' /\ SwitcherHasRead' /\ ShellInv'
    BY <1>0, <2>1, <2>2 DEF EngineInv, SwitcherHasRead, ShellInv, Valid, Views
  <2>. QED  BY <2>3, <2>4, <2>5 DEF ConsoleInv
<1>18. CASE UNCHANGED vars
  BY <1>0, <1>18 DEF vars, app, ConsoleInv, TypeOK, SwitcherHasRead, ShellInv, ScreenFitsRole, EngineInv, CodeInv,
     CodeFitsToggle, LiveGateway, ShowsConsole, ShowsWizard, Unconfigured, Valid
<1>. QED
  BY <1>1, <1>2, <1>3, <1>4, <1>5, <1>6, <1>7, <1>8, <1>9, <1>10, <1>11, <1>12, <1>13, <1>14, <1>15,
     <1>16, <1>17, <1>18 DEF Next

LEMMA ConsoleInit == Init => ConsoleInv
<1> SUFFICES ASSUME Init PROVE ConsoleInv
  OBVIOUS
<1>1. cfg \in Setup
  BY ConsoleAssumption DEF Init, Setup, Roles
<1>2. FreshWizard \in Wizard /\ IdleSwitcher \in [paired : BOOLEAN, target : {None, "agent", "gateway", "saved"},
                                                  read : Setup \cup {None}]
  BY DEF FreshWizard, Wizard, IdleSwitcher
<1>3. TypeOK
  <2>1. links \in 0..MaxLinks
    BY ConsoleAssumption DEF Init
  <2>2. wiz \in Wizard /\ sw \in [paired : BOOLEAN, target : {None, "agent", "gateway", "saved"},
                                  read : Setup \cup {None}]
    BY <1>2 DEF Init
  <2>. QED  BY <1>1, <2>1, <2>2 DEF Init, TypeOK, Roles, Screens
<1>4. SwitcherHasRead /\ ShellInv
  BY ConsoleAssumption DEF Init, SwitcherHasRead, ShellInv, IdleSwitcher
<1>5. EngineInv /\ ScreenFitsRole /\ CodeInv
  BY DEF Init, EngineInv, ScreenFitsRole, ShowsConsole, CodeInv, CodeFitsToggle, LiveGateway, ShowsWizard
<1>. QED  BY <1>3, <1>4, <1>5 DEF ConsoleInv

\* The window and the process behind it (app/app.go, App.tsx, Wizard.tsx and
\* RoleSwitcher.tsx): the console shows a screen of its role, an engine runs the setup that is
\* in the file, and the code on display is of the kind asked for, whatever links, clicks,
\* ticks and answers fall between two steps of each other.
THEOREM ConsoleStaysSafe == Spec => []ConsoleSafe
<1>1. ConsoleInv => ConsoleSafe
  <2>1. ConsoleInv => EngineIsSetup
    BY DEF ConsoleInv, EngineInv, EngineIsSetup
  <2>. QED  BY <2>1 DEF ConsoleInv, CodeInv, ConsoleSafe
<1>. QED  BY <1>1, ConsoleInit, ConsoleStep, PTL DEF Spec
=============================================================================
