---------------------------- MODULE ConfigSync -----------------------------
(***************************************************************************)
(* The tunnel set of one enrolled agent, kept in step between the agent    *)
(* and the gateway that is its authority (capability gateway-config):      *)
(* gateway.go pushConfigOnConnect, adoptProposal and handleControlMsg,     *)
(* agent.go registerTunnels and handleControlMsg, hotapply.go ApplyTunnels *)
(* and applyPushedConfig.                                                  *)
(*                                                                         *)
(* Every session has a handler at the gateway and a reader at the agent,   *)
(* joined by a control stream in each direction. Neither is waited for     *)
(* when the session ends, so those of an old session may still be at work  *)
(* beside those of its successor. A tunnel set is the set of its enabled   *)
(* tunnels: what a tunnel's specification says and which port it gets is   *)
(* GatewayActor's, and so are evictions in detail.                         *)
(*                                                                         *)
(* A definition named X_Y is not part of the model: it is X with the bug Y *)
(* put in, and some property must fail when it takes the place of X.       *)
(***************************************************************************)
EXTENDS Naturals, Sequences, FiniteSets

CONSTANTS
  Tunnels,
  Fragile,       \* SUBSET Tunnels: another process may hold their ports
  Sets,          \* the sets an editor may save: sets of tunnels
  Scopes,        \* the scopes an operator may give: sets of tunnels
  MaxSessions,   \* bound: sessions
  MaxEvents      \* bound: edits, changes of the scope and restarts of the agent

ASSUME ConfigAssumption ==
  /\ Fragile \subseteq Tunnels
  /\ Sets \subseteq SUBSET Tunnels /\ Scopes \subseteq SUBSET Tunnels
  /\ MaxSessions \in Nat /\ MaxEvents \in Nat

Sessions == 1..MaxSessions
Nobody == 0

VARIABLES
  stored,      \* the gateway's record: DesiredTunnels, ConfigGen, Scope
  live,        \* the session in the actor's map
  listeners,   \* the tunnels it has listeners for
  hp,          \* hp[s]: where the gateway's handler of s is
  job,         \* job[s]: the set and generation the handler works on
  grant,       \* grant[s]: the scope s was admitted with
  reported,    \* reported[s]: the set and generation of the agent's hello
  agentGen,    \* agentGen[s]: agentConfigGen
  seed,        \* sessions whose hello_ok asks for a seed
  down,        \* sessions whose connection is closed
  toGateway,   \* toGateway[s]: messages on the control stream
  toAgent,
  ap,          \* ap[s]: where runSessionWith of s is
  cur,         \* curSession
  enabled,     \* the enabled tunnels of cfg
  configGen,
  ports,       \* the tunnels in publicPorts
  saved,       \* the tunnel set of the last edit, as the app saved it
  edit,        \* the call of ApplyTunnels in progress
  reader,      \* reader[s]: the push that the control reader of s works on
  offline,     \* history: the last edit found no session to propose it to
  stray,       \* history: a handler or a reader has changed something beside its successor
  events       \* how many edits, changes of the scope and restarts there were

gwVars == <<stored, live, listeners, hp, job, grant, agentGen, seed>>
agentVars == <<ap, cur, enabled, configGen, ports, saved, edit, reader, offline>>
linkVars == <<down, toGateway, toAgent>>
syncVars == <<gwVars, agentVars, linkVars, reported, stray, events>>

View == [set : SUBSET Tunnels, gen : Nat]
Propose(T) == [type |-> "propose", set |-> T, gen |-> 0]
Ack(g) == [type |-> "ack", set |-> {}, gen |-> g]
NoPush == [set |-> {}, gen |-> 0, gone |-> {}]
NoEdit == [at |-> "idle", set |-> {}, gone |-> {}]
NoSet == [set |-> {}, gen |-> 0]

SyncTypeOK ==
  /\ stored \in [set : SUBSET Tunnels, gen : Nat, scope : SUBSET Tunnels]
  /\ live \in Sessions \cup {Nobody}
  /\ listeners \subseteq Tunnels
  /\ hp \in [Sessions -> {"new", "hello", "admitted", "connecting", "reconciling",
                          "loop", "storing", "done"}]
  /\ job \in [Sessions -> View] /\ reported \in [Sessions -> View]
  /\ grant \in [Sessions -> SUBSET Tunnels]
  /\ agentGen \in [Sessions -> Nat]
  /\ seed \subseteq Sessions /\ down \subseteq Sessions
  /\ toGateway \in [Sessions -> Seq([type : {"propose", "ack"}, set : SUBSET Tunnels, gen : Nat])]
  /\ toAgent \in [Sessions -> Seq(View)]
  /\ ap \in [Sessions -> {"none", "dialing", "established", "serving", "over"}]
  /\ cur \in Sessions \cup {Nobody}
  /\ enabled \subseteq Tunnels /\ ports \subseteq Tunnels /\ saved \subseteq Tunnels
  /\ configGen \in Nat
  /\ edit \in [at : {"idle", "forgetting", "proposing"}, set : SUBSET Tunnels, gone : SUBSET Tunnels]
  /\ reader \in [Sessions -> [set : SUBSET Tunnels, gen : Nat, gone : SUBSET Tunnels]]
  /\ stray \in BOOLEAN
  /\ offline \in BOOLEAN /\ events \in 0..MaxEvents

\* A freshly enrolled agent that has a tunnel set of its own.
SyncInit ==
  /\ \E sc \in Scopes : stored = [set |-> {}, gen |-> 0, scope |-> sc]
  /\ live = Nobody /\ listeners = {}
  /\ hp = [s \in Sessions |-> "new"]
  /\ job = [s \in Sessions |-> NoSet] /\ reported = [s \in Sessions |-> NoSet]
  /\ grant = [s \in Sessions |-> {}]
  /\ agentGen = [s \in Sessions |-> 0]
  /\ seed = {} /\ down = {}
  /\ toGateway = [s \in Sessions |-> <<>>] /\ toAgent = [s \in Sessions |-> <<>>]
  /\ ap = [s \in Sessions |-> "none"]
  /\ cur = Nobody
  /\ saved \in Sets /\ enabled = saved
  /\ configGen = 0 /\ ports = {}
  /\ edit = NoEdit
  /\ reader = [s \in Sessions |-> NoPush]
  /\ stray = FALSE
  /\ offline = FALSE /\ events = 0

Send(q, s, m) == IF s \in down THEN q ELSE [q EXCEPT ![s] = Append(@, m)]
Push(s, T, g) == toAgent' = Send(toAgent, s, [set |-> T, gen |-> g])
Handler(s, from, to) == hp[s] = from /\ hp' = [hp EXCEPT ![s] = to]
Displaced_NobodyToo == {live}
\* The session that loses its place, if there is one.
Displaced == {live} \ {Nobody}
Event == events < MaxEvents /\ events' = events + 1

-----------------------------------------------------------------------------
(* The agent connects.                                                     *)

\* connectMux or connectQUIC up to the hello, which reports configState; the
\* gateway validates the agent. Sessions of an agent follow one another.
Dial(s) ==
  /\ ap[s] = "none"
  /\ \A r \in 1..(s - 1) : ap[r] = "over"
  /\ ap' = [ap EXCEPT ![s] = "dialing"]
  /\ reported' = [reported EXCEPT ![s] = [set |-> enabled, gen |-> configGen]]
  /\ grant' = [grant EXCEPT ![s] = stored.scope]
  /\ Handler(s, "new", "hello")
  /\ UNCHANGED <<stored, live, listeners, job, agentGen, seed, cur, enabled, configGen,
                 ports, saved, edit, reader, offline, linkVars, stray, events>>

\* buildAndAdmit: the live session is superseded.
Admit(s) ==
  /\ Handler(s, "hello", "admitted")
  /\ agentGen' = [agentGen EXCEPT ![s] = reported[s].gen]
  /\ live' = s /\ listeners' = {}
  /\ down' = down \cup Displaced
  /\ UNCHANGED <<stored, job, grant, seed, toGateway, toAgent, agentVars, reported, stray, events>>

needsConfigSeed == stored.gen = 0
\* hello_ok.
HelloOK(s) ==
  /\ s \notin down
  /\ Handler(s, "admitted", "connecting")
  /\ seed' = IF needsConfigSeed THEN seed \cup {s} ELSE seed
  /\ UNCHANGED <<stored, live, listeners, job, grant, agentGen, agentVars, linkVars, reported, stray, events>>

\* helloExchange returns, and curSession is set.
Establish(s) ==
  /\ ap[s] = "dialing" /\ hp[s] \notin {"hello", "admitted"} /\ s \notin down
  /\ ap' = [ap EXCEPT ![s] = "established"]
  /\ cur' = s
  /\ UNCHANGED <<gwVars, linkVars, enabled, configGen, ports, saved, edit, reader, offline, reported, stray, events>>

\* registerTunnels; then serve.
Register(s) ==
  /\ ap[s] = "established"
  /\ ap' = [ap EXCEPT ![s] = "serving"]
  /\ IF s \in seed
       THEN toGateway' = Send(toGateway, s, Propose(enabled)) /\ UNCHANGED ports
       ELSE ports' = ports \cup enabled /\ UNCHANGED toGateway
  /\ UNCHANGED <<gwVars, down, toAgent, cur, enabled, configGen, saved, edit, reader, offline, reported, stray, events>>

\* The dial fails or the session ends, and Run clears the ports. A reader that
\* was started goes on with what it has received.
SessionEnds(s) ==
  /\ ap[s] \in {"dialing", "established", "serving"} /\ s \in down
  /\ ap' = [ap EXCEPT ![s] = "over"]
  /\ cur' = Nobody
  /\ ports' = {}
  /\ toAgent' = IF ap[s] = "serving" THEN toAgent ELSE [toAgent EXCEPT ![s] = <<>>]
  /\ UNCHANGED <<gwVars, down, toGateway, enabled, configGen, saved, edit, reader, offline, reported, stray, events>>

LinkLost(s) ==
  /\ ap[s] \in {"dialing", "established", "serving"} /\ s \notin down
  /\ down' = down \cup {s}
  /\ UNCHANGED <<gwVars, agentVars, toGateway, toAgent, reported, stray, events>>

-----------------------------------------------------------------------------
(* The gateway's handler.                                                  *)

reconcile_OnlyLive(s, T) ==
  live = s /\ \E taken \in SUBSET (T \cap Fragile) : listeners' = T \ taken
\* actor.reconcile: nothing is bound for a session that is no longer live.
reconcile(s, T) ==
  IF live = s THEN \E taken \in SUBSET (T \cap Fragile) : listeners' = T \ taken
  ELSE UNCHANGED listeners

validSpecs_Unscoped(s, T) == T
\* The specifications that the session's scope permits.
validSpecs(s, T) == T \cap grant[s]

\* pushConfigOnConnect reads the record ...
ConnectRead(s) ==
  /\ IF stored.gen = 0
       THEN Handler(s, "connecting", "loop") /\ UNCHANGED job
       ELSE /\ Handler(s, "connecting", "reconciling")
            /\ job' = [job EXCEPT ![s] = [set |-> validSpecs(s, stored.set), gen |-> stored.gen]]
  /\ UNCHANGED <<stored, live, listeners, grant, agentGen, seed, agentVars, linkVars, reported, stray, events>>

InSync_GenOnly(s) == agentGen[s] = job[s].gen
InSync(s) == reported[s].set = job[s].set /\ agentGen[s] = job[s].gen
\* ... binds it, and pushes it on drift.
ConnectPush(s) ==
  /\ Handler(s, "reconciling", "loop")
  /\ reconcile(s, job[s].set)
  /\ IF InSync(s) THEN UNCHANGED toAgent ELSE Push(s, job[s].set, job[s].gen)
  /\ UNCHANGED <<stored, live, job, grant, agentGen, seed, agentVars, down, toGateway,
                 reported, stray, events>>

Receive(s, type) ==
  /\ toGateway[s] # <<>> /\ Head(toGateway[s]).type = type
  /\ toGateway' = [toGateway EXCEPT ![s] = Tail(@)]

Stale(s) == stored.gen # 0 /\ agentGen[s] # stored.gen

\* adoptProposal: a stale proposal is answered with the stored set as it is.
RefuseProposal(s) ==
  /\ hp[s] = "loop" /\ Receive(s, "propose") /\ Stale(s)
  /\ Push(s, stored.set, stored.gen)
  /\ UNCHANGED <<gwVars, agentVars, down, reported, stray, events>>

\* A proposal is bound (if the session is live: a supersede in between would
\* have closed what it bound) ...
TakeProposal(s) ==
  LET T == validSpecs(s, Head(toGateway[s]).set) IN
  /\ Receive(s, "propose") /\ ~Stale(s)
  /\ Handler(s, "loop", "storing")
  /\ job' = [job EXCEPT ![s] = [set |-> T, gen |-> stored.gen]]
  /\ reconcile(s, T)
  /\ UNCHANGED <<stored, live, grant, agentGen, seed, agentVars, down, toAgent, reported, stray, events>>

\* ... and adopted, whatever the store holds by now; then it is pushed.
AdoptConfig(s) ==
  LET g == stored.gen + 1 IN
  /\ Handler(s, "storing", "loop")
  /\ stored' = [stored EXCEPT !.set = job[s].set, !.gen = g]
  /\ agentGen' = [agentGen EXCEPT ![s] = g]
  /\ Push(s, job[s].set, g)
  /\ stray' = (stray \/ live \notin {s, Nobody})
  /\ UNCHANGED <<live, listeners, job, grant, seed, agentVars, down, toGateway, reported, events>>

\* config_ack names the generation that the agent has applied.
ReceiveAck(s) ==
  /\ hp[s] = "loop" /\ Receive(s, "ack")
  /\ agentGen' = [agentGen EXCEPT ![s] = Head(toGateway[s]).gen]
  /\ UNCHANGED <<stored, live, listeners, hp, job, grant, seed, agentVars, down, toAgent, reported, stray, events>>

\* The write of hello_ok or the next read fails; the actor is told, and what the
\* handler held is gone.
HandlerExit(s) ==
  /\ s \in down /\ hp[s] \in {"admitted", "loop"}
  /\ hp' = [hp EXCEPT ![s] = "done"]
  /\ live' = IF live = s THEN Nobody ELSE live
  /\ listeners' = IF live = s THEN {} ELSE listeners
  /\ job' = [job EXCEPT ![s] = NoSet] /\ reported' = [reported EXCEPT ![s] = NoSet]
  /\ grant' = [grant EXCEPT ![s] = {}] /\ agentGen' = [agentGen EXCEPT ![s] = 0]
  /\ toGateway' = [toGateway EXCEPT ![s] = <<>>]
  /\ UNCHANGED <<stored, seed, agentVars, down, toAgent, stray, events>>

\* SetAgentScope: the record, then the live session is evicted.
SetAgentScope(sc) ==
  /\ Event
  /\ stored' = [stored EXCEPT !.scope = sc]
  /\ live' = Nobody /\ listeners' = {}
  /\ down' = down \cup Displaced
  /\ UNCHANGED <<hp, job, grant, agentGen, seed, agentVars, toGateway, toAgent, reported, stray>>

-----------------------------------------------------------------------------
(* The agent's editor, ApplyTunnels.                                       *)

EditSwap(T) ==
  /\ edit.at = "idle" /\ Event
  /\ edit' = [at |-> "forgetting", set |-> T, gone |-> enabled \ T]
  /\ enabled' = T /\ saved' = T
  /\ UNCHANGED <<gwVars, linkVars, ap, cur, configGen, ports, reader, offline, reported, stray>>

EditForget ==
  /\ edit.at = "forgetting"
  /\ edit' = [edit EXCEPT !.at = "proposing"]
  /\ ports' = ports \ edit.gone
  /\ UNCHANGED <<gwVars, linkVars, ap, cur, enabled, configGen, saved, reader, offline, reported, stray, events>>

EditPropose ==
  /\ edit.at = "proposing"
  /\ edit' = NoEdit
  /\ offline' = (cur = Nobody)
  /\ toGateway' = IF cur = Nobody THEN toGateway ELSE Send(toGateway, cur, Propose(edit.set))
  /\ UNCHANGED <<gwVars, down, toAgent, ap, cur, enabled, configGen, ports, saved, reader, reported, stray, events>>

-----------------------------------------------------------------------------
(* The agent's control reader, applyPushedConfig.                          *)

Succeeded(s) == \E r \in Sessions : r > s /\ ap[r] # "none"

PushSwap(s) ==
  /\ ap[s] \in {"serving", "over"} /\ reader[s] = NoPush /\ toAgent[s] # <<>>
  /\ LET m == Head(toAgent[s]) IN
     /\ enabled' = m.set
     /\ reader' = [reader EXCEPT ![s] = [set |-> m.set, gen |-> m.gen, gone |-> enabled \ m.set]]
  /\ toAgent' = [toAgent EXCEPT ![s] = Tail(@)]
  /\ stray' = (stray \/ Succeeded(s))
  /\ UNCHANGED <<gwVars, down, toGateway, ap, cur, configGen, ports, saved, edit, offline, reported, events>>

PushApply(s) ==
  /\ reader[s] # NoPush
  /\ reader' = [reader EXCEPT ![s] = NoPush]
  /\ configGen' = reader[s].gen
  /\ ports' = (ports \cup reader[s].set) \ reader[s].gone
  /\ toGateway' = Send(toGateway, s, Ack(reader[s].gen))
  /\ stray' = (stray \/ Succeeded(s))
  /\ UNCHANGED <<gwVars, down, toAgent, ap, cur, enabled, saved, edit, offline, reported, events>>

\* The agent's process starts again with the tunnels of its file.
RestartAgent ==
  /\ \A s \in Sessions : ap[s] \in {"none", "over"}
  /\ edit.at = "idle" /\ Event
  /\ enabled' = saved /\ configGen' = 0 /\ ports' = {}
  /\ reader' = [s \in Sessions |-> NoPush]
  /\ toAgent' = [s \in Sessions |-> <<>>]
  /\ UNCHANGED <<gwVars, down, toGateway, ap, cur, saved, edit, offline, reported, stray>>

-----------------------------------------------------------------------------
HandlerStep(s) ==
  \/ Admit(s) \/ HelloOK(s)
  \/ ConnectRead(s) \/ ConnectPush(s)
  \/ RefuseProposal(s) \/ TakeProposal(s) \/ AdoptConfig(s)
  \/ ReceiveAck(s) \/ HandlerExit(s)
AgentStep(s) == Establish(s) \/ Register(s) \/ SessionEnds(s)
ReaderStep(s) == PushSwap(s) \/ PushApply(s)
EditStep == EditForget \/ EditPropose

SyncNext ==
  \/ \E s \in Sessions : HandlerStep(s) \/ Dial(s) \/ AgentStep(s) \/ ReaderStep(s) \/ LinkLost(s)
  \/ \E sc \in Scopes : SetAgentScope(sc)
  \/ \E T \in Sets : EditSwap(T)
  \/ EditStep
  \/ RestartAgent

SyncFairness ==
  /\ \A s \in Sessions : WF_syncVars(HandlerStep(s)) /\ WF_syncVars(Dial(s) \/ AgentStep(s)) /\ WF_syncVars(ReaderStep(s))
  /\ WF_syncVars(EditStep)

SyncSpec == SyncInit /\ [][SyncNext]_syncVars /\ SyncFairness

-----------------------------------------------------------------------------
(* Properties.                                                             *)

\* The session is up, and nothing is left to do for it at either end.
Settled ==
  /\ live # Nobody /\ live \notin down
  /\ ap[live] = "serving"
  /\ edit.at = "idle"
  /\ \A s \in Sessions : reader[s] = NoPush /\ hp[s] \in {"new", "loop", "done"}
  /\ toGateway[live] = <<>> /\ toAgent[live] = <<>>

\* With nothing left to do, what listens is what the record holds and the
\* session's scope permits, but for ports that somebody else holds.
ListenersAreStored ==
  Settled /\ ~stray =>
    LET T == stored.set \cap grant[live] IN listeners \subseteq T /\ T \ Fragile \subseteq listeners

\* With nothing left to do, the agent, the session and the record are at the
\* same generation, and the agent runs the stored set, whole or cut to its scope:
\* no edit that was refused, and no push that crossed one, leaves anybody behind,
\* but an edit that was made with no session to propose it to.
EndsAgree ==
  Settled /\ ~stray =>
    /\ configGen = agentGen[live] /\ agentGen[live] = stored.gen
    /\ ~offline => enabled \in {stored.set, stored.set \cap grant[live]}

\* Once proposals, refusals and pushes have settled, the record, the session, the
\* agent and the listeners are of one mind.
AllAgree == SyncTypeOK /\ ListenersAreStored /\ EndsAgree

\* A session that serves either ends or comes to rest: proposals, refusals and
\* pushes never answer one another for ever.
Settles == \A s \in Sessions : ap[s] = "serving" ~> s \in down \/ (live = s /\ Settled)
=============================================================================
