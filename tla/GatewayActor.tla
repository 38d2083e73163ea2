---------------------------- MODULE GatewayActor ----------------------------
(***************************************************************************)
(* The gateway's actor (internal/gateway/actor.go): the one goroutine that *)
(* owns which session speaks for an agent, which public listeners that     *)
(* session holds, and the anti-flap record of the agent.                   *)
(*                                                                         *)
(* Every actor command runs alone, so a command is one action, with one    *)
(* exception: a bind or a reconcile closes and opens sockets one by one,   *)
(* and other processes of the host may take or release ports in between.   *)
(* Those commands are a start action and one action for each tunnel still  *)
(* to be handled (cmd), and no other command starts before they end.       *)
(*                                                                         *)
(* A definition named X_Y is not part of the model: it is X with the bug Y *)
(* put in, and some property must fail when it takes the place of X.       *)
(***************************************************************************)
EXTENDS Integers, Sequences, FiniteSets

CONSTANTS
  AgentIDs,       \* agent identities
  Sessions,       \* agentSession objects; each is admitted at most once
  Tunnels,        \* tunnel IDs
  Ports,          \* public TCP ports of the gateway host
  Ephemeral,      \* the ports the host hands out for a bind to port 0
  Forbidden,      \* ports the host refuses for a reason other than "in use"
  Names,          \* what sameListener compares besides ID and port
  Limits,         \* bandwidth caps (rate and scope together)
  AgentOf,        \* [Sessions -> AgentIDs]: sess.agentID
  IPOf,           \* session -> sess.remoteIP
  ScopeOf,        \* [Sessions -> SUBSET Ports]: sess.scope.Ports, {} = any
  Allowlist,      \* SUBSET Ports: Gateway.PortAllowlist, {} = any
  BasePenalty, CapPenalty, FlapWindow,  \* the anti-flap durations
  MaxTunnels,     \* bound: length of a desired set
  MaxTime,        \* bound: how far the clock runs
  NoSession, NoListener, Free, Foreign

ASSUME SetsAssumption ==
  /\ Ports \subseteq Nat \ {0}
  /\ Ephemeral \subseteq Ports
  /\ Allowlist \subseteq Ports
  /\ Forbidden \subseteq Ports
  /\ AgentOf \in [Sessions -> AgentIDs]
  /\ ScopeOf \in [Sessions -> SUBSET Ports]
ASSUME NoneAssumption ==
  /\ NoSession \notin Sessions
  /\ Free \notin Sessions
  /\ Foreign \notin Sessions
  /\ Free # Foreign
ASSUME PenaltyAssumption ==
  /\ BasePenalty \in Nat \ {0}
  /\ FlapWindow = 2 * BasePenalty     \* 1 s and 2 s in the code
  /\ CapPenalty \in Nat               \* 30 s
  /\ CapPenalty >= FlapWindow
  /\ MaxTunnels \in Nat
  /\ MaxTime \in Nat

TunnelSpec  == [id : Tunnels, port : Ports \cup {0}, name : Names, limit : Limits]
Listener == [spec : TunnelSpec, owner : Sessions, port : Ports, limiter : Limits]
Keys == AgentIDs \X Tunnels
ASSUME NoListenerAssumption == NoListener \notin Listener \cup TunnelSpec
Never == -1       \* the zero time.Time

VARIABLES
  agents,       \* agents[a]: the live session of a
  phase,        \* the control handler of a session: "new", "serving", "done"
  evicted,      \* sessions whose evicted flag is set
  gen,          \* gen[s]: the generation admit gave s
  generation,   \* the last generation given
  listeners,    \* listeners[a, t]: the public listener of tunnel t of agent a
  sock,         \* what the host knows: who listens on a port
  damp,         \* damp[a]: admitDamp
  now,          \* the clock
  events,       \* the kinds of events recorded so far, by agent
  cmd,          \* the bind or reconcile in progress: its session, its specs
  ctxDone,      \* the serving context is cancelled
  stopped,      \* run() has returned
  desired       \* history: the spec a live session last asked for, by key

vars == <<agents, phase, evicted, gen, generation, listeners, sock, damp, now,
          events, cmd, ctxDone, stopped, desired>>

Idle == [sess |-> NoSession, todo |-> <<>>]
Event == [kind : {"port-reassigned", "clone-suspected"}, agent : AgentIDs]
NoSpec == NoListener

TypeOK ==
  /\ agents \in [AgentIDs -> Sessions \cup {NoSession}]
  /\ phase \in [Sessions -> {"new", "serving", "done"}]
  /\ evicted \subseteq Sessions
  /\ gen \in [Sessions -> Nat]
  /\ generation \in Nat
  /\ listeners \in [Keys -> Listener \cup {NoListener}]
  /\ sock \in [Ports -> Sessions \cup {Free, Foreign}]
  /\ damp \in [AgentIDs -> [last : Nat \cup {Never}, penalty : Nat]]
  /\ now \in Nat
  /\ events \subseteq Event
  /\ cmd \in {Idle} \cup [sess : Sessions, todo : Seq(TunnelSpec) \ {<<>>}]
  /\ ctxDone \in BOOLEAN
  /\ stopped \in BOOLEAN
  /\ desired \in [Keys -> TunnelSpec \cup {NoSpec}]

Init ==
  /\ agents = [a \in AgentIDs |-> NoSession]
  /\ phase = [s \in Sessions |-> "new"]
  /\ evicted = {}
  /\ gen = [s \in Sessions |-> 0]
  /\ generation = 0
  /\ listeners = [k \in Keys |-> NoListener]
  /\ sock = [p \in Ports |-> Free]
  /\ damp = [a \in AgentIDs |-> [last |-> Never, penalty |-> 0]]
  /\ now = 0
  /\ events = {}
  /\ cmd = Idle
  /\ ctxDone = FALSE
  /\ stopped = FALSE
  /\ desired = [k \in Keys |-> NoSpec]

-----------------------------------------------------------------------------
(* Policy: which ports a session may be given.                             *)

AllowsPort(s, p) == ScopeOf[s] = {} \/ p \in ScopeOf[s]
portInAllowlist(p) == Allowlist = {} \/ p \in Allowlist
validateSpec(s, spec) ==
  spec.port # 0 => AllowsPort(s, spec.port) /\ portInAllowlist(spec.port)

reassignCandidates_AnyPort(s, requested) == IF requested = 0 THEN {} ELSE {0}
\* The ports to try when the requested one is taken, before the host is asked.
reassignCandidates(s, requested) ==
  IF requested = 0 THEN {}
  ELSE IF ScopeOf[s] = {} /\ Allowlist = {} THEN {0}
  ELSE {p \in (IF ScopeOf[s] # {} THEN ScopeOf[s] ELSE Allowlist) :
          p # requested /\ AllowsPort(s, p) /\ portInAllowlist(p)}

\* The ports net.Listen can return for a request for port p.
Listen(p) ==
  {q \in (IF p = 0 THEN Ephemeral ELSE {p}) \ Forbidden : sock[q] = Free}

\* The ports listenFirstFree can return: the candidates are tried in order.
listenFirstFree(candidates) ==
  IF candidates = {0} THEN Listen(0)
  ELSE LET open == {p \in candidates \ (Forbidden \cup {0}) : sock[p] = Free}
       IN  {p \in open : \A q \in open : p <= q}

sameListener_All(x, y) == x = y
sameListener(x, y) == x.id = y.id /\ x.port = y.port /\ x.name = y.name

-----------------------------------------------------------------------------
(* Closing listeners and evicting sessions.                                *)

Ready == cmd = Idle /\ ~stopped
IsLive_SomeSession(s) == agents[AgentOf[s]] # NoSession
IsLive(s) == agents[AgentOf[s]] = s /\ s \notin evicted

Held(K) == {k \in K : listeners[k] # NoListener}

CloseKeys_SocketOpen(K) ==
  /\ listeners' = [k \in Keys |-> IF k \in K THEN NoListener ELSE listeners[k]]
  /\ sock' = sock

\* Close the listeners at K and wait for their accept loops to exit.
CloseKeys(K) ==
  /\ listeners' = [k \in Keys |-> IF k \in K THEN NoListener ELSE listeners[k]]
  /\ sock' = [p \in Ports |-> IF \E k \in Held(K) : listeners[k].port = p
                                THEN Free ELSE sock[p]]

KeysOf(a) == {a} \X Tunnels

evict_KeepsListeners(S, upd) ==
  /\ agents' = [a \in AgentIDs |-> IF \E s \in S : AgentOf[s] = a THEN upd ELSE agents[a]]
  /\ evicted' = evicted \cup S
  /\ UNCHANGED <<listeners, sock>>

\* evict, of each session in S at once; upd is what takes their place in agents.
evict(S, upd) ==
  /\ agents' = [a \in AgentIDs |-> IF \E s \in S : AgentOf[s] = a THEN upd ELSE agents[a]]
  /\ evicted' = evicted \cup S
  /\ CloseKeys(UNION {KeysOf(AgentOf[s]) : s \in S})

-----------------------------------------------------------------------------
(* Admission.                                                              *)

Since(a) == now - damp[a].last
RecentSupersede(a) == damp[a].last # Never /\ Since(a) < FlapWindow

Dampened_Forever(a) == damp[a].penalty > 0
Dampened(a) == damp[a].penalty > 0 /\ Since(a) < damp[a].penalty

Minimum(x, y) == IF x <= y THEN x ELSE y

noteSupersede(a) ==
  damp' = [damp EXCEPT ![a] =
             [last |-> now,
              penalty |-> IF ~RecentSupersede(a) THEN 0
                          ELSE IF damp[a].penalty = 0 THEN BasePenalty
                          ELSE Minimum(2 * damp[a].penalty, CapPenalty)]]

CloneSuspected(s) ==
  /\ IPOf[agents[AgentOf[s]]] # IPOf[s]
  /\ RecentSupersede(AgentOf[s])

Enter_OldGeneration(s) ==
  /\ generation' = generation + 1
  /\ gen' = [gen EXCEPT ![s] = generation]
  /\ phase' = [phase EXCEPT ![s] = "serving"]

Enter(s) ==
  /\ generation' = generation + 1
  /\ gen' = [gen EXCEPT ![s] = generation + 1]
  /\ phase' = [phase EXCEPT ![s] = "serving"]

AdmitFresh(s) ==
  /\ Ready /\ phase[s] = "new"
  /\ agents[AgentOf[s]] = NoSession
  /\ agents' = [agents EXCEPT ![AgentOf[s]] = s]
  /\ Enter(s)
  /\ UNCHANGED <<evicted, listeners, sock, damp, now, events, cmd, ctxDone, stopped, desired>>

AdmitDampened(s) ==
  /\ Ready /\ phase[s] = "new"
  /\ agents[AgentOf[s]] # NoSession
  /\ Dampened(AgentOf[s])
  /\ phase' = [phase EXCEPT ![s] = "done"]
  /\ UNCHANGED <<agents, evicted, gen, generation, listeners, sock, damp, now, events, cmd,
                 ctxDone, stopped, desired>>

AdmitSupersede(s) ==
  LET a == AgentOf[s] IN
  /\ Ready /\ phase[s] = "new"
  /\ agents[a] # NoSession
  /\ ~Dampened(a)
  /\ events' = IF CloneSuspected(s) THEN events \cup {[kind |-> "clone-suspected", agent |-> a]}
                                    ELSE events
  /\ evict({agents[a]}, s)
  /\ noteSupersede(a)
  /\ Enter(s)
  /\ desired' = [k \in Keys |-> IF k \in KeysOf(a) THEN NoSpec ELSE desired[k]]
  /\ UNCHANGED <<now, cmd, ctxDone, stopped>>

-----------------------------------------------------------------------------
(* Leaving: the handler's exit, an operator's eviction, the shutdown.      *)

Forget(K) == desired' = [k \in Keys |-> IF k \in K THEN NoSpec ELSE desired[k]]

\* The handler of s returns; only the live session of the agent is evicted.
DisconnectedScope(s) == IF agents[AgentOf[s]] = s THEN {s} ELSE {}
Disconnected(s) ==
  /\ Ready /\ phase[s] = "serving"
  /\ phase' = [phase EXCEPT ![s] = "done"]
  /\ evict(DisconnectedScope(s), NoSession)
  /\ Forget(UNION {KeysOf(AgentOf[t]) : t \in DisconnectedScope(s)})
  /\ UNCHANGED <<gen, generation, damp, now, events, cmd, ctxDone, stopped>>

\* RevokeAgent and SetAgentScope: the actor's part of the call.
EvictAgent(a) ==
  /\ Ready /\ agents[a] # NoSession
  /\ evict({agents[a]}, NoSession)
  /\ Forget(KeysOf(a))
  /\ UNCHANGED <<phase, gen, generation, damp, now, events, cmd, ctxDone, stopped>>

Cancel ==
  /\ ~ctxDone
  /\ ctxDone' = TRUE
  /\ UNCHANGED <<agents, phase, evicted, gen, generation, listeners, sock, damp, now, events,
                 cmd, stopped, desired>>

\* run() sees the cancelled context between two commands, evicts everyone, ends.
\* (The wait for the client goroutines is modelled in DataPlane.)
snapshotSessions_Empty == {}
snapshotSessions == {agents[a] : a \in AgentIDs} \ {NoSession}
Shutdown ==
  /\ Ready /\ ctxDone
  /\ evict(snapshotSessions, NoSession)
  /\ stopped' = TRUE
  /\ Forget(Keys)
  /\ UNCHANGED <<phase, gen, generation, damp, now, events, cmd, ctxDone>>

\* do() after the shutdown: the command is not run and the handler gives up.
DoStopped(s) ==
  /\ stopped /\ phase[s] # "done"
  /\ phase' = [phase EXCEPT ![s] = "done"]
  /\ UNCHANGED <<agents, evicted, gen, generation, listeners, sock, damp, now, events, cmd,
                 ctxDone, stopped, desired>>

-----------------------------------------------------------------------------
(* Binding. A serving handler may outlive its place in the agents map: the *)
(* first conjunct of each command is the guard "session is no longer       *)
(* active", without which nothing happens.                                 *)

bindTunnel(s, spec) ==
  /\ Ready /\ phase[s] = "serving"
  /\ IsLive(s) /\ validateSpec(s, spec)
  /\ CloseKeys({<<AgentOf[s], spec.id>>})
  /\ cmd' = [sess |-> s, todo |-> <<spec>>]
  /\ desired' = [desired EXCEPT ![<<AgentOf[s], spec.id>>] = spec]
  /\ UNCHANGED <<agents, phase, evicted, gen, generation, damp, now, events, ctxDone, stopped>>

unbindTunnel(s, t) ==
  LET k == <<AgentOf[s], t>> IN
  /\ Ready /\ phase[s] = "serving"
  /\ listeners[k] # NoListener
  /\ listeners[k].owner = s
  /\ CloseKeys({k})
  /\ desired' = [desired EXCEPT ![k] = NoSpec]
  /\ UNCHANGED <<agents, phase, evicted, gen, generation, damp, now, events, cmd, ctxDone, stopped>>

DesiredSets(s) ==
  {d \in UNION {[1..n -> TunnelSpec] : n \in 0..MaxTunnels} :
     /\ \A i, j \in DOMAIN d : d[i].id = d[j].id => i = j
     /\ \A i \in DOMAIN d : validateSpec(s, d[i])}

Unwanted_None(s, wanted) == {}
Unwanted(s, wanted) ==
  {k \in Held(KeysOf(AgentOf[s]) \ wanted) : listeners[k].owner = s}

\* reconcile drops the listeners that are no longer wanted ...
reconcile(s, d) ==
  LET a == AgentOf[s]
      wanted == {<<a, d[i].id>> : i \in DOMAIN d}
  IN
  /\ Ready /\ phase[s] = "serving"
  /\ IsLive(s)
  /\ CloseKeys(Unwanted(s, wanted))
  /\ cmd' = IF d = <<>> THEN Idle ELSE [sess |-> s, todo |-> d]
  /\ desired' = [k \in Keys |-> IF \E i \in DOMAIN d : k = <<a, d[i].id>>
                                THEN d[CHOOSE i \in DOMAIN d : k = <<a, d[i].id>>]
                                ELSE IF k \in KeysOf(a) THEN NoSpec ELSE desired[k]]
  /\ UNCHANGED <<agents, phase, evicted, gen, generation, damp, now, events, ctxDone, stopped>>

\* ... then handles the wanted specs one by one.
CurSpec == Head(cmd.todo)
CurKey == <<AgentOf[cmd.sess], CurSpec.id>>
NextSpec == cmd' = IF Tail(cmd.todo) = <<>> THEN Idle ELSE [cmd EXCEPT !.todo = Tail(@)]
Pending == cmd # Idle

KeptLimiter_AsBound(pl, spec) == pl.limiter
\* The limiter a kept listener is left with.
KeptLimiter(pl, spec) == IF pl.spec # spec THEN spec.limit ELSE pl.limiter

KeepListener ==
  /\ Pending
  /\ listeners[CurKey] # NoListener
  /\ sameListener(listeners[CurKey].spec, CurSpec)
  /\ listeners' = [listeners EXCEPT ![CurKey].limiter = KeptLimiter(listeners[CurKey], CurSpec)]
  /\ NextSpec
  /\ UNCHANGED <<agents, phase, evicted, gen, generation, sock, damp, now, events, ctxDone,
                 stopped, desired>>

\* bindLocked closes the listener it replaces ...
CloseOld ==
  /\ Pending
  /\ listeners[CurKey] # NoListener
  /\ ~sameListener(listeners[CurKey].spec, CurSpec)
  /\ CloseKeys({CurKey})
  /\ UNCHANGED <<agents, phase, evicted, gen, generation, damp, now, events, cmd, ctxDone,
                 stopped, desired>>

Open_RequestedPort(p) ==
  /\ listeners' = [listeners EXCEPT ![CurKey] =
                     [spec |-> CurSpec, owner |-> cmd.sess, port |-> CurSpec.port,
                      limiter |-> CurSpec.limit]]
  /\ sock' = [sock EXCEPT ![p] = cmd.sess]

\* ... and opens a new one: on the requested port, else on an alternative, else
\* on none (the tunnel's outcome is an error).
Open(p) ==
  /\ listeners' = [listeners EXCEPT ![CurKey] =
                     [spec |-> CurSpec, owner |-> cmd.sess, port |-> p, limiter |-> CurSpec.limit]]
  /\ sock' = [sock EXCEPT ![p] = cmd.sess]

InUse == CurSpec.port # 0 => sock[CurSpec.port] # Free
Alternatives == listenFirstFree(reassignCandidates(cmd.sess, CurSpec.port))

BindRequested ==
  /\ Pending /\ listeners[CurKey] = NoListener
  /\ \E p \in Listen(CurSpec.port) : Open(p)
  /\ NextSpec
  /\ UNCHANGED <<agents, phase, evicted, gen, generation, damp, now, events, ctxDone, stopped,
                 desired>>

BindReassigned ==
  /\ Pending /\ listeners[CurKey] = NoListener
  /\ Listen(CurSpec.port) = {} /\ InUse
  /\ \E p \in Alternatives : Open(p)
  /\ events' = events \cup {[kind |-> "port-reassigned", agent |-> AgentOf[cmd.sess]]}
  /\ NextSpec
  /\ UNCHANGED <<agents, phase, evicted, gen, generation, damp, now, ctxDone, stopped, desired>>

BindFails_Retries ==
  /\ Pending /\ listeners[CurKey] = NoListener
  /\ Listen(CurSpec.port) = {}
  /\ ~InUse \/ Alternatives = {}
  /\ UNCHANGED vars

BindFails ==
  /\ Pending /\ listeners[CurKey] = NoListener
  /\ Listen(CurSpec.port) = {}
  /\ ~InUse \/ Alternatives = {}
  /\ NextSpec
  /\ UNCHANGED <<agents, phase, evicted, gen, generation, listeners, sock, damp, now, events,
                 ctxDone, stopped, desired>>

-----------------------------------------------------------------------------
(* The host: other processes take and release ports, time passes.          *)

ForeignBind(p) ==
  /\ sock[p] = Free
  /\ sock' = [sock EXCEPT ![p] = Foreign]
  /\ UNCHANGED <<agents, phase, evicted, gen, generation, listeners, damp, now, events, cmd,
                 ctxDone, stopped, desired>>

ForeignRelease(p) ==
  /\ sock[p] = Foreign
  /\ sock' = [sock EXCEPT ![p] = Free]
  /\ UNCHANGED <<agents, phase, evicted, gen, generation, listeners, damp, now, events, cmd,
                 ctxDone, stopped, desired>>

Tick ==
  /\ now < MaxTime
  /\ now' = now + 1
  /\ UNCHANGED <<agents, phase, evicted, gen, generation, listeners, sock, damp, events, cmd,
                 ctxDone, stopped, desired>>

-----------------------------------------------------------------------------
ActorStep == KeepListener \/ CloseOld \/ BindRequested \/ BindReassigned \/ BindFails

SessionStep(s) ==
  \/ AdmitFresh(s) \/ AdmitDampened(s) \/ AdmitSupersede(s)
  \/ Disconnected(s) \/ DoStopped(s)
  \/ \E spec \in TunnelSpec : bindTunnel(s, spec)
  \/ \E t \in Tunnels : unbindTunnel(s, t)
  \/ \E d \in DesiredSets(s) : reconcile(s, d)

HostStep == Tick \/ \E p \in Ports : ForeignBind(p) \/ ForeignRelease(p)

Next ==
  \/ ActorStep
  \/ \E s \in Sessions : SessionStep(s)
  \/ \E a \in AgentIDs : EvictAgent(a)
  \/ Cancel \/ Shutdown
  \/ HostStep

\* The actor's goroutine runs whenever it can, and Go's select picks the
\* cancelled context with probability one when it is offered again and again.
Fairness == WF_vars(ActorStep) /\ SF_vars(Shutdown)

Spec == Init /\ [][Next]_vars /\ Fairness

-----------------------------------------------------------------------------
(* Properties.                                                             *)

\* The ghost-listener guarantee: a public listener is owned by the session that
\* speaks for its agent now; an evicted session never leaves one behind.
OwnerIsLive ==
  \A k \in Keys : listeners[k] # NoListener =>
    /\ listeners[k].owner = agents[k[1]]
    /\ listeners[k].owner \notin evicted
    /\ AgentOf[listeners[k].owner] = k[1]
    /\ listeners[k].spec.id = k[2]

\* The listeners map and the host agree: a port the gateway listens on backs one
\* entry of the map, owned by the session it was opened for, and every entry's
\* port is open. No socket outlives its entry and no two entries share a port.
SocketsMatchListeners ==
  /\ \A k \in Keys : listeners[k] # NoListener => sock[listeners[k].port] = listeners[k].owner
  /\ \A p \in Ports : sock[p] \in Sessions =>
       \E k \in Keys : listeners[k] # NoListener /\ listeners[k].port = p
  /\ \A k, l \in Keys :
       listeners[k] # NoListener /\ listeners[l] # NoListener
         /\ listeners[k].port = listeners[l].port => k = l

\* A session that was superseded never returns: the live session of an agent is
\* the one admitted last, and the sessions that have lost their place are
\* exactly the ones marked evicted.
LatestGenerationWins ==
  \A s \in Sessions :
    /\ gen[s] <= generation
    /\ agents[AgentOf[s]] = s =>
         \A t \in Sessions : AgentOf[t] = AgentOf[s] /\ t # s => gen[t] < gen[s]
    /\ phase[s] = "serving" => (agents[AgentOf[s]] = s <=> s \notin evicted)

\* A reassigned tunnel stays inside the agent's scope and the gateway's
\* allowlist: only a request for port 0 leaves the choice to the host.
PolicyRespected ==
  \A k \in Keys : listeners[k] # NoListener /\ listeners[k].spec.port # 0 =>
    \/ listeners[k].port = listeners[k].spec.port
    \/ ScopeOf[listeners[k].owner] = {} /\ Allowlist = {}
    \/ validateSpec(listeners[k].owner, [listeners[k].spec EXCEPT !.port = listeners[k].port])

\* Between commands the listeners are the ones last asked for: nothing dropped
\* from a desired set survives it, nothing kept differs in more than its limit.
SameButLimit(x, y) == [x EXCEPT !.limit = y.limit] = y
ListenersMatchDesired ==
  cmd = Idle => \A k \in Keys : listeners[k] # NoListener =>
    desired[k] # NoSpec /\ SameButLimit(listeners[k].spec, desired[k])

\* Dampening cannot lock an agent out: an agent whose last supersede is a flap
\* window ago ("legitimate restarts are never dampened") is let in. That rests
\* on the penalty never outgrowing the flap window.
PenaltyBounded == \A a \in AgentIDs : damp[a].penalty <= FlapWindow
IsolatedReconnectAdmitted ==
  [][\A s \in Sessions : phase[s] = "new" /\ phase'[s] = "done" /\ ~stopped
       => RecentSupersede(AgentOf[s])]_vars

\* A reconcile that finds a listener for a wanted tunnel unchanged but for its
\* limit keeps its socket, so its live connections survive.
ResyncKeepsListener ==
  [][\A k \in Keys :
       cmd # Idle /\ listeners[k] # NoListener /\ desired[k] # NoSpec
         /\ SameButLimit(listeners[k].spec, desired[k])
       => listeners'[k] # NoListener /\ listeners'[k].port = listeners[k].port]_vars

\* The actor never stays inside a command.
CommandCompletes == cmd # Idle ~> cmd = Idle

\* Once the gateway's context is cancelled its ports are released for good.
ShutdownReleasesPorts == ctxDone ~> [](\A p \in Ports : sock[p] \notin Sessions)

\* The actor ends what it began: its commands while it runs, and its listeners
\* as it stops.
CommandsEnd == CommandCompletes /\ ShutdownReleasesPorts

\* The limit a tunnel enforces is the one last asked for ("the limiter set is
\* the live cap"), but for a limit that was changed and has been changed back to
\* the one the listener was bound with: reconcile finds nothing to update then.
LimiterStaleOnlyAtBoundCap ==
  cmd = Idle => \A k \in Keys : listeners[k] # NoListener =>
    listeners[k].limiter = desired[k].limit \/ listeners[k].spec.limit = desired[k].limit

-----------------------------------------------------------------------------
(* The abstract promise: leases of ports to live sessions.                 *)
Live == {agents[a] : a \in AgentIDs} \ {NoSession}
Lease == [p \in Ports |-> IF sock[p] \in Sessions THEN sock[p] ELSE NoSession]
PL == INSTANCE PortLease WITH live <- Live, gone <- evicted, lease <- Lease, Nobody <- NoSession

\* The actor implements the lease specification: see PortLease.
LeaseSpec == PL!Spec

=============================================================================
