----------------------------- MODULE Admission -----------------------------
(***************************************************************************)
(* From an agent's hello to its served session, against the operator who   *)
(* changes or revokes its grant meanwhile (gateway.go handleControlConn,   *)
(* handleQUICSession, buildAndAdmit, RevokeAgent, SetAgentScope).          *)
(*                                                                         *)
(* A handler reads the agent's record (Validate), later enters the actor's *)
(* map with what it read (Admit), and later still publishes the session it *)
(* will serve (Publish). The operator's calls write the record first and   *)
(* hop to the actor afterwards to evict the live session. The record is    *)
(* the one AgentStore keeps; GatewayActor models the actor itself.         *)
(*                                                                         *)
(* A definition named X_Y is not part of the model: it is X with the bug Y *)
(* put in, and some property must fail when it takes the place of X.       *)
(***************************************************************************)
EXTENDS Naturals, FiniteSets

CONSTANTS
  Conns,       \* accepted agent connections
  AgentIDs,    \* enrolled agents
  AgentOf,     \* [Conns -> AgentIDs]
  QUIC,        \* SUBSET Conns: QUIC sessions, the others are TCP
  Grants,      \* scopes
  Revoked,
  Nobody,
  MaxChanges   \* bound: calls of the operator

ASSUME AdmissionAssumption ==
  /\ AgentOf \in [Conns -> AgentIDs]
  /\ QUIC \subseteq Conns
  /\ Revoked \notin Grants
  /\ Nobody \notin Conns
  /\ MaxChanges \in Nat

VARIABLES
  record,      \* record[a]: the scope in the store, or Revoked
  changes,     \* how often the operator has changed a record
  evicting,    \* agents whose record has changed and whose eviction is to come
  pc,          \* pc[c]: where the handler of connection c is
  grant,       \* grant[c]: identity.Scope as Validate returned it
  agents,      \* agents[a]: the connection of the live session of a
  open,        \* connections whose transport is open
  published,   \* connections whose agentSession has its session set
  evicted,     \* connections whose session has been evicted
  late,        \* history: handlers between Validate and Admit during a change
  stopped      \* the actor has shut down

vars == <<record, changes, evicting, pc, grant, agents, open, published, evicted, late, stopped>>

TypeOK ==
  /\ record \in [AgentIDs -> Grants \cup {Revoked}]
  /\ changes \in 0..MaxChanges
  /\ evicting \subseteq AgentIDs
  /\ pc \in [Conns -> {"hello", "validated", "admitted", "serving", "leaving", "done"}]
  /\ grant \in [Conns -> Grants \cup {Revoked}]
  /\ agents \in [AgentIDs -> Conns \cup {Nobody}]
  /\ open \subseteq Conns /\ published \subseteq Conns /\ evicted \subseteq Conns
  /\ late \subseteq Conns
  /\ stopped \in BOOLEAN

Init ==
  /\ record \in [AgentIDs -> Grants]
  /\ changes = 0 /\ evicting = {}
  /\ pc = [c \in Conns |-> "hello"]
  /\ grant = [c \in Conns |-> Revoked]
  /\ agents = [a \in AgentIDs |-> Nobody]
  /\ open = Conns
  /\ published = {} /\ evicted = {} /\ late = {}
  /\ stopped = FALSE

Step(c, from, to) == pc[c] = from /\ pc' = [pc EXCEPT ![c] = to]

-----------------------------------------------------------------------------
(* Eviction.                                                               *)

ClosedBy_SessionOnly(S) == S \cap published
\* closeAll: the published session, if there is one, and the TCP connection.
ClosedBy(S) == {c \in S : c \in published \/ c \notin QUIC}

evict(S) ==
  /\ evicted' = evicted \cup S
  /\ open' = open \ ClosedBy(S)

-----------------------------------------------------------------------------
(* The handler of a connection.                                            *)

Refuse(c) ==
  /\ pc' = [pc EXCEPT ![c] = "done"]
  /\ open' = open \ {c}

ValidateRefused(c) ==
  /\ pc[c] = "hello" /\ record[AgentOf[c]] = Revoked
  /\ Refuse(c)
  /\ UNCHANGED <<record, changes, evicting, grant, agents, published, evicted, late, stopped>>

Validate(c) ==
  /\ record[AgentOf[c]] # Revoked
  /\ Step(c, "hello", "validated")
  /\ grant' = [grant EXCEPT ![c] = record[AgentOf[c]]]
  /\ UNCHANGED <<record, changes, evicting, agents, open, published, evicted, late, stopped>>

\* The peer goes away, or stays silent until its deadline.
PreAuthFails(c) ==
  /\ pc[c] = "hello"
  /\ Refuse(c)
  /\ UNCHANGED <<record, changes, evicting, grant, agents, published, evicted, late, stopped>>

\* Dampened, or the actor has shut down.
AdmitRefused_LeavesOpen(c) ==
  /\ pc[c] = "validated"
  /\ stopped \/ agents[AgentOf[c]] # Nobody
  /\ pc' = [pc EXCEPT ![c] = "done"]
  /\ UNCHANGED <<record, changes, evicting, grant, agents, open, published, evicted, late, stopped>>
AdmitRefused(c) ==
  /\ pc[c] = "validated"
  /\ stopped \/ agents[AgentOf[c]] # Nobody
  /\ Refuse(c)
  /\ UNCHANGED <<record, changes, evicting, grant, agents, published, evicted, late, stopped>>

Superseded_Published(a) == {agents[a]} \cap published
\* The session of the same agent that a new one takes the place of.
Superseded(a) == {agents[a]} \ {Nobody}

\* buildAndAdmit.
Admit(c) ==
  LET a == AgentOf[c] IN
  /\ ~stopped
  /\ Step(c, "validated", "admitted")
  /\ evict(Superseded(a))
  /\ agents' = [agents EXCEPT ![a] = c]
  /\ UNCHANGED <<record, changes, evicting, grant, published, late, stopped>>

\* setSession, and the wait for the control stream (TCP).
Publish(c) ==
  /\ Step(c, "admitted", "serving")
  /\ published' = published \cup {c}
  /\ UNCHANGED <<record, changes, evicting, grant, agents, open, evicted, late, stopped>>

\* hello_ok cannot be written.
HelloFails(c) ==
  /\ c \notin open
  /\ Step(c, "admitted", "leaving")
  /\ UNCHANGED <<record, changes, evicting, grant, agents, open, published, evicted, late, stopped>>

\* The control stream ends with the transport, or its agent stays silent.
ServeEnds(c) ==
  /\ c \notin open
  /\ Step(c, "serving", "leaving")
  /\ UNCHANGED <<record, changes, evicting, grant, agents, open, published, evicted, late, stopped>>

GoesSilent(c) ==
  /\ Step(c, "serving", "leaving")
  /\ open' = open \ {c}
  /\ UNCHANGED <<record, changes, evicting, grant, agents, published, evicted, late, stopped>>

LeavingSession(c) == IF agents[AgentOf[c]] = c THEN {c} ELSE {}
\* The deferred calls: the session is closed, then the actor told.
Disconnected(c) ==
  /\ Step(c, "leaving", "done")
  /\ evicted' = IF stopped THEN evicted ELSE evicted \cup LeavingSession(c)
  /\ open' = open \ {c}
  /\ agents' = [a \in AgentIDs |-> IF agents[a] \in LeavingSession(c) THEN Nobody ELSE agents[a]]
  /\ UNCHANGED <<record, changes, evicting, grant, published, late, stopped>>

LinkLost(c) ==
  /\ c \in open /\ pc[c] \in {"admitted", "serving"}
  /\ open' = open \ {c}
  /\ UNCHANGED <<record, changes, evicting, pc, grant, agents, published, evicted, late, stopped>>

-----------------------------------------------------------------------------
(* The operator: RevokeAgent and SetAgentScope, and the shutdown.          *)

Between(a) == {c \in Conns : AgentOf[c] = a /\ pc[c] = "validated"}

\* The store is written ...
ChangeRecord(a, r) ==
  /\ changes < MaxChanges
  /\ record[a] \notin {r, Revoked}
  /\ record' = [record EXCEPT ![a] = r]
  /\ changes' = changes + 1
  /\ evicting' = evicting \cup {a}
  /\ late' = late \cup Between(a)
  /\ UNCHANGED <<pc, grant, agents, open, published, evicted, stopped>>

EvictTarget_NobodyToo(a) == {agents[a]}
EvictTarget_Published(a) == {agents[a]} \cap published
EvictTarget(a) == {agents[a]} \ {Nobody}
\* ... then, on the actor, the live session evicted.
EvictAgent(a) ==
  /\ a \in evicting
  /\ evicting' = evicting \ {a}
  /\ evict(IF stopped THEN {} ELSE EvictTarget(a))
  /\ agents' = [agents EXCEPT ![a] = IF @ \in EvictTarget(a) THEN Nobody ELSE @]
  /\ UNCHANGED <<record, changes, pc, grant, published, late, stopped>>

Live == {agents[a] : a \in AgentIDs} \ {Nobody}

\* The actor evicts everyone; the QUIC listener closes with its connections.
Shutdown ==
  /\ ~stopped
  /\ stopped' = TRUE
  /\ evicted' = evicted \cup Live
  /\ open' = open \ (QUIC \cup ClosedBy(Live))
  /\ agents' = [a \in AgentIDs |-> Nobody]
  /\ UNCHANGED <<record, changes, evicting, pc, grant, published, late>>

-----------------------------------------------------------------------------
HandlerStep(c) ==
  \/ Validate(c) \/ ValidateRefused(c) \/ PreAuthFails(c)
  \/ Admit(c) \/ AdmitRefused(c)
  \/ Publish(c) \/ HelloFails(c) \/ ServeEnds(c) \/ Disconnected(c)

Next ==
  \/ \E c \in Conns : HandlerStep(c) \/ GoesSilent(c) \/ LinkLost(c)
  \/ \E a \in AgentIDs : EvictAgent(a) \/ \E r \in Grants \cup {Revoked} : ChangeRecord(a, r)
  \/ Shutdown

\* Handlers and the operator's goroutine run on; a handler in its prologue has
\* a deadline. An agent is not assumed to leave.
Fairness ==
  /\ \A c \in Conns : WF_vars(HandlerStep(c))
  /\ \A a \in AgentIDs : WF_vars(EvictAgent(a))

Spec == Init /\ [][Next]_vars /\ Fairness

-----------------------------------------------------------------------------
(* Properties.                                                             *)

\* A change of an agent's grant reaches every session of the agent but one: the
\* session whose handler had read the record and not yet entered the map.
StaleGrantOnlyByRace ==
  \A a \in AgentIDs :
    agents[a] # Nobody /\ a \notin evicting /\ grant[agents[a]] # record[a]
      => agents[a] \in late

\* A handler that has returned leaves no transport open, whatever refused it,
\* and no session of its own in the actor's map.
DoneIsClosed ==
  \A c \in Conns : pc[c] = "done" => c \notin open /\ agents[AgentOf[c]] # c

\* The connection that is live is never one that was evicted, and it is the only
\* one of its agent whose handler may serve without having been evicted.
LiveIsNotEvicted ==
  \A c \in Conns : pc[c] \in {"admitted", "serving"} =>
    (c \in evicted <=> agents[AgentOf[c]] # c)

\* Who may serve and what is open follow from the actor's map.
OpenIsLive == TypeOK /\ DoneIsClosed /\ LiveIsNotEvicted

\* The handler of a TCP session that was evicted returns.
EvictedReturns == \A c \in Conns \ QUIC : c \in evicted ~> pc[c] = "done"

\* After the shutdown every handler returns.
ShutdownEndsHandlers == stopped ~> \A c \in Conns : pc[c] = "done"

\* No handler stays for ever where an eviction or the shutdown wants it gone.
HandlersEnd == EvictedReturns /\ ShutdownEndsHandlers

=============================================================================
