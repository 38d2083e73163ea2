------------------------------- MODULE Traffic -------------------------------
(***************************************************************************)
(* The Traffic screen (Traffic.tsx): the table of every client joins what  *)
(* the statistics keep of a host with its connections that are live, two   *)
(* answers that are taken at different times; the rate of a client is the  *)
(* difference of two of them. A connection that ends leaves the registry   *)
(* first (conntrack.go) and is folded into its host's record after that    *)
(* (engine.go, stats.go).                                                  *)
(*                                                                         *)
(* The second part is the wire between agent and gateway and what the      *)
(* windows at its ends call down and up (LinkStrip, the hops of Overview). *)
(* A wire, a host and a connection count bytes in units; bytes in and out  *)
(* of a connection are one number. Columns and formatting are left out.    *)
(*                                                                         *)
(* A definition named X_Y is not part of the model: it is X with the bug Y *)
(* put in, and some property must fail when it takes the place of X.       *)
(***************************************************************************)
EXTENDS Integers, FiniteSetsExt, Functions

CONSTANTS
  V4, V6,      \* the hosts that clients come from, by the form of their address
  MinGap,      \* the least time between the two samples of a rate: 900 ms
  MaxClients,  \* bound: connections ever
  MaxBytes,    \* bound: what one of them moves, what is written into the wire
  MaxClock     \* bound: time

ASSUME TrafficAssumption ==
  /\ V4 \cap V6 = {} /\ MinGap \in Nat \ {0}
  /\ MaxClients \in Nat /\ MaxBytes \in Nat /\ MaxClock \in Nat

Hosts == V4 \cup V6
Conn == [id : 1..MaxClients, host : Hosts, bytes : 0..MaxBytes]

VARIABLES
  live,     \* the registry of connections
  parting,  \* those that left it and are not folded yet
  folded,   \* the record of a host: was one of its connections opened, which are folded
            \* in, and their bytes
  status,   \* the last tick that arrived: [conns, ended, moved], the last two kept
            \* for the properties
  peers,    \* what usePeers has: the records as of some time
  rates,    \* ipRateState
  clock

trafficVars == <<live, parting, folded, status, peers, rates, clock>>

Added(f) == FoldFunction(LAMBDA a, b : a + b, 0, f)
BytesOf(cs) == Added([c \in cs |-> c.bytes])
OfHost(cs, h) == {c \in cs : c.host = h}

Moved == [h \in Hosts |-> BytesOf(OfHost(live \cup parting, h)) + folded[h].bytes]
Ended == [h \in Hosts |-> {c.id : c \in OfHost(parting, h)} \cup folded[h].ids]
ConnsEver == Cardinality(live) + Cardinality(UNION {Ended[h] : h \in Hosts})

\* stripPort: an address with two colons or more keeps its port, so that the
\* connections of such a host have one key each.
KeyOf(c) == IF c.host \in V4 THEN <<c.host>> ELSE <<c.host, c.id>>

TrafficTypeOK ==
  /\ live \subseteq Conn /\ parting \subseteq Conn
  /\ folded \in [Hosts -> [seen : BOOLEAN, ids : SUBSET (1..MaxClients),
                         bytes : 0..(MaxClients * MaxBytes)]]
  /\ DOMAIN rates \subseteq {KeyOf(c) : c \in Conn}
  /\ \A k \in DOMAIN rates : rates[k].t \in 0..clock /\ rates[k].grew >= 0

TrafficInit ==
  /\ live = {} /\ parting = {} /\ clock = 0
  /\ folded = [h \in Hosts |-> [seen |-> FALSE, ids |-> {}, bytes |-> 0]]
  /\ status = [conns |-> {}, ended |-> Ended, moved |-> Moved]
  /\ peers = folded
  /\ rates = [k \in {} |-> 0]

-----------------------------------------------------------------------------
\* The backend.

Connect ==
  /\ ConnsEver < MaxClients
  /\ \E h \in Hosts :
       /\ live' = live \cup {[id |-> ConnsEver + 1, host |-> h, bytes |-> 0]}
       /\ folded' = [folded EXCEPT ![h].seen = TRUE]
  /\ UNCHANGED <<parting, status, peers, rates, clock>>

Transfer ==
  /\ \E c \in live : c.bytes < MaxBytes /\ live' = (live \ {c}) \cup {[c EXCEPT !.bytes = @ + 1]}
  /\ UNCHANGED <<parting, folded, status, peers, rates, clock>>

\* The close function: out of the registry, then the hook.
CloseConn ==
  /\ \E c \in live : live' = live \ {c} /\ parting' = parting \cup {c}
  /\ UNCHANGED <<folded, status, peers, rates, clock>>

ConnClosed ==
  /\ \E c \in parting :
       /\ parting' = parting \ {c}
       /\ folded' = [folded EXCEPT ![c.host].ids = @ \cup {c.id}, ![c.host].bytes = @ + c.bytes]
  /\ UNCHANGED <<live, status, peers, rates, clock>>

-----------------------------------------------------------------------------
\* The screen.

Sample(k, cs, now, moved) ==
  [t |-> now, bytes |-> BytesOf({c \in cs : KeyOf(c) = k}), moved |-> moved[k[1]],
   grew |-> 0, over |-> 0, real |-> 0]

CurrentRates_Distance(cs, now, moved) ==
  [k \in {KeyOf(c) : c \in cs} |->
     LET new == Sample(k, cs, now, moved)
         prev == rates[k]
     IN IF k \notin DOMAIN rates THEN new
        ELSE IF now - prev.t < MinGap THEN prev
        ELSE [new EXCEPT !.grew = Max({prev.bytes - new.bytes, new.bytes - prev.bytes}),
                         !.over = now - prev.t, !.real = new.moved - prev.moved]]

\* The rates that a render computes of cs: bytes per key against the sample that
\* is kept, unless that is too young; the keys that are gone are forgotten. A
\* rate is what the bytes grew by over a time; what the host moved meanwhile is
\* kept for the properties.
CurrentRates(cs, now, moved) ==
  [k \in {KeyOf(c) : c \in cs} |->
     LET new == Sample(k, cs, now, moved)
         prev == rates[k]
     IN IF k \notin DOMAIN rates THEN new
        ELSE IF now - prev.t < MinGap THEN prev
        ELSE [new EXCEPT !.grew = Max({0, new.bytes - prev.bytes}),
                         !.over = now - prev.t, !.real = new.moved - prev.moved]]

\* A tick arrives, and the screen renders if it is open.
Tick ==
  /\ status' = [conns |-> live, ended |-> Ended, moved |-> Moved]
  /\ rates' \in {rates, CurrentRates(live, clock, Moved)}
  /\ UNCHANGED <<live, parting, folded, peers, clock>>

\* It renders for another reason: its own timer, new records.
Render ==
  /\ rates' = CurrentRates(status.conns, clock, status.moved)
  /\ UNCHANGED <<live, parting, folded, status, peers, clock>>

PollPeers ==
  /\ peers' = folded
  /\ UNCHANGED <<live, parting, folded, status, rates, clock>>

TrafficElapse ==
  /\ clock < MaxClock /\ clock' = clock + 1
  /\ UNCHANGED <<live, parting, folded, status, peers, rates>>

TrafficNext ==
  \/ Connect \/ Transfer \/ CloseConn \/ ConnClosed
  \/ Tick \/ Render \/ PollPeers \/ TrafficElapse

-----------------------------------------------------------------------------
MergeClients_LiveOnly ==
  LET stored == {<<h>> : h \in {h \in Hosts : peers[h].seen}}
      Mine(k) == {c \in status.conns : KeyOf(c) = k}
  IN {[ip |-> k, live |-> Mine(k) # {},
       total |-> IF Mine(k) # {} THEN BytesOf(Mine(k)) ELSE peers[k[1]].bytes] :
        k \in stored \cup {KeyOf(c) : c \in status.conns}}

\* The rows of every client: a record that is stored is found by its host, live
\* bytes are added on top.
MergeClients ==
  LET stored == {<<h>> : h \in {h \in Hosts : peers[h].seen}}
      Mine(k) == {c \in status.conns : KeyOf(c) = k}
  IN {[ip |-> k, live |-> Mine(k) # {},
       total |-> BytesOf(Mine(k)) + (IF k \in stored THEN peers[k[1]].bytes ELSE 0)] :
        k \in stored \cup {KeyOf(c) : c \in status.conns}}

\* A rate spans at least MinGap, and says no more than what its host moved
\* meanwhile, whichever of the host's connections opened or ended.
RatesAreReal ==
  \A k \in DOMAIN rates :
    /\ rates[k].over = 0 \/ rates[k].over >= MinGap
    /\ rates[k].grew <= rates[k].real

\* What the rows of a host add up to is what it had moved by the last tick, if
\* its connections that had ended then are those that the records hold; while
\* some are missing there it is too little, and when there are more too much.
TotalsAddUp ==
  \A h \in Hosts :
    LET shown == Added([r \in {r \in MergeClients : r.ip[1] = h} |-> r.total])
        real == status.moved[h]
    IN /\ peers[h].ids \subseteq status.ended[h] => shown <= real
       /\ status.ended[h] \subseteq peers[h].ids => shown >= real

\* A host has one row, live if and only if one of its connections is.
OneRowPerClient ==
  \A h \in V4 : \A r, s \in {r \in MergeClients : r.ip[1] = h} :
    r = s /\ (r.live <=> OfHost(status.conns, h) # {})

TrafficSafe == TrafficTypeOK /\ RatesAreReal /\ TotalsAddUp /\ OneRowPerClient

-----------------------------------------------------------------------------
\* The wire between the agent and the gateway.

VARIABLE wire   \* what each end wrote and read: [agent, gateway], each [in, out]

Ends == {"agent", "gateway"}
OtherEnd(e) == IF e = "agent" THEN "gateway" ELSE "agent"

WireInit == wire = [e \in Ends |-> [in |-> 0, out |-> 0]]

Write == \E e \in Ends : wire[e].out < MaxBytes /\ wire' = [wire EXCEPT ![e].out = @ + 1]

Read ==
  \E e \in Ends :
    wire[e].in < wire[OtherEnd(e)].out /\ wire' = [wire EXCEPT ![e].in = @ + 1]

WireNext == Write \/ Read

LinkStrip_SameNames(role) == [down |-> wire[role].out, up |-> wire[role].in]

\* What the strip of a window calls down (from the server to the players) and up.
LinkStrip(role) ==
  IF role = "agent" THEN [down |-> wire[role].out, up |-> wire[role].in]
                    ELSE [down |-> wire[role].in, up |-> wire[role].out]

\* The bytes on the link's side of the pipeline: its right for an agent, its left
\* for a gateway.
LinkHop(role) == wire[role].in + wire[role].out

\* The two windows use the words alike: in a direction, what the receiving end
\* shows never exceeds what the sending end shows, and when nothing is under
\* way they show the same.
WindowsAgree ==
  LET a == LinkStrip("agent")
      g == LinkStrip("gateway")
  IN /\ g.down <= a.down /\ a.up <= g.up
     /\ (\A e \in Ends : wire[e].in = wire[OtherEnd(e)].out) =>
          a = g /\ LinkHop("agent") = LinkHop("gateway")
=============================================================================
