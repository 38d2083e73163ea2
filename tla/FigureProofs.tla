---------------------------- MODULE FigureProofs ----------------------------
(***************************************************************************)
(* Machine-checked proofs about the figures of the window: the traffic and *)
(* its rates, the charts and their scales, uptime, packet loss and the     *)
(* replay, for every number of hosts, connections, buckets, transitions    *)
(* and points, and for any widths, windows, rates and caps.                *)
(*                                                                         *)
(* The order: the wire, the traffic, the scales, the buckets of a plot,    *)
(* the choices of a panel, packet loss, the bands of uptime, the replay,   *)
(* and the charts with their strip, lines, candles and axis.               *)
(***************************************************************************)
EXTENDS Charts, Plots, Replay, Traffic, SumProofs, SequenceTheorems

-----------------------------------------------------------------------------
(* The wire between the windows.                                           *)

\* No end has read what the other has not written.
WireInv ==
  /\ wire \in [Ends -> [in : Nat, out : Nat]]
  /\ \A e \in Ends : wire[e].in <= wire[OtherEnd(e)].out

LEMMA WireInvInit == WireInit => WireInv
BY DEF WireInit, WireInv, Ends, OtherEnd

LEMMA WireInvStep == WireInv /\ [WireNext]_wire => WireInv'
<1>. SUFFICES ASSUME WireInv, [WireNext]_wire  PROVE WireInv'
  OBVIOUS
<1>1. \A e \in Ends : OtherEnd(e) \in Ends /\ OtherEnd(OtherEnd(e)) = e /\ OtherEnd(e) # e
  BY DEF Ends, OtherEnd
<1>2. CASE UNCHANGED wire
  BY <1>2 DEF WireInv
<1>3. CASE Write
  <2>1. PICK e \in Ends : wire' = [wire EXCEPT ![e].out = @ + 1]
    BY <1>3 DEF Write
  <2>2. /\ wire' \in [Ends -> [in : Nat, out : Nat]]
        /\ \A x \in Ends : wire'[x].in = wire[x].in /\ wire'[x].out >= wire[x].out
    BY <2>1 DEF WireInv
  <2>. QED  BY <1>1, <2>2 DEF WireInv
<1>4. CASE Read
  <2>1. PICK e \in Ends : wire[e].in < wire[OtherEnd(e)].out /\ wire' = [wire EXCEPT ![e].in = @ + 1]
    BY <1>4 DEF Read
  <2>2. /\ wire' \in [Ends -> [in : Nat, out : Nat]]
        /\ \A x \in Ends : wire'[x].out = wire[x].out /\ (x # e => wire'[x].in = wire[x].in)
        /\ wire'[e].in = wire[e].in + 1
    BY <2>1 DEF WireInv
  <2>. QED  BY <1>1, <2>1, <2>2 DEF WireInv
<1>. QED  BY <1>2, <1>3, <1>4 DEF WireNext

LEMMA WirePromise == WireInv => WindowsAgree
<1>. SUFFICES ASSUME WireInv  PROVE WindowsAgree
  OBVIOUS
<1>1. /\ wire["agent"].in \in Nat /\ wire["agent"].out \in Nat
      /\ wire["gateway"].in \in Nat /\ wire["gateway"].out \in Nat
      /\ wire["agent"].in <= wire["gateway"].out /\ wire["gateway"].in <= wire["agent"].out
  BY DEF WireInv, Ends, OtherEnd
<1>2. /\ LinkStrip("agent") = [down |-> wire["agent"].out, up |-> wire["agent"].in]
      /\ LinkStrip("gateway") = [down |-> wire["gateway"].in, up |-> wire["gateway"].out]
  BY DEF LinkStrip
<1>3. (\A e \in Ends : wire[e].in = wire[OtherEnd(e)].out) =>
        wire["agent"].in = wire["gateway"].out /\ wire["gateway"].in = wire["agent"].out
  BY DEF Ends, OtherEnd
<1>. QED  BY <1>1, <1>2, <1>3 DEF WindowsAgree, LinkHop

-----------------------------------------------------------------------------
(* The traffic.                                                            *)

ClientKeys == {KeyOf(c) : c \in Conn}
Mine(cs, k) == {c \in cs : KeyOf(c) = k}
Ids(cs) == {c.id : c \in cs}
Bytes == [c \in Conn |-> c.bytes]
EndedIds == UNION {Ended[h] : h \in Hosts}

\* Every connection has a number of its own, and is in the registry, on its way out of it or
\* in the record of its host.
NumberedInv ==
  /\ live \subseteq Conn /\ parting \subseteq Conn /\ IsFiniteSet(live) /\ IsFiniteSet(parting)
  /\ live \cap parting = {}
  /\ \A c, d \in live \cup parting : c.id = d.id => c = d
  /\ \A h \in Hosts : \A c \in live \cup parting : c.id \notin folded[h].ids
  /\ \A g, h \in Hosts : g # h => folded[g].ids \cap folded[h].ids = {}
  /\ Ids(live) \cup EndedIds = 1..ConnsEver
  /\ folded \in [Hosts -> [seen : BOOLEAN, ids : SUBSET (1..MaxClients), bytes : Nat]]

\* The records are of the connections in them, of which fin says what they moved; and so are
\* the records that the screen has. What the last tick said is what it was of.
LedgerInv(fin) ==
  /\ \A c \in parting : fin[c.id] = c.bytes
  /\ peers \in [Hosts -> [seen : BOOLEAN, ids : SUBSET (1..MaxClients), bytes : Nat]]
  /\ status.ended \in [Hosts -> SUBSET (1..MaxClients)]
  /\ \A h \in Hosts :
       /\ folded[h].bytes = Total(fin, folded[h].ids) /\ peers[h].bytes = Total(fin, peers[h].ids)
       /\ peers[h].ids \subseteq folded[h].ids
       /\ folded[h].ids # {} => folded[h].seen
       /\ peers[h].ids # {} => peers[h].seen
       /\ status.ended[h] \subseteq Ended[h]
       /\ status.moved[h] = Total(fin, status.ended[h]) + BytesOf(OfHost(status.conns, h))
  /\ \A c \in live \cup parting : folded[c.host].seen

\* A host's bytes but for those of one of its rows.
Aside(moved, cs, k) == moved[k[1]] - BytesOf(Mine(cs, k))

\* The last tick is not ahead of what is so, for a host and for the rest of it.
BehindInv ==
  /\ status.conns \subseteq Conn /\ IsFiniteSet(status.conns)
  /\ status.moved \in [Hosts -> Nat]
  /\ \A h \in Hosts : status.moved[h] <= Moved[h]
  /\ \A k \in ClientKeys : Aside(status.moved, status.conns, k) <= Aside(Moved, live, k)

\* The sample of a rate is not ahead of a tick with the connections cs.
RatesInv(rs, cs, moved, now) ==
  /\ DOMAIN rs \subseteq ClientKeys
  /\ \A k \in DOMAIN rs :
       /\ rs[k].t \in 0..now /\ rs[k].grew \in Nat /\ rs[k].over \in Nat
       /\ rs[k].bytes \in Nat /\ rs[k].moved \in Nat /\ rs[k].real \in Int
       /\ rs[k].over = 0 \/ rs[k].over >= MinGap
       /\ rs[k].grew <= rs[k].real
       /\ rs[k].moved <= moved[k[1]]
       /\ rs[k].moved - rs[k].bytes <= Aside(moved, cs, k)

TrafficInv ==
  /\ NumberedInv /\ BehindInv /\ clock \in Nat
  /\ \E fin \in [1..MaxClients -> 0..MaxBytes] : LedgerInv(fin)
  /\ RatesInv(rates, status.conns, status.moved, clock)

-----------------------------------------------------------------------------
\* What connections carry is the sum of their bytes.
LEMMA BytesAreASum ==
  ASSUME NEW cs \in SUBSET Conn, IsFiniteSet(cs)
  PROVE  BytesOf(cs) = Total(Bytes, cs) /\ BytesOf(cs) \in Nat
<1>. DEFINE g == [c \in cs |-> c.bytes]
<1>1. DOMAIN g = cs /\ (\A c \in cs : g[c] = Bytes[c]) /\ (\A c \in cs : Bytes[c] \in Nat)
  BY TrafficAssumption DEF Bytes, Conn
<1>2. BytesOf(cs) = Added(g)
  BY DEF BytesOf
<1>. HIDE DEF g
<1>3. Added(g) = Total(g, cs)
  BY <1>1 DEF Added, Total, FoldFunction
<1>4. Total(g, cs) = Total(Bytes, cs)
  BY <1>1, SumSame
<1>5. Total(Bytes, cs) \in Nat
  BY <1>1, SumTakeOut
<1>. QED  BY <1>2, <1>3, <1>4, <1>5

\* One connection more, as far as it is one of Q.
LEMMA OneMore ==
  ASSUME NEW cs \in SUBSET Conn, IsFiniteSet(cs), NEW c \in Conn, c \notin cs, NEW Q
  PROVE  /\ BytesOf((cs \cup {c}) \cap Q) = BytesOf(cs \cap Q) + (IF c \in Q THEN c.bytes ELSE 0)
         /\ BytesOf(cs \cap Q) \in Nat /\ IsFiniteSet(cs \cup {c})
<1>. DEFINE P == cs \cap Q
<1>1. P \in SUBSET Conn /\ IsFiniteSet(P)
  BY FS_Subset
<1>2. BytesOf(P) \in Nat /\ BytesOf(P) = Total(Bytes, P) /\ IsFiniteSet(cs \cup {c})
  BY <1>1, BytesAreASum, FS_AddElement
<1>3. CASE c \notin Q
  <2>1. (cs \cup {c}) \cap Q = P
    BY <1>3
  <2>. HIDE DEF P
  <2>. QED  BY <1>2, <1>3, <2>1 DEF P
<1>4. CASE c \in Q
  <2>1. (cs \cup {c}) \cap Q = P \cup {c} /\ c \notin P
    BY <1>4
  <2>. HIDE DEF P
  <2>2. P \cup {c} \in SUBSET Conn /\ IsFiniteSet(P \cup {c})
    BY <1>1, FS_AddElement
  <2>3. \A x \in P \cup {c} : Bytes[x] \in Nat
    BY <2>2, TrafficAssumption DEF Bytes, Conn
  <2>4. Total(Bytes, P \cup {c}) = Bytes[c] + Total(Bytes, P)
    BY <1>1, <2>1, <2>3, SumPutIn
  <2>5. BytesOf(P \cup {c}) = Total(Bytes, P \cup {c}) /\ Bytes[c] = c.bytes /\ Bytes[c] \in Nat
    BY <2>2, <2>3, BytesAreASum DEF Bytes
  <2>6. BytesOf(P \cup {c}) = BytesOf(P) + c.bytes
    BY <1>2, <2>4, <2>5
  <2>. QED  BY <1>2, <1>4, <2>1, <2>6 DEF P
<1>. QED  BY <1>3, <1>4

LEMMA PartsAreOfQ ==
  ASSUME NEW cs \in SUBSET Conn
  PROVE  /\ \A h : OfHost(cs, h) = cs \cap OfHost(Conn, h)
         /\ \A k : Mine(cs, k) = cs \cap Mine(Conn, k)
BY DEF OfHost, Mine

LEMMA KeysAreOfHosts ==
  /\ \A c \in Conn : KeyOf(c) \in ClientKeys /\ KeyOf(c)[1] = c.host /\ c.host \in Hosts
  /\ \A k \in ClientKeys : k[1] \in Hosts
<1>1. \A c \in Conn : KeyOf(c) \in ClientKeys /\ KeyOf(c)[1] = c.host /\ c.host \in Hosts
  BY DEF KeyOf, ClientKeys, Conn
<1>. QED  BY <1>1 DEF ClientKeys

\* What a host moved, as a sum of its parts.
LEMMA MovedSplit ==
  ASSUME NumberedInv, NEW h \in Hosts
  PROVE  /\ Moved[h] = BytesOf(OfHost(live, h)) + BytesOf(OfHost(parting, h)) + folded[h].bytes
         /\ Moved[h] \in Nat /\ BytesOf(OfHost(live, h)) \in Nat
<1>. DEFINE L == OfHost(live, h)
            P == OfHost(parting, h)
<1>1. /\ L \in SUBSET Conn /\ P \in SUBSET Conn /\ L \in SUBSET live /\ P \in SUBSET parting
      /\ L \cap P = {} /\ OfHost(live \cup parting, h) = L \cup P
  BY DEF NumberedInv, OfHost
<1>2. IsFiniteSet(L) /\ IsFiniteSet(P) /\ IsFiniteSet(L \cup P) /\ L \cup P \in SUBSET Conn
  <2>1. IsFiniteSet(L) /\ IsFiniteSet(P)
    BY <1>1, FS_Subset DEF NumberedInv
  <2>. QED  BY <1>1, <2>1, FS_Union
<1>3. Moved[h] = BytesOf(L \cup P) + folded[h].bytes /\ folded[h].bytes \in Nat
  BY <1>1 DEF Moved, NumberedInv
<1>. HIDE DEF L, P
<1>4. \A c \in L \cup P : Bytes[c] \in Nat
  BY <1>2, TrafficAssumption DEF Bytes, Conn
<1>5. Total(Bytes, L \cup P) = Total(Bytes, L) + Total(Bytes, P)
  BY <1>1, <1>2, <1>4, SumUnion
<1>6. BytesOf(L) = Total(Bytes, L) /\ BytesOf(P) = Total(Bytes, P)
      /\ BytesOf(L \cup P) = Total(Bytes, L \cup P) /\ BytesOf(L) \in Nat /\ BytesOf(P) \in Nat
  BY <1>1, <1>2, BytesAreASum
<1>. QED  BY <1>3, <1>5, <1>6 DEF L, P

\* The bytes of connections, by their numbers.
LEMMA BytesByNumber ==
  ASSUME NEW P \in SUBSET Conn, IsFiniteSet(P), \A c, d \in P : c.id = d.id => c = d,
         NEW fin, \A c \in P : fin[c.id] = c.bytes
  PROVE  Total(fin, Ids(P)) = BytesOf(P) /\ IsFiniteSet(Ids(P))
<1>1. PICK num : num = [c \in P |-> c.id]
  OBVIOUS
<1>2. PICK I : I = {num[x] : x \in P}
  OBVIOUS
<1>3. PICK g : g = [c \in P |-> c.bytes]
  OBVIOUS
<1>4. \A x, y \in P : num[x] = num[y] => x = y
  BY <1>1
<1>5. \A x \in P : g[x] \in Nat /\ fin[num[x]] = g[x]
  BY <1>1, <1>3, TrafficAssumption DEF Conn
<1>6. Total(fin, I) = Total(g, P) /\ IsFiniteSet(I)
  BY <1>2, <1>4, <1>5, SumRenamed
<1>7. I = Ids(P)
  BY <1>1, <1>2 DEF Ids
<1>8. \A x \in P : g[x] = Bytes[x]
  BY <1>3 DEF Bytes
<1>9. Total(g, P) = Total(Bytes, P)
  BY <1>8, SumSame
<1>. QED  BY <1>6, <1>7, <1>9, BytesAreASum

\* What the ended connections of a host moved is in their numbers.
LEMMA MovedIs ==
  ASSUME NumberedInv, NEW fin \in [1..MaxClients -> 0..MaxBytes], LedgerInv(fin), NEW h \in Hosts
  PROVE  Moved[h] = Total(fin, Ended[h]) + BytesOf(OfHost(live, h))
<1>. DEFINE P == OfHost(parting, h)
            F == folded[h].ids
            I == Ids(P)
<1>1. P \in SUBSET Conn /\ P \in SUBSET parting /\ F \in SUBSET (1..MaxClients) /\ folded[h].bytes \in Nat
  BY DEF NumberedInv, OfHost
<1>2. I \in SUBSET (1..MaxClients)
  BY <1>1 DEF Conn, Ids
<1>3. Ended[h] = I \cup F
  BY DEF Ended, Ids
<1>4. I \cap F = {}
  BY <1>1 DEF NumberedInv, Ids
<1>5. /\ \A c, d \in P : c.id = d.id => c = d
      /\ \A c \in P : fin[c.id] = c.bytes
  BY <1>1 DEF NumberedInv, LedgerInv
<1>7. IsFiniteSet(P) /\ IsFiniteSet(F)
  <2>1. IsFiniteSet(parting)
    BY DEF NumberedInv
  <2>2. IsFiniteSet(1..MaxClients)
    BY TrafficAssumption, FS_Interval
  <2>. QED  BY <1>1, <2>1, <2>2, FS_Subset
<1>8. \A i \in 1..MaxClients : fin[i] \in Nat
  BY TrafficAssumption
<1>12. folded[h].bytes = Total(fin, F)
  BY DEF LedgerInv, F
<1>13. Moved[h] = BytesOf(OfHost(live, h)) + BytesOf(P) + folded[h].bytes /\ BytesOf(OfHost(live, h)) \in Nat
  BY MovedSplit
<1>. HIDE DEF P, F
<1>9. Total(fin, I) = BytesOf(P) /\ IsFiniteSet(I)
  BY <1>1, <1>5, <1>7, BytesByNumber
<1>. HIDE DEF I
<1>10. Total(fin, I \cup F) = Total(fin, I) + Total(fin, F)
  BY <1>1, <1>2, <1>4, <1>7, <1>8, <1>9, SumUnion
<1>11. BytesOf(P) \in Nat
  BY <1>1, <1>7, BytesAreASum
<1>. QED  BY <1>1, <1>3, <1>9, <1>10, <1>11, <1>12, <1>13

-----------------------------------------------------------------------------
\* Where the numbers given out so far are.
LEMMA NumbersAre ==
  ASSUME NumberedInv
  PROVE  /\ EndedIds = Ids(parting) \cup UNION {folded[h].ids : h \in Hosts}
         /\ EndedIds \in SUBSET (1..MaxClients) /\ IsFiniteSet(EndedIds)
         /\ ConnsEver = Cardinality(live) + Cardinality(EndedIds)
         /\ ConnsEver \in Nat /\ Cardinality(live) \in Nat /\ Cardinality(EndedIds) \in Nat
         /\ \A c \in live \cup parting : c.id \in 1..ConnsEver /\ c.host \in Hosts
         /\ \A h \in Hosts : folded[h].ids \in SUBSET (1..ConnsEver)
<1>1. \A c \in live \cup parting : c.host \in Hosts /\ c.id \in 1..MaxClients
  BY DEF NumberedInv, Conn
<1>2. \A h \in Hosts : folded[h].ids \in SUBSET (1..MaxClients)
  BY DEF NumberedInv
<1>3. EndedIds = Ids(parting) \cup UNION {folded[h].ids : h \in Hosts}
  <2>1. \A h \in Hosts : Ended[h] = {c.id : c \in OfHost(parting, h)} \cup folded[h].ids
    BY DEF Ended
  <2>2. ASSUME NEW i \in EndedIds  PROVE i \in Ids(parting) \cup UNION {folded[h].ids : h \in Hosts}
    BY <2>1 DEF EndedIds, Ids, OfHost
  <2>3. ASSUME NEW i \in Ids(parting)  PROVE i \in EndedIds
    <3>1. PICK c \in parting : i = c.id /\ c.host \in Hosts
      BY <1>1 DEF Ids
    <3>2. i \in Ended[c.host]
      BY <2>1, <3>1 DEF OfHost
    <3>. QED  BY <3>1, <3>2 DEF EndedIds
  <2>4. ASSUME NEW h \in Hosts, NEW i \in folded[h].ids  PROVE i \in EndedIds
    BY <2>1 DEF EndedIds
  <2>. QED  BY <2>2, <2>3, <2>4
<1>4. EndedIds \in SUBSET (1..MaxClients)
  BY <1>1, <1>2, <1>3 DEF Ids
<1>5. IsFiniteSet(EndedIds)
  <2>1. IsFiniteSet(1..MaxClients)
    BY TrafficAssumption, FS_Interval
  <2>. QED  BY <1>4, <2>1, FS_Subset
<1>6. Cardinality(live) \in Nat /\ Cardinality(EndedIds) \in Nat
  BY <1>5, FS_CardinalityType DEF NumberedInv
<1>7. ConnsEver = Cardinality(live) + Cardinality(EndedIds)
  BY DEF ConnsEver, EndedIds
<1>8. Ids(live) \cup EndedIds = 1..ConnsEver
  BY DEF NumberedInv
<1>9. \A c \in live \cup parting : c.id \in 1..ConnsEver
  BY <1>3, <1>8 DEF Ids
<1>10. \A h \in Hosts : folded[h].ids \in SUBSET (1..ConnsEver)
  BY <1>3, <1>8
<1>. QED  BY <1>1, <1>3, <1>4, <1>5, <1>6, <1>7, <1>9, <1>10

\* A step takes nothing back, neither from a host nor from what is aside of a row.
Onward ==
  /\ \A h \in Hosts : Moved[h] <= Moved'[h] /\ Moved'[h] \in Nat
  /\ \A k \in ClientKeys : Aside(Moved, live, k) <= Aside(Moved', live', k)

-----------------------------------------------------------------------------
LEMMA ConnectKeeps ==
  ASSUME NumberedInv, Connect
  PROVE  /\ NumberedInv' /\ Onward
         /\ \A fin \in [1..MaxClients -> 0..MaxBytes] : LedgerInv(fin) => LedgerInv(fin)'
<1>1. PICK h \in Hosts : /\ live' = live \cup {[id |-> ConnsEver + 1, host |-> h, bytes |-> 0]}
                         /\ folded' = [folded EXCEPT ![h].seen = TRUE]
  BY DEF Connect
<1>. DEFINE c == [id |-> ConnsEver + 1, host |-> h, bytes |-> 0]
<1>2. /\ ConnsEver \in Nat /\ c.id = ConnsEver + 1 /\ c.host = h /\ c.bytes = 0
      /\ live' = live \cup {c} /\ parting' = parting
  BY <1>1, NumbersAre DEF Connect
<1>3. c \in Conn
  BY <1>2, TrafficAssumption DEF Conn, Connect
<1>. HIDE DEF c
<1>4. /\ \A d \in live \cup parting : d.id \in 1..ConnsEver
      /\ \A g \in Hosts : folded[g].ids \in SUBSET (1..ConnsEver)
      /\ EndedIds \in SUBSET (1..MaxClients)
  BY NumbersAre
<1>5. c \notin live /\ c \notin parting
  BY <1>2, <1>4
<1>6. \A g \in Hosts : folded'[g].ids = folded[g].ids /\ folded'[g].bytes = folded[g].bytes
                       /\ (folded[g].seen => folded'[g].seen)
  BY <1>1 DEF NumberedInv
<1>7. folded'[h].seen /\ folded' \in [Hosts -> [seen : BOOLEAN, ids : SUBSET (1..MaxClients), bytes : Nat]]
  BY <1>1, ZenonT(30) DEF NumberedInv
<1>8. Ended' = Ended
  BY <1>2, <1>6 DEF Ended
<1>9. NumberedInv'
  <2>1. live' \subseteq Conn /\ IsFiniteSet(live') /\ live' \cap parting' = {}
    BY <1>2, <1>3, <1>5, FS_AddElement DEF NumberedInv
  <2>2. \A x, y \in live' \cup parting' : x.id = y.id => x = y
    BY <1>2, <1>4 DEF NumberedInv
  <2>3. \A g \in Hosts : \A x \in live' \cup parting' : x.id \notin folded'[g].ids
    BY <1>2, <1>4, <1>6 DEF NumberedInv
  <2>4. Ids(live') = Ids(live) \cup {ConnsEver + 1}
    BY <1>2 DEF Ids
  <2>5. ConnsEver' = ConnsEver + 1 /\ EndedIds' = EndedIds
    <3>1. Cardinality(live') = Cardinality(live) + 1
      BY <1>2, <1>5, FS_AddElement DEF NumberedInv
    <3>2. EndedIds' = EndedIds
      BY <1>8 DEF EndedIds
    <3>3. ConnsEver' = Cardinality(live') + Cardinality(EndedIds')
      BY DEF ConnsEver, EndedIds
    <3>. QED  BY <3>1, <3>2, <3>3, NumbersAre
  <2>6. Ids(live') \cup EndedIds' = 1..ConnsEver'
    <3>1. Ids(live) \cup EndedIds = 1..ConnsEver
      BY DEF NumberedInv
    <3>2. \A n \in Nat : 1..(n + 1) = (1..n) \cup {n + 1}
      OBVIOUS
    <3>3. 1..(ConnsEver + 1) = (1..ConnsEver) \cup {ConnsEver + 1}
      BY <1>2, <3>2
    <3>. QED  BY <2>4, <2>5, <3>1, <3>3
  <2>7. \A f, g \in Hosts : f # g => folded'[f].ids \cap folded'[g].ids = {}
    BY <1>6 DEF NumberedInv
  <2>. QED  BY <1>2, <1>7, <2>1, <2>2, <2>3, <2>6, <2>7 DEF NumberedInv
<1>10. Onward
  <2>1. live \in SUBSET Conn /\ live \cup parting \in SUBSET Conn /\ c \notin live \cup parting
        /\ IsFiniteSet(live) /\ IsFiniteSet(live \cup parting)
        /\ live' \cup parting' = (live \cup parting) \cup {c} /\ live' \in SUBSET Conn
    BY <1>2, <1>3, <1>5, FS_Union DEF NumberedInv
  <2>2. ASSUME NEW g \in Hosts  PROVE Moved'[g] = Moved[g] /\ Moved[g] \in Nat
    <3>. DEFINE cs == live \cup parting
    <3>2. /\ OfHost(live' \cup parting', g) = (cs \cup {c}) \cap OfHost(Conn, g)
          /\ OfHost(live \cup parting, g) = cs \cap OfHost(Conn, g)
      BY <1>3, <2>1 DEF OfHost
    <3>3. cs \in SUBSET Conn /\ IsFiniteSet(cs) /\ c \notin cs
      BY <2>1
    <3>. HIDE DEF cs
    <3>1. /\ BytesOf((cs \cup {c}) \cap OfHost(Conn, g)) = BytesOf(cs \cap OfHost(Conn, g))
                + (IF c \in OfHost(Conn, g) THEN c.bytes ELSE 0)
          /\ BytesOf(cs \cap OfHost(Conn, g)) \in Nat
      BY <1>3, <3>3, OneMore
    <3>4. BytesOf((cs \cup {c}) \cap OfHost(Conn, g)) = BytesOf(cs \cap OfHost(Conn, g))
      BY <1>2, <3>1
    <3>. QED  BY <1>6, <3>2, <3>4, MovedSplit DEF Moved
  <2>3. ASSUME NEW k \in ClientKeys
        PROVE  BytesOf(Mine(live', k)) = BytesOf(Mine(live, k)) /\ BytesOf(Mine(live, k)) \in Nat
    <3>1. BytesOf((live \cup {c}) \cap Mine(Conn, k)) = BytesOf(live \cap Mine(Conn, k))
          /\ BytesOf(live \cap Mine(Conn, k)) \in Nat
      BY <1>2, <1>3, <2>1, OneMore
    <3>. QED  BY <1>2, <2>1, <3>1, PartsAreOfQ
  <2>. QED  BY <2>2, <2>3, KeysAreOfHosts DEF Onward, Aside
<1>11. ASSUME NEW fin \in [1..MaxClients -> 0..MaxBytes], LedgerInv(fin)  PROVE LedgerInv(fin)'
  <2>1. status' = status /\ peers' = peers
    BY DEF Connect
  <2>2. \A x \in live' \cup parting' : folded'[x.host].seen
    <3>1. \A x \in live \cup parting : x.host \in Hosts /\ folded[x.host].seen
      BY <1>11, NumbersAre DEF LedgerInv
    <3>. QED  BY <1>2, <1>6, <1>7, <3>1
  <2>3. \A g \in Hosts : folded[g].ids # {} => folded'[g].seen
    BY <1>6, <1>11 DEF LedgerInv
  <2>. QED  BY <1>2, <1>6, <1>8, <1>11, <2>1, <2>2, <2>3 DEF LedgerInv
<1>. QED  BY <1>9, <1>10, <1>11

LEMMA TransferKeeps ==
  ASSUME NumberedInv, Transfer
  PROVE  /\ NumberedInv' /\ Onward
         /\ \A fin \in [1..MaxClients -> 0..MaxBytes] : LedgerInv(fin) => LedgerInv(fin)'
<1>1. PICK c \in live : c.bytes < MaxBytes /\ live' = (live \ {c}) \cup {[c EXCEPT !.bytes = @ + 1]}
  BY DEF Transfer
<1>. DEFINE d == [c EXCEPT !.bytes = @ + 1]
            rest == live \ {c}
<1>2. /\ c \in Conn /\ d \in Conn /\ d.id = c.id /\ d.host = c.host /\ d.bytes = c.bytes + 1 /\ c.bytes \in Nat
      /\ KeyOf(d) = KeyOf(c)
  BY <1>1, TrafficAssumption DEF NumberedInv, Conn, KeyOf
<1>3. /\ live' = rest \cup {d} /\ parting' = parting /\ folded' = folded /\ status' = status /\ peers' = peers
      /\ live = rest \cup {c} /\ c \notin rest /\ rest \in SUBSET Conn
  BY <1>1 DEF Transfer, NumberedInv
<1>4. IsFiniteSet(rest) /\ IsFiniteSet(live) /\ IsFiniteSet(parting)
  BY FS_Subset DEF NumberedInv
<1>. HIDE DEF d, rest
<1>5. \A x \in rest \cup parting : x.id # c.id
  BY <1>1, <1>3 DEF NumberedInv
<1>6. d \notin rest /\ d \notin parting /\ c \notin parting
  BY <1>1, <1>2, <1>5 DEF NumberedInv
<1>7. Ended' = Ended
  BY <1>3 DEF Ended
<1>8. NumberedInv'
  <2>1. live' \subseteq Conn /\ IsFiniteSet(live') /\ live' \cap parting' = {}
    BY <1>2, <1>3, <1>4, <1>6, FS_AddElement DEF NumberedInv
  <2>2. \A x, y \in live' \cup parting' : x.id = y.id => x = y
    BY <1>2, <1>3, <1>5 DEF NumberedInv
  <2>3. \A g \in Hosts : \A x \in live' \cup parting' : x.id \notin folded'[g].ids
    BY <1>1, <1>2, <1>3 DEF NumberedInv
  <2>4. Ids(live') = Ids(live)
    BY <1>2, <1>3 DEF Ids
  <2>5. ConnsEver' = ConnsEver /\ EndedIds' = EndedIds
    <3>1. Cardinality(live') = Cardinality(rest) + 1 /\ Cardinality(live) = Cardinality(rest) + 1
      BY <1>3, <1>4, <1>6, FS_AddElement
    <3>2. EndedIds' = EndedIds
      BY <1>7 DEF EndedIds
    <3>3. ConnsEver' = Cardinality(live') + Cardinality(EndedIds')
      BY DEF ConnsEver, EndedIds
    <3>. QED  BY <3>1, <3>2, <3>3, NumbersAre
  <2>. QED  BY <1>3, <2>1, <2>2, <2>3, <2>4, <2>5 DEF NumberedInv
<1>9. \A Q, cs : /\ cs \in SUBSET Conn /\ IsFiniteSet(cs) /\ c \notin cs /\ d \notin cs /\ (c \in Q <=> d \in Q)
                 => /\ BytesOf((cs \cup {d}) \cap Q) = BytesOf((cs \cup {c}) \cap Q) + (IF c \in Q THEN 1 ELSE 0)
                    /\ BytesOf((cs \cup {c}) \cap Q) \in Nat
  <2>. SUFFICES ASSUME NEW Q, NEW cs \in SUBSET Conn, IsFiniteSet(cs), c \notin cs, d \notin cs, c \in Q <=> d \in Q
                PROVE  /\ BytesOf((cs \cup {d}) \cap Q) = BytesOf((cs \cup {c}) \cap Q) + (IF c \in Q THEN 1 ELSE 0)
                       /\ BytesOf((cs \cup {c}) \cap Q) \in Nat
    OBVIOUS
  <2>1. /\ BytesOf((cs \cup {d}) \cap Q) = BytesOf(cs \cap Q) + (IF d \in Q THEN d.bytes ELSE 0)
        /\ BytesOf(cs \cap Q) \in Nat
    BY <1>2, OneMore
  <2>2. BytesOf((cs \cup {c}) \cap Q) = BytesOf(cs \cap Q) + (IF c \in Q THEN c.bytes ELSE 0)
    BY <1>2, OneMore
  <2>. QED  BY <1>2, <2>1, <2>2
<1>10. ASSUME NEW h \in Hosts
       PROVE  Moved'[h] = Moved[h] + (IF c.host = h THEN 1 ELSE 0) /\ Moved[h] \in Nat
  <2>. DEFINE cs == rest \cup parting
              Q == OfHost(Conn, h)
  <2>1. cs \in SUBSET Conn /\ IsFiniteSet(cs) /\ c \notin cs /\ d \notin cs
    BY <1>3, <1>4, <1>6, FS_Union DEF NumberedInv
  <2>2. OfHost(live' \cup parting', h) = (cs \cup {d}) \cap Q /\ OfHost(live \cup parting, h) = (cs \cup {c}) \cap Q
    BY <1>2, <1>3, <2>1 DEF OfHost
  <2>3. (c \in Q <=> d \in Q) /\ (c \in Q <=> c.host = h)
    BY <1>2 DEF OfHost
  <2>. HIDE DEF cs, Q
  <2>4. BytesOf((cs \cup {d}) \cap Q) = BytesOf((cs \cup {c}) \cap Q) + (IF c \in Q THEN 1 ELSE 0)
        /\ BytesOf((cs \cup {c}) \cap Q) \in Nat
    BY <1>9, <2>1, <2>3
  <2>5. Moved'[h] = BytesOf(OfHost(live' \cup parting', h)) + folded'[h].bytes
        /\ Moved[h] = BytesOf(OfHost(live \cup parting, h)) + folded[h].bytes
        /\ folded[h].bytes \in Nat
    BY DEF Moved, NumberedInv
  <2>6. folded'[h].bytes = folded[h].bytes
    BY <1>3
  <2>7. Moved'[h] = BytesOf((cs \cup {d}) \cap Q) + folded[h].bytes
    BY <2>2, <2>5, <2>6
  <2>8. Moved[h] = BytesOf((cs \cup {c}) \cap Q) + folded[h].bytes
    BY <2>2, <2>5
  <2>. QED  BY <2>3, <2>4, <2>5, <2>7, <2>8
<1>11. ASSUME NEW k \in ClientKeys
       PROVE  /\ BytesOf(Mine(live', k)) = BytesOf(Mine(live, k)) + (IF KeyOf(c) = k THEN 1 ELSE 0)
              /\ BytesOf(Mine(live, k)) \in Nat
  <2>. DEFINE Q == Mine(Conn, k)
  <2>1. (c \in Q <=> d \in Q) /\ (c \in Q <=> KeyOf(c) = k)
    BY <1>2 DEF Mine
  <2>2. Mine(live', k) = (rest \cup {d}) \cap Q /\ Mine(live, k) = (rest \cup {c}) \cap Q
    BY <1>2, <1>3 DEF Mine
  <2>. HIDE DEF Q
  <2>. QED  BY <1>3, <1>4, <1>6, <1>9, <2>1, <2>2
<1>12. Onward
  <2>1. ASSUME NEW k \in ClientKeys  PROVE Aside(Moved, live, k) <= Aside(Moved', live', k)
    <3>1. k[1] \in Hosts /\ (KeyOf(c) = k => c.host = k[1])
      BY <1>2, KeysAreOfHosts
    <3>. QED  BY <1>10, <1>11, <3>1 DEF Aside
  <2>2. \A h \in Hosts : Moved[h] <= Moved'[h] /\ Moved'[h] \in Nat
    BY <1>10
  <2>. QED  BY <2>1, <2>2 DEF Onward
<1>13. ASSUME NEW fin \in [1..MaxClients -> 0..MaxBytes], LedgerInv(fin)  PROVE LedgerInv(fin)'
  <2>1. \A x \in live' \cup parting' : folded'[x.host].seen
    BY <1>1, <1>2, <1>3, <1>13 DEF LedgerInv
  <2>. QED  BY <1>3, <1>7, <1>13, <2>1 DEF LedgerInv
<1>. QED  BY <1>8, <1>12, <1>13

LEMMA CloseConnKeeps ==
  ASSUME NumberedInv, CloseConn, NEW fin \in [1..MaxClients -> 0..MaxBytes], LedgerInv(fin)
  PROVE  /\ NumberedInv' /\ Onward
         /\ \E late \in [1..MaxClients -> 0..MaxBytes] : LedgerInv(late)'
<1>1. PICK c \in live : live' = live \ {c} /\ parting' = parting \cup {c}
  BY DEF CloseConn
<1>2. /\ c \in Conn /\ c.id \in 1..MaxClients /\ c.bytes \in 0..MaxBytes /\ c.host \in Hosts
      /\ c \notin parting /\ live' \cup parting' = live \cup parting
  BY <1>1 DEF NumberedInv, Conn
<1>3. folded' = folded /\ status' = status /\ peers' = peers
  BY DEF CloseConn
<1>4. (\A x \in live' \cup parting : x.id # c.id) /\ \A h \in Hosts : c.id \notin folded[h].ids
  BY <1>1, <1>2 DEF NumberedInv
<1>5. ASSUME NEW h \in Hosts
      PROVE  Ended'[h] = Ended[h] \cup (IF c.host = h THEN {c.id} ELSE {}) /\ c.id \notin Ended[h]
  <2>1. OfHost(parting', h) = OfHost(parting, h) \cup (IF c.host = h THEN {c} ELSE {})
    BY <1>1, <1>2 DEF OfHost
  <2>2. Ended'[h] = {x.id : x \in OfHost(parting', h)} \cup folded[h].ids
        /\ Ended[h] = {x.id : x \in OfHost(parting, h)} \cup folded[h].ids
    BY <1>3 DEF Ended
  <2>3. \A x \in OfHost(parting, h) : x.id # c.id
    BY <1>4 DEF OfHost
  <2>. QED  BY <1>4, <2>1, <2>2, <2>3
<1>6. NumberedInv'
  <2>1. live' \subseteq Conn /\ parting' \subseteq Conn /\ live' \cap parting' = {}
    BY <1>1, <1>2 DEF NumberedInv
  <2>2. IsFiniteSet(live') /\ IsFiniteSet(parting') /\ Cardinality(live') = Cardinality(live) - 1
    BY <1>1, <1>2, FS_RemoveElement, FS_AddElement DEF NumberedInv
  <2>3. EndedIds' = EndedIds \cup {c.id} /\ c.id \notin EndedIds
    BY <1>2, <1>5 DEF EndedIds
  <2>4. Cardinality(EndedIds') = Cardinality(EndedIds) + 1
    BY <2>3, NumbersAre, FS_AddElement
  <2>5. ConnsEver' = Cardinality(live') + Cardinality(EndedIds')
    BY DEF ConnsEver, EndedIds
  <2>6. ConnsEver' = ConnsEver
    BY <2>2, <2>4, <2>5, NumbersAre
  <2>7. Ids(live) = Ids(live') \cup {c.id}
    BY <1>1 DEF Ids
  <2>8. Ids(live') \cup EndedIds' = 1..ConnsEver'
    BY <2>3, <2>6, <2>7 DEF NumberedInv
  <2>. QED  BY <1>2, <1>3, <2>1, <2>2, <2>8 DEF NumberedInv
<1>7. Onward
  <2>1. \A h \in Hosts : Moved'[h] = Moved[h] /\ Moved[h] \in Nat
    BY <1>2, <1>3, MovedSplit DEF Moved
  <2>2. ASSUME NEW k \in ClientKeys
        PROVE  /\ BytesOf(Mine(live', k)) <= BytesOf(Mine(live, k))
               /\ BytesOf(Mine(live', k)) \in Nat /\ BytesOf(Mine(live, k)) \in Nat
    <3>. DEFINE Q == Mine(Conn, k)
    <3>1. Mine(live', k) = live' \cap Q /\ Mine(live, k) = (live' \cup {c}) \cap Q
      BY <1>1 DEF Mine, NumberedInv
    <3>2. live' \in SUBSET Conn /\ IsFiniteSet(live') /\ c \notin live' /\ c.bytes \in Nat
      BY <1>1, <1>2, <1>6, TrafficAssumption DEF NumberedInv
    <3>. HIDE DEF Q
    <3>3. /\ BytesOf((live' \cup {c}) \cap Q) = BytesOf(live' \cap Q) + (IF c \in Q THEN c.bytes ELSE 0)
          /\ BytesOf(live' \cap Q) \in Nat
      BY <1>2, <3>2, OneMore
    <3>. QED  BY <3>1, <3>2, <3>3
  <2>. QED  BY <2>1, <2>2, KeysAreOfHosts DEF Onward, Aside
<1>. DEFINE late == [fin EXCEPT ![c.id] = c.bytes]
<1>8. late \in [1..MaxClients -> 0..MaxBytes] /\ late[c.id] = c.bytes
      /\ \A i \in 1..MaxClients : i # c.id => late[i] = fin[i]
  BY <1>2
<1>. HIDE DEF late
<1>9. ASSUME NEW I \in SUBSET (1..MaxClients), c.id \notin I  PROVE Total(late, I) = Total(fin, I)
  <2>1. IsFiniteSet(1..MaxClients)
    BY TrafficAssumption, FS_Interval
  <2>2. IsFiniteSet(I) /\ \A i \in I : late[i] = fin[i]
    BY <1>8, <1>9, <2>1, FS_Subset
  <2>. QED  BY <2>2, SumSame
<1>10. LedgerInv(late)'
  <2>1. \A x \in parting' : late[x.id] = x.bytes
    <3>1. \A x \in parting : x.id \in 1..MaxClients /\ x.id # c.id /\ fin[x.id] = x.bytes
      BY <1>4 DEF LedgerInv, NumberedInv, Conn
    <3>. QED  BY <1>1, <1>8, <3>1
  <2>2. ASSUME NEW h \in Hosts
        PROVE  /\ folded[h].bytes = Total(late, folded[h].ids) /\ peers[h].bytes = Total(late, peers[h].ids)
               /\ status.ended[h] \subseteq Ended'[h]
               /\ status.moved[h] = Total(late, status.ended[h]) + BytesOf(OfHost(status.conns, h))
    <3>1. /\ folded[h].ids \in SUBSET (1..MaxClients) /\ peers[h].ids \in SUBSET (1..MaxClients)
          /\ status.ended[h] \in SUBSET (1..MaxClients)
          /\ peers[h].ids \subseteq folded[h].ids /\ status.ended[h] \subseteq Ended[h]
      BY DEF LedgerInv, NumberedInv
    <3>2. /\ Total(late, folded[h].ids) = Total(fin, folded[h].ids)
          /\ Total(late, peers[h].ids) = Total(fin, peers[h].ids)
          /\ Total(late, status.ended[h]) = Total(fin, status.ended[h])
      BY <1>4, <1>5, <1>9, <3>1
    <3>. QED  BY <1>5, <3>1, <3>2 DEF LedgerInv
  <2>3. \A x \in live' \cup parting' : folded'[x.host].seen
    BY <1>2, <1>3 DEF LedgerInv
  <2>. QED  BY <1>3, <2>1, <2>2, <2>3 DEF LedgerInv
<1>. QED  BY <1>6, <1>7, <1>8, <1>10

LEMMA ConnClosedKeeps ==
  ASSUME NumberedInv, ConnClosed, NEW fin \in [1..MaxClients -> 0..MaxBytes], LedgerInv(fin)
  PROVE  NumberedInv' /\ Onward /\ LedgerInv(fin)'
<1>1. PICK c \in parting :
        /\ parting' = parting \ {c}
        /\ folded' = [folded EXCEPT ![c.host].ids = @ \cup {c.id}, ![c.host].bytes = @ + c.bytes]
  BY DEF ConnClosed
<1>2. /\ c \in Conn /\ c.id \in 1..MaxClients /\ c.bytes \in Nat /\ c.host \in Hosts
      /\ parting' \in SUBSET Conn /\ parting' \in SUBSET parting /\ c \notin parting' /\ parting = parting' \cup {c}
  BY <1>1, TrafficAssumption DEF NumberedInv, Conn
<1>3. live' = live /\ status' = status /\ peers' = peers
  BY DEF ConnClosed
<1>4. (\A x \in live' \cup parting' : x.id # c.id) /\ \A h \in Hosts : c.id \notin folded[h].ids
  BY <1>1, <1>2, <1>3 DEF NumberedInv
<1>6. /\ folded' \in [Hosts -> [seen : BOOLEAN, ids : SUBSET (1..MaxClients), bytes : Nat]]
      /\ \A h \in Hosts :
        /\ folded'[h].ids = folded[h].ids \cup (IF c.host = h THEN {c.id} ELSE {})
        /\ folded'[h].bytes = folded[h].bytes + (IF c.host = h THEN c.bytes ELSE 0)
        /\ folded'[h].seen = folded[h].seen
  <2>1. PICK mid : mid = [folded EXCEPT ![c.host].ids = @ \cup {c.id}]
    OBVIOUS
  <2>2. folded' = [mid EXCEPT ![c.host].bytes = @ + c.bytes]
    BY <1>1, <2>1
  <2>3. /\ mid \in [Hosts -> [seen : BOOLEAN, ids : SUBSET (1..MaxClients), bytes : Nat]]
        /\ \A h \in Hosts : /\ mid[h].ids = folded[h].ids \cup (IF c.host = h THEN {c.id} ELSE {})
                            /\ mid[h].bytes = folded[h].bytes /\ mid[h].seen = folded[h].seen
                            /\ folded[h].bytes \in Nat
    BY <1>2, <2>1 DEF NumberedInv
  <2>4. /\ folded' \in [Hosts -> [seen : BOOLEAN, ids : SUBSET (1..MaxClients), bytes : Nat]]
        /\ \A h \in Hosts : /\ folded'[h].bytes = mid[h].bytes + (IF c.host = h THEN c.bytes ELSE 0)
                            /\ folded'[h].ids = mid[h].ids /\ folded'[h].seen = mid[h].seen
    BY <1>2, <2>2, <2>3
  <2>. QED  BY <2>3, <2>4
<1>5. \A h \in Hosts : c.host # h => folded'[h].ids = folded[h].ids /\ folded'[h].bytes = folded[h].bytes
  <2>. SUFFICES ASSUME NEW h \in Hosts, c.host # h
                PROVE  folded'[h].ids = folded[h].ids /\ folded'[h].bytes = folded[h].bytes
    OBVIOUS
  <2>1. folded'[h].ids = folded[h].ids \cup {} /\ folded'[h].bytes = folded[h].bytes + 0 /\ folded[h].bytes \in Nat
    BY <1>6 DEF NumberedInv
  <2>. QED  BY <2>1
<1>7. Ended' = Ended
  <2>1. ASSUME NEW h \in Hosts
        PROVE  {x.id : x \in OfHost(parting', h)} \cup folded'[h].ids = {x.id : x \in OfHost(parting, h)} \cup folded[h].ids
    <3>1. OfHost(parting, h) = OfHost(parting', h) \cup (IF c.host = h THEN {c} ELSE {})
      BY <1>2 DEF OfHost
    <3>. QED  BY <1>6, <3>1
  <2>. QED  BY <2>1 DEF Ended
<1>8. IsFiniteSet(parting')
  BY <1>2, FS_Subset DEF NumberedInv
<1>9. NumberedInv'
  <2>1. \A h \in Hosts : \A x \in live' \cup parting' : x.id \notin folded'[h].ids
    BY <1>2, <1>3, <1>4, <1>6 DEF NumberedInv
  <2>2. \A g, h \in Hosts : g # h => folded'[g].ids \cap folded'[h].ids = {}
    <3>. SUFFICES ASSUME NEW g \in Hosts, NEW h \in Hosts, g # h
                  PROVE  folded'[g].ids \cap folded'[h].ids = {}
      OBVIOUS
    <3>1. folded[g].ids \cap folded[h].ids = {} /\ c.id \notin folded[g].ids /\ c.id \notin folded[h].ids
      BY <1>4 DEF NumberedInv
    <3>. QED  BY <1>5, <1>6, <3>1
  <2>3. ConnsEver' = ConnsEver /\ EndedIds' = EndedIds
    BY <1>3, <1>7 DEF ConnsEver, EndedIds
  <2>. QED  BY <1>2, <1>3, <1>6, <1>8, <2>1, <2>2, <2>3 DEF NumberedInv
<1>10. \A h \in Hosts : Moved'[h] = Moved[h] /\ Moved[h] \in Nat
  <2>. SUFFICES ASSUME NEW h \in Hosts  PROVE Moved'[h] = Moved[h] /\ Moved[h] \in Nat
    OBVIOUS
  <2>. DEFINE cs == live \cup parting'
              Q == OfHost(Conn, h)
  <2>1. cs \in SUBSET Conn /\ IsFiniteSet(cs) /\ c \notin cs
    BY <1>2, <1>3, <1>4, <1>8, FS_Union DEF NumberedInv
  <2>2. OfHost(live' \cup parting', h) = cs \cap Q /\ OfHost(live \cup parting, h) = (cs \cup {c}) \cap Q
        /\ (c \in Q <=> c.host = h)
    BY <1>2, <1>3, <2>1 DEF OfHost
  <2>. HIDE DEF cs, Q
  <2>3. /\ BytesOf((cs \cup {c}) \cap Q) = BytesOf(cs \cap Q) + (IF c \in Q THEN c.bytes ELSE 0)
        /\ BytesOf(cs \cap Q) \in Nat
    BY <1>2, <2>1, OneMore
  <2>4. Moved'[h] = BytesOf(OfHost(live' \cup parting', h)) + folded'[h].bytes
        /\ Moved[h] = BytesOf(OfHost(live \cup parting, h)) + folded[h].bytes
        /\ folded[h].bytes \in Nat
    BY DEF Moved, NumberedInv
  <2>5. Moved'[h] = BytesOf(cs \cap Q) + (folded[h].bytes + (IF c.host = h THEN c.bytes ELSE 0))
    BY <1>6, <2>2, <2>4
  <2>6. Moved[h] = BytesOf((cs \cup {c}) \cap Q) + folded[h].bytes
    BY <2>2, <2>4
  <2>. QED  BY <1>2, <2>2, <2>3, <2>4, <2>5, <2>6
<1>11. Onward
  <2>1. ASSUME NEW k \in ClientKeys  PROVE BytesOf(Mine(live, k)) \in Nat
    <3>1. Mine(live, k) \in SUBSET Conn /\ IsFiniteSet(Mine(live, k))
      BY FS_Subset DEF NumberedInv, Mine
    <3>. QED  BY <3>1, BytesAreASum
  <2>. QED  BY <1>3, <1>10, <2>1, KeysAreOfHosts DEF Onward, Aside
<1>12. \A h \in Hosts : folded'[h].bytes = Total(fin, folded'[h].ids)
  <2>0. ASSUME NEW h \in Hosts, c.host # h  PROVE folded'[h].bytes = Total(fin, folded'[h].ids)
    <3>1. folded'[h].ids = folded[h].ids /\ folded'[h].bytes = folded[h].bytes
      BY <1>5, <2>0
    <3>. QED  BY <3>1 DEF LedgerInv
  <2>. SUFFICES ASSUME NEW h \in Hosts, c.host = h  PROVE folded'[h].bytes = Total(fin, folded'[h].ids)
    BY <2>0
  <2>. DEFINE F == folded[h].ids
  <2>1. IsFiniteSet(1..MaxClients)
    BY TrafficAssumption, FS_Interval
  <2>2. F \in SUBSET (1..MaxClients) /\ IsFiniteSet(F) /\ c.id \notin F
    BY <1>4, <2>1, FS_Subset DEF NumberedInv
  <2>3. fin[c.id] = c.bytes /\ folded[h].bytes = Total(fin, F) /\ folded[h].bytes \in Nat
    BY DEF LedgerInv, NumberedInv
  <2>4. folded'[h].ids = F \cup {c.id} /\ folded'[h].bytes = folded[h].bytes + c.bytes
    BY <1>6
  <2>. HIDE DEF F
  <2>5. \A i \in F \cup {c.id} : fin[i] \in Nat
    BY <1>2, <2>2, TrafficAssumption
  <2>6. Total(fin, F \cup {c.id}) = fin[c.id] + Total(fin, F)
    BY <2>2, <2>5, SumPutIn
  <2>. QED  BY <1>2, <2>3, <2>4, <2>6
<1>13. LedgerInv(fin)'
  <2>1. \A h \in Hosts : /\ peers[h].ids \subseteq folded'[h].ids
                         /\ folded'[h].ids # {} => folded'[h].seen
    <3>. SUFFICES ASSUME NEW h \in Hosts
                  PROVE  peers[h].ids \subseteq folded'[h].ids /\ (folded'[h].ids # {} => folded'[h].seen)
      OBVIOUS
    <3>1. peers[h].ids \subseteq folded[h].ids /\ (folded[h].ids # {} => folded[h].seen) /\ folded[c.host].seen
      BY <1>1 DEF LedgerInv
    <3>2. CASE c.host = h
      BY <1>6, <3>1, <3>2
    <3>3. CASE c.host # h
      BY <1>5, <1>6, <3>1, <3>3
    <3>. QED  BY <3>2, <3>3
  <2>2. \A x \in live' \cup parting' : folded'[x.host].seen
    <3>1. \A x \in live \cup parting : x.host \in Hosts /\ folded[x.host].seen
      BY NumbersAre DEF LedgerInv
    <3>. QED  BY <1>2, <1>3, <1>6, <3>1
  <2>3. \A x \in parting' : fin[x.id] = x.bytes
    BY <1>2 DEF LedgerInv
  <2>. QED  BY <1>3, <1>7, <1>12, <2>1, <2>2, <2>3 DEF LedgerInv
<1>. QED  BY <1>9, <1>11, <1>13

-----------------------------------------------------------------------------
\* The rates of a tick are taken from those of an earlier one.
LEMMA RatesGoOn ==
  ASSUME NEW rs, NEW cs, NEW ds, NEW m, NEW n, NEW now \in Nat, NEW later \in Nat, now <= later,
         cs \in SUBSET Conn, ds \in SUBSET Conn, IsFiniteSet(cs), IsFiniteSet(ds),
         m \in [Hosts -> Nat], n \in [Hosts -> Nat],
         \A h \in Hosts : m[h] <= n[h], \A k \in ClientKeys : Aside(m, cs, k) <= Aside(n, ds, k),
         RatesInv(rs, cs, m, now)
  PROVE  RatesInv(rs, ds, n, later)
<1>1. ASSUME NEW k \in ClientKeys
      PROVE  /\ m[k[1]] <= n[k[1]] /\ m[k[1]] \in Nat /\ n[k[1]] \in Nat
             /\ Aside(m, cs, k) <= Aside(n, ds, k) /\ Aside(m, cs, k) \in Int /\ Aside(n, ds, k) \in Int
  <2>1. Mine(cs, k) \in SUBSET Conn /\ IsFiniteSet(Mine(cs, k)) /\ Mine(ds, k) \in SUBSET Conn /\ IsFiniteSet(Mine(ds, k))
    BY FS_Subset DEF Mine
  <2>2. BytesOf(Mine(cs, k)) \in Nat /\ BytesOf(Mine(ds, k)) \in Nat
    BY <2>1, BytesAreASum
  <2>. QED  BY <2>2, KeysAreOfHosts DEF Aside
<1>2. ASSUME NEW k \in DOMAIN rs
      PROVE  /\ rs[k].t \in 0..later /\ rs[k].moved <= n[k[1]]
             /\ rs[k].moved - rs[k].bytes <= Aside(n, ds, k)
  <2>1. /\ rs[k].t \in 0..now /\ rs[k].moved \in Nat /\ rs[k].bytes \in Nat /\ rs[k].moved <= m[k[1]]
        /\ rs[k].moved - rs[k].bytes <= Aside(m, cs, k) /\ k \in ClientKeys
    BY DEF RatesInv
  <2>. QED  BY <1>1, <2>1
<1>. QED  BY <1>2 DEF RatesInv

LEMMA RatesAreTaken ==
  ASSUME NEW cs \in SUBSET Conn, IsFiniteSet(cs), NEW m \in [Hosts -> Nat], NEW now \in Nat,
         RatesInv(rates, cs, m, now)
  PROVE  RatesInv(CurrentRates(cs, now, m), cs, m, now)
<1>. DEFINE rs == CurrentRates(cs, now, m)
            D == {KeyOf(c) : c \in cs}
<1>1. DOMAIN rs = D /\ D \subseteq ClientKeys
  BY DEF CurrentRates, ClientKeys
<1>2. ASSUME NEW k \in D
      PROVE  /\ rs[k].t \in 0..now /\ rs[k].grew \in Nat /\ rs[k].over \in Nat
             /\ rs[k].bytes \in Nat /\ rs[k].moved \in Nat /\ rs[k].real \in Int
             /\ rs[k].over = 0 \/ rs[k].over >= MinGap
             /\ rs[k].grew <= rs[k].real
             /\ rs[k].moved <= m[k[1]]
             /\ rs[k].moved - rs[k].bytes <= Aside(m, cs, k)
  <2>. DEFINE new == Sample(k, cs, now, m)
              prev == rates[k]
  <2>1. k[1] \in Hosts /\ m[k[1]] \in Nat /\ MinGap \in Nat
    BY <1>1, KeysAreOfHosts, TrafficAssumption
  <2>2. BytesOf(Mine(cs, k)) \in Nat
    <3>1. Mine(cs, k) \in SUBSET Conn /\ IsFiniteSet(Mine(cs, k))
      BY FS_Subset DEF Mine
    <3>. QED  BY <3>1, BytesAreASum
  <2>3. new = [t |-> now, bytes |-> BytesOf(Mine(cs, k)), moved |-> m[k[1]], grew |-> 0, over |-> 0, real |-> 0]
    BY DEF Sample, Mine
  <2>4. rs[k] = IF k \notin DOMAIN rates THEN new
                ELSE IF now - prev.t < MinGap THEN prev
                ELSE [new EXCEPT !.grew = Max({0, new.bytes - prev.bytes}),
                                 !.over = now - prev.t, !.real = new.moved - prev.moved]
    BY DEF CurrentRates
  <2>5. Aside(m, cs, k) = m[k[1]] - BytesOf(Mine(cs, k))
    BY DEF Aside
  <2>. HIDE DEF rs, new
  <2>6. CASE k \notin DOMAIN rates
    BY <2>1, <2>2, <2>3, <2>4, <2>5, <2>6
  <2>7. CASE k \in DOMAIN rates /\ now - prev.t < MinGap
    <3>1. rs[k] = rates[k]
      BY <2>4, <2>7
    <3>. QED  BY <2>7, <3>1 DEF RatesInv
  <2>8. CASE k \in DOMAIN rates /\ ~(now - prev.t < MinGap)
    <3>1. /\ prev.t \in 0..now /\ prev.bytes \in Nat /\ prev.moved \in Nat /\ prev.moved <= m[k[1]]
          /\ prev.moved - prev.bytes <= Aside(m, cs, k)
      BY <2>8 DEF RatesInv
    <3>. DEFINE g == new.bytes - prev.bytes
    <3>2. g \in Int /\ g <= new.moved - prev.moved /\ 0 <= new.moved - prev.moved
      BY <2>1, <2>2, <2>3, <2>5, <3>1
    <3>. HIDE DEF g, prev
    <3>3. Max({0, g}) \in Nat /\ Max({0, g}) <= new.moved - prev.moved
      <4>1. Max({0, g}) \in {0, g} /\ \A x \in {0, g} : x <= Max({0, g})
        <5>1. \E y \in {0, g} : \A z \in {0, g} : y >= z
          <6>1. CASE g <= 0
            BY <3>2, <6>1
          <6>2. CASE ~(g <= 0)
            BY <3>2, <6>2
          <6>. QED  BY <6>1, <6>2
        <5>. QED  BY <3>2, <5>1, Zenon DEF Max
      <4>. QED  BY <3>2, <4>1
    <3>4. rs[k] = [new EXCEPT !.grew = Max({0, g}), !.over = now - prev.t, !.real = new.moved - prev.moved]
      BY <2>4, <2>8 DEF g, prev
    <3>. QED  BY <2>1, <2>2, <2>3, <2>5, <2>8, <3>1, <3>3, <3>4
  <2>. QED  BY <2>6, <2>7, <2>8
<1>. HIDE DEF rs, D
<1>3. RatesInv(rs, cs, m, now)
  BY <1>1, <1>2 DEF RatesInv
<1>. QED  BY <1>3 DEF rs

LEMMA AsideIsInt ==
  ASSUME NEW cs \in SUBSET Conn, IsFiniteSet(cs), NEW m, \A h \in Hosts : m[h] \in Nat, NEW k \in ClientKeys
  PROVE  Aside(m, cs, k) \in Int /\ BytesOf(Mine(cs, k)) \in Nat /\ k[1] \in Hosts
<1>1. Mine(cs, k) \in SUBSET Conn /\ IsFiniteSet(Mine(cs, k))
  BY FS_Subset DEF Mine
<1>2. BytesOf(Mine(cs, k)) \in Nat
  BY <1>1, BytesAreASum
<1>. QED  BY <1>2, KeysAreOfHosts DEF Aside

-----------------------------------------------------------------------------
LEMMA TrafficStarts == TrafficInit => TrafficInv
<1>. SUFFICES ASSUME TrafficInit  PROVE TrafficInv
  OBVIOUS
<1>1. BytesOf({}) = 0
  BY BytesAreASum, SumEmpty, FS_EmptySet
<1>2. /\ live = {} /\ parting = {} /\ clock = 0 /\ peers = folded
      /\ folded = [h \in Hosts |-> [seen |-> FALSE, ids |-> {}, bytes |-> 0]]
      /\ status = [conns |-> {}, ended |-> Ended, moved |-> Moved]
      /\ DOMAIN rates = {}
  BY DEF TrafficInit
<1>3. \A h : OfHost({}, h) = {} /\ \A k : Mine({}, k) = {}
  BY DEF OfHost, Mine
<1>4. \A h \in Hosts : Ended[h] = {} /\ Moved[h] = 0
  <2>1. ASSUME NEW h \in Hosts  PROVE OfHost(live, h) = {} /\ OfHost(parting, h) = {} /\ OfHost(live \cup parting, h) = {}
    BY <1>2 DEF OfHost
  <2>2. ASSUME NEW h \in Hosts  PROVE folded[h].ids = {} /\ folded[h].bytes = 0
    BY <1>2
  <2>. SUFFICES ASSUME NEW h \in Hosts  PROVE Ended[h] = {} /\ Moved[h] = 0
    OBVIOUS
  <2>3. Ended[h] = {c.id : c \in OfHost(parting, h)} \cup folded[h].ids
    BY DEF Ended
  <2>4. Moved[h] = BytesOf(OfHost(live \cup parting, h)) + folded[h].bytes
    BY DEF Moved
  <2>5. BytesOf(OfHost(live \cup parting, h)) = 0
    BY <1>1, <2>1
  <2>. QED  BY <2>1, <2>2, <2>3, <2>4, <2>5
<1>5. /\ Ended \in [Hosts -> SUBSET (1..MaxClients)] /\ Moved \in [Hosts -> Nat]
  <2>1. Ended = [h \in Hosts |-> Ended[h]] /\ Moved = [h \in Hosts |-> Moved[h]]
    BY DEF Ended, Moved
  <2>. QED  BY <1>4, <2>1
<1>6. IsFiniteSet({}) /\ Cardinality({}) = 0
  BY FS_EmptySet
<1>7. folded \in [Hosts -> [seen : BOOLEAN, ids : SUBSET (1..MaxClients), bytes : Nat]]
  BY <1>2
<1>8. NumberedInv
  <2>1. EndedIds = {}
    BY <1>4 DEF EndedIds
  <2>2. ConnsEver = 0
    <3>1. ConnsEver = Cardinality(live) + Cardinality(EndedIds)
      BY DEF ConnsEver, EndedIds
    <3>. QED  BY <1>2, <1>6, <2>1, <3>1
  <2>3. Ids(live) = {} /\ 1..0 = {}
    BY <1>2 DEF Ids
  <2>4. \A h \in Hosts : folded[h].ids = {}
    BY <1>2
  <2>. QED  BY <1>2, <1>6, <1>7, <2>1, <2>2, <2>3, <2>4 DEF NumberedInv
<1>9. BehindInv
  <2>1. status.conns = {} /\ status.moved = Moved
    BY <1>2
  <2>. QED  BY <1>2, <1>4, <1>5, <1>6, <2>1, AsideIsInt DEF BehindInv
<1>10. \E fin \in [1..MaxClients -> 0..MaxBytes] : LedgerInv(fin)
  <2>. DEFINE fin == [i \in 1..MaxClients |-> 0]
  <2>1. fin \in [1..MaxClients -> 0..MaxBytes]
    BY TrafficAssumption
  <2>. HIDE DEF fin
  <2>2. Total(fin, {}) = 0
    BY SumEmpty
  <2>3. status.conns = {} /\ status.moved = Moved /\ status.ended = Ended
    BY <1>2
  <2>4. \A h \in Hosts : folded[h].ids = {} /\ folded[h].bytes = 0 /\ peers[h].ids = {} /\ peers[h].bytes = 0
    BY <1>2
  <2>5. \A h \in Hosts : status.moved[h] = Total(fin, status.ended[h]) + BytesOf(OfHost(status.conns, h))
    BY <1>1, <1>3, <1>4, <2>2, <2>3
  <2>6. peers \in [Hosts -> [seen : BOOLEAN, ids : SUBSET (1..MaxClients), bytes : Nat]]
    BY <1>2, <1>7
  <2>7. LedgerInv(fin)
    BY <1>2, <1>4, <1>5, <2>2, <2>3, <2>4, <2>5, <2>6 DEF LedgerInv
  <2>. QED  BY <2>1, <2>7
<1>11. RatesInv(rates, status.conns, status.moved, clock)
  BY <1>2 DEF RatesInv
<1>. QED  BY <1>2, <1>8, <1>9, <1>10, <1>11 DEF TrafficInv

\* A step of the backend leaves the screen behind it.
LEMMA BackendGoesOn ==
  ASSUME TrafficInv, NumberedInv', Onward, UNCHANGED <<status, rates, clock>>
  PROVE  BehindInv' /\ RatesInv(rates, status.conns, status.moved, clock)' /\ clock' \in Nat
<1>1. BehindInv'
  <2>1. \A h \in Hosts : status.moved[h] <= Moved'[h]
    <3>. SUFFICES ASSUME NEW h \in Hosts  PROVE status.moved[h] <= Moved'[h]
      OBVIOUS
    <3>1. status.moved[h] \in Nat /\ status.moved[h] <= Moved[h]
      BY DEF TrafficInv, BehindInv
    <3>2. Moved[h] \in Nat /\ Moved'[h] \in Nat /\ Moved[h] <= Moved'[h]
      BY MovedSplit DEF TrafficInv, Onward
    <3>. QED  BY <3>1, <3>2
  <2>2. ASSUME NEW k \in ClientKeys
        PROVE  Aside(status.moved, status.conns, k) <= Aside(Moved', live', k)
    <3>1. /\ Aside(status.moved, status.conns, k) <= Aside(Moved, live, k)
          /\ Aside(Moved, live, k) <= Aside(Moved', live', k)
      BY DEF TrafficInv, BehindInv, Onward
    <3>2. Aside(status.moved, status.conns, k) \in Int
      BY AsideIsInt DEF TrafficInv, BehindInv
    <3>3. Aside(Moved, live, k) \in Int
      <4>1. \A h \in Hosts : Moved[h] \in Nat
        BY MovedSplit DEF TrafficInv
      <4>2. live \in SUBSET Conn /\ IsFiniteSet(live)
        BY DEF TrafficInv, NumberedInv
      <4>. QED  BY <4>1, <4>2, AsideIsInt
    <3>4. Aside(Moved', live', k) \in Int
      <4>1. \A h \in Hosts : Moved'[h] \in Nat
        BY DEF Onward
      <4>2. live' \in SUBSET Conn /\ IsFiniteSet(live')
        BY DEF NumberedInv
      <4>. QED  BY <4>1, <4>2, AsideIsInt
    <3>. QED  BY <3>1, <3>2, <3>3, <3>4
  <2>. QED  BY <2>1, <2>2 DEF TrafficInv, BehindInv
<1>. QED  BY <1>1 DEF TrafficInv

LEMMA TrafficGoesOn ==
  ASSUME TrafficInv, [TrafficNext]_trafficVars
  PROVE  TrafficInv'
<1>1. PICK fin \in [1..MaxClients -> 0..MaxBytes] : LedgerInv(fin)
  BY DEF TrafficInv
<1>2. NumberedInv /\ BehindInv /\ clock \in Nat /\ RatesInv(rates, status.conns, status.moved, clock)
  BY DEF TrafficInv
<1>3. CASE Connect
  BY <1>1, <1>2, <1>3, ConnectKeeps, BackendGoesOn DEF TrafficInv, Connect
<1>4. CASE Transfer
  BY <1>1, <1>2, <1>4, TransferKeeps, BackendGoesOn DEF TrafficInv, Transfer
<1>5. CASE CloseConn
  BY <1>1, <1>2, <1>5, CloseConnKeeps, BackendGoesOn DEF TrafficInv, CloseConn
<1>6. CASE ConnClosed
  BY <1>1, <1>2, <1>6, ConnClosedKeeps, BackendGoesOn DEF TrafficInv, ConnClosed
<1>7. ASSUME UNCHANGED <<live, parting, folded>>
      PROVE  NumberedInv' /\ Moved' = Moved /\ Ended' = Ended
  <2>1. Ended' = Ended
    BY <1>7 DEF Ended
  <2>2. Moved' = Moved
    BY <1>7 DEF Moved
  <2>3. EndedIds' = EndedIds
    BY <2>1 DEF EndedIds
  <2>4. ConnsEver' = ConnsEver
    BY <1>7, <2>1 DEF ConnsEver
  <2>. QED  BY <1>2, <1>7, <2>1, <2>2, <2>3, <2>4 DEF NumberedInv
<1>8. CASE Tick
  <2>1. status'.conns = live /\ status'.ended = Ended /\ status'.moved = Moved
        /\ UNCHANGED <<live, parting, folded, peers, clock>>
        /\ rates' \in {rates, CurrentRates(live, clock, Moved)}
    BY <1>8 DEF Tick
  <2>2. NumberedInv' /\ Moved' = Moved /\ Ended' = Ended
    BY <1>7, <2>1
  <2>3. /\ \A h \in Hosts : Moved[h] \in Nat /\ Moved[h] = Total(fin, Ended[h]) + BytesOf(OfHost(live, h))
        /\ live \in SUBSET Conn /\ IsFiniteSet(live)
    BY <1>1, <1>2, MovedSplit, MovedIs DEF NumberedInv
  <2>4. Moved \in [Hosts -> Nat] /\ Ended \in [Hosts -> SUBSET (1..MaxClients)]
    <3>1. \A h \in Hosts : Ended[h] \in SUBSET (1..MaxClients)
      BY <1>2, NumbersAre DEF EndedIds
    <3>2. DOMAIN Moved = Hosts /\ DOMAIN Ended = Hosts /\ Moved = [h \in Hosts |-> Moved[h]] /\ Ended = [h \in Hosts |-> Ended[h]]
      BY DEF Moved, Ended
    <3>. QED  BY <2>3, <3>1, <3>2
  <2>5. \A k \in ClientKeys : Aside(Moved, live, k) \in Int
    BY <2>3, AsideIsInt
  <2>6. BehindInv'
    BY <2>1, <2>2, <2>3, <2>4, <2>5 DEF BehindInv
  <2>7. LedgerInv(fin)'
    BY <1>1, <2>1, <2>2, <2>3, <2>4 DEF LedgerInv
  <2>8. RatesInv(rates, live, Moved, clock)
    <3>1. /\ \A h \in Hosts : status.moved[h] <= Moved[h]
          /\ \A k \in ClientKeys : Aside(status.moved, status.conns, k) <= Aside(Moved, live, k)
          /\ status.conns \in SUBSET Conn /\ IsFiniteSet(status.conns) /\ status.moved \in [Hosts -> Nat]
      BY <1>2 DEF BehindInv
    <3>. QED  BY <1>2, <2>3, <2>4, <3>1, RatesGoOn, SMTT(20)
  <2>9. RatesInv(CurrentRates(live, clock, Moved), live, Moved, clock)
    BY <1>2, <2>3, <2>4, <2>8, RatesAreTaken
  <2>10. RatesInv(rates', live, Moved, clock)
    BY <2>1, <2>8, <2>9
  <2>. QED  BY <1>2, <2>1, <2>2, <2>6, <2>7, <2>10 DEF TrafficInv
<1>9. CASE Render
  <2>1. /\ rates' = CurrentRates(status.conns, clock, status.moved)
        /\ UNCHANGED <<live, parting, folded, status, peers, clock>>
    BY <1>9 DEF Render
  <2>2. NumberedInv' /\ Moved' = Moved /\ Ended' = Ended
    BY <1>7, <2>1
  <2>3. RatesInv(CurrentRates(status.conns, clock, status.moved), status.conns, status.moved, clock)
    BY <1>2, RatesAreTaken DEF BehindInv
  <2>4. BehindInv' /\ LedgerInv(fin)'
    BY <1>1, <1>2, <2>1, <2>2 DEF BehindInv, LedgerInv
  <2>. QED  BY <1>2, <2>1, <2>2, <2>3, <2>4 DEF TrafficInv
<1>10. CASE PollPeers
  <2>1. peers' = folded /\ UNCHANGED <<live, parting, folded, status, rates, clock>>
    BY <1>10 DEF PollPeers
  <2>2. NumberedInv' /\ Moved' = Moved /\ Ended' = Ended
    BY <1>7, <2>1
  <2>3. LedgerInv(fin)'
    BY <1>1, <1>2, <2>1, <2>2 DEF LedgerInv, NumberedInv
  <2>4. BehindInv'
    BY <1>2, <2>1, <2>2 DEF BehindInv
  <2>. QED  BY <1>2, <2>1, <2>2, <2>3, <2>4 DEF TrafficInv
<1>11. CASE TrafficElapse
  <2>1. clock' = clock + 1 /\ UNCHANGED <<live, parting, folded, status, peers, rates>>
    BY <1>11 DEF TrafficElapse
  <2>2. NumberedInv' /\ Moved' = Moved /\ Ended' = Ended
    BY <1>7, <2>1
  <2>3. BehindInv' /\ LedgerInv(fin)'
    BY <1>1, <1>2, <2>1, <2>2 DEF BehindInv, LedgerInv
  <2>4. RatesInv(rates, status.conns, status.moved, clock + 1)
    BY <1>2 DEF RatesInv
  <2>. QED  BY <1>2, <2>1, <2>2, <2>3, <2>4 DEF TrafficInv
<1>12. CASE UNCHANGED trafficVars
  <2>1. UNCHANGED <<live, parting, folded, status, peers, rates, clock>>
    BY <1>12 DEF trafficVars
  <2>2. NumberedInv' /\ Moved' = Moved /\ Ended' = Ended
    BY <1>7, <2>1
  <2>3. BehindInv' /\ LedgerInv(fin)'
    BY <1>1, <1>2, <2>1, <2>2 DEF BehindInv, LedgerInv
  <2>. QED  BY <1>2, <2>1, <2>2, <2>3 DEF TrafficInv
<1>. QED  BY <1>3, <1>4, <1>5, <1>6, <1>8, <1>9, <1>10, <1>11, <1>12 DEF TrafficNext

-----------------------------------------------------------------------------
\* What the invariant says of the tables.
LEMMA FoldedIsBounded ==
  ASSUME NEW fin \in [1..MaxClients -> 0..MaxBytes], NEW I \in SUBSET (1..MaxClients)
  PROVE  Total(fin, I) \in 0..(MaxClients * MaxBytes)
<1>. DEFINE N == 1..MaxClients
<1>1. IsFiniteSet(N) /\ Cardinality(N) = MaxClients
  BY TrafficAssumption, FS_Interval
<1>2. \A i \in N : fin[i] \in 0..MaxBytes /\ fin[i] \in Nat
  BY TrafficAssumption
<1>. HIDE DEF N
<1>3. Total(fin, I) \in Nat /\ Total(fin, N) \in Nat /\ Total(fin, I) <= Total(fin, N)
  BY <1>1, <1>2, SumOfPart DEF N
<1>4. Total(fin, N) <= Cardinality(N) * MaxBytes
  BY <1>1, <1>2, TrafficAssumption, SumBounded
<1>5. MaxClients * MaxBytes \in Nat
  BY TrafficAssumption
<1>. QED  BY <1>1, <1>3, <1>4, <1>5

LEMMA TrafficIsTyped ==
  ASSUME TrafficInv
  PROVE  TrafficTypeOK /\ RatesAreReal
<1>1. PICK fin \in [1..MaxClients -> 0..MaxBytes] : LedgerInv(fin)
  BY DEF TrafficInv
<1>2. \A h \in Hosts : folded[h].bytes \in 0..(MaxClients * MaxBytes)
  <2>1. \A h \in Hosts : folded[h].ids \in SUBSET (1..MaxClients) /\ folded[h].bytes = Total(fin, folded[h].ids)
    BY <1>1 DEF LedgerInv, TrafficInv, NumberedInv
  <2>. QED  BY <2>1, FoldedIsBounded
<1>3. folded \in [Hosts -> [seen : BOOLEAN, ids : SUBSET (1..MaxClients), bytes : 0..(MaxClients * MaxBytes)]]
  <2>. DEFINE B == 0..(MaxClients * MaxBytes)
  <2>1. folded \in [Hosts -> [seen : BOOLEAN, ids : SUBSET (1..MaxClients), bytes : Nat]]
        /\ \A h \in Hosts : folded[h].bytes \in B
    BY <1>2 DEF TrafficInv, NumberedInv
  <2>. HIDE DEF B
  <2>2. \A h \in Hosts : folded[h] \in [seen : BOOLEAN, ids : SUBSET (1..MaxClients), bytes : B]
    BY <2>1
  <2>3. folded \in [Hosts -> [seen : BOOLEAN, ids : SUBSET (1..MaxClients), bytes : B]]
    BY <2>1, <2>2
  <2>. QED  BY <2>3 DEF B
<1>4. TrafficTypeOK
  BY <1>3 DEF TrafficInv, NumberedInv, RatesInv, ClientKeys, TrafficTypeOK
<1>. QED  BY <1>4 DEF TrafficInv, RatesInv, RatesAreReal

\* The keys of a host's rows.
Stored == {<<h>> : h \in {g \in Hosts : peers[g].seen}}
KeysOf(h) == {k \in Stored \cup {KeyOf(c) : c \in status.conns} : k[1] = h}
RowOf(k) == [ip |-> k, live |-> Mine(status.conns, k) # {},
             total |-> BytesOf(Mine(status.conns, k)) + (IF k \in Stored THEN peers[k[1]].bytes ELSE 0)]
HostRows(h) == {r \in MergeClients : r.ip[1] = h}

LEMMA RowsAreOfKeys ==
  \A h \in Hosts : HostRows(h) = {RowOf(k) : k \in KeysOf(h)}
<1>1. MergeClients = {RowOf(k) : k \in Stored \cup {KeyOf(c) : c \in status.conns}}
  BY DEF MergeClients, RowOf, Stored, Mine
<1>2. \A k : RowOf(k).ip = k
  BY DEF RowOf
<1>. QED  BY <1>1, <1>2 DEF HostRows, KeysOf

LEMMA KeysOfAre ==
  ASSUME TrafficInv, NEW h \in Hosts
  PROVE  /\ KeysOf(h) = (IF peers[h].seen THEN {<<h>>} ELSE {}) \cup {KeyOf(c) : c \in OfHost(status.conns, h)}
         /\ IsFiniteSet(KeysOf(h)) /\ IsFiniteSet(OfHost(status.conns, h))
         /\ \A k \in KeysOf(h) : k[1] = h /\ (k \in Stored <=> peers[h].seen /\ k = <<h>>)
<1>1. status.conns \in SUBSET Conn /\ IsFiniteSet(status.conns)
  BY DEF TrafficInv, BehindInv
<1>2. \A k : k \in Stored <=> \E g \in Hosts : peers[g].seen /\ k = <<g>>
  BY DEF Stored
<1>3. \A c \in status.conns : KeyOf(c)[1] = c.host
  BY <1>1, KeysAreOfHosts
<1>4. KeysOf(h) = (IF peers[h].seen THEN {<<h>>} ELSE {}) \cup {KeyOf(c) : c \in OfHost(status.conns, h)}
  <2>1. ASSUME NEW k \in KeysOf(h)
        PROVE  k \in (IF peers[h].seen THEN {<<h>>} ELSE {}) \cup {KeyOf(c) : c \in OfHost(status.conns, h)}
    <3>1. k[1] = h /\ (k \in Stored \/ \E c \in status.conns : k = KeyOf(c))
      BY DEF KeysOf
    <3>2. CASE k \in Stored
      <4>1. PICK g \in Hosts : peers[g].seen /\ k = <<g>>
        BY <1>2, <3>2
      <4>2. g = h
        BY <3>1, <4>1
      <4>. QED  BY <4>1, <4>2
    <3>3. CASE \E c \in status.conns : k = KeyOf(c)
      BY <1>3, <3>1, <3>3 DEF OfHost
    <3>. QED  BY <3>1, <3>2, <3>3
  <2>2. ASSUME peers[h].seen  PROVE <<h>> \in KeysOf(h)
    BY <1>2, <2>2 DEF KeysOf
  <2>3. ASSUME NEW c \in OfHost(status.conns, h)  PROVE KeyOf(c) \in KeysOf(h)
    BY <1>3 DEF KeysOf, OfHost
  <2>. QED  BY <2>1, <2>2, <2>3
<1>5. IsFiniteSet(OfHost(status.conns, h))
  BY <1>1, FS_Subset DEF OfHost
<1>6. IsFiniteSet(KeysOf(h))
  <2>. DEFINE A == IF peers[h].seen THEN {<<h>>} ELSE {}
              B == {KeyOf(c) : c \in OfHost(status.conns, h)}
  <2>1. IsFiniteSet(A)
    BY FS_EmptySet, FS_Singleton
  <2>2. IsFiniteSet(B)
    <3>. DEFINE C == OfHost(status.conns, h)
                f == [c \in C |-> KeyOf(c)]
    <3>1. f \in Surjection(C, B)
      BY DEF Surjection
    <3>. HIDE DEF f
    <3>. QED  BY <1>5, <3>1, FS_Surjection
  <2>. HIDE DEF A, B
  <2>3. IsFiniteSet(A \cup B)
    BY <2>1, <2>2, FS_Union
  <2>. QED  BY <1>4, <2>3 DEF A, B
<1>7. \A k \in KeysOf(h) : k[1] = h /\ (k \in Stored <=> peers[h].seen /\ k = <<h>>)
  <2>. SUFFICES ASSUME NEW k \in KeysOf(h)  PROVE k[1] = h /\ (k \in Stored <=> peers[h].seen /\ k = <<h>>)
    OBVIOUS
  <2>1. k[1] = h
    BY DEF KeysOf
  <2>2. ASSUME k \in Stored  PROVE peers[h].seen /\ k = <<h>>
    <3>1. PICK g \in Hosts : peers[g].seen /\ k = <<g>>
      BY <1>2, <2>2
    <3>. QED  BY <2>1, <3>1
  <2>. QED  BY <1>2, <2>1, <2>2
<1>. QED  BY <1>4, <1>5, <1>6, <1>7

\* A host's rows add up to what its live connections carry and its record has.
LEMMA RowsAddUp ==
  ASSUME TrafficInv, NEW h \in Hosts
  PROVE  /\ Added([r \in HostRows(h) |-> r.total]) =
              BytesOf(OfHost(status.conns, h)) + (IF peers[h].seen THEN peers[h].bytes ELSE 0)
         /\ BytesOf(OfHost(status.conns, h)) \in Nat
<1>1. PICK K : K = KeysOf(h)
  OBVIOUS
<1>2. PICK S : S = OfHost(status.conns, h)
  OBVIOUS
<1>3. PICK R : R = HostRows(h)
  OBVIOUS
<1>4. PICK row : row = [k \in K |-> RowOf(k)]
  OBVIOUS
<1>5. PICK own : own = [k \in K |-> BytesOf(Mine(status.conns, k))]
  OBVIOUS
<1>6. PICK past : past = [k \in K |-> IF k \in Stored THEN peers[k[1]].bytes ELSE 0]
  OBVIOUS
<1>7. PICK sum : sum = [k \in K |-> row[k].total]
  OBVIOUS
<1>8. PICK tot : tot = [r \in R |-> r.total]
  OBVIOUS
<1>9. PICK key : key = [c \in S |-> KeyOf(c)]
  OBVIOUS
<1>10. IsFiniteSet(K) /\ IsFiniteSet(S) /\ S \in SUBSET Conn /\ status.conns \in SUBSET Conn
  BY <1>1, <1>2, KeysOfAre DEF TrafficInv, BehindInv, OfHost
<1>11. peers[h].bytes \in Nat
  BY DEF TrafficInv, LedgerInv
<1>12. /\ \A k \in K : k[1] = h /\ (k \in Stored <=> peers[h].seen /\ k = <<h>>)
       /\ peers[h].seen => <<h>> \in K
       /\ \A c \in S : KeyOf(c) \in K
  BY <1>1, <1>2, KeysOfAre
<1>13. ASSUME NEW k \in K
       PROVE  /\ own[k] = Total(Bytes, {c \in S : key[c] = k}) /\ own[k] \in Nat
              /\ past[k] \in Nat /\ sum[k] = own[k] + past[k] /\ row[k].ip = k
              /\ row[k] \in R /\ tot[row[k]] = sum[k]
  <2>. DEFINE M == Mine(status.conns, k)
  <2>1. M = {c \in S : key[c] = k} /\ M \in SUBSET Conn /\ M \in SUBSET S
    <3>1. \A c \in status.conns : KeyOf(c) = k => c.host = h
      BY <1>10, <1>12, KeysAreOfHosts
    <3>. QED  BY <1>2, <1>9, <1>10, <3>1 DEF Mine, OfHost
  <2>2. IsFiniteSet(M)
    BY <1>10, <2>1, FS_Subset
  <2>. HIDE DEF M
  <2>3. BytesOf(M) = Total(Bytes, M) /\ BytesOf(M) \in Nat
    BY <2>1, <2>2, BytesAreASum
  <2>4. own[k] = BytesOf(M)
    BY <1>5 DEF M
  <2>5. past[k] = (IF k \in Stored THEN peers[h].bytes ELSE 0)
    BY <1>6, <1>12
  <2>6. row[k] = RowOf(k) /\ RowOf(k) \in R
    BY <1>1, <1>3, <1>4, RowsAreOfKeys
  <2>7. RowOf(k).ip = k /\ RowOf(k).total = own[k] + past[k]
    BY <1>5, <1>6 DEF RowOf
  <2>. QED  BY <1>7, <1>8, <1>11, <2>1, <2>3, <2>4, <2>5, <2>6, <2>7
<1>14. Total(sum, K) = Total(own, K) + Total(past, K)
  <2>1. \A x \in K : own[x] \in Nat /\ past[x] \in Nat /\ sum[x] = own[x] + past[x]
    BY <1>13
  <2>. QED  BY <1>10, <2>1, SumPlus
<1>15. \A c \in S : Bytes[c] \in Nat /\ key[c] \in K
  BY <1>9, <1>10, <1>12, TrafficAssumption DEF Bytes, Conn
<1>16. Total(own, K) = Total(Bytes, S)
  <2>1. PICK g : g = Bytes
    OBVIOUS
  <2>2. PICK part : part = [k \in K |-> {x \in S : key[x] = k}]
    OBVIOUS
  <2>3. \A x \in S : g[x] \in Nat
    BY <1>15, <2>1
  <2>4. \A x \in S : key[x] \in K
    BY <1>15
  <2>5. \A k \in K : part[k] \in SUBSET S /\ \A x \in S : x \in part[k] <=> key[x] = k
    BY <2>2
  <2>6. \A k \in K : own[k] = Total(g, part[k])
    BY <1>13, <2>1, <2>2
  <2>7. IsFiniteSet(K) /\ IsFiniteSet(S)
    BY <1>10
  <2>8. Total(own, K) = Total(g, S)
    BY <2>3, <2>4, <2>5, <2>6, <2>7, SumByGroups
  <2>. QED  BY <2>1, <2>8
<1>17. Total(past, K) = IF peers[h].seen THEN peers[h].bytes ELSE 0
  <2>1. CASE ~peers[h].seen
    <3>1. \A k \in K : past[k] = 0
      BY <1>6, <1>12, <2>1
    <3>. QED  BY <1>10, <2>1, <3>1, SumZero
  <2>2. CASE peers[h].seen
    <3>1. PICK x : x = <<h>>
      OBVIOUS
    <3>2. x \in K /\ past[x] = peers[h].bytes /\ \A k \in K \ {x} : past[k] = 0
      BY <1>6, <1>12, <2>2, <3>1
    <3>3. Total(past, K) = past[x] + Total(past, K \ {x})
      <4>1. \A k \in K : past[k] \in Nat
        BY <1>13
      <4>. QED  BY <1>10, <3>2, <4>1, SumTakeOut
    <3>4. Total(past, K \ {x}) = 0
      BY <1>10, <3>2, FS_Subset, SumZero
    <3>. QED  BY <1>11, <2>2, <3>2, <3>3, <3>4
  <2>. QED  BY <2>1, <2>2
<1>18. BytesOf(S) = Total(Bytes, S) /\ BytesOf(S) \in Nat
  BY <1>10, BytesAreASum
<1>19. Total(tot, R) = Total(sum, K) /\ IsFiniteSet(R)
  <2>1. R = {row[x] : x \in K}
    <3>1. R = {RowOf(k) : k \in K}
      BY <1>1, <1>3, RowsAreOfKeys
    <3>2. \A k \in K : row[k] = RowOf(k)
      BY <1>4
    <3>. QED  BY <3>1, <3>2
  <2>2. \A x, y \in K : row[x] = row[y] => x = y
    BY <1>13
  <2>3. \A x \in K : sum[x] \in Nat /\ tot[row[x]] = sum[x]
    <3>. SUFFICES ASSUME NEW x \in K  PROVE sum[x] \in Nat /\ tot[row[x]] = sum[x]
      OBVIOUS
    <3>1. own[x] \in Nat /\ past[x] \in Nat /\ sum[x] = own[x] + past[x] /\ tot[row[x]] = sum[x]
      BY <1>13
    <3>. QED  BY <3>1
  <2>4. IsFiniteSet(K)
    BY <1>10
  <2>. QED  BY <2>1, <2>2, <2>3, <2>4, SumRenamed
<1>20. Added(tot) = Total(tot, R)
  BY <1>8 DEF Added, Total, FoldFunction
<1>. QED  BY <1>2, <1>3, <1>8, <1>14, <1>16, <1>17, <1>18, <1>19, <1>20

LEMMA TrafficPromises ==
  ASSUME TrafficInv
  PROVE  TrafficSafe
<1>1. PICK fin \in [1..MaxClients -> 0..MaxBytes] : LedgerInv(fin)
  BY DEF TrafficInv
<1>2. TotalsAddUp
  <2>. SUFFICES ASSUME NEW h \in Hosts
                PROVE  LET told == Added([r \in HostRows(h) |-> r.total])
                           real == status.moved[h]
                       IN /\ peers[h].ids \subseteq status.ended[h] => told <= real
                          /\ status.ended[h] \subseteq peers[h].ids => told >= real
    BY DEF TotalsAddUp, HostRows
  <2>. DEFINE told == Added([r \in HostRows(h) |-> r.total])
  <2>1. /\ peers[h].bytes = Total(fin, peers[h].ids) /\ (peers[h].ids # {} => peers[h].seen)
        /\ status.moved[h] = Total(fin, status.ended[h]) + BytesOf(OfHost(status.conns, h))
        /\ peers[h].ids \in SUBSET (1..MaxClients) /\ status.ended[h] \in SUBSET (1..MaxClients)
    BY <1>1 DEF LedgerInv
  <2>2. told = BytesOf(OfHost(status.conns, h)) + Total(fin, peers[h].ids)
        /\ BytesOf(OfHost(status.conns, h)) \in Nat
    <3>1. (IF peers[h].seen THEN peers[h].bytes ELSE 0) = Total(fin, peers[h].ids)
      BY <2>1, SumEmpty
    <3>. QED  BY <3>1, RowsAddUp
  <2>. HIDE DEF told
  <2>3. ASSUME NEW P \in SUBSET (1..MaxClients), NEW S \in SUBSET (1..MaxClients), P \subseteq S
        PROVE  Total(fin, P) \in Nat /\ Total(fin, S) \in Nat /\ Total(fin, P) <= Total(fin, S)
    <3>1. IsFiniteSet(1..MaxClients)
      BY TrafficAssumption, FS_Interval
    <3>2. IsFiniteSet(S)
      BY <3>1, FS_Subset
    <3>3. \A i \in S : fin[i] \in Nat
      BY TrafficAssumption
    <3>. QED  BY <2>3, <3>2, <3>3, SumOfPart
  <2>4. /\ peers[h].ids \subseteq status.ended[h] => told <= status.moved[h]
        /\ status.ended[h] \subseteq peers[h].ids => told >= status.moved[h]
    BY <2>1, <2>2, <2>3, SMTT(20)
  <2>. QED  BY <2>4 DEF told
<1>3. OneRowPerClient
  <2>. SUFFICES ASSUME NEW h \in V4, NEW r \in HostRows(h), NEW s \in HostRows(h)
                PROVE  r = s /\ (r.live <=> OfHost(status.conns, h) # {})
    BY DEF OneRowPerClient, HostRows
  <2>1. h \in Hosts
    BY DEF Hosts
  <2>2. ASSUME NEW k \in KeysOf(h)  PROVE k = <<h>>
    <3>1. \A c \in OfHost(status.conns, h) : KeyOf(c) = <<h>>
      BY DEF OfHost, KeyOf
    <3>. QED  BY <2>1, <3>1, KeysOfAre
  <2>3. r = RowOf(<<h>>) /\ s = RowOf(<<h>>)
    BY <2>1, <2>2, RowsAreOfKeys
  <2>4. Mine(status.conns, <<h>>) = OfHost(status.conns, h)
    <3>1. \A c : c.host = h => KeyOf(c) = <<h>>
      BY DEF KeyOf
    <3>2. \A c \in status.conns : KeyOf(c)[1] = c.host
      BY KeysAreOfHosts DEF TrafficInv, BehindInv
    <3>. QED  BY <3>1, <3>2 DEF Mine, OfHost
  <2>. QED  BY <2>3, <2>4 DEF RowOf
<1>. QED  BY <1>2, <1>3, TrafficIsTyped DEF TrafficSafe

-----------------------------------------------------------------------------
\* What numbers that are at least b add up to.
LEMMA SumAtLeast ==
  ASSUME NEW S, IsFiniteSet(S), NEW g, NEW b \in Nat, \A x \in S : g[x] \in Nat /\ b <= g[x]
  PROVE  Cardinality(S) * b <= Total(g, S)
<1>. DEFINE Good == {T \in SUBSET S : Cardinality(T) * b <= Total(g, T)}
<1>1. {} \in Good
  BY SumEmpty, FS_EmptySet
<1>2. ASSUME NEW T \in SUBSET S, T # {}, \A x \in T : T \ {x} \in Good
      PROVE  T \in Good
  <2>1. PICK x \in T : TRUE
    BY <1>2
  <2>2. /\ IsFiniteSet(T) /\ IsFiniteSet(T \ {x}) /\ \A y \in T : g[y] \in Nat /\ b <= g[y]
        /\ Cardinality(T \ {x}) = Cardinality(T) - 1 /\ Cardinality(T) \in Nat
    BY FS_Subset, FS_RemoveElement, FS_CardinalityType
  <2>3. Total(g, T) = g[x] + Total(g, T \ {x}) /\ Total(g, T \ {x}) \in Nat
    BY <2>2, SumTakeOut
  <2>4. (Cardinality(T) - 1) * b <= Total(g, T \ {x})
    BY <1>2, <2>2
  <2>. DEFINE n == Cardinality(T)
  <2>5. (n - 1) * b = n * b - b /\ n * b \in Int
    BY <2>2
  <2>. QED  BY <2>2, <2>3, <2>4, <2>5
<1>. HIDE DEF Good
<1>3. S \in Good
  BY <1>1, <1>2, BySubsets, Zenon
<1>. QED  BY <1>3 DEF Good

-----------------------------------------------------------------------------
(* The scales.                                                             *)

\* The recursion of the powers has a result.
LEMMA PowerRounds ==
  ASSUME NEW b \in Nat
  PROVE  /\ DOMAIN Power(b) = 0..Digits /\ Power(b)[0] = 1
         /\ Power(b) = [n \in 0..Digits |-> Power(b)[n]]
         /\ \A n \in 1..Digits : Power(b)[n] = b * Power(b)[n - 1]
<1>. DEFINE Round(f, n) == IF n = 0 THEN 1 ELSE b * f[n - 1]
            Runs(k) == \E f : f = [n \in 0..k |-> Round(f, n)]
            p == CHOOSE f : f = [n \in 0..Digits |-> Round(f, n)]
<1>0. Digits \in Nat
  BY PlotsAssumption
<1>1. Runs(0)
  <2>. DEFINE f == [n \in 0..0 |-> 1]
  <2>1. f = [n \in 0..0 |-> Round(f, n)]
    OBVIOUS
  <2>. QED  BY <2>1
<1>2. ASSUME NEW k \in Nat, Runs(k)  PROVE Runs(k + 1)
  <2>1. PICK f : f = [n \in 0..k |-> Round(f, n)]
    BY <1>2
  <2>. DEFINE g == [n \in 0..(k + 1) |-> Round(f, n)]
  <2>2. ASSUME NEW n \in 0..(k + 1)  PROVE g[n] = Round(g, n)
    <3>1. CASE n = 0
      BY <3>1
    <3>2. CASE n # 0
      <4>1. n - 1 \in 0..k /\ n - 1 \in 0..(k + 1)
        BY <3>2
      <4>2. g[n - 1] = Round(f, n - 1) /\ f[n - 1] = Round(f, n - 1) /\ g[n] = b * f[n - 1]
        BY <2>1, <3>2, <4>1
      <4>. HIDE DEF g
      <4>3. g[n - 1] = f[n - 1]
        BY <4>2
      <4>. QED  BY <3>2, <4>2, <4>3
    <3>. QED  BY <3>1, <3>2
  <2>3. g = [n \in 0..(k + 1) |-> g[n]]
    OBVIOUS
  <2>. HIDE DEF g
  <2>4. g = [n \in 0..(k + 1) |-> Round(g, n)]
    BY <2>2, <2>3
  <2>. QED  BY <2>4
<1>3. Runs(Digits)
  <2>. DEFINE Good == {k \in Nat : Runs(k)}
  <2>. HIDE DEF Runs
  <2>1. 0 \in Good /\ \A k \in Nat : k \in Good => k + 1 \in Good
    BY <1>1, <1>2
  <2>. HIDE DEF Good
  <2>2. \A k \in Nat : k \in Good
    BY <2>1, ByNumbers
  <2>. QED  BY <1>0, <2>2 DEF Good
<1>4. p = [n \in 0..Digits |-> Round(p, n)]
  BY <1>3
<1>5. Power(b) = p
  BY DEF Power
<1>. HIDE DEF p
<1>6. DOMAIN p = 0..Digits /\ \A n \in 0..Digits : p[n] = Round(p, n)
  BY <1>4
<1>7. p[0] = 1 /\ \A n \in 1..Digits : p[n] = b * p[n - 1]
  BY <1>0, <1>6
<1>8. p = [n \in 0..Digits |-> p[n]]
  BY <1>4
<1>. QED  BY <1>5, <1>6, <1>7, <1>8

\* The powers of a base: positive numbers, a finite set, each but 1 a multiple of another.
LEMMA PowersOK ==
  ASSUME NEW b \in Nat \ {0}
  PROVE  /\ Range(Power(b)) \in SUBSET (Nat \ {0}) /\ IsFiniteSet(Range(Power(b)))
         /\ Power(b)[Digits] \in Range(Power(b))
         /\ \A p \in Range(Power(b)) : p = 1 \/ \E q \in Range(Power(b)) : p = b * q
<1>0. Digits \in Nat
  BY PlotsAssumption
<1>1. PICK p : p = Power(b)
  OBVIOUS
<1>2. /\ DOMAIN p = 0..Digits /\ p[0] = 1 /\ p = [n \in 0..Digits |-> p[n]]
      /\ \A n \in 1..Digits : p[n] = b * p[n - 1]
  BY <1>1, PowerRounds
<1>. DEFINE Good == {n \in Nat : n <= Digits => p[n] \in Nat \ {0}}
<1>3. \A n \in Nat : n \in Good
  <2>1. 0 \in Good
    BY <1>2
  <2>2. ASSUME NEW n \in Nat, n \in Good  PROVE n + 1 \in Good
    <3>. SUFFICES ASSUME n + 1 <= Digits  PROVE p[n + 1] \in Nat \ {0}
      OBVIOUS
    <3>1. n + 1 \in 1..Digits /\ (n + 1) - 1 = n /\ n <= Digits
      BY <1>0
    <3>2. p[n + 1] = b * p[n] /\ p[n] \in Nat \ {0}
      BY <1>2, <2>2, <3>1
    <3>. QED  BY <3>2
  <2>. HIDE DEF Good
  <2>. QED  BY <2>1, <2>2, ByNumbers
<1>4. \A n \in 0..Digits : p[n] \in Nat \ {0}
  BY <1>0, <1>3
<1>5. Range(p) = {p[n] : n \in 0..Digits}
  BY <1>2 DEF Range
<1>6. IsFiniteSet(Range(p))
  <2>1. IsFiniteSet(0..Digits)
    BY <1>0, FS_Interval
  <2>2. p \in Surjection(0..Digits, Range(p))
    <3>1. p \in [0..Digits -> Range(p)]
      <4>1. \A n \in 0..Digits : p[n] \in Range(p)
        BY <1>5
      <4>. QED  BY <1>2, <4>1
    <3>. QED  BY <1>5, <3>1 DEF Surjection
  <2>. QED  BY <2>1, <2>2, FS_Surjection
<1>7. p[Digits] \in Range(p) /\ Range(p) \in SUBSET (Nat \ {0})
  BY <1>0, <1>4, <1>5
<1>8. ASSUME NEW x \in Range(p), x # 1  PROVE \E q \in Range(p) : x = b * q
  <2>1. PICK n \in 0..Digits : x = p[n]
    BY <1>5
  <2>2. n \in 1..Digits /\ n - 1 \in 0..Digits
    BY <1>0, <1>2, <1>8, <2>1
  <2>. QED  BY <1>2, <1>5, <2>1, <2>2
<1>. QED  BY <1>1, <1>6, <1>7, <1>8

\* niceScale holds its value, and what is empty above it is less than the value.
LEMMA NiceScaleHolds ==
  ASSUME NEW top \in 1..ScaleTop
  PROVE  NiceScale(top) \in Nat /\ NiceScale(top) >= top /\ (top >= 4 => NiceScale(top) < 2 * top)
<1>. DEFINE P == Range(Power(2))
            S == {p \in P : 4 * p >= top}
<1>1. ScaleTop \in Nat
  BY PlotsAssumption
<1>2. /\ P \in SUBSET (Nat \ {0}) /\ IsFiniteSet(P) /\ Power(2)[Digits] \in P
      /\ \A p \in P : p = 1 \/ \E q \in P : p = 2 * q
  BY PowersOK
<1>3. ScaleTop <= 4 * Power(2)[Digits]
  BY DigitsAssumption
<1>4. NiceScale(top) = 4 * Min(S)
  BY DEF NiceScale
<1>. HIDE DEF P
<1>5. Power(2)[Digits] \in S
  <2>1. Power(2)[Digits] \in Nat
    BY <1>2
  <2>. QED  BY <1>1, <1>2, <1>3, <2>1
<1>6. IsFiniteSet(S) /\ S \in SUBSET Int /\ S # {}
  <2>1. IsFiniteSet(S)
    BY <1>2, FS_Subset
  <2>2. \A p \in S : p \in Int
    BY <1>2
  <2>. HIDE DEF S
  <2>. QED  BY <1>5, <2>1, <2>2
<1>7. PICK m : m = Min(S)
  OBVIOUS
<1>8. m \in S /\ \A y \in S : m <= y
  <2>. HIDE DEF S
  <2>. QED  BY <1>6, <1>7, MinIs
<1>9. m \in P /\ m \in Nat \ {0} /\ 4 * m >= top
  BY <1>2, <1>8
<1>10. top >= 4 => 4 * m < 2 * top
  <2>. SUFFICES ASSUME top >= 4  PROVE 4 * m < 2 * top
    OBVIOUS
  <2>1. CASE m = 1
    BY <2>1
  <2>2. CASE m # 1
    <3>1. PICK q \in P : m = 2 * q
      BY <1>2, <1>9, <2>2
    <3>2. q \in Nat \ {0}
      BY <1>2
    <3>3. q \notin S
      BY <1>8, <3>1, <3>2
    <3>4. 4 * q < top
      BY <3>2, <3>3
    <3>. QED  BY <3>1, <3>2, <3>4
  <2>. QED  BY <2>1, <2>2
<1>. QED  BY <1>4, <1>7, <1>9, <1>10

\* So does niceLinear, in hundredths, with half as much again.
LEMMA NiceLinearHolds ==
  ASSUME NEW top \in 1..ScaleTop
  PROVE  NiceLinear(top) \in Nat /\ NiceLinear(top) >= 100 * top /\ NiceLinear(top) <= 250 * top
<1>. DEFINE P == Range(Power(10))
            steps == {d * p : d \in {1, 2, 5}, p \in P}
            raw == 25 * top
            S == {s \in steps : s >= raw}
<1>1. ScaleTop \in Nat /\ top \in Nat /\ top >= 1 /\ top <= ScaleTop
  BY PlotsAssumption
<1>2. /\ P \in SUBSET (Nat \ {0}) /\ IsFiniteSet(P) /\ Power(10)[Digits] \in P
      /\ \A p \in P : p = 1 \/ \E q \in P : p = 10 * q
  BY PowersOK
<1>3. 5 * ScaleTop <= Power(10)[Digits]
  BY DigitsAssumption
<1>4. NiceLinear(top) = 4 * Min(S)
  <2>1. Max({1, top}) = top
    <3>1. IsFiniteSet({1, top}) /\ {1, top} \in SUBSET Int /\ {1, top} # {}
      <4>1. IsFiniteSet(1..top)
        BY <1>1, FS_Interval
      <4>2. {1, top} \in SUBSET (1..top)
        BY <1>1
      <4>. QED  BY <1>1, <4>1, <4>2, FS_Subset
    <3>2. Max({1, top}) \in {1, top} /\ \A y \in {1, top} : y <= Max({1, top})
      BY <3>1, MaxIs
    <3>. QED  BY <1>1, <3>2
  <2>. QED  BY <2>1 DEF NiceLinear
<1>. HIDE DEF P
<1>5. steps \in SUBSET (Nat \ {0}) /\ \A s \in steps : s \in Nat
  BY <1>2
<1>6. 5 * Power(10)[Digits] \in S
  <2>1. Power(10)[Digits] \in Nat
    BY <1>2
  <2>2. 5 * Power(10)[Digits] \in steps
    <3>1. PICK p \in P : p = Power(10)[Digits]
      BY <1>2
    <3>2. 5 * p \in steps
      OBVIOUS
    <3>. QED  BY <3>1, <3>2
  <2>3. 5 * Power(10)[Digits] >= raw
    BY <1>1, <1>3, <2>1
  <2>. QED  BY <2>2, <2>3
<1>7. IsFiniteSet(S)
  <2>1. IsFiniteSet({1, 2, 5})
    <3>1. ASSUME NEW n \in Nat, n = 5  PROVE IsFiniteSet({1, 2, 5})
      <4>1. IsFiniteSet(1..n)
        BY FS_Interval
      <4>2. {1, 2, 5} \in SUBSET (1..n)
        BY <3>1
      <4>. QED  BY <4>1, <4>2, FS_Subset
    <3>. QED  BY <3>1
  <2>2. IsFiniteSet({1, 2, 5} \X P)
    BY <1>2, <2>1, FS_Product
  <2>. DEFINE f == [x \in {1, 2, 5} \X P |-> x[1] * x[2]]
  <2>3. f \in Surjection({1, 2, 5} \X P, steps)
    <3>1. \A x \in {1, 2, 5} \X P : f[x] \in steps
      OBVIOUS
    <3>2. ASSUME NEW s \in steps  PROVE \E x \in {1, 2, 5} \X P : f[x] = s
      <4>1. PICK d \in {1, 2, 5}, p \in P : s = d * p
        OBVIOUS
      <4>2. <<d, p>> \in {1, 2, 5} \X P /\ f[<<d, p>>] = d * p
        OBVIOUS
      <4>. QED  BY <4>1, <4>2
    <3>3. f \in [{1, 2, 5} \X P -> steps]
      BY <3>1
    <3>. HIDE DEF f, steps
    <3>. QED  BY <3>2, <3>3 DEF Surjection
  <2>4. IsFiniteSet(steps)
    BY <2>2, <2>3, FS_Surjection
  <2>. QED  BY <2>4, FS_Subset
<1>8. S \in SUBSET Int /\ S # {}
  BY <1>5, <1>6
<1>9. PICK m : m = Min(S)
  OBVIOUS
<1>10. m \in S /\ \A y \in S : m <= y
  <2>. HIDE DEF S
  <2>. QED  BY <1>7, <1>8, <1>9, MinIs
<1>11. m \in steps /\ m \in Nat \ {0} /\ m >= raw
  BY <1>5, <1>10
<1>12. 2 * m <= 125 * top
  <2>1. PICK d \in {1, 2, 5}, p \in P : m = d * p
    BY <1>11
  <2>2. p \in Nat \ {0}
    BY <1>2
  <2>3. ASSUME NEW s \in steps, s < m  PROVE s < raw
    <3>1. s \notin S /\ s \in Nat
      BY <1>5, <1>10, <1>11, <2>3
    <3>. QED  BY <1>1, <2>3, <3>1
  <2>4. CASE d = 5
    <3>1. 2 * p \in steps
      OBVIOUS
    <3>2. 2 * p < m
      BY <2>1, <2>2, <2>4
    <3>3. 2 * p < raw
      BY <2>3, <3>1, <3>2
    <3>. QED  BY <1>1, <2>1, <2>2, <2>4, <3>3
  <2>5. CASE d = 2
    <3>1. 1 * p \in steps
      OBVIOUS
    <3>2. 1 * p < m
      BY <2>1, <2>2, <2>5
    <3>3. 1 * p < raw
      BY <2>3, <3>1, <3>2
    <3>. QED  BY <1>1, <2>1, <2>2, <2>5, <3>3
  <2>6. CASE d = 1 /\ p # 1
    <3>1. PICK q \in P : p = 10 * q
      BY <1>2, <2>6
    <3>2. q \in Nat \ {0} /\ 5 * q \in steps
      BY <1>2
    <3>3. 5 * q < m
      BY <2>1, <2>2, <2>6, <3>1, <3>2
    <3>4. 5 * q < raw
      BY <2>3, <3>2, <3>3
    <3>. QED  BY <1>1, <2>1, <2>2, <2>6, <3>1, <3>2, <3>4
  <2>7. CASE d = 1 /\ p = 1
    BY <1>1, <1>11, <2>1, <2>7
  <2>. QED  BY <2>4, <2>5, <2>6, <2>7
<1>. QED  BY <1>1, <1>4, <1>9, <1>11, <1>12

LEMMA ScalesPromise == ScalesHold
BY NiceScaleHolds, NiceLinearHolds DEF ScalesHold

-----------------------------------------------------------------------------
(* The buckets and what is painted of them.                                *)

PlotInv ==
  /\ plot \in [buckets : Seq(PlotBucket), filling : BOOLEAN]
  /\ plot.filling => plot.buckets # <<>>

LEMMA PlotInvInit == PlotInit => PlotInv
BY DEF PlotInit, PlotInv

LEMMA PlotInvStep ==
  ASSUME PlotInv, [PlotRecord]_plot
  PROVE  PlotInv'
<1>1. CASE PlotRecord
  <2>1. PICK b \in PlotBucket, f \in BOOLEAN :
          \/ plot' = [buckets |-> Append(plot.buckets, b), filling |-> f]
          \/ /\ plot.filling
             /\ plot' = [buckets |-> Append(Front(plot.buckets), b), filling |-> f]
    BY <1>1 DEF PlotRecord
  <2>2. plot.buckets \in Seq(PlotBucket) /\ (plot.filling => plot.buckets # <<>>)
    BY DEF PlotInv
  <2>3. \A s \in Seq(PlotBucket) : Append(s, b) \in Seq(PlotBucket) /\ Append(s, b) # <<>>
    <3>. SUFFICES ASSUME NEW s \in Seq(PlotBucket)
                  PROVE  Append(s, b) \in Seq(PlotBucket) /\ Append(s, b) # <<>>
      OBVIOUS
    <3>1. Append(s, b) \in Seq(PlotBucket) /\ Len(Append(s, b)) = Len(s) + 1 /\ Len(s) \in Nat
      OBVIOUS
    <3>2. Len(<<>>) = 0
      OBVIOUS
    <3>. QED  BY <3>1, <3>2
  <2>4. plot.filling => Front(plot.buckets) \in Seq(PlotBucket)
    BY <2>2 DEF Front
  <2>5. PICK s \in Seq(PlotBucket) : plot' = [buckets |-> Append(s, b), filling |-> f]
    BY <2>1, <2>2, <2>4
  <2>. QED  BY <2>3, <2>5 DEF PlotInv
<1>2. CASE UNCHANGED plot
  BY <1>2 DEF PlotInv
<1>. QED  BY <1>1, <1>2

\* A bucket and its values.
LEMMA BucketType ==
  ASSUME PlotInv, NEW i \in DOMAIN plot.buckets
  PROVE  /\ plot.buckets[i] \in PlotBucket
         /\ plot.buckets[i].out \in {0, Level} /\ plot.buckets[i].in \in {0, Level}
         /\ plot.buckets[i].close \in {0, Level} /\ plot.buckets[i].conn \in {NoValue, 1}
         /\ plot.buckets[i].rtt \in {NoValue, Level}
         /\ Level \in Nat \ {0} /\ Level <= ScaleTop
<1>1. plot.buckets[i] \in PlotBucket
  BY DEF PlotInv
<1>2. Level \in Nat \ {0} /\ Level <= ScaleTop
  BY PlotsAssumption
<1>. QED  BY <1>1, <1>2 DEF PlotBucket

LEMMA ReadoutPromise ==
  ASSUME PlotInv
  PROVE  ReadoutTellsPainted
<1>. SUFFICES ASSUME NEW mode \in Renders, NEW vis \in Visibility
              PROVE  LET drawn == SeriesShown(mode, vis)
                         painted == Painted(mode, vis)
                     IN /\ drawn \subseteq Chips(mode)
                        /\ \A i \in DOMAIN plot.buckets :
                             LET read == ReadoutOf(mode, vis, i)
                             IN /\ {l[1] : l \in read} =
                                     {s \in drawn : s \in {"conn", "rtt"} => plot.buckets[i][s] # NoValue}
                                /\ \A l \in read : l[1] \notin painted => l[2] = 0 \/ plot.filling
  BY DEF ReadoutTellsPainted
<1>. DEFINE drawn == SeriesShown(mode, vis)
            painted == Painted(mode, vis)
<1>1. \A s \in drawn : s \in Series
  BY DEF SeriesShown
<1>2. /\ "dl" \in drawn <=> (mode = "candles" \/ vis.dl)
      /\ "ul" \in drawn <=> vis.ul
      /\ \A g \in {"conn", "rtt"} : g \in drawn <=> mode # "bars" /\ vis[g] /\ HasGauge(g)
  BY DEF SeriesShown, Series
<1>3. drawn \subseteq Chips(mode)
  BY <1>1, <1>2 DEF Chips, Series
<1>4. ASSUME NEW i \in DOMAIN plot.buckets
      PROVE  LET read == ReadoutOf(mode, vis, i)
             IN /\ {l[1] : l \in read} =
                     {s \in drawn : s \in {"conn", "rtt"} => plot.buckets[i][s] # NoValue}
                /\ \A l \in read : l[1] \notin painted => l[2] = 0 \/ plot.filling
  <2>. DEFINE b == plot.buckets[i]
              read == ReadoutOf(mode, vis, i)
              dl == IF mode = "candles" THEN b.close ELSE b.out
              ul == IF mode = "candles" THEN b.close ELSE b.in
  <2>1. \A l : l \in read <=>
          \/ ("dl" \in drawn /\ l = <<"dl", dl>>) \/ ("ul" \in drawn /\ l = <<"ul", ul>>)
          \/ \E g \in {"conn", "rtt"} : g \in drawn /\ b[g] # NoValue /\ l = <<g, b[g]>>
    BY <1>2 DEF ReadoutOf
  <2>2. \A s : s \in painted <=>
          /\ s \in drawn
          /\ \/ mode = "bars" \/ (mode = "candles" /\ s = "dl") \/ s \in {"conn", "rtt"}
             \/ \E j \in DOMAIN plot.buckets : ToPlots(mode, j)[s] > 0
    BY DEF Painted
  <2>3. /\ ToPlots(mode, i).dl = IF Filling(i) THEN b.close ELSE b.out
        /\ ToPlots(mode, i).ul = IF Filling(i) \/ mode = "candles" THEN b.close ELSE b.in
    BY DEF ToPlots
  <2>. HIDE DEF drawn, painted, read, b
  <2>4. {l[1] : l \in read} = {s \in drawn : s \in {"conn", "rtt"} => b[s] # NoValue}
    <3>1. ASSUME NEW l \in read  PROVE l[1] \in drawn /\ (l[1] \in {"conn", "rtt"} => b[l[1]] # NoValue)
      BY <2>1
    <3>2. ASSUME NEW s \in drawn, s \in {"conn", "rtt"} => b[s] # NoValue
          PROVE  \E l \in read : s = l[1]
      <4>1. s = "dl" => <<"dl", dl>> \in read
        BY <2>1, <3>2
      <4>2. s = "ul" => <<"ul", ul>> \in read
        BY <2>1, <3>2
      <4>3. s \in {"conn", "rtt"} => <<s, b[s]>> \in read
        BY <2>1, <3>2
      <4>4. s \in {"dl", "ul", "conn", "rtt"}
        BY <1>1, <3>2 DEF Series
      <4>. QED  BY <4>1, <4>2, <4>3, <4>4
    <3>. QED  BY <3>1, <3>2
  <2>5. ASSUME NEW l \in read, l[1] \notin painted  PROVE l[2] = 0 \/ plot.filling
    <3>1. b.out \in {0, Level} /\ b.in \in {0, Level} /\ b.close \in {0, Level} /\ Level \in Nat \ {0}
      BY BucketType DEF b
    <3>2. ~plot.filling => ~Filling(i)
      BY DEF Filling
    <3>3. \A s \in drawn : s \notin painted =>
            /\ mode # "bars" /\ ~(mode = "candles" /\ s = "dl") /\ s \notin {"conn", "rtt"}
            /\ ~(ToPlots(mode, i)[s] > 0)
      BY <2>2
    <3>4. CASE "dl" \in drawn /\ l = <<"dl", dl>>
      BY <2>3, <2>5, <3>1, <3>2, <3>3, <3>4
    <3>5. CASE "ul" \in drawn /\ l = <<"ul", ul>>
      BY <2>3, <2>5, <3>1, <3>2, <3>3, <3>5
    <3>6. CASE \E g \in {"conn", "rtt"} : g \in drawn /\ l = <<g, b[g]>>
      BY <2>5, <3>3, <3>6
    <3>. QED  BY <2>1, <3>4, <3>5, <3>6
  <2>. QED  BY <2>4, <2>5 DEF drawn, painted, read, b
<1>. QED  BY <1>3, <1>4

\* The greater of two numbers.
LEMMA PairMax ==
  ASSUME NEW x \in Int, NEW y \in Int
  PROVE  Max({x, y}) \in {x, y} /\ x <= Max({x, y}) /\ y <= Max({x, y})
<1>1. IsFiniteSet({x, y})
  <2>1. IsFiniteSet({x}) /\ {x, y} = {x} \cup {y}
    BY FS_Singleton
  <2>. QED  BY <2>1, FS_AddElement
<1>2. {x, y} \in SUBSET Int /\ {x, y} # {}
  OBVIOUS
<1>. QED  BY <1>1, <1>2, MaxIs

LEMMA MarksPromise ==
  ASSUME PlotInv
  PROVE  MarksFit
<1>. SUFFICES ASSUME NEW mode \in Renders, NEW vis, vis = [s \in Series |-> TRUE],
                     NEW i \in DOMAIN plot.buckets, ~(Filling(i) /\ mode = "line"),
                     NEW l \in ReadoutOf(mode, vis, i)
              PROVE  /\ l[2] = HeightOf(mode, l[1], i)
                     /\ l[1] \in Axes(mode, vis) => HeightOf(mode, l[1], i) <= TopOf(mode, l[1])
  BY DEF MarksFit
<1>. DEFINE b == plot.buckets[i]
            dl == IF mode = "candles" THEN b.close ELSE b.out
            ul == IF mode = "candles" THEN b.close ELSE b.in
<1>1. /\ b \in PlotBucket /\ b.out \in {0, Level} /\ b.in \in {0, Level} /\ b.close \in {0, Level}
      /\ b.conn \in {NoValue, 1} /\ b.rtt \in {NoValue, Level}
      /\ Level \in Nat \ {0} /\ Level <= ScaleTop /\ ScaleTop \in Nat
  BY BucketType, PlotsAssumption
<1>2. \/ l = <<"dl", dl>> \/ l = <<"ul", ul>>
      \/ \E g \in {"conn", "rtt"} : mode # "bars" /\ b[g] # NoValue /\ l = <<g, b[g]>>
  BY DEF ReadoutOf, SeriesShown
<1>3. /\ HeightOf(mode, "dl", i) = IF mode = "bars" THEN b.out
                                   ELSE IF mode = "candles" THEN b.close
                                   ELSE IF Filling(i) THEN b.close ELSE b.out
      /\ HeightOf(mode, "ul", i) = IF mode = "bars" THEN b.in
                                   ELSE IF Filling(i) \/ mode = "candles" THEN b.close ELSE b.in
      /\ mode # "bars" => \A g \in {"conn", "rtt"} : HeightOf(mode, g, i) = b[g]
  BY DEF HeightOf, ToPlots, Renders
<1>4. l[2] = HeightOf(mode, l[1], i)
  <2>1. mode \in {"line", "candles", "bars"} /\ (mode = "line" => ~Filling(i))
    BY DEF Renders
  <2>. HIDE DEF b
  <2>. QED  BY <1>2, <1>3, <2>1
\* What is highest is on the scale.
<1>5. ASSUME NEW s \in Series, NEW h \in Highs(mode, s) PROVE h \in 0..ScaleTop
  <2>1. PICK c \in ToSet(plot.buckets) :
          h = CASE s = "dl" -> IF mode = "candles" THEN Max({c.out, c.close}) ELSE c.out
                [] s = "ul" -> IF mode = "candles" THEN Max({c.in, c.close}) ELSE c.in
                [] OTHER -> IF c[s] = NoValue THEN 0 ELSE c[s]
    BY <1>5 DEF Highs
  <2>2. c.out \in {0, Level} /\ c.in \in {0, Level} /\ c.close \in {0, Level}
        /\ c.conn \in {NoValue, 1} /\ c.rtt \in {NoValue, Level}
    BY <2>1, BucketType DEF ToSet
  <2>3. \A x, y \in {0, Level} : Max({x, y}) \in {x, y}
    BY <1>1, PairMax
  <2>4. 0 \in 0..ScaleTop /\ Level \in 0..ScaleTop /\ 1 \in 0..ScaleTop
    BY <1>1
  <2>5. s = "dl" => h \in {c.out, c.close}
    BY <2>1, <2>2, <2>3
  <2>6. s = "ul" => h \in {c.in, c.close}
    BY <2>1, <2>2, <2>3
  <2>7. s \in {"conn", "rtt"} => h \in {0, 1, Level}
    BY <2>1, <2>2
  <2>8. s \in {"dl", "ul", "conn", "rtt"}
    BY DEF Series
  <2>. QED  BY <2>2, <2>4, <2>5, <2>6, <2>7, <2>8
<1>6. ASSUME NEW s \in Series
      PROVE  \A h \in Highs(mode, s) : h <= Max(Highs(mode, s) \cup {1}) /\ h \in Int
             /\ Max(Highs(mode, s) \cup {1}) \in 1..ScaleTop
  <2>. DEFINE H == Highs(mode, s) \cup {1}
  <2>1. H \in SUBSET (0..ScaleTop) /\ 1 \in H
    BY <1>1, <1>5
  <2>2. IsFiniteSet(H) /\ H \in SUBSET Int /\ H # {}
    <3>1. IsFiniteSet(0..ScaleTop)
      <4>1. PICK n \in Nat : n = ScaleTop
        BY <1>1
      <4>2. IsFiniteSet(0..n)
        BY FS_Interval
      <4>. QED  BY <4>1, <4>2
    <3>2. IsFiniteSet(H)
      BY <2>1, <3>1, FS_Subset
    <3>. HIDE DEF H
    <3>3. \A x \in H : x \in Int
      BY <2>1
    <3>. QED  BY <2>1, <3>2, <3>3
  <2>3. Max(H) \in H /\ \A y \in H : y <= Max(H)
    <3>. HIDE DEF H
    <3>. QED  BY <2>2, MaxIs
  <2>4. Max(H) \in 1..ScaleTop
    <3>. HIDE DEF H
    <3>1. Max(H) \in 0..ScaleTop /\ 1 <= Max(H)
      BY <2>1, <2>3
    <3>. QED  BY <3>1
  <2>. QED  BY <2>1, <2>3, <2>4
<1>7. \A top \in 1..ScaleTop : /\ NiceScale(top) \in Nat /\ NiceScale(top) >= top
                               /\ NiceLinear(top) \div 100 \in Int /\ NiceLinear(top) \div 100 >= top
  <2>. SUFFICES ASSUME NEW top \in 1..ScaleTop
                PROVE  /\ NiceScale(top) \in Nat /\ NiceScale(top) >= top
                       /\ NiceLinear(top) \div 100 \in Int /\ NiceLinear(top) \div 100 >= top
    OBVIOUS
  <2>1. NiceScale(top) \in Nat /\ NiceScale(top) >= top
    BY NiceScaleHolds
  <2>2. PICK n \in Nat : n = NiceLinear(top) /\ n >= 100 * top
    BY NiceLinearHolds
  <2>3. n \div 100 >= top /\ n \div 100 \in Int
    BY <1>1, <2>2
  <2>. QED  BY <2>1, <2>2, <2>3
<1>9. PICK out \in Int, in \in Int, close \in Int : b.out = out /\ b.in = in /\ b.close = close
  <2>1. \A x \in {0, Level} : x \in Int
    BY <1>1
  <2>2. b.out \in {0, Level} /\ b.in \in {0, Level} /\ b.close \in {0, Level}
    BY <1>1
  <2>. HIDE DEF b
  <2>. QED  BY <2>1, <2>2
<1>8. ASSUME l[1] \in Axes(mode, vis)  PROVE HeightOf(mode, l[1], i) <= TopOf(mode, l[1])
  <2>0. b \in ToSet(plot.buckets)
    BY DEF ToSet
  <2>1. CASE l[1] = "dl"
    <3>1. /\ (IF mode = "candles" THEN Max({b.out, b.close}) ELSE b.out) \in Highs(mode, "dl")
          /\ "dl" \in Series
      BY <2>0 DEF Highs, Series
    <3>2. PICK h \in Highs(mode, "dl") : h = IF mode = "candles" THEN Max({b.out, b.close}) ELSE b.out
      BY <3>1
    <3>3. TopOf(mode, "dl") = NiceScale(Max(Highs(mode, "dl") \cup {1}))
      BY DEF TopOf
    <3>4. h \in Int /\ h <= TopOf(mode, "dl") /\ TopOf(mode, "dl") \in Int
      BY <1>1, <1>6, <1>7, <3>1, <3>3
    <3>5. b.close <= Max({b.out, b.close}) /\ b.out \in Int /\ b.close \in Int
      <4>1. close <= Max({out, close})
        BY PairMax
      <4>. HIDE DEF b
      <4>. QED  BY <1>9, <4>1
    <3>6. l[2] <= h
      BY <1>2, <2>1, <3>2, <3>5
    <3>7. l[2] \in Int
      BY <1>2, <2>1, <3>5
    <3>. QED  BY <1>4, <2>1, <3>4, <3>6, <3>7
  <2>2. CASE l[1] = "ul"
    <3>0. mode # "bars"
      BY <1>8, <2>2 DEF Axes
    <3>1. /\ (IF mode = "candles" THEN Max({b.in, b.close}) ELSE b.in) \in Highs(mode, "ul")
          /\ "ul" \in Series
      BY <2>0 DEF Highs, Series
    <3>2. PICK h \in Highs(mode, "ul") : h = IF mode = "candles" THEN Max({b.in, b.close}) ELSE b.in
      BY <3>1
    <3>3. TopOf(mode, "ul") = NiceScale(Max(Highs(mode, "ul") \cup {1}))
      BY <3>0 DEF TopOf
    <3>4. h \in Int /\ h <= TopOf(mode, "ul") /\ TopOf(mode, "ul") \in Int
      BY <1>1, <1>6, <1>7, <3>1, <3>3
    <3>5. b.close <= Max({b.in, b.close}) /\ b.in \in Int /\ b.close \in Int
      <4>1. close <= Max({in, close})
        BY PairMax
      <4>. HIDE DEF b
      <4>. QED  BY <1>9, <4>1
    <3>6. l[2] <= h
      BY <1>2, <2>2, <3>2, <3>5
    <3>7. l[2] \in Int
      BY <1>2, <2>2, <3>5
    <3>. QED  BY <1>4, <2>2, <3>4, <3>6, <3>7
  <2>3. ASSUME NEW g \in {"conn", "rtt"}, l[1] = g
        PROVE  HeightOf(mode, l[1], i) <= TopOf(mode, l[1])
    <3>1. b[g] # NoValue /\ l[2] = b[g] /\ b[g] \in Int
      BY <1>1, <1>2, <2>3
    <3>2. (IF b[g] = NoValue THEN 0 ELSE b[g]) \in Highs(mode, g) /\ g \in Series
      BY <2>0 DEF Highs, Series
    <3>3. TopOf(mode, g) = NiceLinear(Max(Highs(mode, g) \cup {1})) \div 100
      BY DEF TopOf
    <3>4. b[g] <= TopOf(mode, g)
      BY <1>1, <1>6, <1>7, <3>1, <3>2, <3>3
    <3>. QED  BY <1>4, <2>3, <3>1, <3>4
  <2>. QED  BY <1>2, <2>1, <2>2, <2>3
<1>. QED  BY <1>4, <1>8

\* The space of the axes beside a plot is taken from beside it.
LEMMA WidthPromise == PlotKeepsItsWidth
<1>1. ASSUME NEW mode \in Renders, NEW vis \in Visibility
      PROVE  Outboard(mode, vis) \in Nat
  <2>1. IsFiniteSet({"conn"}) /\ {"conn", "rtt"} = {"conn"} \cup {"rtt"}
    BY FS_Singleton
  <2>2. IsFiniteSet({"conn", "rtt"})
    BY <2>1, FS_AddElement
  <2>3. IsFiniteSet(SeriesShown(mode, vis) \cap {"conn", "rtt"})
    BY <2>2, FS_Intersection
  <2>. QED  BY <2>3, FS_CardinalityType DEF Outboard
<1>2. ASSUME NEW mode \in Renders, NEW vis \in Visibility
      PROVE  PlotWidth(mode, vis) = 720 - 68 - (IF mode = "bars" THEN 16 ELSE 68)
  <2>1. PICK n \in Nat : n = Outboard(mode, vis)
    BY <1>1
  <2>. QED  BY <2>1 DEF PlotWidth, DrawingWidth, RightMargin
<1>3. [s \in Series |-> FALSE] \in Visibility
  BY DEF Visibility
<1>. QED  BY <1>2, <1>3 DEF PlotKeepsItsWidth

LEMMA FiguresPromise ==
  ASSUME PlotInv
  PROVE  FiguresTell
<1>. SUFFICES ASSUME plot.buckets # <<>>
              PROVE  LET f == Figures("line")
                         n == Len(plot.buckets)
                     IN f.least * n <= f.sum /\ f.sum <= f.most * n /\ f.last \in f.least..f.most
  BY DEF FiguresTell
<1>. DEFINE n == Len(plot.buckets)
<1>1. plot.buckets \in Seq(PlotBucket) /\ n \in Nat /\ DOMAIN plot.buckets = 1..n /\ n > 0
  BY DEF PlotInv
<1>2. PICK out : out = [i \in 1..n |-> plot.buckets[i].out]
  OBVIOUS
<1>. HIDE DEF n
<1>3. DOMAIN out = 1..n /\ \A i \in 1..n : out[i] \in Nat /\ out[i] \in 0..Level
  <2>1. \A i \in 1..n : out[i] = plot.buckets[i].out
    BY <1>2
  <2>2. \A i \in 1..n : plot.buckets[i].out \in {0, Level} /\ Level \in Nat
    BY <1>1, BucketType
  <2>. QED  BY <1>2, <2>1, <2>2
<1>4. out \in Seq(Nat) /\ Len(out) = n
  BY <1>1, <1>2, <1>3
<1>5. PICK V : V = ToSet(out)
  OBVIOUS
<1>6. \A v : v \in V <=> \E i \in 1..n : v = out[i]
  BY <1>3, <1>5 DEF ToSet
<1>7. IsFiniteSet(V) /\ V \in SUBSET Int /\ V # {} /\ V \in SUBSET Nat
  <2>1. PICK m \in Nat : m = Level
    BY PlotsAssumption
  <2>2. IsFiniteSet(0..m)
    BY FS_Interval
  <2>3. V \in SUBSET (0..m) /\ \A v \in V : v \in Int /\ v \in Nat
    BY <1>3, <1>6, <2>1
  <2>4. out[1] \in V
    BY <1>1, <1>6
  <2>5. IsFiniteSet(V)
    BY <2>2, <2>3, FS_Subset
  <2>. QED  BY <2>3, <2>4, <2>5
<1>8. PICK least \in Nat, most \in Nat :
        /\ least = Min(V) /\ most = Max(V)
        /\ \A i \in 1..n : least <= out[i] /\ out[i] <= most
  <2>1. Min(V) \in V /\ \A y \in V : Min(V) <= y
    BY <1>7, MinIs
  <2>2. Max(V) \in V /\ \A y \in V : y <= Max(V)
    BY <1>7, MaxIs
  <2>. QED  BY <1>6, <1>7, <2>1, <2>2
<1>9. IsFiniteSet(1..n) /\ Cardinality(1..n) = n
  <2>1. IsFiniteSet(1..n)
    BY <1>1, FS_Interval
  <2>2. Cardinality(1..n) = n
    BY <1>1, FS_Interval
  <2>. QED  BY <2>1, <2>2
<1>10. PICK sum : sum = Total(out, 1..n)
  OBVIOUS
<1>11. n * least <= sum
  <2>1. \A x \in 1..n : out[x] \in Nat /\ least <= out[x]
    BY <1>3, <1>8
  <2>2. Cardinality(1..n) * least <= Total(out, 1..n)
    BY <1>9, <2>1, SumAtLeast
  <2>. QED  BY <1>9, <1>10, <2>2
<1>12. sum \in Nat /\ sum <= n * most
  <2>1. \A x \in 1..n : out[x] \in 0..most
    BY <1>3, <1>8
  <2>2. Total(out, 1..n) \in Nat /\ Total(out, 1..n) <= Cardinality(1..n) * most
    BY <1>9, <2>1, SumBounded
  <2>. QED  BY <1>9, <1>10, <2>2
<1>13. Last(out) \in least..most
  <2>1. Last(out) = out[n] /\ n \in 1..n
    BY <1>1, <1>4 DEF Last
  <2>2. out[n] \in Nat /\ least <= out[n] /\ out[n] <= most
    BY <1>3, <1>8, <2>1
  <2>. QED  BY <2>1, <2>2
<1>14. Figures("line") = [least |-> least, most |-> most, last |-> Last(out), sum |-> sum]
  <2>1. [i \in DOMAIN plot.buckets |-> plot.buckets[i].out] = out
    BY <1>1, <1>2
  <2>2. FoldFunction(LAMBDA a, b : a + b, 0, out) = sum
    BY <1>3, <1>10 DEF FoldFunction, Total
  <2>. QED  BY <1>5, <1>8, <2>1, <2>2 DEF Figures
<1>15. least * n = n * least /\ most * n = n * most
  BY <1>1
<1>. QED  BY <1>11, <1>12, <1>13, <1>14, <1>15 DEF n

-----------------------------------------------------------------------------
(* The choices of a panel.                                                 *)

PanelInv ==
  /\ panel.stored \in Prefs
  /\ panel \in [stored : Prefs, shown : Prefs \cup {NoValue}, compact : BOOLEAN]
  /\ panel.shown # NoValue => panel.shown = panel.stored

LEMMA PanelInvInit == PanelInit => PanelInv
<1>1. Default \in Prefs
  BY DEF Default, Prefs, RangeKeys, Visibility
<1>. QED  BY <1>1 DEF PanelInit, PanelInv

LEMMA PanelInvStep ==
  ASSUME PanelInv, [PanelNext]_panel
  PROVE  PanelInv'
<1>. USE DEF PanelInv
<1>1. CASE OpenPanel
  BY <1>1 DEF OpenPanel
<1>2. CASE ClosePanel
  BY <1>2 DEF ClosePanel
<1>3. CASE Choose
  <2>1. panel.shown \in Prefs
    BY <1>3 DEF Choose
  <2>2. ASSUME NEW p \in Prefs, panel' = Chosen(p)  PROVE PanelInv'
    BY <2>2 DEF Chosen
  <2>3. \A r \in RangeKeys : [panel.shown EXCEPT !.range = r] \in Prefs
    BY <2>1 DEF Prefs
  <2>4. \A on \in BOOLEAN : [panel.shown EXCEPT !.candles = on] \in Prefs
    BY <2>1 DEF Prefs
  <2>5. [panel.shown EXCEPT !.uptime = ~@] \in Prefs
    BY <2>1 DEF Prefs
  <2>6. \A s \in Series : [panel.shown EXCEPT !.vis[s] = ~@] \in Prefs
    BY <2>1 DEF Prefs, Visibility
  <2>. QED  BY <1>3, <2>2, <2>3, <2>4, <2>5, <2>6 DEF Choose
<1>4. CASE UNCHANGED panel
  BY <1>4
<1>. QED  BY <1>1, <1>2, <1>3, <1>4 DEF PanelNext

LEMMA ChoicesPromise == PanelInv => ChoicesStick
BY DEF PanelInv, ChoicesStick, ModeOf, ModeFor

LEMMA PlotsPromise == PlotInv /\ PanelInv => PlotsSafe
BY ScalesPromise, ReadoutPromise, MarksPromise, WidthPromise, FiguresPromise, ChoicesPromise
DEF PlotsSafe

-----------------------------------------------------------------------------
(* The line of packet loss.                                                *)

LEMMA LossInvInit == LossInit => LossTypeOK
BY DEF LossInit, LossTypeOK

LEMMA LossInvStep ==
  ASSUME LossTypeOK, [LossGrows]_loss
  PROVE  LossTypeOK'
<1>1. CASE LossGrows
  <2>1. PICK p \in Point : loss' = Append(loss, p)
    BY <1>1 DEF LossGrows
  <2>. QED  BY <2>1 DEF LossTypeOK
<1>2. CASE UNCHANGED loss
  BY <1>2 DEF LossTypeOK
<1>. QED  BY <1>1, <1>2

KnownRows == {i \in DOMAIN loss : IsKnown(i)}

LEMMA LossRowsType ==
  ASSUME LossTypeOK
  PROVE  /\ Len(loss) \in Nat /\ DOMAIN loss = 1..Len(loss) /\ IsFiniteSet(DOMAIN loss)
         /\ \A i : i \in KnownRows <=> IsKnown(i)
         /\ \A i \in KnownRows : i \in 1..Len(loss)
         /\ IsFiniteSet(KnownRows) /\ KnownRows \in SUBSET Int
<1>1. Len(loss) \in Nat /\ DOMAIN loss = 1..Len(loss)
  BY DEF LossTypeOK
<1>2. PICK n \in Nat : n = Len(loss)
  BY <1>1
<1>3. IsFiniteSet(1..n)
  BY FS_Interval
<1>4. KnownRows \in SUBSET (1..n) /\ \A i : i \in KnownRows <=> IsKnown(i)
  BY <1>1, <1>2 DEF KnownRows, IsKnown
<1>5. IsFiniteSet(KnownRows)
  BY <1>3, <1>4, FS_Subset
<1>6. \A i \in KnownRows : i \in 1..n /\ i \in Int
  BY <1>4
<1>. QED  BY <1>1, <1>2, <1>3, <1>4, <1>5, <1>6

\* A stroke is a run of known rows between rows that are not.
LEMMA StrokeOK ==
  ASSUME LossTypeOK, NEW r \in PathFor
  PROVE  /\ r[1] \in 1..Len(loss) /\ r[2] \in 1..Len(loss) /\ r[1] <= r[2]
         /\ r = <<r[1], r[2]>>
         /\ \A i \in r[1]..r[2] : IsKnown(i)
         /\ ~IsKnown(r[1] - 1) /\ ~IsKnown(r[2] + 1)
BY LossRowsType DEF PathFor

\* Every known row is in a stroke.
LEMMA InStroke ==
  ASSUME LossTypeOK, NEW i \in KnownRows
  PROVE  \E r \in PathFor : i \in r[1]..r[2]
<1>1. PICK n \in Nat : n = Len(loss) /\ DOMAIN loss = 1..n
  BY LossRowsType
<1>2. i \in 1..n /\ IsKnown(i) /\ \A j : IsKnown(j) => j \in 1..n
  BY <1>1, LossRowsType DEF IsKnown
<1>. DEFINE A == {j \in 1..i : \A k \in j..i : IsKnown(k)}
            B == {j \in i..n : \A k \in i..j : IsKnown(k)}
<1>3. IsFiniteSet(1..n)
  BY FS_Interval
<1>4. i \in A /\ i \in B
  <2>1. \A k \in i..i : k = i
    BY <1>2
  <2>. QED  BY <1>2, <2>1
<1>5. A \in SUBSET (1..n) /\ B \in SUBSET (1..n)
  BY <1>2
<1>6. PICK a \in A : \A j \in A : a <= j
  <2>1. IsFiniteSet(A) /\ A \in SUBSET Int /\ A # {}
    <3>1. \A x \in A : x \in Int
      OBVIOUS
    <3>. HIDE DEF A
    <3>2. IsFiniteSet(A)
      BY <1>3, <1>5, FS_Subset
    <3>. QED  BY <1>4, <3>1, <3>2
  <2>. HIDE DEF A
  <2>2. Min(A) \in A /\ \A y \in A : Min(A) <= y
    BY <2>1, MinIs
  <2>. QED  BY <2>2
<1>7. PICK b \in B : \A j \in B : j <= b
  <2>1. IsFiniteSet(B) /\ B \in SUBSET Int /\ B # {}
    <3>1. \A x \in B : x \in Int
      OBVIOUS
    <3>. HIDE DEF B
    <3>2. IsFiniteSet(B)
      BY <1>3, <1>5, FS_Subset
    <3>. QED  BY <1>4, <3>1, <3>2
  <2>. HIDE DEF B
  <2>2. Max(B) \in B /\ \A y \in B : y <= Max(B)
    BY <2>1, MaxIs
  <2>. QED  BY <2>2
<1>8. ~IsKnown(a - 1)
  <2>. SUFFICES ASSUME IsKnown(a - 1)  PROVE FALSE
    OBVIOUS
  <2>1. a - 1 \in 1..n /\ a \in 1..i /\ \A k \in a..i : IsKnown(k)
    BY <1>2
  <2>2. \A k \in (a - 1)..i : k = a - 1 \/ k \in a..i
    BY <1>2, <2>1
  <2>0. a - 1 \in 1..i
    BY <1>2, <2>1
  <2>. HIDE DEF A
  <2>3. \A k \in (a - 1)..i : IsKnown(k)
    BY <2>1, <2>2
  <2>. USE DEF A
  <2>4. a - 1 \in A
    BY <2>0, <2>3
  <2>. QED  BY <1>6, <2>1, <2>4
<1>9. ~IsKnown(b + 1)
  <2>. SUFFICES ASSUME IsKnown(b + 1)  PROVE FALSE
    OBVIOUS
  <2>1. b + 1 \in 1..n /\ b \in i..n
    BY <1>2
  <2>2. \A k \in i..(b + 1) : k = b + 1 \/ k \in i..b
    BY <1>2, <2>1
  <2>3. b + 1 \in i..n /\ \A k \in i..(b + 1) : IsKnown(k)
    BY <1>2, <2>1, <2>2
  <2>4. b + 1 \in B
    BY <2>3
  <2>. QED  BY <1>2, <1>7, <2>1, <2>4
<1>10. /\ a \in 1..n /\ b \in 1..n /\ a <= i /\ i <= b /\ a <= b
       /\ \A k \in a..i : IsKnown(k)
       /\ \A k \in i..b : IsKnown(k)
  BY <1>2
<1>11. \A k \in a..b : IsKnown(k)
  <2>1. \A k \in a..b : k \in a..i \/ k \in i..b
    BY <1>2, <1>10
  <2>. QED  BY <1>10, <2>1
<1>. HIDE DEF A, B
<1>12. <<a, b>> \in PathFor
  BY <1>1, <1>8, <1>9, <1>10, <1>11 DEF PathFor
<1>. QED  BY <1>2, <1>10, <1>12

\* Two strokes have a row between them.
LEMMA StrokesApart ==
  ASSUME LossTypeOK, NEW r \in PathFor, NEW s \in PathFor, r # s
  PROVE  r[2] + 1 < s[1] \/ s[2] + 1 < r[1]
<1>. SUFFICES ASSUME ~(r[2] + 1 < s[1]), ~(s[2] + 1 < r[1])  PROVE FALSE
  OBVIOUS
<1>1. PICK a \in Nat, b \in Nat, c \in Nat, d \in Nat :
        /\ r = <<a, b>> /\ s = <<c, d>> /\ a <= b /\ c <= d
        /\ \A i \in a..b : IsKnown(i)
        /\ \A i \in c..d : IsKnown(i)
        /\ ~IsKnown(a - 1) /\ ~IsKnown(b + 1) /\ ~IsKnown(c - 1) /\ ~IsKnown(d + 1)
  BY StrokeOK
<1>2. c <= b + 1 /\ a <= d + 1
  BY <1>1
<1>3. c # b + 1 /\ a # d + 1
  <2>1. c \in c..d /\ a \in a..b
    BY <1>1
  <2>. QED  BY <1>1, <2>1
<1>4. ~(a < c)
  <2>1. a < c => c - 1 \in a..b
    BY <1>2, <1>3
  <2>. QED  BY <1>1, <2>1
<1>5. ~(c < a)
  <2>1. c < a => a - 1 \in c..d
    BY <1>2, <1>3
  <2>. QED  BY <1>1, <2>1
<1>6. ~(b < d)
  <2>1. b < d => b + 1 \in c..d
    BY <1>2, <1>3
  <2>. QED  BY <1>1, <2>1
<1>7. ~(d < b)
  <2>1. d < b => d + 1 \in a..b
    BY <1>2, <1>3
  <2>. QED  BY <1>1, <2>1
<1>. QED  BY <1>1, <1>4, <1>5, <1>6, <1>7

LEMMA LossPromise ==
  ASSUME LossTypeOK
  PROVE  LossTells
<1>1. UNION {r[1]..r[2] : r \in PathFor} = {i \in DOMAIN loss : loss[i].v # Blank}
  <2>1. KnownRows = {i \in DOMAIN loss : loss[i].v # Blank}
    BY DEF KnownRows, IsKnown
  <2>2. \A r \in PathFor : \A i \in r[1]..r[2] : i \in KnownRows
    BY StrokeOK, LossRowsType
  <2>. QED  BY <2>1, <2>2, InStroke
<1>2. \A r, s \in PathFor : r # s => r[2] + 1 < s[1] \/ s[2] + 1 < r[1]
  BY StrokesApart
<1>3. ASSUME AreaFor # Blank  PROVE {AreaFor} = PathFor
  <2>1. /\ Cardinality(PathFor) = 1 /\ AreaFor = <<Min(KnownRows), Max(KnownRows)>>
    BY <1>3 DEF AreaFor, KnownRows
  <2>2. IsFiniteSet(PathFor)
    <3>1. IsFiniteSet((DOMAIN loss) \X (DOMAIN loss))
      BY LossRowsType, FS_Product
    <3>2. PathFor \in SUBSET ((DOMAIN loss) \X (DOMAIN loss))
      BY DEF PathFor
    <3>. QED  BY <3>1, <3>2, FS_Subset
  <2>3. PICK r : PathFor = {r}
    BY <2>1, <2>2, FS_Singleton
  <2>4. r \in PathFor
    BY <2>3
  <2>5. PICK a \in Nat, b \in Nat : r = <<a, b>> /\ a <= b /\ \A i \in a..b : IsKnown(i)
    BY <2>4, StrokeOK
  <2>6. \A i \in KnownRows : i \in a..b
    BY <2>3, <2>5, InStroke
  <2>7. a \in KnownRows /\ b \in KnownRows /\ KnownRows # {}
    BY <2>5, LossRowsType
  <2>8. Min(KnownRows) \in KnownRows /\ \A y \in KnownRows : Min(KnownRows) <= y
    BY <2>7, LossRowsType, MinIs
  <2>9. Max(KnownRows) \in KnownRows /\ \A y \in KnownRows : y <= Max(KnownRows)
    BY <2>7, LossRowsType, MaxIs
  <2>10. Min(KnownRows) = a
    <3>1. PICK mn : mn = Min(KnownRows)
      OBVIOUS
    <3>2. mn \in a..b /\ mn <= a
      BY <2>6, <2>7, <2>8, <3>1
    <3>. QED  BY <2>5, <3>1, <3>2
  <2>11. Max(KnownRows) = b
    <3>1. PICK mx : mx = Max(KnownRows)
      OBVIOUS
    <3>2. mx \in a..b /\ b <= mx
      BY <2>6, <2>7, <2>9, <3>1
    <3>. QED  BY <2>5, <3>1, <3>2
  <2>. QED  BY <2>1, <2>3, <2>5, <2>10, <2>11
<1>4. ASSUME LastKnown # Blank  PROVE LastKnown = loss[Max({r[2] : r \in PathFor})]
  <2>1. KnownRows # {} /\ LastKnown = loss[Max(KnownRows)]
    BY <1>4 DEF LastKnown, KnownRows
  <2>2. PICK m : m = Max(KnownRows)
    OBVIOUS
  <2>3. m \in KnownRows /\ \A y \in KnownRows : y <= m
    BY <2>1, <2>2, LossRowsType, MaxIs
  <2>. DEFINE R == {r[2] : r \in PathFor}
  <2>4. R \in SUBSET KnownRows
    <3>1. \A r \in PathFor : r[2] \in r[1]..r[2]
      BY StrokeOK
    <3>2. \A r \in PathFor : r[2] \in KnownRows
      BY <3>1, StrokeOK, LossRowsType
    <3>. QED  BY <3>2
  <2>5. m \in R
    <3>1. PICK r \in PathFor : m \in r[1]..r[2]
      BY <2>3, InStroke
    <3>2. r[2] \in KnownRows /\ r[1] \in Int /\ r[2] \in Int
      BY <2>4, StrokeOK
    <3>3. r[2] = m
      BY <2>3, <3>1, <3>2
    <3>. QED  BY <3>3
  <2>6. IsFiniteSet(R) /\ R \in SUBSET Int /\ R # {}
    <3>. HIDE DEF R
    <3>1. IsFiniteSet(KnownRows) /\ \A x \in KnownRows : x \in Int
      BY LossRowsType
    <3>2. IsFiniteSet(R)
      BY <2>4, <3>1, FS_Subset
    <3>. QED  BY <2>4, <2>5, <3>1, <3>2
  <2>. HIDE DEF R
  <2>7. Max(R) \in R /\ \A y \in R : y <= Max(R)
    BY <2>6, MaxIs
  <2>8. m \in Int /\ Max(R) \in Int /\ Max(R) <= m /\ m <= Max(R)
    BY <2>3, <2>4, <2>5, <2>6, <2>7
  <2>. QED  BY <2>1, <2>2, <2>8 DEF R
<1>. QED  BY <1>1, <1>2, <1>3, <1>4 DEF LossTells

-----------------------------------------------------------------------------
(* The bands of uptime.                                                    *)

LEMMA FloorIs ==
  ASSUME NEW n \in Int, NEW step \in Nat \ {0}
  PROVE  /\ n \div step \in Int /\ FloorTo(n, step) = step * (n \div step)
         /\ FloorTo(n, step) \in Int
         /\ FloorTo(n, step) <= n /\ n < FloorTo(n, step) + step
         /\ n \in Nat => n \div step \in 0..n /\ FloorTo(n, step) \in Nat
BY DEF FloorTo

Stamped == [t : Nat, up : BOOLEAN]

InTime(s) == \A i, j \in DOMAIN s : i < j => s[i].t < s[j].t

\* What is left of s is in it, in its order, and is all of it that lies between.
SlicedOf(x, s, n, from, to) ==
  /\ x \in Seq(Stamped) /\ InTime(x)
  /\ \A i \in DOMAIN x : \E j \in 1..n : x[i] = s[j] /\ from < s[j].t /\ s[j].t <= to
  /\ \A j \in 1..n : from < s[j].t /\ s[j].t <= to => \E i \in DOMAIN x : x[i] = s[j]

LEMMA SliceGrows ==
  ASSUME NEW s \in Seq(Stamped), InTime(s), NEW from \in Int, NEW to \in Int,
         NEW n \in Nat, n + 1 \in DOMAIN s, NEW x, SlicedOf(x, s, n, from, to)
  PROVE  SlicedOf(IF from < s[n + 1].t /\ s[n + 1].t <= to THEN Append(x, s[n + 1]) ELSE x,
                  s, n + 1, from, to)
<1>. DEFINE e == s[n + 1]
            y == Append(x, e)
<1>1. e \in Stamped /\ e.t \in Nat /\ x \in Seq(Stamped) /\ 1..n \subseteq DOMAIN s
      /\ \A j \in 1..(n + 1) : j \in 1..n \/ j = n + 1
  <2>1. Len(s) \in Nat /\ DOMAIN s = 1..Len(s) /\ n + 1 <= Len(s)
    OBVIOUS
  <2>2. \A i \in DOMAIN s : s[i] \in Stamped
    OBVIOUS
  <2>3. e \in Stamped /\ e.t \in Nat
    BY <2>2 DEF Stamped
  <2>4. x \in Seq(Stamped)
    BY DEF SlicedOf
  <2>5. 1..n \subseteq DOMAIN s /\ \A j \in 1..(n + 1) : j \in 1..n \/ j = n + 1
    BY <2>1
  <2>. QED  BY <2>3, <2>4, <2>5
<1>2. CASE from < e.t /\ e.t <= to
  <2>1. y \in Seq(Stamped) /\ DOMAIN y = 1..(Len(x) + 1) /\ y[Len(x) + 1] = e /\ Len(x) \in Nat
        /\ DOMAIN x = 1..Len(x) /\ \A i \in 1..Len(x) : y[i] = x[i] /\ x[i].t \in Nat
    <3>. HIDE DEF e
    <3>1. y \in Seq(Stamped) /\ Len(y) = Len(x) + 1 /\ y[Len(x) + 1] = e /\ Len(x) \in Nat
          /\ DOMAIN x = 1..Len(x)
      BY <1>1
    <3>2. \A i \in 1..Len(x) : y[i] = x[i] /\ x[i] \in Stamped
      BY <1>1
    <3>3. DOMAIN y = 1..(Len(x) + 1)
      BY <3>1
    <3>4. \A i \in 1..Len(x) : x[i].t \in Nat
      BY <3>2 DEF Stamped
    <3>. QED  BY <3>1, <3>2, <3>3, <3>4
  <2>. HIDE DEF y, e
  <2>2. \A i \in 1..Len(x) : x[i].t < e.t
    <3>1. \A j \in 1..n : s[j].t < e.t
      BY <1>1 DEF InTime, e
    <3>. QED  BY <2>1, <3>1 DEF SlicedOf
  <2>3. InTime(y)
    <3>1. InTime(x)
      BY DEF SlicedOf
    <3>. QED  BY <2>1, <2>2, <3>1, SMTT(20) DEF InTime
  <2>4. \A i \in DOMAIN y : \E j \in 1..(n + 1) : y[i] = s[j] /\ from < s[j].t /\ s[j].t <= to
    <3>1. \A i \in 1..Len(x) : \E j \in 1..n : x[i] = s[j] /\ from < s[j].t /\ s[j].t <= to
      BY <2>1, ZenonT(30) DEF SlicedOf
    <3>2. n + 1 \in 1..(n + 1) /\ \A j \in 1..n : j \in 1..(n + 1)
      OBVIOUS
    <3>. SUFFICES ASSUME NEW i \in DOMAIN y
                  PROVE  \E j \in 1..(n + 1) : y[i] = s[j] /\ from < s[j].t /\ s[j].t <= to
      OBVIOUS
    <3>3. CASE i = Len(x) + 1
      BY <1>2, <2>1, <3>2, <3>3 DEF e
    <3>4. CASE i # Len(x) + 1
      <4>1. i \in 1..Len(x)
        BY <2>1, <3>4
      <4>. QED  BY <2>1, <3>1, <3>2, <4>1
    <3>. QED  BY <3>3, <3>4
  <2>5. \A j \in 1..(n + 1) : from < s[j].t /\ s[j].t <= to => \E i \in DOMAIN y : y[i] = s[j]
    <3>1. \A j \in 1..n : from < s[j].t /\ s[j].t <= to => \E i \in 1..Len(x) : x[i] = s[j]
      BY <2>1 DEF SlicedOf
    <3>2. Len(x) + 1 \in DOMAIN y /\ \A i \in 1..Len(x) : i \in DOMAIN y
      BY <2>1
    <3>. QED  BY <1>1, <2>1, <3>1, <3>2 DEF e
  <2>. QED  BY <1>2, <2>1, <2>3, <2>4, <2>5 DEF SlicedOf, e, y
<1>3. CASE ~(from < e.t /\ e.t <= to)
  <2>1. \A j \in 1..n : j \in 1..(n + 1)
    OBVIOUS
  <2>. QED  BY <1>1, <1>3, <2>1 DEF SlicedOf
<1>. QED  BY <1>2, <1>3

LEMMA SliceIs ==
  ASSUME NEW s \in Seq(Stamped), InTime(s), NEW from \in Int, NEW to \in Int
  PROVE  SlicedOf(Slice(s, from, to), s, Len(s), from, to)
<1>. DEFINE N == Len(s)
            A == Seq(Stamped)
            Taken(i) == from < s[i].t /\ s[i].t <= to
            Round(f, T) == IF T = {} THEN <<>>
                           ELSE IF Taken(Max(T)) THEN Append(f[T \ {Max(T)}], s[Max(T)])
                                ELSE f[T \ {Max(T)}]
            step == [p \in A \X (1..N) |-> IF Taken(p[2]) THEN Append(p[1], s[p[2]]) ELSE p[1]]
            left == CHOOSE f : f = [T \in SUBSET DOMAIN s |-> Round(f, T)]
<1>1. N \in Nat /\ DOMAIN s = 1..N /\ \A i \in 1..N : s[i] \in Stamped
  OBVIOUS
<1>2. \A a \in A, i \in 1..N :
        /\ step[<<a, i>>] = IF Taken(i) THEN Append(a, s[i]) ELSE a
        /\ step[<<a, i>>] \in A
  <2>. SUFFICES ASSUME NEW a \in A, NEW i \in 1..N
                PROVE  /\ step[<<a, i>>] = IF Taken(i) THEN Append(a, s[i]) ELSE a
                       /\ step[<<a, i>>] \in A
    OBVIOUS
  <2>1. Append(a, s[i]) \in A
    BY <1>1
  <2>. HIDE DEF A, N, Taken
  <2>2. <<a, i>> \in A \X (1..N) /\ <<a, i>>[1] = a /\ <<a, i>>[2] = i
    OBVIOUS
  <2>3. step[<<a, i>>] = IF Taken(i) THEN Append(a, s[i]) ELSE a
    BY <2>2
  <2>. QED  BY <2>1, <2>3
<1>3. <<>> \in A
  OBVIOUS
<1>. HIDE DEF N, A, step, Taken
<1>4. PICK f : Folded(f, <<>>, step, N, A)
  <2>1. step \in [A \X (1..N) -> A]
    BY <1>2 DEF step
  <2>. QED  BY <1>1, <1>3, <2>1, FoldRounds
<1>5. \A T \in SUBSET (1..N) : f[T] = Round(f, T)
  BY <1>2, <1>4 DEF Folded
<1>. HIDE DEF Round
<1>6. f = [T \in SUBSET (1..N) |-> Round(f, T)]
  BY <1>4, <1>5 DEF Folded
<1>7. left = [T \in SUBSET (1..N) |-> Round(left, T)]
  BY <1>1, <1>6
<1>8. Slice(s, from, to) = left[1..N]
  BY <1>1 DEF Slice, FoldLeft, MapThenFoldSet, Round, Taken
<1>. HIDE DEF left
<1>9. \A T \in SUBSET (1..N) : left[T] = Round(left, T)
  BY <1>7
<1>. DEFINE Good == {i \in Nat : i <= N => SlicedOf(left[1..i], s, i, from, to)}
<1>10. 0 \in Good
  <2>1. 1..0 = {} /\ {} \in SUBSET (1..N)
    OBVIOUS
  <2>2. left[1..0] = <<>>
    BY <1>9, <2>1 DEF Round
  <2>3. <<>> \in Seq(Stamped) /\ DOMAIN <<>> = {}
    OBVIOUS
  <2>4. SlicedOf(<<>>, s, 0, from, to)
    BY <2>1, <2>3 DEF SlicedOf, InTime
  <2>. QED  BY <2>2, <2>4
<1>11. ASSUME NEW n \in Nat, n \in Good  PROVE n + 1 \in Good
  <2>. SUFFICES ASSUME n + 1 <= N
                PROVE  SlicedOf(left[1..(n + 1)], s, n + 1, from, to)
    OBVIOUS
  <2>. DEFINE i == n + 1
  <2>1. i \in 1..N /\ i - 1 = n
    BY <1>1
  <2>. HIDE DEF i
  <2>2. /\ (1..i) \in SUBSET (1..N) /\ 1..i # {}
        /\ Max(1..i) = i /\ (1..i) \ {Max(1..i)} = 1..(i - 1)
    BY <1>1, <2>1, LastIsMax
  <2>3. left[1..i] = Round(left, 1..i)
    BY <1>9, <2>2
  <2>4. left[1..i] = IF Taken(i) THEN Append(left[1..n], s[i]) ELSE left[1..n]
    BY <2>1, <2>2, <2>3 DEF Round
  <2>5. SlicedOf(left[1..n], s, n, from, to)
    BY <1>1, <1>11
  <2>6. n + 1 \in DOMAIN s
    BY <1>1, <2>1 DEF i
  <2>7. SlicedOf(IF from < s[n + 1].t /\ s[n + 1].t <= to THEN Append(left[1..n], s[n + 1]) ELSE left[1..n],
                 s, n + 1, from, to)
    BY <2>5, <2>6, SliceGrows
  <2>. QED  BY <2>4, <2>7 DEF i, Taken
<1>. HIDE DEF Good
<1>12. N \in Good
  BY <1>1, <1>10, <1>11, ByNumbers
<1>. QED  BY <1>1, <1>8, <1>12 DEF Good, N

LEMMA Timed ==
  ASSUME NEW s \in Seq(Transition)
  PROVE  /\ s \in Seq(Stamped) /\ Len(s) \in Nat /\ DOMAIN s = 1..Len(s)
         /\ \A i \in DOMAIN s : s[i] \in Transition /\ s[i].t \in 0..MaxMoment /\ s[i].t \in Nat
<1>1. Transition \subseteq Stamped
  BY DEF Transition, Stamped
<1>2. \A i \in 1..Len(s) : s[i] \in Transition
  OBVIOUS
<1>3. Len(s) \in Nat /\ DOMAIN s = 1..Len(s) /\ s = [i \in 1..Len(s) |-> s[i]]
  OBVIOUS
<1>4. \A e \in Transition : e \in Stamped /\ e.t \in 0..MaxMoment /\ e.t \in Nat
  BY <1>1 DEF Transition
<1>5. s \in [1..Len(s) -> Stamped]
  BY <1>2, <1>3, <1>4
<1>6. s \in Seq(Stamped)
  BY <1>3, <1>5
<1>. QED  BY <1>2, <1>3, <1>4, <1>6

\* The last event up to t, and no event up to t.
LastAt(k, t) ==
  /\ k \in DOMAIN uptime.events /\ uptime.events[k].t <= t
  /\ \A l \in DOMAIN uptime.events : uptime.events[l].t <= t => l <= k
NoneAt(t) == \A l \in DOMAIN uptime.events : ~(uptime.events[l].t <= t)

LEMMA StateIs ==
  ASSUME uptime.events \in Seq(Transition), NEW t \in Int
  PROVE  /\ \A k \in DOMAIN uptime.events : LastAt(k, t) => StateAt(t) = uptime.events[k].up
         /\ NoneAt(t) => StateAt(t) = Blank
         /\ NoneAt(t) \/ \E k \in DOMAIN uptime.events : LastAt(k, t)
<1>. DEFINE B == {i \in DOMAIN uptime.events : uptime.events[i].t <= t}
<1>1. PICK n \in Nat : n = Len(uptime.events) /\ DOMAIN uptime.events = 1..n
  OBVIOUS
<1>2. IsFiniteSet(B) /\ B \in SUBSET Int
  <2>1. \A x \in B : x \in 1..n /\ x \in Int
    BY <1>1
  <2>. HIDE DEF B
  <2>2. IsFiniteSet(1..n)
    BY FS_Interval
  <2>3. B \in SUBSET (1..n)
    BY <2>1
  <2>4. IsFiniteSet(B)
    BY <2>2, <2>3, FS_Subset
  <2>. QED  BY <2>1, <2>4
<1>3. StateAt(t) = IF B = {} THEN Blank ELSE uptime.events[Max(B)].up
  BY DEF StateAt
<1>4. \A i : i \in B <=> i \in DOMAIN uptime.events /\ uptime.events[i].t <= t
  OBVIOUS
<1>. HIDE DEF B
<1>5. NoneAt(t) <=> B = {}
  BY <1>4 DEF NoneAt
<1>6. ASSUME B # {}  PROVE Max(B) \in B /\ \A y \in B : y <= Max(B)
  BY <1>2, <1>6, MaxIs
<1>7. ASSUME NEW k \in DOMAIN uptime.events, LastAt(k, t)  PROVE k = Max(B) /\ B # {}
  <2>1. k \in B /\ \A l \in B : l <= k
    BY <1>4, <1>7 DEF LastAt
  <2>2. PICK m : m = Max(B)
    OBVIOUS
  <2>3. m \in B /\ \A y \in B : y <= m
    BY <1>6, <2>1, <2>2
  <2>4. m \in Int /\ k \in Int /\ m <= k /\ k <= m
    BY <1>2, <2>1, <2>3
  <2>. QED  BY <2>1, <2>2, <2>4
<1>8. B # {} => LastAt(Max(B), t) /\ Max(B) \in DOMAIN uptime.events
  <2>. SUFFICES ASSUME B # {}  PROVE LastAt(Max(B), t) /\ Max(B) \in DOMAIN uptime.events
    OBVIOUS
  <2>. QED  BY <1>4, <1>6 DEF LastAt
<1>. QED  BY <1>3, <1>5, <1>7, <1>8

\* What a span of an answer says was so then, and is so until the next one.
SpansTell(spans, at) ==
  /\ spans \in Seq(Transition) /\ InTime(spans)
  /\ \A i \in DOMAIN spans :
       spans[i].t <= at /\ \E k \in DOMAIN uptime.events :
                             LastAt(k, spans[i].t) /\ spans[i].up = uptime.events[k].up
  /\ \A k \in DOMAIN uptime.events, i \in DOMAIN spans :
       uptime.events[k].t <= at /\ spans[i].t < uptime.events[k].t =>
         \E j \in DOMAIN spans : spans[j].t = uptime.events[k].t

BandsType ==
  uptime \in [now : Span..MaxMoment, events : Seq(Transition),
              report : {Blank} \cup [at : Nat, spans : Seq(Transition)],
              window : {0, Span}, edge : Nat, beat : 1..Freeze]

\* The interval fired last at now - (Freeze - beat); events are in order and past; what was
\* answered told what was then.
BandsInv ==
  /\ BandsType
  /\ uptime.now >= Freeze - uptime.beat
  /\ uptime.edge = FloorTo(uptime.now - (Freeze - uptime.beat), Freeze)
  /\ InTime(uptime.events)
  /\ \A i \in DOMAIN uptime.events : uptime.events[i].t <= uptime.now
  /\ uptime.report # Blank =>
       uptime.report.at <= uptime.now /\ SpansTell(uptime.report.spans, uptime.report.at)

LEMMA BandsInvInit == BandsInit => BandsInv
<1>. SUFFICES ASSUME BandsInit  PROVE BandsInv
  OBVIOUS
<1>1. PICK w \in {0, Span}, t \in 0..(Freeze - 1) :
        uptime = [now |-> Span + t, events |-> <<>>, report |-> Blank, window |-> w,
                  edge |-> FloorTo(Span + t, Freeze), beat |-> Freeze]
  BY DEF BandsInit
<1>2. Span + t \in Span..MaxMoment /\ Span + t \in Nat /\ Freeze \in Nat \ {0} /\ Freeze - Freeze = 0
  BY ReplayAssumption
<1>3. FloorTo(Span + t, Freeze) \in Nat
  BY <1>2, FloorIs
<1>4. Freeze \in 1..Freeze /\ Span + t - 0 = Span + t /\ Span + t >= 0
  BY <1>2
<1>5. BandsType
  BY <1>1, <1>2, <1>3, <1>4 DEF BandsType
<1>6. uptime.events = <<>> /\ DOMAIN <<>> = {}
  BY <1>1
<1>. QED  BY <1>1, <1>2, <1>4, <1>5, <1>6 DEF BandsInv, InTime

LEMMA SpansKept ==
  ASSUME BandsInv, uptime.report # Blank,
         DOMAIN uptime.events \subseteq DOMAIN uptime'.events,
         \A k \in DOMAIN uptime.events : uptime'.events[k] = uptime.events[k],
         \A k \in DOMAIN uptime'.events :
           k \in DOMAIN uptime.events \/ uptime.report.at < uptime'.events[k].t,
         uptime'.events \in Seq(Transition),
         uptime'.report = uptime.report
  PROVE  SpansTell(uptime.report.spans, uptime.report.at)'
<1>. DEFINE spans == uptime.report.spans
            at == uptime.report.at
<1>1. SpansTell(spans, at) /\ at \in Nat /\ spans \in Seq(Transition)
  BY DEF BandsInv, BandsType
<1>2. \A i \in DOMAIN spans : spans[i].t \in Nat
  BY <1>1, Timed
<1>3. \A k \in DOMAIN uptime'.events : uptime'.events[k].t \in Nat
  BY Timed
<1>4. uptime'.report.spans = spans /\ uptime'.report.at = at
  OBVIOUS
<1>5. \A k \in DOMAIN uptime'.events : k \in DOMAIN uptime.events \/ at < uptime'.events[k].t
  OBVIOUS
<1>. HIDE DEF spans, at
<1>6. ASSUME NEW i \in DOMAIN spans
      PROVE  spans[i].t <= at /\ \E k \in DOMAIN uptime'.events :
                                   LastAt(k, spans[i].t)' /\ spans[i].up = uptime'.events[k].up
  <2>1. spans[i].t <= at
    BY <1>1 DEF SpansTell
  <2>2. PICK k \in DOMAIN uptime.events : LastAt(k, spans[i].t) /\ spans[i].up = uptime.events[k].up
    BY <1>1 DEF SpansTell
  <2>3. LastAt(k, spans[i].t)'
    <3>1. k \in DOMAIN uptime'.events /\ uptime'.events[k].t <= spans[i].t
      BY <2>2 DEF LastAt
    <3>2. ASSUME NEW l \in DOMAIN uptime'.events, uptime'.events[l].t <= spans[i].t  PROVE l <= k
      <4>1. l \in DOMAIN uptime.events
        BY <1>1, <1>2, <1>3, <1>5, <2>1, <3>2
      <4>. QED  BY <2>2, <3>2, <4>1 DEF LastAt
    <3>3. spans' = spans
      BY <1>4 DEF spans
    <3>. QED  BY <3>1, <3>2, <3>3 DEF LastAt
  <2>. QED  BY <2>1, <2>2, <2>3
<1>7. ASSUME NEW k \in DOMAIN uptime'.events, NEW i \in DOMAIN spans,
             uptime'.events[k].t <= at, spans[i].t < uptime'.events[k].t
      PROVE  \E j \in DOMAIN spans : spans[j].t = uptime'.events[k].t
  <2>1. k \in DOMAIN uptime.events
    BY <1>1, <1>3, <1>5, <1>7
  <2>. QED  BY <1>1, <1>7, <2>1 DEF SpansTell
<1>8. spans' = spans /\ at' = at
  BY <1>4 DEF spans, at
<1>9. SpansTell(spans, at)'
  BY <1>1, <1>6, <1>7, <1>8 DEF SpansTell, InTime
<1>. QED  BY <1>9 DEF spans, at

LEMMA CappedTells ==
  ASSUME NEW at \in Nat, NEW s, SpansTell(s, at), uptime.events \in Seq(Transition)
  PROVE  SpansTell(Capped(s), at)
<1>1. SpansCap \in Nat \ {0} /\ s \in Seq(Transition)
  BY ReplayAssumption DEF SpansTell
<1>2. CASE Len(s) > SpansCap
  <2>1. PICK n \in Nat, d \in Nat : n = Len(s) /\ d = n - SpansCap /\ 0 < d /\ d < n
    BY <1>1, <1>2
  <2>2. PICK r : r = SubSeq(s, d + 1, n)
    OBVIOUS
  <2>3. r \in Seq(Transition) /\ DOMAIN r = 1..(n - d) /\ \A i \in 1..(n - d) : r[i] = s[i + d]
    <3>1. /\ \A i \in (d + 1)..n : s[i] \in Transition
          /\ n - (d + 1) + 1 = n - d /\ (d + 1 <= n + 1)
      BY <1>1, <2>1
    <3>2. /\ SubSeq(s, d + 1, n) \in Seq(Transition)
          /\ Len(SubSeq(s, d + 1, n)) = n - (d + 1) + 1
      BY <1>1, <2>1, <3>1
    <3>3. \A i \in 1..(n - (d + 1) + 1) : SubSeq(s, d + 1, n)[i] = s[d + 1 + i - 1]
      BY <1>1, <2>1
    <3>4. \A i \in 1..(n - d) : d + 1 + i - 1 = i + d
      BY <2>1
    <3>5. r \in Seq(Transition) /\ Len(r) = n - d
      BY <2>2, <3>1, <3>2
    <3>6. \A i \in 1..(n - d) : r[i] = s[i + d]
      BY <2>2, <3>1, <3>3, <3>4
    <3>7. DOMAIN r = 1..(n - d)
      BY <2>1, <3>5
    <3>. QED  BY <3>5, <3>6, <3>7
  <2>4. Capped(s) = r
    <3>1. Capped(s) = SubSeq(s, Len(s) - SpansCap + 1, Len(s))
      BY <1>2 DEF Capped
    <3>. QED  BY <2>1, <2>2, <3>1
  <2>5. DOMAIN s = 1..n /\ \A i \in DOMAIN s : s[i].t \in Nat
    BY <1>1, <2>1, Timed
  <2>6. \A i \in DOMAIN r : i + d \in DOMAIN s /\ r[i] = s[i + d]
    BY <2>1, <2>3, <2>5
  <2>7. InTime(r)
    <3>1. \A i, j \in DOMAIN r : i < j => i + d < j + d
      BY <2>1, <2>3
    <3>2. InTime(s)
      BY DEF SpansTell
    <3>. QED  BY <2>6, <3>1, <3>2 DEF InTime
  <2>8. \A i \in DOMAIN r :
          r[i].t <= at /\ \E k \in DOMAIN uptime.events :
                            LastAt(k, r[i].t) /\ r[i].up = uptime.events[k].up
    BY <2>6 DEF SpansTell
  <2>9. ASSUME NEW k \in DOMAIN uptime.events, NEW i \in DOMAIN r,
               uptime.events[k].t <= at, r[i].t < uptime.events[k].t
        PROVE  \E j \in DOMAIN r : r[j].t = uptime.events[k].t
    <3>1. i + d \in DOMAIN s /\ s[i + d].t < uptime.events[k].t
      BY <2>6, <2>9
    <3>2. PICK j \in DOMAIN s : s[j].t = uptime.events[k].t
      BY <2>9, <3>1 DEF SpansTell
    <3>3. ~(j < i + d) /\ j # i + d
      <4>1. InTime(s) /\ s[j].t \in Nat /\ s[i + d].t \in Nat
        BY <2>5, <3>1 DEF SpansTell
      <4>2. j < i + d => s[j].t < s[i + d].t
        BY <3>1, <4>1 DEF InTime
      <4>. QED  BY <3>1, <3>2, <4>1, <4>2
    <3>4. j - d \in DOMAIN r /\ (j - d) + d = j
      BY <2>1, <2>3, <2>5, <3>3
    <3>. QED  BY <2>6, <3>2, <3>4
  <2>. QED  BY <2>3, <2>4, <2>7, <2>8, <2>9 DEF SpansTell
<1>3. CASE ~(Len(s) > SpansCap)
  BY <1>3 DEF Capped
<1>. QED  BY <1>2, <1>3

LEMMA WindowTells ==
  ASSUME BandsInv, NEW since \in Nat, since <= uptime.now
  PROVE  SpansTell(WindowSpans(since, uptime.now), uptime.now)
<1>. DEFINE now == uptime.now
            ev == uptime.events
            from == IF since > 0 THEN since ELSE -1
            x == Slice(ev, from, now)
            lead == IF since > 0 /\ StateAt(since) # Blank
                    THEN <<[t |-> since, up |-> StateAt(since)]>> ELSE <<>>
<1>1. ev \in Seq(Transition) /\ InTime(ev) /\ now \in Nat /\ now \in 0..MaxMoment /\ from \in Int
      /\ \A i \in DOMAIN ev : ev[i].t <= now
  BY ReplayAssumption DEF BandsInv, BandsType
<1>2. ev \in Seq(Stamped) /\ Len(ev) \in Nat /\ DOMAIN ev = 1..Len(ev)
      /\ \A i \in DOMAIN ev : ev[i] \in Transition /\ ev[i].t \in Nat
  BY <1>1, Timed
<1>3. SlicedOf(x, ev, Len(ev), from, now)
  <2>. HIDE DEF now, ev, from
  <2>. QED  BY <1>1, <1>2, SliceIs
<1>4. WindowSpans(since, now) = Capped(lead \o x)
  BY DEF WindowSpans
<1>. HIDE DEF now, ev, x, lead, from
<1>5. /\ x \in Seq(Transition) /\ InTime(x)
      /\ \A i \in DOMAIN x : \E j \in DOMAIN ev : x[i] = ev[j] /\ from < ev[j].t /\ ev[j].t <= now
      /\ \A j \in DOMAIN ev : from < ev[j].t => \E i \in DOMAIN x : x[i] = ev[j]
  <2>1. x \in Seq(Stamped) /\ InTime(x)
    BY <1>3 DEF SlicedOf
  <2>2. \A i \in DOMAIN x : \E j \in DOMAIN ev : x[i] = ev[j] /\ from < ev[j].t /\ ev[j].t <= now
    BY <1>2, <1>3 DEF SlicedOf
  <2>3. \A j \in DOMAIN ev : from < ev[j].t => \E i \in DOMAIN x : x[i] = ev[j]
    BY <1>1, <1>2, <1>3 DEF SlicedOf
  <2>4. \A i \in DOMAIN x : x[i] \in Transition
    BY <1>2, <2>2
  <2>5. x \in Seq(Transition)
    <3>1. Len(x) \in Nat /\ DOMAIN x = 1..Len(x) /\ x = [i \in 1..Len(x) |-> x[i]]
      BY <2>1
    <3>2. x \in [1..Len(x) -> Transition]
      BY <2>4, <3>1
    <3>. QED  BY <3>1, <3>2
  <2>. QED  BY <2>1, <2>2, <2>3, <2>5
<1>6. \A j \in DOMAIN ev : LastAt(j, ev[j].t)
  <2>1. \A j, l \in DOMAIN ev : ev[l].t <= ev[j].t => l <= j
    BY <1>1, <1>2 DEF InTime
  <2>. QED  BY <1>2, <2>1 DEF LastAt, ev
<1>7. \A i \in DOMAIN x :
        x[i].t <= now /\ \E k \in DOMAIN ev : LastAt(k, x[i].t) /\ x[i].up = ev[k].up
  BY <1>5, <1>6
<1>8. CASE lead = <<>>
  <2>1. lead \o x = x
    BY <1>5, <1>8
  <2>2. \A k \in DOMAIN ev, i \in DOMAIN x :
          ev[k].t <= now /\ x[i].t < ev[k].t => \E j \in DOMAIN x : x[j].t = ev[k].t
    <3>1. \A k \in DOMAIN ev : ev[k].t \in Nat
      BY <1>2
    <3>2. \A i \in DOMAIN x : from < x[i].t /\ x[i].t \in Nat
      BY <1>5, <1>2
    <3>3. \A k \in DOMAIN ev, i \in DOMAIN x : x[i].t < ev[k].t => from < ev[k].t
      BY <1>1, <3>1, <3>2
    <3>. QED  BY <1>5, <3>3
  <2>3. SpansTell(x, now)
    BY <1>5, <1>7, <2>2 DEF SpansTell, ev
  <2>4. SpansTell(lead \o x, now)
    BY <2>1, <2>3
  <2>. QED  BY <1>1, <1>4, <2>4, CappedTells DEF now, ev
<1>9. CASE lead # <<>>
  <2>1. since > 0 /\ StateAt(since) # Blank /\ lead = <<[t |-> since, up |-> StateAt(since)]>>
        /\ from = since
    BY <1>9 DEF lead, from
  <2>2. PICK k0 \in DOMAIN ev : LastAt(k0, since) /\ StateAt(since) = ev[k0].up
    BY <1>1, <2>1, StateIs DEF ev
  <2>3. PICK l \in Transition : lead = <<l>> /\ l.t = since /\ l.up = ev[k0].up
    <3>1. ev[k0].up \in BOOLEAN /\ since \in 0..MaxMoment
      <4>1. ev[k0] \in Transition
        BY <1>2
      <4>2. since \in 0..MaxMoment
        BY <1>1, ReplayAssumption DEF now
      <4>. QED  BY <4>1, <4>2 DEF Transition
    <3>2. [t |-> since, up |-> StateAt(since)] \in Transition
      BY <2>2, <3>1 DEF Transition
    <3>. QED  BY <2>1, <2>2, <3>2
  <2>4. PICK y : y = lead \o x
    OBVIOUS
  <2>5. /\ y \in Seq(Transition) /\ Len(y) = Len(x) + 1 /\ y[1] = l /\ Len(x) \in Nat
        /\ \A i \in 1..Len(x) : y[i + 1] = x[i]
    BY <1>5, <2>3, <2>4
  <2>6. /\ DOMAIN y = 1..(Len(x) + 1) /\ DOMAIN x = 1..Len(x)
        /\ \A i \in DOMAIN y : i = 1 \/ (i > 1 /\ i - 1 \in DOMAIN x /\ y[i] = x[i - 1])
        /\ \A i \in DOMAIN x : i + 1 \in DOMAIN y /\ y[i + 1] = x[i]
    <3>1. DOMAIN y = 1..(Len(x) + 1) /\ DOMAIN x = 1..Len(x)
      BY <1>5, <2>5
    <3>2. \A i \in 1..(Len(x) + 1) : i = 1 \/ (i > 1 /\ i - 1 \in 1..Len(x) /\ (i - 1) + 1 = i)
      BY <2>5
    <3>3. \A i \in 1..Len(x) : i + 1 \in 1..(Len(x) + 1)
      BY <2>5
    <3>. QED  BY <2>5, <3>1, <3>2, <3>3
  <2>7. \A i \in DOMAIN x : since < x[i].t /\ x[i].t \in Nat
    BY <1>2, <1>5, <2>1
  <2>8. InTime(y)
    <3>. SUFFICES ASSUME NEW i \in DOMAIN y, NEW j \in DOMAIN y, i < j  PROVE y[i].t < y[j].t
      BY DEF InTime
    <3>1. i \in Int /\ j \in Int /\ j > 1 /\ j - 1 \in DOMAIN x /\ y[j] = x[j - 1]
      BY <2>5, <2>6
    <3>2. CASE i = 1
      BY <2>3, <2>5, <2>7, <3>1, <3>2
    <3>3. CASE i # 1
      <4>1. i - 1 \in DOMAIN x /\ y[i] = x[i - 1] /\ i - 1 < j - 1
        BY <2>6, <3>1, <3>3
      <4>. QED  BY <1>5, <3>1, <4>1 DEF InTime
    <3>. QED  BY <3>2, <3>3
  <2>9. \A i \in DOMAIN y :
          y[i].t <= now /\ \E k \in DOMAIN ev : LastAt(k, y[i].t) /\ y[i].up = ev[k].up
    <3>. SUFFICES ASSUME NEW i \in DOMAIN y
                  PROVE  y[i].t <= now /\ \E k \in DOMAIN ev : LastAt(k, y[i].t) /\ y[i].up = ev[k].up
      OBVIOUS
    <3>1. CASE i = 1
      BY <2>2, <2>3, <2>5, <3>1 DEF now
    <3>2. CASE i # 1
      BY <1>7, <2>6, <3>2
    <3>. QED  BY <3>1, <3>2
  <2>10. ASSUME NEW k \in DOMAIN ev, NEW i \in DOMAIN y, y[i].t < ev[k].t
         PROVE  \E j \in DOMAIN y : y[j].t = ev[k].t
    <3>1. from < ev[k].t
      <4>1. since <= y[i].t /\ y[i].t \in Nat
        BY <2>3, <2>5, <2>6, <2>7
      <4>. QED  BY <1>2, <2>1, <2>10, <4>1
    <3>2. PICK j \in DOMAIN x : x[j] = ev[k]
      <4>1. \A j \in DOMAIN ev : from < ev[j].t => \E h \in DOMAIN x : x[h] = ev[j]
        BY <1>5, Zenon
      <4>. QED  BY <3>1, <4>1, Zenon
    <3>3. j + 1 \in DOMAIN y /\ y[j + 1].t = ev[k].t
      BY <2>6, <3>2
    <3>. QED  BY <3>3
  <2>11. SpansTell(y, now)
    BY <2>5, <2>8, <2>9, <2>10 DEF SpansTell, ev
  <2>12. SpansTell(lead \o x, now)
    BY <2>4, <2>11
  <2>. QED  BY <1>1, <1>4, <2>12, CappedTells DEF now, ev
<1>. QED  BY <1>8, <1>9 DEF now

LEMMA BandsInvStep ==
  ASSUME BandsInv, [BandsNext]_uptime
  PROVE  BandsInv'
<1>1. /\ uptime.now \in Span..MaxMoment /\ uptime.now \in Nat /\ uptime.events \in Seq(Transition)
      /\ uptime.window \in {0, Span} /\ uptime.beat \in 1..Freeze /\ Freeze \in Nat \ {0} /\ Span \in Nat
      /\ uptime.edge \in Nat
  BY ReplayAssumption DEF BandsInv, BandsType
<1>2. CASE StateChanges
  <2>1. PICK up \in BOOLEAN :
          /\ uptime.report # Blank => uptime.report.at < uptime.now
          /\ uptime.events # <<>> => Last(uptime.events).t < uptime.now /\ Last(uptime.events).up # up
          /\ uptime' = [uptime EXCEPT !.events = Append(@, [t |-> uptime.now, up |-> up])]
    BY <1>2 DEF StateChanges
  <2>. DEFINE ev == uptime.events
              e == [t |-> uptime.now, up |-> up]
              n == Len(ev)
  <2>2. e \in Transition /\ e.t = uptime.now
    BY <1>1, ReplayAssumption DEF Transition
  <2>3. n \in Nat /\ DOMAIN ev = 1..n /\ \A i \in DOMAIN ev : ev[i].t \in Nat
    BY <1>1, Timed
  <2>4. \A i \in 1..n : ev[i].t < uptime.now
    <3>. SUFFICES ASSUME NEW i \in 1..n  PROVE ev[i].t < uptime.now
      OBVIOUS
    <3>1. n \in 1..n /\ ev # <<>> /\ Last(ev) = ev[n]
      BY <1>1, <2>3 DEF Last
    <3>2. ev[n].t < uptime.now
      BY <2>1, <3>1
    <3>3. InTime(ev)
      BY DEF BandsInv
    <3>4. i = n \/ i < n
      BY <2>3
    <3>. HIDE DEF ev, n
    <3>5. i < n => ev[i].t < ev[n].t
      BY <2>3, <3>1, <3>3 DEF InTime
    <3>. QED  BY <1>1, <2>3, <3>1, <3>2, <3>4, <3>5
  <2>5. PICK nx : nx = Append(ev, e)
    OBVIOUS
  <2>6. uptime' = [uptime EXCEPT !.events = nx]
    BY <2>1, <2>5
  <2>. HIDE DEF e
  <2>7. /\ nx \in Seq(Transition) /\ DOMAIN nx = 1..(n + 1) /\ nx[n + 1] = e
        /\ \A i \in 1..n : nx[i] = ev[i]
    <3>1. nx \in Seq(Transition) /\ Len(nx) = n + 1 /\ nx[n + 1] = e
      BY <1>1, <2>2, <2>5
    <3>2. \A i \in 1..n : nx[i] = ev[i]
      BY <1>1, <2>2, <2>5
    <3>. QED  BY <2>3, <3>1, <3>2
  <2>. HIDE DEF n, ev
  <2>8. BandsType' /\ uptime'.events = nx /\ uptime'.now = uptime.now /\ uptime'.beat = uptime.beat
        /\ uptime'.edge = uptime.edge /\ uptime'.report = uptime.report
    BY <2>6, <2>7 DEF BandsInv, BandsType
  <2>9. \A i \in 1..(n + 1) : i \in 1..n \/ i = n + 1
    BY <2>3
  <2>10. InTime(nx)
    <3>. SUFFICES ASSUME NEW i \in 1..(n + 1), NEW j \in 1..(n + 1), i < j  PROVE nx[i].t < nx[j].t
      BY <2>7 DEF InTime
    <3>1. i \in 1..n
      BY <2>3
    <3>2. CASE j = n + 1
      BY <2>2, <2>4, <2>7, <3>1, <3>2
    <3>3. CASE j # n + 1
      <4>1. j \in 1..n /\ InTime(ev)
        BY <2>9, <3>3 DEF BandsInv, ev
      <4>. QED  BY <2>3, <2>7, <3>1, <4>1 DEF InTime
    <3>. QED  BY <3>2, <3>3
  <2>11. \A i \in DOMAIN nx : nx[i].t <= uptime.now
    <3>. SUFFICES ASSUME NEW i \in 1..(n + 1)  PROVE nx[i].t <= uptime.now
      BY <2>7
    <3>1. CASE i = n + 1
      BY <1>1, <2>2, <2>7, <3>1
    <3>2. CASE i # n + 1
      <4>1. i \in 1..n
        BY <2>9, <3>2
      <4>2. ev[i].t < uptime.now /\ nx[i] = ev[i] /\ ev[i].t \in Nat
        BY <2>3, <2>4, <2>7, <4>1
      <4>. QED  BY <1>1, <4>2
    <3>. QED  BY <3>1, <3>2
  <2>12. ASSUME uptime.report # Blank
         PROVE  uptime'.report.at <= uptime'.now /\ SpansTell(uptime.report.spans, uptime.report.at)'
    <3>1. DOMAIN uptime.events \subseteq DOMAIN uptime'.events
      <4>1. \A i \in 1..n : i \in 1..(n + 1)
        BY <2>3
      <4>. QED  BY <2>3, <2>7, <2>8, <4>1 DEF ev
    <3>2. \A k \in DOMAIN uptime.events : uptime'.events[k] = uptime.events[k]
      BY <2>3, <2>7, <2>8 DEF ev
    <3>3. \A k \in DOMAIN uptime'.events :
            k \in DOMAIN uptime.events \/ uptime.report.at < uptime'.events[k].t
      BY <2>1, <2>2, <2>3, <2>7, <2>8, <2>9, <2>12 DEF ev
    <3>4. uptime'.events \in Seq(Transition) /\ uptime'.report = uptime.report
      BY <2>7, <2>8
    <3>5. SpansTell(uptime.report.spans, uptime.report.at)'
      BY <2>12, <3>1, <3>2, <3>3, <3>4, SpansKept
    <3>6. uptime'.report.at <= uptime'.now
      BY <2>8, <2>12 DEF BandsInv
    <3>. QED  BY <3>5, <3>6
  <2>. QED  BY <2>8, <2>10, <2>11, <2>12 DEF BandsInv
<1>3. CASE UptimeArrives
  <2>. DEFINE since == IF uptime.window = 0 THEN 0 ELSE uptime.now - uptime.window
  <2>1. since \in Nat /\ since <= uptime.now
    BY <1>1
  <2>2. uptime' = [uptime EXCEPT !.report = [at |-> uptime.now, spans |-> WindowSpans(since, uptime.now)]]
    BY <1>3 DEF UptimeArrives
  <2>. HIDE DEF since
  <2>3. SpansTell(WindowSpans(since, uptime.now), uptime.now)
    BY <2>1, WindowTells
  <2>4. PICK r : r = [at |-> uptime.now, spans |-> WindowSpans(since, uptime.now)]
    OBVIOUS
  <2>5. r \in [at : Nat, spans : Seq(Transition)] /\ r.at = uptime.now /\ SpansTell(r.spans, r.at)
    BY <1>1, <2>3, <2>4 DEF SpansTell
  <2>6. uptime' = [uptime EXCEPT !.report = r]
    BY <2>2, <2>4
  <2>7. /\ BandsType' /\ uptime'.events = uptime.events /\ uptime'.now = uptime.now
        /\ uptime'.beat = uptime.beat /\ uptime'.edge = uptime.edge /\ uptime'.report = r
    BY <2>5, <2>6 DEF BandsInv, BandsType
  <2>8. SpansTell(uptime.report.spans, uptime.report.at)'
    BY <2>5, <2>7 DEF SpansTell, LastAt, InTime
  <2>. QED  BY <1>1, <2>5, <2>7, <2>8 DEF BandsInv
<1>4. CASE BandsElapse
  <2>1. /\ uptime.now < MaxMoment
        /\ uptime' = [uptime EXCEPT
             !.now = @ + 1,
             !.beat = IF @ = 1 THEN Freeze ELSE @ - 1,
             !.edge = IF uptime.beat = 1 THEN FloorTo(uptime.now + 1, Freeze) ELSE @]
    BY <1>4 DEF BandsElapse
  <2>2. PICK b, g : /\ b = IF uptime.beat = 1 THEN Freeze ELSE uptime.beat - 1
                    /\ g = IF uptime.beat = 1 THEN FloorTo(uptime.now + 1, Freeze) ELSE uptime.edge
    OBVIOUS
  <2>3. uptime' = [uptime EXCEPT !.now = @ + 1, !.beat = b, !.edge = g]
    BY <2>1, <2>2
  <2>4. uptime.now + 1 \in Nat /\ uptime.now + 1 \in Span..MaxMoment /\ b \in 1..Freeze
    <3>1. uptime.now + 1 \in Nat /\ uptime.now + 1 \in Span..MaxMoment
      BY <1>1, <2>1, ReplayAssumption, SMTT(20)
    <3>2. PICK bt \in 1..Freeze : bt = uptime.beat
      BY <1>1
    <3>3. b = IF bt = 1 THEN Freeze ELSE bt - 1
      BY <2>2, <3>2
    <3>4. b \in 1..Freeze
      BY <1>1, <3>2, <3>3
    <3>. QED  BY <3>1, <3>4
  <2>5. g \in Nat
    <3>1. PICK m \in Nat : m = uptime.now + 1
      BY <1>1
    <3>2. FloorTo(m, Freeze) \in Nat
      <4>1. m \in Int /\ m \in Nat /\ Freeze \in Nat \ {0}
        BY <1>1
      <4>. QED  BY <4>1, FloorIs
    <3>. QED  BY <1>1, <2>2, <3>1, <3>2
  <2>6. /\ BandsType' /\ uptime'.events = uptime.events /\ uptime'.now = uptime.now + 1
        /\ uptime'.beat = b /\ uptime'.edge = g /\ uptime'.report = uptime.report
    BY <2>3, <2>4, <2>5 DEF BandsInv, BandsType
  <2>7. /\ uptime.now >= Freeze - uptime.beat
        /\ uptime.edge = FloorTo(uptime.now - (Freeze - uptime.beat), Freeze)
    BY DEF BandsInv
  <2>8. uptime.now + 1 >= Freeze - b /\ g = FloorTo((uptime.now + 1) - (Freeze - b), Freeze)
    <3>1. CASE uptime.beat = 1
      <4>1. b = Freeze /\ (uptime.now + 1) - (Freeze - b) = uptime.now + 1
        BY <1>1, <2>2, <3>1
      <4>. QED  BY <1>1, <2>2, <3>1, <4>1
    <3>2. CASE uptime.beat # 1
      <4>1. b = uptime.beat - 1 /\ g = uptime.edge
        BY <2>2, <3>2
      <4>2. (uptime.now + 1) - (Freeze - b) = uptime.now - (Freeze - uptime.beat)
        <5>1. PICK nw \in Nat, bt \in Nat : nw = uptime.now /\ bt = uptime.beat
          BY <1>1
        <5>2. (nw + 1) - (Freeze - (bt - 1)) = nw - (Freeze - bt)
          BY <1>1
        <5>. QED  BY <4>1, <5>1, <5>2
      <4>3. g = FloorTo((uptime.now + 1) - (Freeze - b), Freeze)
        BY <2>7, <4>1, <4>2
      <4>4. uptime.now + 1 >= Freeze - b
        BY <1>1, <2>7, <4>1
      <4>. QED  BY <4>3, <4>4
    <3>. QED  BY <3>1, <3>2
  <2>9. \A i \in DOMAIN uptime.events : uptime.events[i].t <= uptime.now + 1
    <3>1. \A i \in DOMAIN uptime.events : uptime.events[i].t \in Nat /\ uptime.events[i].t <= uptime.now
      BY <1>1, Timed DEF BandsInv
    <3>. QED  BY <1>1, <3>1
  <2>10. ASSUME uptime.report # Blank
         PROVE  uptime.report.at <= uptime.now + 1 /\ SpansTell(uptime.report.spans, uptime.report.at)
    <3>1. uptime.report.at \in Nat /\ uptime.report.at <= uptime.now
      BY <2>10 DEF BandsInv, BandsType
    <3>2. SpansTell(uptime.report.spans, uptime.report.at)
      BY <2>10 DEF BandsInv
    <3>. QED  BY <1>1, <3>1, <3>2
  <2>11. uptime.report # Blank => SpansTell(uptime.report.spans, uptime.report.at)'
    BY <2>6, <2>10 DEF SpansTell, LastAt, InTime
  <2>12. InTime(uptime.events)
    BY DEF BandsInv
  <2>13. InTime(uptime.events)' /\ \A i \in DOMAIN uptime'.events : uptime'.events[i].t <= uptime'.now
    BY <2>6, <2>9, <2>12 DEF InTime
  <2>14. uptime'.now >= Freeze - uptime'.beat
         /\ uptime'.edge = FloorTo(uptime'.now - (Freeze - uptime'.beat), Freeze)
    <3>1. PICK n1, b1, e1 : n1 = uptime'.now /\ b1 = uptime'.beat /\ e1 = uptime'.edge
      OBVIOUS
    <3>2. n1 = uptime.now + 1 /\ b1 = b /\ e1 = g
      BY <2>6, <3>1
    <3>3. n1 >= Freeze - b1 /\ e1 = FloorTo(n1 - (Freeze - b1), Freeze)
      BY <2>8, <3>2, Zenon
    <3>. QED  BY <3>1, <3>3, Zenon
  <2>15. uptime'.report # Blank =>
           uptime'.report.at <= uptime'.now /\ SpansTell(uptime.report.spans, uptime.report.at)'
    BY <2>6, <2>10, <2>11
  <2>. QED  BY <2>6, <2>13, <2>14, <2>15 DEF BandsInv
<1>5. CASE UNCHANGED uptime
  BY <1>5 DEF BandsInv, BandsType, SpansTell, LastAt, InTime
<1>. QED  BY <1>2, <1>3, <1>4, <1>5 DEF BandsNext

\* A band of spans up to an edge: one segment over every moment, that says what the last
\* span did that it lies after.
CoveredAt(spans, t0, edge, m) ==
  \E s \in UptimeBand(spans, t0, edge) :
    /\ {r \in UptimeBand(spans, t0, edge) : r.a <= m /\ m < r.b} = {s}
    /\ m < Head(spans).t => s.up = Blank
    /\ ~(m < Head(spans).t) =>
         \E j \in DOMAIN spans :
           /\ s.up = spans[j].up /\ spans[j].t <= m
           /\ \A h \in DOMAIN spans : spans[h].t <= m => spans[h].t <= spans[j].t

LEMMA BandCovers ==
  ASSUME NEW spans \in Seq(Stamped), InTime(spans), spans # <<>>, NEW t0 \in Int, NEW edge \in Int,
         NEW m \in t0..(edge - 1)
  PROVE  CoveredAt(spans, t0, edge, m)
<1>. DEFINE seen == Slice(spans, -1, edge - 1)
            first == IF seen = <<>> THEN edge ELSE Head(seen).t
            To(i) == IF i < Len(seen) THEN seen[i + 1].t ELSE edge
            From(i) == Highest(seen[i].t, t0)
            Lead == [a |-> t0, b |-> first, up |-> Blank]
            Seg(i) == [a |-> From(i), b |-> To(i), up |-> seen[i].up]
            pieces == UptimeBand(spans, t0, edge)
<1>1. pieces = (IF first > t0 THEN {Lead} ELSE {}) \cup {Seg(i) : i \in {i \in DOMAIN seen : To(i) > From(i)}}
  BY DEF UptimeBand
<1>2. /\ Len(spans) \in Nat /\ DOMAIN spans = 1..Len(spans) /\ 1 \in DOMAIN spans /\ Head(spans) = spans[1]
      /\ \A j \in DOMAIN spans : spans[j].t \in Nat
  <2>1. Len(spans) \in Nat /\ DOMAIN spans = 1..Len(spans) /\ 1 \in DOMAIN spans /\ Head(spans) = spans[1]
    OBVIOUS
  <2>2. \A j \in DOMAIN spans : spans[j] \in Stamped
    OBVIOUS
  <2>. QED  BY <2>1, <2>2 DEF Stamped
<1>3. SlicedOf(seen, spans, Len(spans), -1, edge - 1)
  <2>1. -1 \in Int /\ edge - 1 \in Int
    OBVIOUS
  <2>. QED  BY <2>1, SliceIs
<1>. HIDE DEF seen, pieces
<1>4. seen \in Seq(Stamped) /\ InTime(seen) /\ Len(seen) \in Nat /\ DOMAIN seen = 1..Len(seen)
  BY <1>3 DEF SlicedOf
<1>5. \A i \in DOMAIN seen : \E j \in DOMAIN spans : seen[i] = spans[j] /\ spans[j].t <= edge - 1
  BY <1>2, <1>3 DEF SlicedOf
<1>6. \A j \in DOMAIN spans : spans[j].t <= edge - 1 => \E i \in DOMAIN seen : seen[i] = spans[j]
  BY <1>2, <1>3 DEF SlicedOf
<1>7. \A i \in DOMAIN seen : seen[i].t \in Nat /\ seen[i].t <= edge - 1
  BY <1>2, <1>5
<1>8. \A i, j \in DOMAIN seen : i <= j => seen[i].t <= seen[j].t
  <2>. SUFFICES ASSUME NEW i \in DOMAIN seen, NEW j \in DOMAIN seen, i <= j
                PROVE  seen[i].t <= seen[j].t
    OBVIOUS
  <2>1. i = j \/ i < j
    BY <1>4
  <2>. QED  BY <1>4, <1>7, <2>1 DEF InTime
<1>9. seen # <<>> => 1 \in DOMAIN seen /\ first = seen[1].t
  BY <1>4
<1>10. first \in Int
  BY <1>7, <1>9
<1>11. m \in Int /\ t0 <= m /\ m < edge
  OBVIOUS
<1>12. \A i \in DOMAIN seen : /\ From(i) \in Int /\ seen[i].t <= From(i)
                              /\ (seen[i].t <= m => From(i) <= m)
  BY <1>7, <1>11 DEF Highest
<1>13. CASE m < first
  <2>1. first > t0 /\ Lead \in pieces
    <3>1. first > t0
      BY <1>10, <1>11, <1>13
    <3>. HIDE DEF first
    <3>. QED  BY <1>1, <3>1
  <2>2. Lead.a <= m /\ m < Lead.b
    BY <1>11, <1>13
  <2>3. \A i \in DOMAIN seen : ~(From(i) <= m)
    <3>. SUFFICES ASSUME NEW i \in DOMAIN seen  PROVE ~(From(i) <= m)
      OBVIOUS
    <3>1. seen # <<>> /\ 1 <= i /\ 1 \in DOMAIN seen
      BY <1>4
    <3>2. first <= seen[i].t /\ first = seen[1].t
      BY <1>8, <1>9, <3>1
    <3>. HIDE DEF first, From
    <3>3. first \in Int /\ m < first /\ seen[i].t <= From(i) /\ From(i) \in Int /\ seen[i].t \in Int
      BY <1>7, <1>10, <1>12, <1>13
    <3>. QED  BY <1>11, <3>2, <3>3
  <2>4. {r \in pieces : r.a <= m /\ m < r.b} = {Lead}
    <3>. HIDE DEF first, From, To
    <3>1. \A i : Seg(i).a = From(i)
      OBVIOUS
    <3>2. \A r \in pieces : r = Lead \/ ~(r.a <= m)
      <4>. SUFFICES ASSUME NEW r \in pieces, r # Lead  PROVE ~(r.a <= m)
        OBVIOUS
      <4>1. PICK i \in DOMAIN seen : r = Seg(i)
        BY <1>1, <2>1
      <4>. QED  BY <2>3, <3>1, <4>1
    <3>. QED  BY <2>1, <2>2, <3>2
  <2>5. m < Head(spans).t
    <3>. SUFFICES ASSUME ~(m < spans[1].t)  PROVE FALSE
      BY <1>2
    <3>1. spans[1].t \in Nat /\ spans[1].t <= edge - 1 /\ spans[1].t <= m
      BY <1>2, <1>11
    <3>2. PICK i \in DOMAIN seen : seen[i] = spans[1]
      BY <1>2, <1>6, <3>1
    <3>3. seen # <<>> /\ 1 <= i /\ 1 \in DOMAIN seen
      BY <1>4
    <3>4. first <= seen[i].t /\ first \in Int
      BY <1>8, <1>9, <1>10, <3>3
    <3>. HIDE DEF first
    <3>. QED  BY <1>11, <1>13, <3>1, <3>2, <3>4
  <2>6. Lead.up = Blank
    OBVIOUS
  <2>. HIDE DEF Lead
  <2>. QED  BY <2>1, <2>4, <2>5, <2>6 DEF pieces, CoveredAt
<1>14. CASE ~(m < first)
  <2>1. seen # <<>> /\ 1 \in DOMAIN seen /\ seen[1].t <= m
    BY <1>9, <1>10, <1>11, <1>14
  <2>. DEFINE K == {i \in DOMAIN seen : seen[i].t <= m}
  <2>2. PICK n \in Nat : n = Len(seen) /\ DOMAIN seen = 1..n
    BY <1>4
  <2>3. PICK k \in K : \A i \in K : i <= k
    <3>1. IsFiniteSet(1..n)
      BY FS_Interval
    <3>2. \A x \in K : x \in 1..n /\ x \in Int
      BY <2>2
    <3>3. 1 \in K
      BY <2>1
    <3>. HIDE DEF K
    <3>4. K \in SUBSET (1..n) /\ K \in SUBSET Int /\ K # {}
      BY <3>2, <3>3
    <3>5. IsFiniteSet(K)
      BY <3>1, <3>4, FS_Subset
    <3>6. Max(K) \in K /\ \A y \in K : y <= Max(K)
      BY <3>4, <3>5, MaxIs
    <3>. QED  BY <3>6
  <2>4. k \in DOMAIN seen /\ k \in 1..n /\ seen[k].t <= m /\ \A i \in DOMAIN seen : seen[i].t <= m => i <= k
    BY <2>2, <2>3
  <2>. HIDE DEF K
  <2>5. m < To(k) /\ To(k) \in Int
    <3>1. CASE k < n
      <4>1. k + 1 \in DOMAIN seen /\ ~(k + 1 <= k) /\ To(k) = seen[k + 1].t
        BY <2>2, <2>4, <3>1
      <4>2. ~(seen[k + 1].t <= m) /\ seen[k + 1].t \in Nat
        BY <1>7, <2>4, <4>1
      <4>. QED  BY <1>11, <4>1, <4>2
    <3>2. CASE ~(k < n)
      BY <1>11, <2>2, <3>2
    <3>. QED  BY <3>1, <3>2
  <2>6. From(k) <= m /\ From(k) \in Int /\ To(k) > From(k)
    <3>1. From(k) <= m /\ From(k) \in Int
      BY <1>12, <2>4
    <3>. HIDE DEF From, To
    <3>. QED  BY <1>11, <2>5, <3>1
  <2>7. \A i \in DOMAIN seen : i # k => ~(From(i) <= m /\ m < To(i))
    <3>. SUFFICES ASSUME NEW i \in DOMAIN seen, i # k, From(i) <= m, m < To(i)  PROVE FALSE
      OBVIOUS
    <3>1. seen[i].t <= m
      <4>. HIDE DEF From
      <4>1. seen[i].t <= From(i) /\ From(i) \in Int /\ seen[i].t \in Nat
        BY <1>7, <1>12
      <4>. QED  BY <1>11, <4>1
    <3>2. i < k /\ i + 1 <= k /\ i + 1 \in DOMAIN seen /\ i < n
      BY <2>2, <2>4, <3>1
    <3>3. To(i) = seen[i + 1].t /\ seen[i + 1].t <= seen[k].t /\ seen[i + 1].t \in Nat /\ seen[k].t \in Nat
      BY <1>7, <1>8, <2>2, <2>4, <3>2
    <3>. HIDE DEF To
    <3>. QED  BY <1>11, <2>4, <3>3
  <2>8. ~(m < Lead.b)
    BY <1>14
  <2>. HIDE DEF first
  <2>9. \A i : Seg(i).a = From(i) /\ Seg(i).b = To(i) /\ Seg(i).up = seen[i].up
    OBVIOUS
  <2>. HIDE DEF From, To, Lead
  <2>10. Seg(k) \in pieces
    BY <1>1, <2>4, <2>6
  <2>11. {r \in pieces : r.a <= m /\ m < r.b} = {Seg(k)}
    <3>1. \A r \in pieces : r = Lead \/ \E i \in DOMAIN seen : r = Seg(i)
      BY <1>1
    <3>. HIDE DEF Seg
    <3>2. \A r \in pieces : r.a <= m /\ m < r.b => r = Seg(k)
      BY <2>7, <2>8, <2>9, <3>1
    <3>3. Seg(k).a <= m /\ m < Seg(k).b
      BY <2>5, <2>6, <2>9
    <3>. QED  BY <2>10, <3>2, <3>3
  <2>12. PICK j \in DOMAIN spans : seen[k] = spans[j]
    BY <1>5, <2>4
  <2>13. spans[j].t <= m /\ spans[j].t \in Nat /\ Seg(k).up = spans[j].up
    BY <1>2, <2>4, <2>9, <2>12
  <2>14. ASSUME NEW h \in DOMAIN spans, spans[h].t <= m  PROVE spans[h].t <= spans[j].t
    <3>1. spans[h].t <= edge - 1
      BY <1>2, <1>11, <2>14
    <3>2. PICK i \in DOMAIN seen : seen[i] = spans[h]
      BY <1>6, <3>1
    <3>3. i <= k
      BY <2>4, <2>14, <3>2
    <3>. QED  BY <1>8, <2>4, <2>12, <3>2, <3>3
  <2>. HIDE DEF Seg
  <2>15. ~(m < Head(spans).t)
    <3>1. spans[1].t <= spans[j].t /\ spans[1].t \in Nat
      <4>1. j = 1 \/ 1 < j
        BY <1>2
      <4>. QED  BY <1>2, <4>1 DEF InTime
    <3>. QED  BY <1>2, <1>11, <2>13, <3>1
  <2>. QED  BY <2>10, <2>11, <2>13, <2>14, <2>15 DEF pieces, CoveredAt
<1>. QED  BY <1>13, <1>14

LEMMA BandsPromise ==
  ASSUME BandsInv
  PROVE  BandsTypeOK /\ BandsTell
<1>1. /\ uptime.now \in Nat /\ uptime.events \in Seq(Transition) /\ uptime.window \in {0, Span}
      /\ uptime.beat \in 1..Freeze /\ Freeze \in Nat \ {0} /\ Span \in Nat /\ uptime.edge \in Nat
  BY ReplayAssumption DEF BandsInv, BandsType
<1>2. PICK t \in Nat : t = uptime.now - (Freeze - uptime.beat)
  <2>1. uptime.now >= Freeze - uptime.beat
    BY DEF BandsInv
  <2>. QED  BY <1>1, <2>1
<1>3. PICK q \in Int : q = t \div Freeze
  <2>1. t \in Int
    OBVIOUS
  <2>. QED  BY <1>1, <2>1, FloorIs
<1>4. /\ uptime.edge = Freeze * q /\ uptime.edge <= t /\ t < uptime.edge + Freeze
      /\ q \in 0..t
  <2>1. uptime.edge = FloorTo(t, Freeze)
    BY <1>2 DEF BandsInv
  <2>2. t \in Int /\ t \in Nat /\ Freeze \in Nat \ {0}
    BY <1>1
  <2>3. /\ FloorTo(t, Freeze) = Freeze * (t \div Freeze)
        /\ FloorTo(t, Freeze) <= t /\ t < FloorTo(t, Freeze) + Freeze
        /\ t \div Freeze \in 0..t
    BY <2>2, FloorIs
  <2>. QED  BY <1>3, <2>1, <2>3
<1>5. uptime.now - uptime.edge < 2 * Freeze /\ t <= uptime.now
  BY <1>1, <1>2, <1>4
<1>6. BandsTypeOK
  <2>1. q \in 0..uptime.now /\ uptime.beat \in 0..Freeze
    BY <1>1, <1>4, <1>5
  <2>. QED  BY <1>1, <1>4, <2>1 DEF BandsTypeOK
<1>7. ASSUME uptime.report # Blank, uptime.report.spans # <<>>, NEW m \in Left..(uptime.edge - 1)
      PROVE  \E s \in UptimeBand(uptime.report.spans, Left, uptime.edge) :
               /\ {r \in UptimeBand(uptime.report.spans, Left, uptime.edge) : r.a <= m /\ m < r.b} = {s}
               /\ s.up = IF m < Head(uptime.report.spans).t THEN Blank
                         ELSE StateAt(Lowest(m, uptime.report.at))
  <2>1. PICK at \in Nat, spans \in Seq(Transition) :
          spans = uptime.report.spans /\ at = uptime.report.at
    BY <1>7 DEF BandsInv, BandsType
  <2>2. SpansTell(spans, at) /\ spans # <<>>
    BY <1>7, <2>1 DEF BandsInv
  <2>3. spans \in Seq(Transition) /\ InTime(spans)
    BY <2>2 DEF SpansTell
  <2>4. /\ spans \in Seq(Stamped) /\ Head(spans).t \in Nat
        /\ \A i \in DOMAIN spans : spans[i].t \in Nat
    <3>1. 1 \in DOMAIN spans /\ Head(spans) = spans[1]
      BY <2>2, <2>3
    <3>. QED  BY <2>3, <3>1, Timed
  <2>5. PICK t0 \in Int : t0 = Left
    <3>1. uptime.window \in Int /\ uptime.edge - uptime.window \in Int
      BY <1>1
    <3>2. Head(uptime.report.spans).t \in Int
      BY <2>1, <2>4
    <3>. QED  BY <3>1, <3>2 DEF Left
  <2>6. PICK edge \in Int : edge = uptime.edge
    BY <1>1
  <2>7. m \in t0..(edge - 1) /\ m \in Int
    BY <1>7, <2>5, <2>6
  <2>8. PICK s \in UptimeBand(spans, t0, edge) :
          /\ {r \in UptimeBand(spans, t0, edge) : r.a <= m /\ m < r.b} = {s}
          /\ m < Head(spans).t => s.up = Blank
          /\ ~(m < Head(spans).t) =>
               \E j \in DOMAIN spans :
                 /\ s.up = spans[j].up /\ spans[j].t <= m
                 /\ \A h \in DOMAIN spans : spans[h].t <= m => spans[h].t <= spans[j].t
    <3>1. CoveredAt(spans, t0, edge, m)
      BY <2>2, <2>3, <2>4, <2>7, BandCovers
    <3>. QED  BY <3>1 DEF CoveredAt
  <2>9. ASSUME ~(m < Head(spans).t)  PROVE s.up = StateAt(Lowest(m, at))
    <3>1. PICK j \in DOMAIN spans :
            /\ s.up = spans[j].up /\ spans[j].t <= m
            /\ \A h \in DOMAIN spans : spans[h].t <= m => spans[h].t <= spans[j].t
      BY <2>8, <2>9
    <3>2. PICK k \in DOMAIN uptime.events :
            LastAt(k, spans[j].t) /\ spans[j].up = uptime.events[k].up /\ spans[j].t <= at
      BY <2>2 DEF SpansTell
    <3>3. PICK low \in Int : low = Lowest(m, at) /\ low <= m /\ low <= at /\ spans[j].t <= low
      BY <2>4, <2>7, <3>1, <3>2 DEF Lowest
    <3>4. \A l \in DOMAIN uptime.events : uptime.events[l].t \in Nat
      BY <1>1, Timed
    <3>5. LastAt(k, low)
      <4>1. uptime.events[k].t <= low
        <5>1. uptime.events[k].t <= spans[j].t
          BY <3>2 DEF LastAt
        <5>. QED  BY <2>4, <3>3, <3>4, <5>1
      <4>2. ASSUME NEW l \in DOMAIN uptime.events, uptime.events[l].t <= low  PROVE l <= k
        <5>1. uptime.events[l].t <= m /\ uptime.events[l].t <= at
          BY <2>7, <3>3, <3>4, <4>2
        <5>2. CASE uptime.events[l].t <= spans[j].t
          BY <3>2, <5>2 DEF LastAt
        <5>3. CASE spans[j].t < uptime.events[l].t
          <6>1. PICK h \in DOMAIN spans : spans[h].t = uptime.events[l].t
            BY <2>2, <5>1, <5>3 DEF SpansTell
          <6>2. spans[h].t <= spans[j].t
            BY <3>1, <5>1, <6>1
          <6>. QED  BY <2>4, <5>3, <6>1, <6>2
        <5>4. spans[j].t \in Nat /\ uptime.events[l].t \in Nat
          BY <2>4, <3>4
        <5>. QED  BY <5>2, <5>3, <5>4
      <4>. QED  BY <4>1, <4>2 DEF LastAt
    <3>6. StateAt(low) = uptime.events[k].up
      BY <1>1, <3>5, StateIs
    <3>. QED  BY <3>1, <3>2, <3>3, <3>6
  <2>10. s.up = IF m < Head(spans).t THEN Blank ELSE StateAt(Lowest(m, at))
    BY <2>8, <2>9
  <2>. QED  BY <2>1, <2>5, <2>6, <2>8, <2>10
<1>. QED  BY <1>5, <1>6, <1>7 DEF BandsTell

-----------------------------------------------------------------------------
(* The replay of a session.                                                *)

LEMMA MomentSets ==
  /\ IsFiniteSet(Moments) /\ \A m \in Moments : m \in Nat
  /\ \A S \in SUBSET Moments :
       /\ IsFiniteSet(S) /\ S \in SUBSET Int
       /\ S # {} => /\ Min(S) \in S /\ \A y \in S : Min(S) <= y
                    /\ Max(S) \in S /\ \A y \in S : y <= Max(S)
<1>1. PICK n \in Nat : n = MaxEvent + 1
  BY ReplayAssumption
<1>2. IsFiniteSet(0..n)
  <2>1. IsFiniteSet(1..n)
    BY FS_Interval
  <2>2. 0..n = (1..n) \cup {0}
    OBVIOUS
  <2>. QED  BY <2>1, <2>2, FS_AddElement
<1>3. IsFiniteSet(Moments) /\ \A m \in Moments : m \in Nat
  BY <1>1, <1>2 DEF Moments
<1>4. ASSUME NEW S \in SUBSET Moments
      PROVE  /\ IsFiniteSet(S) /\ S \in SUBSET Int
             /\ S # {} => /\ Min(S) \in S /\ \A y \in S : Min(S) <= y
                          /\ Max(S) \in S /\ \A y \in S : y <= Max(S)
  <2>1. IsFiniteSet(S)
    BY <1>3, FS_Subset
  <2>2. \A x \in S : x \in Int
    BY <1>3
  <2>3. S \in SUBSET Int
    BY <2>2
  <2>. QED  BY <2>1, <2>3, MinIs, MaxIs
<1>. QED  BY <1>3, <1>4

\* The row nearest to a cursor is a row.
LEMMA NearestIsRow ==
  ASSUME NEW ts \in SUBSET Moments, ts # {}, NEW m \in Moments
  PROVE  NearestRow(ts, m) \in ts
<1>. DEFINE Off(t) == IF m < t THEN t - m ELSE m - t
            near == {t \in ts : \A u \in ts : Off(t) <= Off(u)}
            D == {n \in Nat : \E t \in ts : Off(t) = n}
<1>1. m \in Nat /\ \A t \in ts : t \in Nat
  BY MomentSets
<1>2. \A t \in ts : Off(t) \in Nat
  BY <1>1
<1>3. PICK d \in D : \A e \in D : d <= e
  <2>. HIDE DEF Off
  <2>1. PICK t \in ts : Off(t) \in D
    BY <1>2
  <2>2. D \in SUBSET Nat /\ D # {}
    BY <2>1
  <2>. HIDE DEF D
  <2>. QED  BY <2>2, LeastNat
<1>4. PICK t \in ts : Off(t) = d
  <2>. HIDE DEF Off
  <2>. QED  OBVIOUS
<1>5. t \in near
  <2>. HIDE DEF Off
  <2>1. \A u \in ts : Off(u) \in D
    BY <1>2
  <2>2. \A u \in ts : Off(t) <= Off(u)
    BY <1>3, <1>4, <2>1
  <2>. QED  BY <2>2
<1>6. near \in SUBSET Moments /\ near # {} /\ \A x \in near : x \in ts
  BY <1>5
<1>7. NearestRow(ts, m) = Min(near)
  BY DEF NearestRow
<1>. HIDE DEF near
<1>8. Min(near) \in near
  BY <1>6, MomentSets
<1>. QED  BY <1>6, <1>7, <1>8

\* The width that the buckets of these times have in an answer of that time.
WidthAt(ts, at) ==
  LET span == Max(ts) - Min(ts)
      over == IF span > 0 THEN span ELSE at - Min(ts)
  IN Highest(Cadence, over \div (PointsCap - 1) + 1)

LEMMA WidthType ==
  ASSUME NEW ts \in SUBSET Moments, ts # {}, NEW at \in Nat, \A t \in ts : t < at
  PROVE  WidthAt(ts, at) \in Nat \ {0} /\ WidthAt(ts, at) >= Cadence
<1>1. Min(ts) \in Nat /\ Max(ts) \in Nat /\ Min(ts) < at
  BY MomentSets
<1>2. PICK over \in Nat : over = IF Max(ts) - Min(ts) > 0 THEN Max(ts) - Min(ts) ELSE at - Min(ts)
  BY <1>1
<1>3. PICK p \in Nat \ {0} : p = PointsCap - 1
  BY ReplayAssumption
<1>4. over \div p \in Nat
  OBVIOUS
<1>5. WidthAt(ts, at) = Highest(Cadence, over \div p + 1)
  BY <1>2, <1>3 DEF WidthAt
<1>6. Cadence \in Nat \ {0}
  BY ReplayAssumption
<1>. QED  BY <1>4, <1>5, <1>6 DEF Highest

\* A later answer has no narrower buckets.
LEMMA WidthGrows ==
  ASSUME NEW ts \in SUBSET Moments, ts # {}, NEW at \in Nat, \A t \in ts : t < at,
         NEW us \in SUBSET Moments, ts \subseteq us, NEW bt \in Nat, \A t \in us : t < bt,
         at <= bt, \A t \in us : t \in ts \/ at <= t
  PROVE  WidthAt(ts, at) <= WidthAt(us, bt) /\ Min(us) = Min(ts)
<1>1. /\ Min(ts) \in ts /\ Min(ts) \in Nat /\ Max(ts) \in ts /\ Max(ts) \in Nat
      /\ \A y \in ts : Min(ts) <= y /\ y <= Max(ts) /\ y \in Nat
  BY MomentSets
<1>2. /\ us # {} /\ Min(us) \in us /\ Min(us) \in Nat /\ Max(us) \in us /\ Max(us) \in Nat
      /\ \A y \in us : Min(us) <= y /\ y <= Max(us) /\ y \in Nat
  BY MomentSets
<1>3. PICK a \in Nat, b \in Nat, c \in Nat, d \in Nat :
        a = Min(ts) /\ b = Max(ts) /\ c = Min(us) /\ d = Max(us)
  BY <1>1, <1>2
<1>4. c = a
  <2>1. c <= a
    BY <1>1, <1>2, <1>3
  <2>2. c \in ts \/ at <= c
    BY <1>2, <1>3
  <2>3. a < at
    BY <1>1, <1>3
  <2>4. c \in ts => a <= c
    BY <1>1, <1>3
  <2>. QED  BY <2>1, <2>2, <2>3, <2>4
<1>5. b <= d /\ (d \in ts \/ at <= d) /\ a <= b /\ d < bt
  BY <1>1, <1>2, <1>3
<1>6. d \in ts => d <= b
  BY <1>1, <1>3
<1>7. a < at /\ b < at
  BY <1>1, <1>3
<1>8. PICK o \in Nat : o = IF b - a > 0 THEN b - a ELSE at - a
  <2>1. at - a \in Nat /\ (b - a > 0 => b - a \in Nat)
    BY <1>7
  <2>. QED  BY <2>1
<1>9. PICK v \in Nat : v = IF d - c > 0 THEN d - c ELSE bt - c
  BY <1>4, <1>5, <1>7
<1>10. o <= v
  <2>1. CASE b - a > 0
    BY <1>4, <1>5, <1>8, <1>9, <2>1
  <2>2. CASE ~(b - a > 0)
    BY <1>4, <1>5, <1>6, <1>7, <1>8, <1>9, <2>2
  <2>. QED  BY <2>1, <2>2
<1>11. PICK p \in Nat \ {0} : p = PointsCap - 1
  BY ReplayAssumption
<1>12. o \div p <= v \div p /\ o \div p \in Nat /\ v \div p \in Nat
  BY <1>10
<1>13. Cadence \in Nat
  BY ReplayAssumption
<1>14. /\ WidthAt(ts, at) = Highest(Cadence, o \div p + 1)
       /\ WidthAt(us, bt) = Highest(Cadence, v \div p + 1)
  BY <1>3, <1>8, <1>9, <1>11 DEF WidthAt
<1>. QED  BY <1>3, <1>4, <1>12, <1>13, <1>14 DEF Highest

SeenTimes == {Seen(play.traffic), Seen(play.rtt)} \ {{}}

\* The playhead is not past what was seen, and not a bucket before some series of it.
CursorInv ==
  /\ \E s \in SeenTimes : \E u \in s : play.cursor <= u
  /\ \E s \in SeenTimes : Min(s) - WidthAt(s, play.asOf) < play.cursor

PlayInv ==
  /\ PlayTypeOK
  /\ \A t \in play.traffic \cup play.rtt : t < play.now
  /\ play.asOf # Blank => play.asOf <= play.now
  /\ play.cursor # Blank => play.asOf # Blank /\ CursorInv

LEMMA PlayType ==
  ASSUME PlayTypeOK
  PROVE  /\ play.now \in Moments /\ play.now \in Nat /\ play.traffic \in SUBSET Moments
         /\ play.rtt \in SUBSET Moments
         /\ play.asOf \in Moments \cup {Blank} /\ play.cursor \in Moments \cup {Blank}
         /\ Blank \notin Moments
         /\ play.asOf # Blank => play.asOf \in Moments /\ play.asOf \in Nat
         /\ play.cursor # Blank => play.cursor \in Moments /\ play.cursor \in Nat
<1>1. /\ play.now \in Moments /\ play.traffic \in SUBSET Moments
      /\ play.rtt \in SUBSET Moments
      /\ play.asOf \in Moments \cup {Blank} /\ play.cursor \in Moments \cup {Blank}
  BY DEF PlayTypeOK
<1>2. Blank \notin Moments /\ \A m \in Moments : m \in Nat
  BY MomentSets, ReplayAssumption
<1>. QED  BY <1>1, <1>2

LEMMA PlayInvInit == PlayInit => PlayInv
<1>. SUFFICES ASSUME PlayInit  PROVE PlayInv
  OBVIOUS
<1>1. play = [now |-> 0, traffic |-> {}, rtt |-> {}, asOf |-> Blank, cursor |-> Blank]
  BY DEF PlayInit
<1>2. 0 \in Moments
  BY ReplayAssumption DEF Moments
<1>. QED  BY <1>1, <1>2 DEF PlayInv, PlayTypeOK

\* What an answer has seen of a series.
LEMMA SeenIs ==
  ASSUME PlayTypeOK, NEW ts \in SUBSET Moments
  PROVE  /\ Seen(ts) \in SUBSET ts /\ Seen(ts) \in SUBSET Moments
         /\ play.asOf = Blank => Seen(ts) = {}
         /\ play.asOf # Blank => Seen(ts) = {t \in ts : t < play.asOf}
         /\ \A t \in Seen(ts) : t < play.asOf /\ play.asOf \in Nat /\ play.asOf # Blank
<1>1. play.asOf # Blank => play.asOf \in Nat
  BY PlayType
<1>. QED  BY <1>1 DEF Seen

\* A bucket starts at most its width before the time that it is of.
LEMMA BucketIs ==
  ASSUME PlayTypeOK, NEW ts \in SUBSET Moments
  PROVE  /\ Buckets(ts) \in SUBSET Moments
         /\ Buckets(ts) # {} <=> Seen(ts) # {}
         /\ WidthOf(Seen(ts)) = WidthAt(Seen(ts), play.asOf)
         /\ Seen(ts) # {} => WidthOf(Seen(ts)) \in Nat \ {0}
         /\ \A b \in Buckets(ts) :
              \E t \in Seen(ts) : b = FloorTo(t, WidthOf(Seen(ts))) /\ b <= t /\ t < b + WidthOf(Seen(ts))
<1>. DEFINE S == Seen(ts)
            w == WidthOf(S)
<1>1. S \in SUBSET Moments /\ \A t \in S : t \in Nat /\ t < play.asOf /\ play.asOf \in Nat
  BY SeenIs, MomentSets
<1>2. w = WidthAt(S, play.asOf)
  BY DEF WidthOf, WidthAt
<1>3. Buckets(ts) = {FloorTo(t, w) : t \in S}
  BY DEF Buckets
<1>. HIDE DEF S, w
<1>4. S # {} => w \in Nat \ {0}
  <2>. SUFFICES ASSUME S # {}  PROVE w \in Nat \ {0}
    OBVIOUS
  <2>1. PICK at : at = play.asOf
    OBVIOUS
  <2>2. at \in Nat /\ \A t \in S : t < at
    BY <1>1, <2>1
  <2>3. WidthAt(S, at) \in Nat \ {0}
    BY <1>1, <2>2, WidthType
  <2>. QED  BY <1>2, <2>1, <2>3
<1>5. ASSUME NEW t \in S
      PROVE  /\ FloorTo(t, w) \in Moments /\ FloorTo(t, w) <= t /\ t < FloorTo(t, w) + w
  <2>1. t \in Int /\ t \in Nat /\ w \in Nat \ {0} /\ t \in Moments
    BY <1>1, <1>4
  <2>2. FloorTo(t, w) \in Nat /\ FloorTo(t, w) <= t /\ t < FloorTo(t, w) + w
    BY <2>1, FloorIs
  <2>3. FloorTo(t, w) \in Moments
    BY <2>1, <2>2, ReplayAssumption DEF Moments
  <2>. QED  BY <2>2, <2>3
<1>6. Buckets(ts) \in SUBSET Moments /\ (Buckets(ts) # {} <=> S # {})
  BY <1>3, <1>5
<1>7. \A b \in Buckets(ts) : \E t \in S : b = FloorTo(t, w) /\ b <= t /\ t < b + w
  BY <1>3, <1>5
<1>. QED  BY <1>2, <1>4, <1>6, <1>7 DEF S, w

\* Where a row is, the playhead may be.
LEMMA RowIsNear ==
  ASSUME PlayTypeOK, NEW ts \in {play.traffic, play.rtt}, NEW b \in Buckets(ts)
  PROVE  /\ play.asOf # Blank /\ b \in Moments /\ Seen(ts) \in SeenTimes
         /\ Min(Seen(ts)) - WidthAt(Seen(ts), play.asOf) < b
         /\ \E u \in Seen(ts) : b <= u
<1>1. ts \in SUBSET Moments
  BY PlayType
<1>2. PICK w : w = WidthOf(Seen(ts))
  OBVIOUS
<1>3. PICK t \in Seen(ts) : b <= t /\ t < b + w
  BY <1>1, <1>2, BucketIs
<1>4. w \in Nat \ {0} /\ w = WidthAt(Seen(ts), play.asOf) /\ b \in Moments /\ b \in Nat
  BY <1>1, <1>2, <1>3, BucketIs, MomentSets
<1>5. Seen(ts) \in SUBSET Moments /\ play.asOf # Blank /\ Seen(ts) \in SeenTimes
  BY <1>1, <1>3, SeenIs DEF SeenTimes
<1>6. PICK mn : mn = Min(Seen(ts))
  OBVIOUS
<1>7. mn <= t /\ mn \in Nat /\ t \in Nat
  BY <1>3, <1>5, <1>6, MomentSets
<1>8. mn - w < b
  BY <1>3, <1>4, <1>7
<1>. QED  BY <1>3, <1>4, <1>5, <1>6, <1>8

AllRows == Buckets(play.traffic) \cup Buckets(play.rtt)

LEMMA DomainIs ==
  ASSUME PlayTypeOK, Domain # Blank
  PROVE  /\ AllRows \in SUBSET Moments /\ AllRows # {}
         /\ Domain.min = Min(AllRows) /\ Domain.max = Max(AllRows)
         /\ Domain.step = IF Gaps(AllRows) = {} THEN Cadence ELSE Min(Gaps(AllRows))
         /\ Domain.min \in AllRows /\ Domain.max \in AllRows
         /\ \A x \in AllRows : Domain.min <= x /\ x <= Domain.max
<1>1. AllRows \in SUBSET Moments
  BY PlayType, BucketIs DEF AllRows
<1>2. /\ ~(Cardinality(Buckets(play.traffic)) + Cardinality(Buckets(play.rtt)) < 2)
      /\ Domain.min = Min(AllRows) /\ Domain.max = Max(AllRows)
      /\ Domain.step = IF Gaps(AllRows) = {} THEN Cadence ELSE Min(Gaps(AllRows))
  BY DEF Domain, AllRows
<1>3. AllRows # {}
  <2>. SUFFICES ASSUME AllRows = {}  PROVE FALSE
    OBVIOUS
  <2>1. Buckets(play.traffic) = {} /\ Buckets(play.rtt) = {}
    BY DEF AllRows
  <2>2. Cardinality({}) = 0
    BY FS_EmptySet
  <2>3. Cardinality(Buckets(play.traffic)) = 0 /\ Cardinality(Buckets(play.rtt)) = 0
    BY <2>1, <2>2
  <2>. QED  BY <1>2, <2>3
<1>4. /\ Min(AllRows) \in AllRows /\ \A y \in AllRows : Min(AllRows) <= y
      /\ Max(AllRows) \in AllRows /\ \A y \in AllRows : y <= Max(AllRows)
  BY <1>1, <1>3, MomentSets
<1>. QED  BY <1>1, <1>2, <1>3, <1>4

LEMMA SampledKeeps ==
  ASSUME PlayInv, Sampled
  PROVE  PlayInv'
<1>1. PICK tr, rt : /\ play' = [play EXCEPT !.now = @ + 1, !.traffic = tr, !.rtt = rt]
                    /\ tr \in {play.traffic, play.traffic \cup {play.now}}
                    /\ rt \in {play.rtt, play.rtt \cup {play.now}}
                    /\ play.now < MaxEvent + 1
  <2>1. PICK s \in SUBSET {"traffic", "rtt"} :
          /\ play.now < MaxEvent + 1
          /\ play' = [play EXCEPT !.now = @ + 1,
                      !.traffic = IF "traffic" \in s THEN @ \cup {play.now} ELSE @,
                      !.rtt = IF "rtt" \in s THEN @ \cup {play.now} ELSE @]
    BY DEF Sampled
  <2>2. PICK tr, rt : /\ tr = IF "traffic" \in s THEN play.traffic \cup {play.now} ELSE play.traffic
                      /\ rt = IF "rtt" \in s THEN play.rtt \cup {play.now} ELSE play.rtt
    OBVIOUS
  <2>. QED  BY <2>1, <2>2
<1>2. PlayTypeOK
  BY DEF PlayInv
<1>3. play.now \in Nat /\ play.now \in Moments /\ play.now + 1 \in Moments
  BY <1>1, <1>2, PlayType, ReplayAssumption DEF Moments
<1>4. tr \in SUBSET Moments /\ rt \in SUBSET Moments
  BY <1>1, <1>2, <1>3, PlayType
<1>5. PlayTypeOK'
  BY <1>1, <1>2, <1>3, <1>4 DEF PlayTypeOK
<1>6. /\ play'.now = play.now + 1 /\ play'.traffic = tr /\ play'.rtt = rt
      /\ play'.asOf = play.asOf /\ play'.cursor = play.cursor
  BY <1>1, <1>2 DEF PlayTypeOK
<1>7. \A t \in tr \cup rt : t < play.now + 1
  <2>1. \A t \in tr \cup rt : t \in Nat /\ (t = play.now \/ t \in play.traffic \cup play.rtt)
    BY <1>1, <1>4, MomentSets
  <2>2. \A t \in play.traffic \cup play.rtt : t < play.now
    BY DEF PlayInv
  <2>. QED  BY <1>3, <2>1, <2>2
<1>8. play.asOf # Blank => play.asOf \in Nat /\ play.asOf <= play.now
  BY <1>2, PlayType DEF PlayInv
<1>9. /\ Seen(play.traffic)' = Seen(play.traffic) /\ Seen(play.rtt)' = Seen(play.rtt)
  <2>1. play.asOf # Blank => ~(play.now < play.asOf)
    BY <1>3, <1>8
  <2>2. play.asOf # Blank => /\ {t \in tr : t < play.asOf} = {t \in play.traffic : t < play.asOf}
                             /\ {t \in rt : t < play.asOf} = {t \in play.rtt : t < play.asOf}
    BY <1>1, <2>1
  <2>. QED  BY <1>6, <2>2 DEF Seen
<1>10. SeenTimes' = SeenTimes
  BY <1>9 DEF SeenTimes
<1>11. play.cursor # Blank => play.asOf # Blank /\ CursorInv'
  BY <1>6, <1>10 DEF PlayInv, CursorInv
<1>12. play.asOf # Blank => play.asOf <= play.now + 1
  BY <1>3, <1>8
<1>. QED  BY <1>5, <1>6, <1>7, <1>11, <1>12 DEF PlayInv

LEMMA AnswerKeeps ==
  ASSUME PlayInv, TimelineArrives
  PROVE  PlayInv'
<1>1. PlayTypeOK
  BY DEF PlayInv
<1>2. play' = [play EXCEPT !.asOf = play.now]
  BY DEF TimelineArrives
<1>3. /\ play'.now = play.now /\ play'.traffic = play.traffic /\ play'.rtt = play.rtt
      /\ play'.asOf = play.now /\ play'.cursor = play.cursor
  BY <1>1, <1>2 DEF PlayTypeOK
<1>4. PlayTypeOK' /\ play.now \in Nat /\ play.now \in Moments /\ play.now # Blank
  BY <1>1, <1>2, PlayType DEF PlayTypeOK
<1>5. \A t \in play.traffic \cup play.rtt : t < play.now
  BY DEF PlayInv
<1>6. ASSUME NEW ts \in {play.traffic, play.rtt}, Seen(ts) # {}
      PROVE  /\ ts \in SeenTimes' /\ Seen(ts) \subseteq ts
             /\ WidthAt(Seen(ts), play.asOf) <= WidthAt(ts, play.now) /\ Min(ts) = Min(Seen(ts))
             /\ WidthAt(Seen(ts), play.asOf) \in Nat /\ WidthAt(ts, play.now) \in Nat
  <2>1. ts \in SUBSET Moments /\ \A t \in ts : t < play.now
    BY <1>1, <1>5, PlayType
  <2>2. PICK at, S : at = play.asOf /\ S = Seen(ts)
    OBVIOUS
  <2>3. /\ S \in SUBSET Moments /\ S # {} /\ S \subseteq ts /\ at \in Nat /\ \A t \in S : t < at
        /\ play.asOf # Blank /\ S = {t \in ts : t < at}
    BY <1>1, <1>6, <2>1, <2>2, SeenIs
  <2>4. at <= play.now
    BY <2>2, <2>3 DEF PlayInv
  <2>5. \A t \in ts : t \in S \/ at <= t
    BY <2>1, <2>3, MomentSets
  <2>6. WidthAt(S, at) <= WidthAt(ts, play.now) /\ Min(ts) = Min(S)
    <3>1. PICK bt : bt = play.now
      OBVIOUS
    <3>2. bt \in Nat /\ at <= bt /\ \A t \in ts : t < bt
      BY <1>4, <2>1, <2>4, <3>1
    <3>3. WidthAt(S, at) <= WidthAt(ts, bt) /\ Min(ts) = Min(S)
      BY <2>1, <2>3, <2>5, <3>2, WidthGrows
    <3>. QED  BY <3>1, <3>3
  <2>7. ts \in SeenTimes'
    <3>1. \A us \in {play.traffic, play.rtt} : {t \in us : t < play.now} = us
      BY <1>5
    <3>2. Seen(play.traffic)' = play.traffic /\ Seen(play.rtt)' = play.rtt
      BY <1>3, <1>4, <3>1 DEF Seen
    <3>. QED  BY <2>3, <3>2 DEF SeenTimes
  <2>8. WidthAt(S, at) \in Nat
    BY <2>3, WidthType
  <2>9. WidthAt(ts, play.now) \in Nat
    <3>1. PICK bt : bt = play.now
      OBVIOUS
    <3>2. bt \in Nat /\ ts # {} /\ \A t \in ts : t < bt
      BY <1>4, <2>1, <2>3, <3>1
    <3>3. WidthAt(ts, bt) \in Nat
      BY <2>1, <3>2, WidthType
    <3>. QED  BY <3>1, <3>3
  <2>. QED  BY <2>2, <2>3, <2>6, <2>7, <2>8, <2>9
<1>7. ASSUME play.cursor # Blank  PROVE CursorInv'
  <2>1. CursorInv /\ play.cursor \in Nat
    BY <1>1, <1>7, PlayType DEF PlayInv
  <2>2. PICK ts \in {play.traffic, play.rtt} :
          Seen(ts) # {} /\ \E u \in Seen(ts) : play.cursor <= u
    BY <2>1 DEF CursorInv, SeenTimes
  <2>3. PICK us \in {play.traffic, play.rtt} :
          Seen(us) # {} /\ Min(Seen(us)) - WidthAt(Seen(us), play.asOf) < play.cursor
    BY <2>1 DEF CursorInv, SeenTimes
  <2>4. ts \in SeenTimes' /\ \E u \in ts : play'.cursor <= u
    BY <1>3, <1>6, <2>2
  <2>5. us \in SeenTimes' /\ Min(us) - WidthAt(us, play'.asOf) < play'.cursor
    <3>0. PICK mn : mn = Min(us)
      OBVIOUS
    <3>1. PICK w \in Nat, v \in Nat :
            w = WidthAt(Seen(us), play.asOf) /\ v = WidthAt(us, play.now) /\ mn = Min(us) /\ w <= v
            /\ mn = Min(Seen(us))
      BY <1>6, <2>3, <3>0
    <3>2. mn \in Nat
      <4>1. us \in SUBSET Moments /\ us # {}
        BY <1>1, <1>6, <2>3, PlayType
      <4>. QED  BY <3>1, <4>1, MomentSets
    <3>3. mn - v < play.cursor
      BY <2>1, <2>3, <3>1, <3>2
    <3>. QED  BY <1>3, <1>6, <2>3, <3>1, <3>3
  <2>. QED  BY <2>4, <2>5 DEF CursorInv
<1>. QED  BY <1>3, <1>4, <1>5, <1>7 DEF PlayInv

LEMMA PlayInvStep ==
  ASSUME PlayInv, [PlayNext]_play
  PROVE  PlayInv'
<1>1. PlayTypeOK
  BY DEF PlayInv
<1>2. ASSUME NEW c, play' = [play EXCEPT !.cursor = c], c \in Moments,
             \E ts \in {play.traffic, play.rtt} : \E u \in Seen(ts) : c <= u,
             \E ts \in {play.traffic, play.rtt} :
               Seen(ts) # {} /\ Min(Seen(ts)) - WidthAt(Seen(ts), play.asOf) < c,
             play.asOf # Blank
      PROVE  PlayInv'
  <2>1. /\ PlayTypeOK' /\ play'.now = play.now /\ play'.traffic = play.traffic
        /\ play'.rtt = play.rtt /\ play'.asOf = play.asOf /\ play'.cursor = c
    BY <1>1, <1>2 DEF PlayTypeOK
  <2>2. SeenTimes' = SeenTimes
    BY <2>1 DEF SeenTimes, Seen
  <2>3. (\E s \in SeenTimes : \E u \in s : c <= u)
        /\ \E s \in SeenTimes : Min(s) - WidthAt(s, play.asOf) < c
    BY <1>2 DEF SeenTimes
  <2>. QED  BY <1>2, <2>1, <2>2, <2>3 DEF PlayInv, CursorInv
<1>3. CASE HoverChart
  <2>1. PICK ts \in {play.traffic, play.rtt}, m \in Moments :
          Buckets(ts) # {} /\ play' = [play EXCEPT !.cursor = NearestRow(Buckets(ts), m)]
    BY <1>3 DEF HoverChart
  <2>2. PICK c : c = NearestRow(Buckets(ts), m)
    OBVIOUS
  <2>3. c \in Buckets(ts)
    BY <1>1, <2>1, <2>2, NearestIsRow, BucketIs, PlayType
  <2>4. /\ play.asOf # Blank /\ c \in Moments /\ Min(Seen(ts)) - WidthAt(Seen(ts), play.asOf) < c
        /\ \E u \in Seen(ts) : c <= u
    BY <1>1, <2>3, RowIsNear
  <2>. QED  BY <1>2, <2>1, <2>2, <2>4
<1>4. CASE Scrub
  <2>1. PICK c \in Positions(Domain) : Domain # Blank /\ play' = [play EXCEPT !.cursor = c]
    BY <1>4 DEF Scrub
  <2>2. c \in Domain.min..Domain.max
    BY <2>1 DEF Positions
  <2>3. Domain.min \in AllRows /\ Domain.max \in AllRows /\ AllRows \in SUBSET Moments
    BY <1>1, <2>1, DomainIs
  <2>4. PICK mn \in Nat, mx \in Nat : mn = Domain.min /\ mx = Domain.max /\ mx \in Moments /\ c \in mn..mx
    BY <2>2, <2>3, MomentSets
  <2>5. c \in Moments /\ c \in Nat /\ mn <= c /\ c <= mx
    BY <2>4, ReplayAssumption DEF Moments
  <2>6. PICK ts \in {play.traffic, play.rtt} : mn \in Buckets(ts)
    BY <2>3, <2>4 DEF AllRows
  <2>7. PICK us \in {play.traffic, play.rtt} : mx \in Buckets(us)
    BY <2>3, <2>4 DEF AllRows
  <2>8. /\ play.asOf # Blank /\ Seen(ts) # {} /\ Seen(ts) \in SUBSET Moments
        /\ Min(Seen(ts)) - WidthAt(Seen(ts), play.asOf) < mn
    BY <1>1, <2>6, RowIsNear, SeenIs, PlayType
  <2>9. PICK u \in Seen(us) : mx <= u
    BY <1>1, <2>7, RowIsNear
  <2>10. c <= u
    <3>1. u \in Nat
      BY <1>1, <2>9, SeenIs, PlayType, MomentSets
    <3>. QED  BY <2>4, <2>5, <2>9, <3>1
  <2>11. Min(Seen(ts)) - WidthAt(Seen(ts), play.asOf) < c
    <3>1. PICK a, w : a = Min(Seen(ts)) /\ w = WidthAt(Seen(ts), play.asOf)
      OBVIOUS
    <3>2. a \in Nat
      BY <2>8, <3>1, MomentSets
    <3>3. w \in Nat
      <4>1. ts \in SUBSET Moments
        BY <1>1, PlayType
      <4>. QED  BY <1>1, <2>8, <3>1, <4>1, BucketIs
    <3>. QED  BY <2>4, <2>5, <2>8, <3>1, <3>2, <3>3
  <2>. QED  BY <1>2, <2>1, <2>5, <2>8, <2>9, <2>10, <2>11
<1>5. CASE LeaveChart
  <2>1. play' = [play EXCEPT !.cursor = Blank]
    BY <1>5 DEF LeaveChart
  <2>2. /\ PlayTypeOK' /\ play'.now = play.now /\ play'.traffic = play.traffic
        /\ play'.rtt = play.rtt /\ play'.asOf = play.asOf /\ play'.cursor = Blank
    BY <1>1, <2>1 DEF PlayTypeOK
  <2>. QED  BY <2>2 DEF PlayInv
<1>6. CASE UNCHANGED play
  BY <1>6 DEF PlayInv, PlayTypeOK, CursorInv, SeenTimes, Seen
<1>. QED  BY <1>3, <1>4, <1>5, <1>6, SampledKeeps, AnswerKeeps DEF PlayNext

LEMMA GapsAre ==
  ASSUME NEW S \in SUBSET Moments
  PROVE  /\ Gaps(S) \in SUBSET Moments
         /\ \A g \in Gaps(S) : g > 0 /\ \E x \in S, y \in S : g = x - y
<1>1. \A g \in Gaps(S) : g \in Nat \ {0} /\ \E x \in S, y \in S : g = x - y
  BY DEF Gaps
<1>2. \A x \in S, y \in S : x \in Nat /\ y \in Nat /\ x <= MaxEvent + 1
  BY ReplayAssumption DEF Moments
<1>3. \A g \in Gaps(S) : g \in Moments
  BY <1>1, <1>2, ReplayAssumption DEF Moments
<1>. QED  BY <1>1, <1>3

\* What is left of the multiples of a width is at least that width.
LEMMA GapsOfMultiples ==
  ASSUME NEW S \in SUBSET Moments, NEW w \in Nat \ {0}, \A x \in S : \E p \in Int : x = w * p
  PROVE  /\ \A g \in Gaps(S) : w <= g
         /\ w \in Gaps(S) => Min(Gaps(S)) = w
         /\ \A x \in S, y \in S : (x - y) % w = 0
<1>1. \A g \in Gaps(S) : w <= g
  <2>. SUFFICES ASSUME NEW g \in Gaps(S)  PROVE w <= g
    OBVIOUS
  <2>1. PICK x \in S, y \in S : g = x - y /\ g > 0
    BY GapsAre
  <2>2. PICK p \in Int, q \in Int : x = w * p /\ y = w * q
    OBVIOUS
  <2>3. w * q < w * p
    BY <2>1, <2>2
  <2>4. q < p
    BY <2>3
  <2>5. w * q + w <= w * p
    BY <2>4
  <2>. QED  BY <2>1, <2>2, <2>5
<1>2. ASSUME w \in Gaps(S)  PROVE Min(Gaps(S)) = w
  <2>1. PICK m : m = Min(Gaps(S))
    OBVIOUS
  <2>2. m \in Gaps(S) /\ m <= w /\ m \in Nat
    BY <1>2, <2>1, GapsAre, MomentSets
  <2>3. w <= m
    BY <1>1, <2>2
  <2>. QED  BY <2>1, <2>2, <2>3
<1>3. ASSUME NEW x \in S, NEW y \in S  PROVE (x - y) % w = 0
  <2>1. PICK p \in Int, q \in Int : x = w * p /\ y = w * q
    OBVIOUS
  <2>2. x - y = w * (p - q) /\ p - q \in Int
    BY <2>1
  <2>3. PICK r \in Int : r = p - q
    BY <2>2
  <2>4. (w * r) % w = 0
    OBVIOUS
  <2>. QED  BY <2>2, <2>3, <2>4
<1>. QED  BY <1>1, <1>2, <1>3

\* A bucket holds no more samples than it is wide.
LEMMA BucketHolds ==
  ASSUME PlayTypeOK, NEW ts \in SUBSET Moments, Seen(ts) # {}, NEW b \in Moments
  PROVE  Cardinality({s \in Seen(ts) : FloorTo(s, WidthOf(Seen(ts))) = b}) <= WidthOf(Seen(ts))
<1>1. PICK w \in Nat \ {0} : w = WidthOf(Seen(ts))
  BY BucketIs
<1>. DEFINE H == {s \in Seen(ts) : FloorTo(s, w) = b}
<1>2. PICK c \in Nat, d \in Int : c = b /\ d = b + w - 1
  BY MomentSets
<1>3. \A s \in H : s \in c..d
  <2>. SUFFICES ASSUME NEW s \in Seen(ts), FloorTo(s, w) = b  PROVE s \in c..d
    OBVIOUS
  <2>1. s \in Int /\ s \in Nat
    BY SeenIs, MomentSets
  <2>2. FloorTo(s, w) <= s /\ s < FloorTo(s, w) + w
    BY <2>1, FloorIs
  <2>. QED  BY <1>2, <2>1, <2>2
<1>4. IsFiniteSet(c..d) /\ Cardinality(c..d) = IF c > d THEN 0 ELSE d - c + 1
  BY FS_Interval
<1>5. Cardinality(c..d) = w
  BY <1>2, <1>4
<1>. HIDE DEF H
<1>6. H \in SUBSET (c..d)
  BY <1>3
<1>7. Cardinality(H) <= Cardinality(c..d)
  BY <1>4, <1>6, FS_Subset
<1>. QED  BY <1>1, <1>5, <1>7 DEF H

LEMMA ReplayPromise ==
  ASSUME PlayInv
  PROVE  ReplayTells
<1>1. PlayTypeOK
  BY DEF PlayInv
<1>2. play.traffic \in SUBSET Moments /\ play.rtt \in SUBSET Moments
  BY <1>1, PlayType
<1>. SUFFICES ASSUME Domain # Blank
              PROVE  LET a == Seen(play.traffic)
                         b == Seen(play.rtt)
                         all == Buckets(play.traffic) \cup Buckets(play.rtt)
                         width == WidthOf(IF a = {} THEN b ELSE a)
                         alike == a = {} \/ b = {} \/ WidthOf(a) = WidthOf(b)
                         widest == Max({WidthOf(s) : s \in {a, b} \ {{}}})
                     IN /\ alike /\ Gaps(all) # {} => Domain.step >= width
                        /\ alike /\ width \in Gaps(all) => Domain.step = width /\ all \subseteq Positions(Domain)
                        /\ play.cursor # Blank =>
                             /\ Domain.min - widest < play.cursor /\ play.cursor < Domain.max + widest
                             /\ alike /\ width \in Gaps(all) => Readout.bytes <= Readout.over
  BY <1>1 DEF ReplayTells
<1>. DEFINE a == Seen(play.traffic)
            b == Seen(play.rtt)
            all == Buckets(play.traffic) \cup Buckets(play.rtt)
            width == WidthOf(IF a = {} THEN b ELSE a)
            alike == a = {} \/ b = {} \/ WidthOf(a) = WidthOf(b)
            V == {WidthOf(s) : s \in {a, b} \ {{}}}
            widest == Max(V)
<1>3. all = AllRows
  BY DEF AllRows
<1>4. /\ all \in SUBSET Moments /\ all # {}
      /\ Domain.step = IF Gaps(all) = {} THEN Cadence ELSE Min(Gaps(all))
      /\ Domain.min \in all /\ Domain.max \in all
      /\ \A x \in all : Domain.min <= x /\ x <= Domain.max
  BY <1>1, <1>3, DomainIs
<1>5. ~(a = {} /\ b = {})
  <2>1. ~(Buckets(play.traffic) = {} /\ Buckets(play.rtt) = {})
    BY <1>4
  <2>. QED  BY <1>1, <1>2, <2>1, BucketIs
<1>6. /\ a # {} => WidthOf(a) \in Nat \ {0} /\ WidthOf(a) = WidthAt(a, play.asOf)
      /\ b # {} => WidthOf(b) \in Nat \ {0} /\ WidthOf(b) = WidthAt(b, play.asOf)
  BY <1>1, <1>2, BucketIs
<1>7. width \in Nat \ {0}
  BY <1>5, <1>6
<1>8. ASSUME alike  PROVE \A x \in all : \E p \in Int : x = width * p
  <2>1. (a # {} => WidthOf(a) = width) /\ (b # {} => WidthOf(b) = width)
    BY <1>8
  <2>2. ASSUME NEW ts \in {play.traffic, play.rtt}, NEW x \in Buckets(ts)
        PROVE  \E p \in Int : x = width * p
    <3>1. PICK t \in Seen(ts) : x = FloorTo(t, WidthOf(Seen(ts)))
      BY <1>1, <1>2, <2>2, BucketIs
    <3>2. WidthOf(Seen(ts)) = width
      BY <2>1, <3>1
    <3>3. t \in Int
      BY <1>1, <1>2, <3>1, SeenIs, MomentSets
    <3>4. PICK w \in Nat \ {0} : w = width
      BY <1>7
    <3>. HIDE DEF width
    <3>5. FloorTo(t, w) = w * (t \div w) /\ t \div w \in Int
      BY <3>3, <3>4, FloorIs
    <3>. QED  BY <3>1, <3>2, <3>4, <3>5
  <2>. QED  BY <2>2
<1>9. ASSUME alike
      PROVE  /\ \A g \in Gaps(all) : width <= g
             /\ width \in Gaps(all) => Min(Gaps(all)) = width
             /\ \A x \in all, y \in all : (x - y) % width = 0
  <2>. HIDE DEF width, alike, all
  <2>1. PICK w \in Nat \ {0} : w = width
    BY <1>7
  <2>2. \A x \in all : \E p \in Int : x = w * p
    BY <1>8, <1>9, <2>1
  <2>3. /\ \A g \in Gaps(all) : w <= g
        /\ w \in Gaps(all) => Min(Gaps(all)) = w
        /\ \A x \in all, y \in all : (x - y) % w = 0
    BY <1>4, <2>2, GapsOfMultiples
  <2>. QED  BY <2>1, <2>3
<1>10. ASSUME alike, Gaps(all) # {}  PROVE Domain.step >= width
  <2>. HIDE DEF width, alike, all
  <2>1. Min(Gaps(all)) \in Gaps(all) /\ Min(Gaps(all)) \in Nat
    BY <1>4, <1>10, GapsAre, MomentSets
  <2>. QED  BY <1>4, <1>7, <1>9, <1>10, <2>1
<1>11. ASSUME alike, width \in Gaps(all)
       PROVE  Domain.step = width /\ all \subseteq Positions(Domain)
  <2>. HIDE DEF width, alike, all
  <2>1. Domain.step = width
    BY <1>4, <1>9, <1>11
  <2>2. \A x \in all : x \in Domain.min..Domain.max /\ (x - Domain.min) % Domain.step = 0
    <3>1. \A x \in all : x \in Nat
      BY <1>4, MomentSets
    <3>2. \A x \in all : (x - Domain.min) % width = 0
      BY <1>4, <1>9, <1>11
    <3>. QED  BY <1>4, <2>1, <3>1, <3>2
  <2>. QED  BY <2>1, <2>2 DEF Positions
<1>12. \A s \in {a, b} \ {{}} : WidthOf(s) \in Nat /\ WidthOf(s) <= widest /\ widest \in Nat
  <2>2. IsFiniteSet({WidthOf(a), WidthOf(b)})
    <3>1. PICK u, v : u = WidthOf(a) /\ v = WidthOf(b)
      OBVIOUS
    <3>2. IsFiniteSet({})
      BY FS_EmptySet
    <3>3. IsFiniteSet({} \cup {u})
      BY <3>2, FS_AddElement
    <3>4. IsFiniteSet(({} \cup {u}) \cup {v})
      BY <3>3, FS_AddElement
    <3>5. ({} \cup {u}) \cup {v} = {WidthOf(a), WidthOf(b)}
      BY <3>1
    <3>. QED  BY <3>4, <3>5
  <2>3. V \in SUBSET {WidthOf(a), WidthOf(b)} /\ V # {} /\ \A v \in V : v \in Nat
    BY <1>5, <1>6
  <2>4. \A s \in {a, b} \ {{}} : WidthOf(s) \in V
    OBVIOUS
  <2>. HIDE DEF V, a, b
  <2>5. IsFiniteSet(V) /\ V \in SUBSET Int
    BY <2>2, <2>3, FS_Subset
  <2>6. Max(V) \in V /\ \A y \in V : y <= Max(V)
    BY <2>3, <2>5, MaxIs
  <2>. QED  BY <2>3, <2>4, <2>6
<1>13. ASSUME play.cursor # Blank
       PROVE  Domain.min - widest < play.cursor /\ play.cursor < Domain.max + widest
  <2>1. play.cursor \in Nat /\ CursorInv /\ SeenTimes = {a, b} \ {{}}
    BY <1>1, <1>13, PlayType DEF PlayInv, SeenTimes
  <2>. HIDE DEF widest
  <2>2. ASSUME NEW ts \in {play.traffic, play.rtt}, Seen(ts) # {}
        PROVE  /\ Seen(ts) \in SUBSET Moments /\ WidthOf(Seen(ts)) = WidthAt(Seen(ts), play.asOf)
               /\ WidthOf(Seen(ts)) \in Nat /\ WidthOf(Seen(ts)) <= widest /\ widest \in Nat
               /\ \A u \in Seen(ts) : FloorTo(u, WidthOf(Seen(ts))) \in all
    <3>1. Seen(ts) \in SUBSET Moments /\ WidthOf(Seen(ts)) = WidthAt(Seen(ts), play.asOf)
      BY <1>1, <1>2, SeenIs, BucketIs
    <3>2. WidthOf(Seen(ts)) \in Nat /\ WidthOf(Seen(ts)) <= widest /\ widest \in Nat
      BY <1>12, <2>2
    <3>3. \A u \in Seen(ts) : FloorTo(u, WidthOf(Seen(ts))) \in Buckets(ts)
      BY DEF Buckets
    <3>. QED  BY <3>1, <3>2, <3>3
  <2>3. Domain.min - widest < play.cursor
    <3>1. PICK ts \in {play.traffic, play.rtt} :
            Seen(ts) # {} /\ Min(Seen(ts)) - WidthAt(Seen(ts), play.asOf) < play.cursor
      BY <2>1 DEF CursorInv
    <3>2. PICK mn, w \in Nat : mn = Min(Seen(ts)) /\ w = WidthOf(Seen(ts)) /\ mn \in Nat
      BY <2>2, <3>1, MomentSets
    <3>3. mn \in Seen(ts) /\ mn - w < play.cursor /\ w <= widest /\ widest \in Nat
      BY <2>2, <3>1, <3>2, MomentSets
    <3>4. w \in Nat \ {0}
      BY <1>1, <1>2, <3>1, <3>2, BucketIs
    <3>5. FloorTo(mn, w) \in all /\ FloorTo(mn, w) <= mn /\ FloorTo(mn, w) \in Int
      <4>1. mn \in Int
        BY <3>2
      <4>. QED  BY <2>2, <3>1, <3>2, <3>3, <3>4, <4>1, FloorIs
    <3>6. Domain.min <= FloorTo(mn, w) /\ Domain.min \in Nat
      BY <1>4, <3>5, MomentSets
    <3>. QED  BY <2>1, <3>2, <3>3, <3>5, <3>6
  <2>4. play.cursor < Domain.max + widest
    <3>1. PICK ts \in {play.traffic, play.rtt} : Seen(ts) # {} /\ \E u \in Seen(ts) : play.cursor <= u
      BY <2>1 DEF CursorInv
    <3>2. PICK u \in Seen(ts) : play.cursor <= u
      BY <3>1
    <3>3. PICK w \in Nat \ {0} : w = WidthOf(Seen(ts))
      BY <1>1, <1>2, <3>1, BucketIs
    <3>4. u \in Nat /\ u \in Int /\ w <= widest /\ widest \in Nat
      BY <2>2, <3>1, <3>2, <3>3, MomentSets
    <3>5. FloorTo(u, w) \in all /\ u < FloorTo(u, w) + w /\ FloorTo(u, w) \in Int
      BY <2>2, <3>1, <3>2, <3>3, <3>4, FloorIs
    <3>6. FloorTo(u, w) <= Domain.max /\ Domain.max \in Nat
      BY <1>4, <3>5, MomentSets
    <3>. QED  BY <2>1, <3>2, <3>4, <3>5, <3>6
  <2>. QED  BY <2>3, <2>4
<1>14. ASSUME play.cursor # Blank, alike, width \in Gaps(all)
       PROVE  Readout.bytes <= Readout.over
  <2>1. Readout.over = width
    BY <1>11, <1>14 DEF Readout
  <2>2. CASE a = {}
    <3>1. Buckets(play.traffic) = {}
      BY <1>1, <1>2, <2>2, BucketIs
    <3>2. Readout.bytes = 0
      BY <3>1 DEF Readout
    <3>. HIDE DEF width
    <3>. QED  BY <1>7, <2>1, <3>2
  <2>3. CASE a # {}
    <3>1. Buckets(play.traffic) # {}  /\ Buckets(play.traffic) \in SUBSET Moments
      BY <1>1, <1>2, <2>3, BucketIs
    <3>2. PICK t : t = NearestRow(Buckets(play.traffic), play.cursor)
      OBVIOUS
    <3>3. t \in Buckets(play.traffic) /\ t \in Moments
      <4>1. play.cursor \in Moments
        BY <1>1, <1>14, PlayType
      <4>. QED  BY <3>1, <3>2, <4>1, NearestIsRow
    <3>4. Readout.bytes = Cardinality({s \in a : FloorTo(s, WidthOf(a)) = t})
      BY <3>1, <3>2 DEF Readout
    <3>5. Cardinality({s \in a : FloorTo(s, WidthOf(a)) = t}) <= WidthOf(a)
      BY <1>1, <1>2, <2>3, <3>3, BucketHolds
    <3>6. WidthOf(a) = width
      BY <2>3
    <3>. QED  BY <2>1, <3>4, <3>5, <3>6
  <2>. QED  BY <2>2, <2>3
<1>. HIDE DEF a, b, all, width, alike, widest
<1>15. /\ alike /\ Gaps(all) # {} => Domain.step >= width
       /\ alike /\ width \in Gaps(all) => Domain.step = width /\ all \subseteq Positions(Domain)
       /\ play.cursor # Blank =>
            /\ Domain.min - widest < play.cursor /\ play.cursor < Domain.max + widest
            /\ alike /\ width \in Gaps(all) => Readout.bytes <= Readout.over
  BY <1>10, <1>11, <1>13, <1>14
<1>. QED  BY <1>15 DEF a, b, all, width, alike, widest

-----------------------------------------------------------------------------
(* The charts.                                                             *)

\* Buckets start at multiples of their width: between two of them there is room for those
\* that lie between.
Spaced(bs) == \A i, j \in DOMAIN bs : i < j => bs[i].t + Width * (j - i) <= bs[j].t

ChartsInv == ChartsTypeOK /\ Spaced(history)

LEMMA ChartBucket ==
  ASSUME NEW e \in Bucket
  PROVE  /\ e.t \in Nat /\ \E p \in Nat : e.t = Width * p
         /\ e.out \in 0..MaxRate /\ e.out \in Nat /\ e.conns \in {Unknown, 1}
<1>1. Width \in Nat \ {0} /\ MaxRate \in Nat
  BY ChartsAssumption
<1>2. PICK i \in 0..MaxSlot : e.t = Width * i
  BY DEF Bucket
<1>3. i \in Nat /\ e.out \in 0..MaxRate /\ e.conns \in {Unknown, 1}
  BY ChartsAssumption DEF Bucket
<1>. QED  BY <1>1, <1>2, <1>3

LEMMA ChartBuckets ==
  ASSUME NEW bs \in Seq(Bucket)
  PROVE  /\ Len(bs) \in Nat /\ DOMAIN bs = 1..Len(bs)
         /\ \A i \in 1..Len(bs) :
              /\ bs[i] \in Bucket /\ bs[i].t \in Nat /\ \E p \in Nat : bs[i].t = Width * p
              /\ bs[i].out \in 0..MaxRate /\ bs[i].out \in Nat /\ bs[i].conns \in {Unknown, 1}
         /\ bs # <<>> => /\ 1 \in 1..Len(bs) /\ Len(bs) \in 1..Len(bs)
                         /\ Head(bs) = bs[1] /\ Last(bs) = bs[Len(bs)]
<1>1. Len(bs) \in Nat /\ DOMAIN bs = 1..Len(bs) /\ \A i \in 1..Len(bs) : bs[i] \in Bucket
  OBVIOUS
<1>2. bs # <<>> => /\ 1 \in 1..Len(bs) /\ Len(bs) \in 1..Len(bs)
                   /\ Head(bs) = bs[1] /\ Last(bs) = bs[Len(bs)]
  BY DEF Last
<1>. QED  BY <1>1, <1>2, ChartBucket

\* Of two multiples of the width, the greater is greater by a width at least.
LEMMA WidthApart ==
  ASSUME NEW x \in Nat, NEW y \in Nat, \E p \in Nat : x = Width * p, \E q \in Nat : y = Width * q,
         x < y
  PROVE  x + Width <= y
<1>1. PICK p \in Nat, q \in Nat : x = Width * p /\ y = Width * q
  OBVIOUS
<1>2. Width \in Nat \ {0}
  BY ChartsAssumption
<1>3. p < q
  BY <1>1, <1>2
<1>4. Width * p + Width <= Width * q
  BY <1>2, <1>3
<1>. QED  BY <1>1, <1>4

LEMMA ChartsInvInit == ChartsInit => ChartsInv
BY DEF ChartsInit, ChartsInv, ChartsTypeOK, Spaced

LEMMA ChartsInvStep ==
  ASSUME ChartsInv, [ChartsNext]_history
  PROVE  ChartsInv'
<1>1. CASE Record
  <2>1. PICK e \in Bucket : /\ history # <<>> => e.t > Last(history).t
                            /\ history' = Append(history, e)
    BY <1>1 DEF Record
  <2>2. history \in Seq(Bucket)
    BY DEF ChartsInv, ChartsTypeOK
  <2>3. PICK n \in Nat : n = Len(history) /\ DOMAIN history = 1..n
    BY <2>2
  <2>4. /\ history' \in Seq(Bucket) /\ DOMAIN history' = 1..(n + 1) /\ history'[n + 1] = e
        /\ \A i \in 1..n : history'[i] = history[i]
    <3>1. history' \in Seq(Bucket) /\ Len(history') = n + 1 /\ history'[n + 1] = e
      BY <2>1, <2>2, <2>3
    <3>2. \A i \in 1..n : history'[i] = history[i]
      BY <2>1, <2>2, <2>3
    <3>. QED  BY <3>1, <3>2
  <2>5. Width \in Nat \ {0} /\ e.t \in Nat
    BY ChartsAssumption, ChartBucket
  <2>6. n # 0 => history[n].t + Width <= e.t /\ history[n].t \in Nat
    <3>. SUFFICES ASSUME n # 0  PROVE history[n].t + Width <= e.t /\ history[n].t \in Nat
      OBVIOUS
    <3>1. history # <<>> /\ n \in 1..n
      BY <2>2, <2>3
    <3>2. Last(history) = history[n] /\ history[n].t \in Nat /\ \E p \in Nat : history[n].t = Width * p
      BY <2>2, <2>3, <3>1, ChartBuckets
    <3>3. PICK x \in Nat, y \in Nat : x = history[n].t /\ y = e.t
      BY <2>5, <3>2
    <3>4. x < y /\ (\E p \in Nat : x = Width * p) /\ \E q \in Nat : y = Width * q
      BY <2>1, <3>1, <3>2, <3>3, ChartBucket
    <3>5. x + Width <= y
      BY <3>4, WidthApart
    <3>. QED  BY <3>3, <3>5
  <2>7. ASSUME NEW i \in 1..(n + 1), NEW j \in 1..(n + 1), i < j
        PROVE  history'[i].t + Width * (j - i) <= history'[j].t
    <3>1. i \in 1..n /\ history'[i] = history[i] /\ history[i].t \in Nat /\ n # 0
      <4>1. i \in 1..n /\ n # 0
        BY <2>7
      <4>. QED  BY <2>2, <2>3, <2>4, <4>1, ChartBuckets
    <3>2. CASE j = n + 1
      <4>1. PICK x \in Nat, y \in Nat, z \in Nat :
              x = history[i].t /\ y = history[n].t /\ z = e.t /\ y + Width <= z
        BY <2>5, <2>6, <3>1
      <4>2. x + Width * (n - i) <= y
        <5>1. CASE i = n
          BY <2>5, <4>1, <5>1
        <5>2. CASE i # n
          <6>1. i < n /\ n \in 1..n
            BY <3>1, <5>2
          <6>. QED  BY <2>3, <3>1, <4>1, <6>1 DEF ChartsInv, Spaced
        <5>. QED  BY <5>1, <5>2
      <4>3. PICK d \in Nat : d = n - i /\ d + 1 = j - i
        BY <3>1, <3>2
      <4>4. Width * (d + 1) = Width * d + Width
        BY <2>5
      <4>5. PICK w \in Nat : w = Width * d
        BY <2>5
      <4>6. x + w <= y /\ Width * (j - i) = w + Width
        BY <4>2, <4>3, <4>4, <4>5
      <4>7. x + (w + Width) <= z
        BY <2>5, <4>1, <4>6
      <4>. QED  BY <2>4, <3>1, <3>2, <4>1, <4>6, <4>7
    <3>3. CASE j # n + 1
      <4>1. j \in 1..n
        BY <3>3
      <4>. QED  BY <2>3, <2>4, <2>7, <3>1, <4>1 DEF ChartsInv, Spaced
    <3>. QED  BY <3>2, <3>3
  <2>. QED  BY <2>4, <2>7 DEF ChartsInv, ChartsTypeOK, Spaced
<1>2. CASE UNCHANGED history
  BY <1>2 DEF ChartsInv, ChartsTypeOK, Spaced
<1>. QED  BY <1>1, <1>2 DEF ChartsNext

-----------------------------------------------------------------------------
(* The strip of uptime.                                                    *)

Stretch == [a : Nat, b : Nat]

Covers(spells, x) == \E i \in DOMAIN spells : spells[i].a <= x /\ x < spells[i].b

\* The runs of the first n buckets.
RunsOf(spells, n) ==
  /\ spells \in Seq(Stretch)
  /\ n = 0 => spells = <<>>
  /\ n > 0 => spells # <<>> /\ spells[Len(spells)].b = history[n].t + Width
  /\ \A i \in DOMAIN spells : spells[i].a < spells[i].b
  /\ \A i \in 1..(Len(spells) - 1) : spells[i].b < spells[i + 1].a
  /\ \A x \in Int : Covers(spells, x) <=> \E j \in 1..n : history[j].t <= x /\ x < history[j].t + Width

NextRuns(spells, e) ==
  IF spells # <<>> /\ 2 * (e.t - Last(spells).b) <= Width
  THEN [spells EXCEPT ![Len(spells)] = [a |-> @.a, b |-> e.t + Width]]
  ELSE Append(spells, [a |-> e.t, b |-> e.t + Width])

LEMMA NextRunsType ==
  ASSUME NEW spells \in Seq(Stretch), NEW e \in Bucket
  PROVE  NextRuns(spells, e) \in Seq(Stretch)
<1>1. e.t \in Nat /\ Width \in Nat /\ e.t + Width \in Nat
  BY ChartBucket, ChartsAssumption
<1>2. [a |-> e.t, b |-> e.t + Width] \in Stretch
  BY <1>1 DEF Stretch
<1>3. ASSUME spells # <<>>
      PROVE  [spells EXCEPT ![Len(spells)] = [a |-> @.a, b |-> e.t + Width]] \in Seq(Stretch)
  <2>1. PICK n \in Nat : n = Len(spells) /\ n \in 1..n /\ DOMAIN spells = 1..n
    BY <1>3
  <2>2. spells[n] \in Stretch
    BY <2>1
  <2>3. PICK r \in Stretch : r = [a |-> spells[n].a, b |-> e.t + Width]
    BY <1>1, <2>2 DEF Stretch
  <2>4. [spells EXCEPT ![n] = r] \in Seq(Stretch)
    BY <2>1
  <2>. QED  BY <2>1, <2>3, <2>4
<1>. QED  BY <1>2, <1>3 DEF NextRuns

LEMMA RunsGrow ==
  ASSUME ChartsInv, NEW n \in Nat, n + 1 \in DOMAIN history, NEW spells, RunsOf(spells, n)
  PROVE  RunsOf(NextRuns(spells, history[n + 1]), n + 1)
<1>1. history \in Seq(Bucket) /\ Width \in Nat \ {0}
  BY ChartsAssumption DEF ChartsInv, ChartsTypeOK
<1>2. PICK e \in Bucket : e = history[n + 1] /\ e.t \in Nat
  BY <1>1, ChartBuckets
<1>3. \A j \in 1..(n + 1) : j \in 1..n \/ j = n + 1
  OBVIOUS
<1>4. \A j \in 1..n : j \in DOMAIN history /\ history[j].t \in Nat
  <2>1. Len(history) \in Nat /\ DOMAIN history = 1..Len(history) /\ n + 1 <= Len(history)
    BY <1>1
  <2>2. \A j \in 1..n : j \in 1..Len(history)
    BY <2>1
  <2>. QED  BY <1>1, <2>1, <2>2, ChartBuckets
<1>5. PICK y : y = NextRuns(spells, e)
  OBVIOUS
<1>6. y \in Seq(Stretch) /\ spells \in Seq(Stretch)
  BY <1>5, NextRunsType DEF RunsOf
<1>7. PICK m \in Nat : m = Len(spells) /\ DOMAIN spells = 1..m
  BY <1>6
<1>8. \A i \in 1..m : spells[i] \in Stretch /\ spells[i].a \in Nat /\ spells[i].b \in Nat /\ spells[i].a < spells[i].b
  <2>1. \A i \in 1..m : spells[i] \in Stretch
    BY <1>6, <1>7
  <2>2. \A r \in Stretch : r.a \in Nat /\ r.b \in Nat
    BY DEF Stretch
  <2>3. \A i \in 1..m : spells[i].a < spells[i].b
    BY <1>7 DEF RunsOf
  <2>. QED  BY <2>1, <2>2, <2>3
<1>9. \A x \in Int :
        Covers(y, x) <=> Covers(spells, x) \/ (e.t <= x /\ x < e.t + Width)
      =>  (Covers(y, x) <=> \E j \in 1..(n + 1) : history[j].t <= x /\ x < history[j].t + Width)
  <2>. SUFFICES ASSUME NEW x \in Int,
                       Covers(y, x) <=> Covers(spells, x) \/ (e.t <= x /\ x < e.t + Width)
                PROVE  Covers(y, x) <=> \E j \in 1..(n + 1) : history[j].t <= x /\ x < history[j].t + Width
    OBVIOUS
  <2>1. Covers(spells, x) <=> \E j \in 1..n : history[j].t <= x /\ x < history[j].t + Width
    BY DEF RunsOf
  <2>2. n + 1 \in 1..(n + 1) /\ \A j \in 1..n : j \in 1..(n + 1)
    OBVIOUS
  <2>. QED  BY <1>2, <1>3, <2>1, <2>2
<1>10. CASE n = 0
  <2>1. spells = <<>>
    BY <1>10 DEF RunsOf
  <2>2. y = <<[a |-> e.t, b |-> e.t + Width]>>
    BY <1>5, <2>1 DEF NextRuns
  <2>3. Len(y) = 1 /\ DOMAIN y = 1..1 /\ y[1].a = e.t /\ y[1].b = e.t + Width /\ y # <<>>
    BY <2>2
  <2>4. \A i \in 1..1 : i = 1
    OBVIOUS
  <2>5. \A x \in Int : Covers(y, x) <=> Covers(spells, x) \/ (e.t <= x /\ x < e.t + Width)
    <3>1. \A x \in Int : ~Covers(spells, x)
      BY <2>1 DEF Covers
    <3>2. 1 \in 1..1
      OBVIOUS
    <3>. QED  BY <2>3, <2>4, <3>1, <3>2 DEF Covers
  <2>6. \A x \in Int : Covers(y, x) <=> \E j \in 1..(n + 1) : history[j].t <= x /\ x < history[j].t + Width
    BY <1>9, <2>5
  <2>7. \A i \in DOMAIN y : y[i].a < y[i].b
    BY <1>1, <1>2, <2>3, <2>4
  <2>8. \A i \in 1..(Len(y) - 1) : y[i].b < y[i + 1].a
    BY <2>3
  <2>9. y[Len(y)].b = history[n + 1].t + Width /\ n + 1 > 0 /\ n + 1 # 0
    BY <1>2, <2>3
  <2>. QED  BY <1>2, <1>5, <1>6, <2>3, <2>6, <2>7, <2>8, <2>9 DEF RunsOf
<1>11. CASE n # 0
  <2>1. PICK h \in Nat : h = history[n].t /\ n \in 1..n /\ n \in DOMAIN history
    BY <1>4, <1>11
  <2>2. h + Width <= e.t
    <3>1. n < n + 1 /\ (n + 1) - n = 1 /\ Width * 1 = Width
      BY <1>1
    <3>2. history[n].t + Width * ((n + 1) - n) <= history[n + 1].t
      BY <2>1, <3>1 DEF ChartsInv, Spaced
    <3>. QED  BY <1>2, <2>1, <3>1, <3>2
  <2>3. spells # <<>> /\ m \in 1..m /\ spells[m].b = h + Width /\ Last(spells) = spells[m]
    BY <1>6, <1>7, <1>11, <2>1 DEF RunsOf, Last
  <2>4. 2 * (e.t - (h + Width)) <= Width => e.t = h + Width
    <3>1. (\E p \in Nat : h = Width * p) /\ (\E q \in Nat : e.t = Width * q)
      BY <1>1, <1>2, <2>1, ChartBuckets
    <3>2. PICK p \in Nat, q \in Nat : h = Width * p /\ e.t = Width * q
      BY <3>1
    <3>3. Width * (p + 1) = h + Width
      BY <1>1, <3>2
    <3>4. CASE h + Width < e.t
      <4>0. Width \in Nat /\ h + Width \in Nat
        BY <1>1
      <4>1. PICK z \in Nat, v \in Nat : z = h + Width /\ v = e.t
        BY <1>2, <4>0
      <4>2. z + Width <= v
        <5>1. (\E r \in Nat : z = Width * r) /\ (\E r \in Nat : v = Width * r) /\ z < v
          BY <3>2, <3>3, <3>4, <4>1
        <5>. QED  BY <5>1, WidthApart
      <4>. QED  BY <1>1, <4>1, <4>2
    <3>5. CASE ~(h + Width < e.t)
      BY <1>1, <1>2, <2>2, <3>5
    <3>. QED  BY <3>4, <3>5
  <2>5. CASE 2 * (e.t - (h + Width)) <= Width
    <3>1. e.t = h + Width
      BY <2>4, <2>5
    <3>2. PICK r : r = [a |-> spells[m].a, b |-> e.t + Width]
      OBVIOUS
    <3>3. y = [spells EXCEPT ![m] = r]
      BY <1>5, <1>7, <2>3, <2>5, <3>2 DEF NextRuns
    <3>4. /\ DOMAIN y = 1..m /\ Len(y) = m /\ y[m].a = spells[m].a /\ y[m].b = e.t + Width
          /\ \A i \in 1..m : i # m => y[i] = spells[i]
      <4>1. DOMAIN y = 1..m /\ y[m] = r /\ \A i \in 1..m : i # m => y[i] = spells[i]
        BY <1>7, <2>3, <3>3
      <4>2. Len(y) = m
        BY <1>6, <4>1
      <4>. QED  BY <3>2, <4>1, <4>2
    <3>5. \A i \in 1..m : y[i].a = spells[i].a /\ y[i].a < y[i].b
      <4>1. spells[m].a \in Nat /\ spells[m].a < h + Width
        BY <1>8, <2>3
      <4>2. y[m].a < y[m].b
        BY <1>1, <1>2, <3>1, <3>4, <4>1
      <4>. QED  BY <1>8, <3>4, <4>2
    <3>6. \A i \in 1..(m - 1) : y[i].b < y[i + 1].a
      <4>. SUFFICES ASSUME NEW i \in 1..(m - 1)  PROVE y[i].b < y[i + 1].a
        OBVIOUS
      <4>1. i \in 1..m /\ i # m /\ i + 1 \in 1..m
        OBVIOUS
      <4>2. spells[i].b < spells[i + 1].a
        BY <1>7 DEF RunsOf
      <4>. QED  BY <3>4, <3>5, <4>1, <4>2
    <3>7. \A x \in Int : Covers(y, x) <=> Covers(spells, x) \/ (e.t <= x /\ x < e.t + Width)
      <4>. SUFFICES ASSUME NEW x \in Int
                    PROVE  Covers(y, x) <=> Covers(spells, x) \/ (e.t <= x /\ x < e.t + Width)
        OBVIOUS
      <4>0. spells[m].a \in Nat /\ spells[m].a < h + Width
        BY <1>8, <2>3
      <4>1. y[m].a <= x /\ x < y[m].b <=>
              (spells[m].a <= x /\ x < spells[m].b) \/ (e.t <= x /\ x < e.t + Width)
        BY <1>1, <1>2, <2>3, <3>1, <3>4, <4>0
      <4>2. Covers(y, x) => Covers(spells, x) \/ (e.t <= x /\ x < e.t + Width)
        BY <1>7, <2>3, <3>4, <4>1 DEF Covers
      <4>3. Covers(spells, x) => Covers(y, x)
        BY <1>7, <2>3, <3>4, <4>1 DEF Covers
      <4>4. e.t <= x /\ x < e.t + Width => Covers(y, x)
        BY <2>3, <3>4, <4>1 DEF Covers
      <4>. QED  BY <4>2, <4>3, <4>4
    <3>8. \A x \in Int : Covers(y, x) <=> \E j \in 1..(n + 1) : history[j].t <= x /\ x < history[j].t + Width
      BY <1>9, <3>7
    <3>9. y # <<>> /\ n + 1 # 0 /\ y[Len(y)].b = history[n + 1].t + Width
      BY <1>2, <2>3, <3>4
    <3>. QED  BY <1>2, <1>5, <1>6, <3>4, <3>5, <3>6, <3>8, <3>9 DEF RunsOf
  <2>6. CASE ~(2 * (e.t - (h + Width)) <= Width)
    <3>1. h + Width < e.t
      BY <1>1, <1>2, <2>2, <2>6
    <3>2. PICK r : r = [a |-> e.t, b |-> e.t + Width]
      OBVIOUS
    <3>3. y = Append(spells, r) /\ r \in Stretch
      <4>1. y = Append(spells, r)
        BY <1>5, <2>3, <2>6, <3>2 DEF NextRuns
      <4>2. r \in Stretch
        BY <1>1, <1>2, <3>2 DEF Stretch
      <4>. QED  BY <4>1, <4>2
    <3>4. /\ DOMAIN y = 1..(m + 1) /\ Len(y) = m + 1 /\ y[m + 1].a = e.t /\ y[m + 1].b = e.t + Width
          /\ \A i \in 1..m : y[i] = spells[i]
      <4>1. Len(y) = m + 1 /\ y[m + 1] = r /\ \A i \in 1..m : y[i] = spells[i]
        BY <1>6, <1>7, <3>3
      <4>2. DOMAIN y = 1..(m + 1)
        BY <1>6, <4>1
      <4>. QED  BY <3>2, <4>1, <4>2
    <3>5. \A i \in 1..(m + 1) : i \in 1..m \/ i = m + 1
      OBVIOUS
    <3>6. \A i \in 1..(m + 1) : y[i].a < y[i].b
      BY <1>1, <1>2, <1>8, <3>4, <3>5
    <3>7. \A i \in 1..((m + 1) - 1) : y[i].b < y[i + 1].a
      <4>. SUFFICES ASSUME NEW i \in 1..m  PROVE y[i].b < y[i + 1].a
        OBVIOUS
      <4>1. CASE i = m
        BY <2>3, <3>1, <3>4, <4>1
      <4>2. CASE i # m
        <5>1. i \in 1..(m - 1) /\ i + 1 \in 1..m
          BY <4>2
        <5>2. spells[i].b < spells[i + 1].a
          BY <1>7, <5>1 DEF RunsOf
        <5>. QED  BY <3>4, <5>1, <5>2
      <4>. QED  BY <4>1, <4>2
    <3>8. \A x \in Int : Covers(y, x) <=> Covers(spells, x) \/ (e.t <= x /\ x < e.t + Width)
      <4>. SUFFICES ASSUME NEW x \in Int
                    PROVE  Covers(y, x) <=> Covers(spells, x) \/ (e.t <= x /\ x < e.t + Width)
        OBVIOUS
      <4>1. m + 1 \in 1..(m + 1) /\ \A i \in 1..m : i \in 1..(m + 1)
        OBVIOUS
      <4>. QED  BY <1>7, <3>4, <3>5, <4>1 DEF Covers
    <3>9. \A x \in Int : Covers(y, x) <=> \E j \in 1..(n + 1) : history[j].t <= x /\ x < history[j].t + Width
      BY <1>9, <3>8
    <3>10. y # <<>> /\ n + 1 # 0 /\ y[Len(y)].b = history[n + 1].t + Width
      BY <1>2, <3>4
    <3>. QED  BY <1>2, <1>5, <1>6, <3>4, <3>6, <3>7, <3>9, <3>10 DEF RunsOf
  <2>. QED  BY <2>5, <2>6
<1>. QED  BY <1>10, <1>11

LEMMA CoverageIs ==
  ASSUME ChartsInv
  PROVE  RunsOf(CoverageRuns(history), Len(history))
<1>. DEFINE N == Len(history)
            A == Seq(Stretch)
            Round(f, T) == IF T = {} THEN <<>> ELSE NextRuns(f[T \ {Max(T)}], history[Max(T)])
            step == [p \in A \X (1..N) |-> NextRuns(p[1], history[p[2]])]
            left == CHOOSE f : f = [T \in SUBSET DOMAIN history |-> Round(f, T)]
<1>1. N \in Nat /\ DOMAIN history = 1..N /\ \A i \in 1..N : history[i] \in Bucket
  BY DEF ChartsInv, ChartsTypeOK
<1>2. \A a \in A, i \in 1..N :
        step[<<a, i>>] = NextRuns(a, history[i]) /\ step[<<a, i>>] \in A
  <2>. SUFFICES ASSUME NEW a \in A, NEW i \in 1..N
                PROVE  step[<<a, i>>] = NextRuns(a, history[i]) /\ step[<<a, i>>] \in A
    OBVIOUS
  <2>1. NextRuns(a, history[i]) \in A
    BY <1>1, NextRunsType
  <2>. HIDE DEF A, N
  <2>2. <<a, i>> \in A \X (1..N) /\ <<a, i>>[1] = a /\ <<a, i>>[2] = i
    OBVIOUS
  <2>3. step[<<a, i>>] = NextRuns(a, history[i])
    BY <2>2
  <2>. QED  BY <2>1, <2>3
<1>3. <<>> \in A
  OBVIOUS
<1>4. CoverageRuns(history) = left[DOMAIN history]
  BY DEF CoverageRuns, FoldLeft, MapThenFoldSet, NextRuns
<1>. HIDE DEF N, A, step
<1>5. PICK f : Folded(f, <<>>, step, N, A)
  <2>1. step \in [A \X (1..N) -> A]
    BY <1>2 DEF step
  <2>. QED  BY <1>1, <1>3, <2>1, FoldRounds
<1>6. \A T \in SUBSET (1..N) : f[T] = Round(f, T)
  BY <1>2, <1>5 DEF Folded
<1>. HIDE DEF Round
<1>7. f = [T \in SUBSET (1..N) |-> Round(f, T)]
  BY <1>5, <1>6 DEF Folded
<1>8. left = [T \in SUBSET (1..N) |-> Round(left, T)]
  BY <1>1, <1>7
<1>. HIDE DEF left
<1>9. \A T \in SUBSET (1..N) : left[T] = Round(left, T)
  BY <1>8
<1>. DEFINE Good == {i \in Nat : i <= N => RunsOf(left[1..i], i)}
<1>10. 0 \in Good
  <2>1. 1..0 = {} /\ {} \in SUBSET (1..N)
    OBVIOUS
  <2>2. left[1..0] = <<>>
    BY <1>9, <2>1 DEF Round
  <2>3. <<>> \in Seq(Stretch) /\ DOMAIN <<>> = {} /\ Len(<<>>) = 0 /\ 1..(0 - 1) = {}
    OBVIOUS
  <2>4. RunsOf(<<>>, 0)
    BY <2>1, <2>3 DEF RunsOf, Covers
  <2>. QED  BY <2>2, <2>4
<1>11. ASSUME NEW n \in Nat, n \in Good  PROVE n + 1 \in Good
  <2>. SUFFICES ASSUME n + 1 <= N  PROVE RunsOf(left[1..(n + 1)], n + 1)
    OBVIOUS
  <2>. DEFINE i == n + 1
  <2>1. i \in 1..N /\ i - 1 = n
    BY <1>1
  <2>. HIDE DEF i
  <2>2. /\ (1..i) \in SUBSET (1..N) /\ 1..i # {}
        /\ Max(1..i) = i /\ (1..i) \ {Max(1..i)} = 1..(i - 1)
    BY <1>1, <2>1, LastIsMax
  <2>3. left[1..i] = NextRuns(left[1..n], history[i])
    BY <1>9, <2>1, <2>2 DEF Round
  <2>4. RunsOf(left[1..n], n)
    BY <1>1, <1>11
  <2>5. n + 1 \in DOMAIN history
    BY <1>1, <2>1 DEF i
  <2>. QED  BY <2>3, <2>4, <2>5, RunsGrow DEF i
<1>. HIDE DEF Good
<1>12. N \in Good
  BY <1>1, <1>10, <1>11, ByNumbers
<1>. QED  BY <1>1, <1>4, <1>12 DEF Good, N

LEMMA StripTells ==
  ASSUME ChartsInv
  PROVE  RunsAreRecorded
<1>. DEFINE spells == CoverageRuns(history)
<1>1. RunsOf(spells, Len(history)) /\ history \in Seq(Bucket) /\ Width \in Nat \ {0}
  BY CoverageIs, ChartsAssumption DEF ChartsInv, ChartsTypeOK
<1>2. DOMAIN history = 1..Len(history) /\ \A j \in DOMAIN history : history[j].t \in Nat
  BY <1>1, ChartBuckets
<1>. HIDE DEF spells
<1>3. spells \in Seq(Stretch) /\ ToSet(spells) = {spells[i] : i \in DOMAIN spells}
  BY <1>1 DEF RunsOf, ToSet
<1>4. \A i \in DOMAIN spells : spells[i].a \in Nat /\ spells[i].b \in Nat
  <2>1. \A i \in DOMAIN spells : spells[i] \in Stretch
    BY <1>3
  <2>. QED  BY <2>1 DEF Stretch
<1>5. \A x : x \in UNION {r.a..(r.b - 1) : r \in ToSet(spells)} <=> x \in Int /\ Covers(spells, x)
  <2>1. \A x : x \in UNION {r.a..(r.b - 1) : r \in ToSet(spells)} <=>
                 \E i \in DOMAIN spells : x \in spells[i].a..(spells[i].b - 1)
    BY <1>3
  <2>2. \A i \in DOMAIN spells : \A x :
          x \in spells[i].a..(spells[i].b - 1) <=> x \in Int /\ spells[i].a <= x /\ x < spells[i].b
    BY <1>4
  <2>. SUFFICES ASSUME NEW x  PROVE x \in UNION {r.a..(r.b - 1) : r \in ToSet(spells)} <=> x \in Int /\ Covers(spells, x)
    OBVIOUS
  <2>3. x \in UNION {r.a..(r.b - 1) : r \in ToSet(spells)} <=>
          \E i \in DOMAIN spells : x \in Int /\ spells[i].a <= x /\ x < spells[i].b
    <3>1. x \in UNION {r.a..(r.b - 1) : r \in ToSet(spells)} <=> \E i \in DOMAIN spells : x \in spells[i].a..(spells[i].b - 1)
      BY <2>1
    <3>2. \A i \in DOMAIN spells : x \in spells[i].a..(spells[i].b - 1) <=> x \in Int /\ spells[i].a <= x /\ x < spells[i].b
      BY <2>2
    <3>. QED  BY <3>1, <3>2
  <2>. QED  BY <2>3 DEF Covers
<1>6. \A x : x \in Recorded(history) <=>
               x \in Int /\ \E j \in 1..Len(history) : history[j].t <= x /\ x < history[j].t + Width
  <2>1. \A x : x \in Recorded(history) <=>
                 \E j \in DOMAIN history : x \in history[j].t..(history[j].t + Width - 1)
    BY DEF Recorded, ToSet
  <2>2. \A j \in DOMAIN history : \A x :
          x \in history[j].t..(history[j].t + Width - 1) <=>
            x \in Int /\ history[j].t <= x /\ x < history[j].t + Width
    BY <1>1, <1>2
  <2>. SUFFICES ASSUME NEW x
                PROVE  x \in Recorded(history) <=>
                         x \in Int /\ \E j \in 1..Len(history) : history[j].t <= x /\ x < history[j].t + Width
    OBVIOUS
  <2>3. x \in Recorded(history) <=>
          \E j \in DOMAIN history : x \in Int /\ history[j].t <= x /\ x < history[j].t + Width
    <3>1. x \in Recorded(history) <=> \E i \in DOMAIN history : x \in history[i].t..(history[i].t + Width - 1)
      BY <2>1
    <3>2. \A i \in DOMAIN history :
            x \in history[i].t..(history[i].t + Width - 1) <=>
              x \in Int /\ history[i].t <= x /\ x < history[i].t + Width
      BY <2>2
    <3>. QED  BY <3>1, <3>2
  <2>. QED  BY <1>2, <2>3
<1>7. \A x \in Int : Covers(spells, x) <=>
                       \E j \in 1..Len(history) : history[j].t <= x /\ x < history[j].t + Width
  BY <1>1 DEF RunsOf
<1>8. UNION {r.a..(r.b - 1) : r \in ToSet(spells)} = Recorded(history)
  BY <1>5, <1>6, <1>7
<1>9. \A i \in 1..(Len(spells) - 1) : spells[i].b < spells[i + 1].a
  BY <1>1 DEF RunsOf
<1>. QED  BY <1>8, <1>9 DEF RunsAreRecorded, spells

-----------------------------------------------------------------------------
(* The lines of a gauge.                                                   *)

MaximalRun(c, d) ==
  /\ c <= d /\ \A i \in c..d : i \in Known(history)
  /\ c - 1 \notin Known(history) /\ d + 1 \notin Known(history)

\* The lines for the runs that end at n or before.
LinesOf(out, n) ==
  /\ out \in Seq(Seq(Bucket))
  /\ \A i \in DOMAIN out : \E c \in DOMAIN history, d \in DOMAIN history :
       MaximalRun(c, d) /\ d <= n /\ out[i] = SubSeq(history, c, d)
  /\ \A c \in DOMAIN history, d \in DOMAIN history :
       MaximalRun(c, d) /\ d <= n => \E i \in DOMAIN out : out[i] = SubSeq(history, c, d)
  /\ \A i \in 1..(Len(out) - 1) : Last(out[i]).t < Head(out[i + 1]).t

Drawn(acc) == IF acc.cur = <<>> THEN acc.out ELSE Append(acc.out, acc.cur)

NextLines(acc, b) ==
  IF b.conns = Unknown
  THEN [out |-> IF acc.cur = <<>> THEN acc.out ELSE Append(acc.out, acc.cur), cur |-> <<>>]
  ELSE [acc EXCEPT !.cur = Append(@, b)]

Lines == [out : Seq(Seq(Bucket)), cur : Seq(Bucket)]

\* The line that is being drawn starts at c and follows those of the runs before c.
DrawnFrom(acc, c, n) ==
  /\ LinesOf(acc.out, c - 1) /\ acc.cur = SubSeq(history, c, n)
  /\ c - 1 \notin Known(history) /\ \A i \in c..n : i \in Known(history)

LinesTo(acc, n) ==
  /\ acc \in Lines
  /\ acc.cur = <<>> => LinesOf(acc.out, n) /\ n \notin Known(history)
  /\ acc.cur # <<>> => \E c \in 1..n : DrawnFrom(acc, c, n)

LEMMA Piece ==
  ASSUME NEW S, NEW s \in Seq(S), NEW c \in 1..Len(s), NEW d \in 1..Len(s), c <= d
  PROVE  /\ SubSeq(s, c, d) \in Seq(S) /\ SubSeq(s, c, d) # <<>>
         /\ Len(SubSeq(s, c, d)) = d - c + 1
         /\ \A i \in 1..(d - c + 1) : SubSeq(s, c, d)[i] = s[c + i - 1]
         /\ Head(SubSeq(s, c, d)) = s[c] /\ Last(SubSeq(s, c, d)) = s[d]
         /\ d + 1 <= Len(s) => SubSeq(s, c, d + 1) = Append(SubSeq(s, c, d), s[d + 1])
<1>1. PICK x : x = SubSeq(s, c, d)
  OBVIOUS
<1>2. x \in Seq(S) /\ Len(x) = d - c + 1 /\ \A i \in 1..(d - c + 1) : x[i] = s[c + i - 1]
  BY <1>1
<1>3. x # <<>> /\ Head(x) = s[c] /\ Last(x) = s[d]
  <2>1. 1 \in 1..(d - c + 1) /\ d - c + 1 \in 1..(d - c + 1) /\ c + 1 - 1 = c /\ c + (d - c + 1) - 1 = d
    OBVIOUS
  <2>2. x # <<>>
    BY <1>2
  <2>3. Head(x) = x[1] /\ Last(x) = x[d - c + 1]
    BY <1>2, <2>2 DEF Last
  <2>. QED  BY <1>2, <2>1, <2>2, <2>3
<1>4. ASSUME d + 1 <= Len(s)  PROVE SubSeq(s, c, d + 1) = Append(x, s[d + 1])
  <2>1. PICK y : y = SubSeq(s, c, d + 1)
    OBVIOUS
  <2>2. y \in Seq(S) /\ Len(y) = d + 1 - c + 1 /\ \A i \in 1..(d + 1 - c + 1) : y[i] = s[c + i - 1]
    BY <1>4, <2>1
  <2>3. PICK z : z = Append(x, s[d + 1])
    OBVIOUS
  <2>4. s[d + 1] \in S
    BY <1>4
  <2>5. z \in Seq(S) /\ Len(z) = Len(x) + 1 /\ z[Len(x) + 1] = s[d + 1] /\ \A i \in 1..Len(x) : z[i] = x[i]
    BY <1>2, <2>3, <2>4
  <2>6. Len(y) = Len(z) /\ \A i \in 1..Len(y) : y[i] = z[i]
    <3>1. PICK m \in Nat : m = d - c + 1 /\ m + 1 = d + 1 - c + 1 /\ c + (m + 1) - 1 = d + 1
      OBVIOUS
    <3>2. Len(x) = m /\ Len(y) = m + 1 /\ Len(z) = m + 1
      BY <1>2, <2>2, <2>5, <3>1
    <3>3. \A i \in 1..m : y[i] = s[c + i - 1] /\ z[i] = s[c + i - 1]
      BY <1>2, <2>2, <2>5, <3>1, <3>2
    <3>4. y[m + 1] = s[d + 1] /\ z[m + 1] = s[d + 1]
      <4>1. m + 1 \in 1..(d + 1 - c + 1)
        BY <3>1
      <4>2. y[m + 1] = s[c + (m + 1) - 1]
        BY <2>2, <4>1
      <4>. QED  BY <2>5, <3>1, <3>2, <4>2
    <3>5. \A i \in 1..(m + 1) : i \in 1..m \/ i = m + 1
      OBVIOUS
    <3>. QED  BY <3>2, <3>3, <3>4, <3>5
  <2>7. y = z
    BY <2>2, <2>5, <2>6, SeqEqual
  <2>. QED  BY <2>1, <2>3, <2>7
<1>. QED  BY <1>1, <1>2, <1>3, <1>4

LEMMA LineEnds ==
  ASSUME ChartsInv, NEW acc, NEW n \in Nat, n <= Len(history), NEW c \in 1..n,
         acc \in Lines, DrawnFrom(acc, c, n), n + 1 \notin Known(history)
  PROVE  LinesOf(Append(acc.out, acc.cur), n)
<1>1. history \in Seq(Bucket) /\ Width \in Nat \ {0}
  BY ChartsAssumption DEF ChartsInv, ChartsTypeOK
<1>2. /\ Len(history) \in Nat /\ DOMAIN history = 1..Len(history) /\ c \in DOMAIN history /\ n \in DOMAIN history
      /\ c <= n
  BY <1>1
<1>3. PICK x : x = acc.cur
  OBVIOUS
<1>4. x = SubSeq(history, c, n) /\ x \in Seq(Bucket) /\ Head(x) = history[c] /\ Last(x) = history[n]
  BY <1>1, <1>2, <1>3, Piece DEF DrawnFrom
<1>5. PICK o : o = acc.out
  OBVIOUS
<1>6. LinesOf(o, c - 1) /\ o \in Seq(Seq(Bucket))
  BY <1>5 DEF DrawnFrom, LinesOf
<1>7. PICK m \in Nat : m = Len(o) /\ DOMAIN o = 1..m
  BY <1>6
<1>8. PICK y : y = Append(o, x)
  OBVIOUS
<1>9. /\ y \in Seq(Seq(Bucket)) /\ Len(y) = m + 1 /\ DOMAIN y = 1..(m + 1) /\ y[m + 1] = x
      /\ \A i \in 1..m : y[i] = o[i]
  <2>1. y \in Seq(Seq(Bucket))
    BY <1>4, <1>6, <1>8
  <2>2. Len(y) = m + 1 /\ y[m + 1] = x /\ \A i \in 1..m : y[i] = o[i]
    BY <1>4, <1>6, <1>7, <1>8
  <2>. QED  BY <2>1, <2>2
<1>10. MaximalRun(c, n)
  BY <1>2 DEF DrawnFrom, MaximalRun
<1>11. \A i \in 1..(m + 1) : i \in 1..m \/ i = m + 1
  OBVIOUS
<1>12. \A i \in 1..m : i \in 1..(m + 1)
  OBVIOUS
<1>13. ASSUME NEW a \in DOMAIN history, NEW d \in DOMAIN history, MaximalRun(a, d), d <= n
       PROVE  d <= c - 1 \/ (a = c /\ d = n)
  <2>1. ASSUME ~(d <= c - 1)  PROVE d = n
    <3>1. c <= d + 1 /\ d + 1 <= n + 1 /\ d + 1 \in Int
      BY <1>2, <1>13, <2>1
    <3>2. CASE d + 1 <= n
      <4>1. d + 1 \in c..n
        BY <3>1, <3>2
      <4>. QED  BY <1>13, <4>1 DEF DrawnFrom, MaximalRun
    <3>3. CASE ~(d + 1 <= n)
      BY <1>2, <1>13, <3>3
    <3>. QED  BY <3>2, <3>3
  <2>2. ASSUME d = n  PROVE a = c
    <3>1. CASE a < c
      <4>1. c - 1 \in a..d
        BY <1>2, <2>2, <3>1
      <4>. QED  BY <1>13, <4>1 DEF DrawnFrom, MaximalRun
    <3>2. CASE c < a
      <4>1. a - 1 \in c..n /\ a <= d
        BY <1>2, <1>13, <2>2, <3>2 DEF MaximalRun
      <4>. QED  BY <1>13, <4>1 DEF DrawnFrom, MaximalRun
    <3>. QED  BY <1>2, <3>1, <3>2
  <2>. QED  BY <2>1, <2>2
<1>14. \A i \in DOMAIN y : \E a \in DOMAIN history, d \in DOMAIN history :
         MaximalRun(a, d) /\ d <= n /\ y[i] = SubSeq(history, a, d)
  <2>. SUFFICES ASSUME NEW i \in DOMAIN y
                PROVE  \E a \in DOMAIN history, d \in DOMAIN history :
                         MaximalRun(a, d) /\ d <= n /\ y[i] = SubSeq(history, a, d)
    OBVIOUS
  <2>1. CASE i = m + 1
    <3>1. c \in DOMAIN history /\ n \in DOMAIN history /\ n <= n /\ y[i] = SubSeq(history, c, n)
      BY <1>2, <1>4, <1>9, <2>1
    <3>. QED  BY <1>10, <3>1, Zenon
  <2>2. CASE i # m + 1
    <3>1. i \in 1..m /\ y[i] = o[i]
      BY <1>9, <1>11, <2>2
    <3>2. PICK a \in DOMAIN history, d \in DOMAIN history :
            MaximalRun(a, d) /\ d <= c - 1 /\ o[i] = SubSeq(history, a, d)
      BY <1>6, <1>7, <3>1 DEF LinesOf
    <3>3. d <= n
      BY <1>2, <3>2
    <3>. QED  BY <3>1, <3>2, <3>3
  <2>. QED  BY <2>1, <2>2
<1>15. ASSUME NEW a \in DOMAIN history, NEW d \in DOMAIN history, MaximalRun(a, d), d <= n
       PROVE  \E i \in DOMAIN y : y[i] = SubSeq(history, a, d)
  <2>1. CASE d <= c - 1
    <3>1. PICK i \in DOMAIN o : o[i] = SubSeq(history, a, d)
      BY <1>6, <1>15, <2>1 DEF LinesOf
    <3>. QED  BY <1>7, <1>9, <1>12, <3>1
  <2>2. CASE a = c /\ d = n
    <3>1. m + 1 \in DOMAIN y
      BY <1>9
    <3>. QED  BY <1>4, <1>9, <2>2, <3>1
  <2>. QED  BY <1>13, <1>15, <2>1, <2>2
<1>16. ASSUME NEW i \in 1..m  PROVE Last(y[i]).t < Head(y[i + 1]).t
  <2>1. CASE i = m
    <3>1. PICK a \in DOMAIN history, d \in DOMAIN history :
            MaximalRun(a, d) /\ d <= c - 1 /\ o[m] = SubSeq(history, a, d)
      BY <1>6, <1>7, <2>1 DEF LinesOf
    <3>2. a <= d /\ Last(SubSeq(history, a, d)) = history[d]
      <4>1. a <= d
        BY <3>1 DEF MaximalRun
      <4>. QED  BY <1>1, <1>2, <4>1, Piece
    <3>3. d < c /\ history[d].t \in Nat /\ history[c].t \in Nat
      <4>1. d < c
        BY <1>2, <3>1
      <4>. QED  BY <1>1, <1>2, <4>1, ChartBuckets
    <3>4. history[d].t < history[c].t
      <4>1. history[d].t + Width * (c - d) <= history[c].t
        BY <3>3 DEF ChartsInv, Spaced
      <4>2. c - d \in Nat \ {0}
        BY <1>2, <3>3
      <4>3. PICK w \in Nat \ {0} : w = Width * (c - d)
        BY <1>1, <4>2
      <4>. QED  BY <3>3, <4>1, <4>3
    <3>. QED  BY <1>4, <1>9, <2>1, <3>1, <3>2, <3>4
  <2>2. CASE i # m
    <3>1. i \in 1..(m - 1) /\ i + 1 \in 1..m
      BY <2>2
    <3>2. Last(o[i]).t < Head(o[i + 1]).t
      BY <1>6, <1>7, <3>1 DEF LinesOf
    <3>. QED  BY <1>9, <3>1, <3>2
  <2>. QED  BY <2>1, <2>2
<1>17. \A i \in 1..(Len(y) - 1) : Last(y[i]).t < Head(y[i + 1]).t
  BY <1>9, <1>16
<1>18. LinesOf(y, n)
  BY <1>9, <1>14, <1>15, <1>17 DEF LinesOf
<1>. QED  BY <1>3, <1>5, <1>8, <1>18

LEMMA LinesGrow ==
  ASSUME ChartsInv, NEW n \in Nat, n + 1 \in DOMAIN history, NEW acc, LinesTo(acc, n)
  PROVE  LinesTo(NextLines(acc, history[n + 1]), n + 1)
<1>1. history \in Seq(Bucket) /\ DOMAIN history = 1..Len(history) /\ Len(history) \in Nat
  BY DEF ChartsInv, ChartsTypeOK
<1>2. n <= Len(history) /\ n + 1 \in 1..Len(history) /\ acc \in Lines
  BY <1>1 DEF LinesTo
<1>3. PICK e \in Bucket : e = history[n + 1]
  BY <1>1
<1>4. PICK y : y = NextLines(acc, e)
  OBVIOUS
<1>5. acc.out \in Seq(Seq(Bucket)) /\ acc.cur \in Seq(Bucket)
  BY <1>2 DEF Lines
<1>6. CASE e.conns = Unknown
  <2>1. y = [out |-> IF acc.cur = <<>> THEN acc.out ELSE Append(acc.out, acc.cur), cur |-> <<>>]
    BY <1>4, <1>6 DEF NextLines
  <2>2. n + 1 \notin Known(history)
    BY <1>3, <1>6 DEF Known
  <2>3. LinesOf(y.out, n)
    <3>1. CASE acc.cur = <<>>
      BY <2>1, <3>1 DEF LinesTo
    <3>2. CASE acc.cur # <<>>
      <4>1. PICK c \in 1..n : DrawnFrom(acc, c, n)
        BY <3>2 DEF LinesTo
      <4>2. LinesOf(Append(acc.out, acc.cur), n)
        BY <1>2, <2>2, <4>1, LineEnds
      <4>. QED  BY <2>1, <3>2, <4>2
    <3>. QED  BY <3>1, <3>2
  <2>4. LinesOf(y.out, n + 1)
    <3>1. ASSUME NEW c \in DOMAIN history, NEW d \in DOMAIN history, MaximalRun(c, d)
          PROVE  d <= n <=> d <= n + 1
      <4>1. d # n + 1
        <5>1. d \in c..d
          BY <1>1, <3>1 DEF MaximalRun
        <5>. QED  BY <2>2, <3>1, <5>1 DEF MaximalRun
      <4>. QED  BY <1>1, <4>1
    <3>. QED  BY <2>3, <3>1 DEF LinesOf
  <2>5. y.out \in Seq(Seq(Bucket)) /\ y.cur = <<>>
    BY <2>1, <2>3 DEF LinesOf
  <2>6. y \in Lines
    BY <2>1, <2>5 DEF Lines
  <2>. QED  BY <1>3, <1>4, <2>2, <2>4, <2>5, <2>6 DEF LinesTo
<1>7. CASE e.conns # Unknown
  <2>1. n + 1 \in Known(history)
    BY <1>3, <1>7 DEF Known
  <2>2. PICK x : x = Append(acc.cur, e)
    OBVIOUS
  <2>3. x \in Seq(Bucket) /\ x # <<>>
    BY <1>5, <2>2
  <2>4. y = [acc EXCEPT !.cur = Append(@, e)]
    BY <1>4, <1>7 DEF NextLines
  <2>5. y.out = acc.out /\ y.cur = x /\ y \in Lines
    BY <1>2, <2>2, <2>3, <2>4 DEF Lines
  <2>6. \E c \in 1..(n + 1) : DrawnFrom(y, c, n + 1)
    <3>1. CASE acc.cur = <<>>
      <4>1. x = <<e>>
        BY <2>2, <3>1
      <4>2. SubSeq(history, n + 1, n + 1) = <<e>>
        <5>1. PICK k \in 1..Len(history) : k = n + 1
          BY <1>2
        <5>2. PICK z : z = SubSeq(history, k, k)
          OBVIOUS
        <5>3. z \in Seq(Bucket) /\ Len(z) = k - k + 1 /\ \A i \in 1..(k - k + 1) : z[i] = history[k + i - 1]
          <6>1. k <= k
            BY <1>1
          <6>. QED  BY <1>1, <5>2, <6>1, Piece
        <5>4. k - k + 1 = 1 /\ 1 \in 1..1 /\ k + 1 - 1 = k
          OBVIOUS
        <5>5. Len(z) = 1 /\ z[1] = e
          BY <1>3, <5>1, <5>3, <5>4
        <5>6. z = <<e>>
          BY <5>3, <5>5
        <5>. QED  BY <5>1, <5>2, <5>6
      <4>3. LinesOf(acc.out, n) /\ n \notin Known(history) /\ (n + 1) - 1 = n
        BY <3>1 DEF LinesTo
      <4>4. n + 1 \in 1..(n + 1) /\ \A i \in (n + 1)..(n + 1) : i = n + 1
        OBVIOUS
      <4>5. DrawnFrom(y, n + 1, n + 1)
        BY <2>1, <2>5, <4>1, <4>2, <4>3, <4>4 DEF DrawnFrom
      <4>. QED  BY <4>4, <4>5
    <3>2. CASE acc.cur # <<>>
      <4>1. PICK c \in 1..n : DrawnFrom(acc, c, n)
        BY <3>2 DEF LinesTo
      <4>2. c \in 1..(n + 1) /\ c \in 1..Len(history) /\ n \in 1..Len(history) /\ c <= n /\ n + 1 <= Len(history)
        BY <1>1, <1>2
      <4>3. SubSeq(history, c, n + 1) = Append(SubSeq(history, c, n), history[n + 1])
        BY <1>1, <4>2, Piece
      <4>4. \A i \in c..(n + 1) : i \in c..n \/ i = n + 1
        OBVIOUS
      <4>5. DrawnFrom(y, c, n + 1)
        BY <1>3, <2>1, <2>2, <2>5, <4>1, <4>3, <4>4 DEF DrawnFrom
      <4>. QED  BY <4>2, <4>5
    <3>. QED  BY <3>1, <3>2
  <2>. QED  BY <1>3, <1>4, <2>3, <2>5, <2>6 DEF LinesTo
<1>. QED  BY <1>6, <1>7

LEMMA NextLinesType ==
  ASSUME NEW acc \in Lines, NEW e \in Bucket
  PROVE  NextLines(acc, e) \in Lines
<1>1. acc.out \in Seq(Seq(Bucket)) /\ acc.cur \in Seq(Bucket)
  BY DEF Lines
<1>2. Append(acc.out, acc.cur) \in Seq(Seq(Bucket)) /\ Append(acc.cur, e) \in Seq(Bucket) /\ <<>> \in Seq(Bucket)
  BY <1>1
<1>. QED  BY <1>1, <1>2 DEF NextLines, Lines

LEMMA SegmentsIs ==
  ASSUME ChartsInv
  PROVE  \E acc : LinesTo(acc, Len(history)) /\ StepSegments(history) = Drawn(acc)
<1>. DEFINE N == Len(history)
            A == Lines
            Base == [out |-> <<>>, cur |-> <<>>]
            Round(f, T) == IF T = {} THEN Base ELSE NextLines(f[T \ {Max(T)}], history[Max(T)])
            step == [p \in A \X (1..N) |-> NextLines(p[1], history[p[2]])]
            left == CHOOSE f : f = [T \in SUBSET DOMAIN history |-> Round(f, T)]
<1>1. N \in Nat /\ DOMAIN history = 1..N /\ \A i \in 1..N : history[i] \in Bucket
  BY DEF ChartsInv, ChartsTypeOK
<1>2. \A a \in A, i \in 1..N :
        step[<<a, i>>] = NextLines(a, history[i]) /\ step[<<a, i>>] \in A
  <2>. SUFFICES ASSUME NEW a \in A, NEW i \in 1..N
                PROVE  step[<<a, i>>] = NextLines(a, history[i]) /\ step[<<a, i>>] \in A
    OBVIOUS
  <2>1. NextLines(a, history[i]) \in A
    BY <1>1, NextLinesType
  <2>. HIDE DEF A, N
  <2>2. <<a, i>> \in A \X (1..N) /\ <<a, i>>[1] = a /\ <<a, i>>[2] = i
    OBVIOUS
  <2>3. step[<<a, i>>] = NextLines(a, history[i])
    BY <2>2
  <2>. QED  BY <2>1, <2>3
<1>3. Base \in A /\ Base.out = <<>> /\ Base.cur = <<>>
  BY DEF Lines
<1>4. StepSegments(history) = Drawn(left[DOMAIN history])
  BY DEF StepSegments, FoldLeft, MapThenFoldSet, NextLines, Drawn
<1>. HIDE DEF N, A, step, Base
<1>5. PICK f : Folded(f, Base, step, N, A)
  <2>1. step \in [A \X (1..N) -> A]
    BY <1>2 DEF step
  <2>. QED  BY <1>1, <1>3, <2>1, FoldRounds
<1>6. \A T \in SUBSET (1..N) : f[T] = Round(f, T)
  BY <1>2, <1>5 DEF Folded
<1>. HIDE DEF Round
<1>7. f = [T \in SUBSET (1..N) |-> Round(f, T)]
  BY <1>5, <1>6 DEF Folded
<1>8. left = [T \in SUBSET (1..N) |-> Round(left, T)]
  BY <1>1, <1>7
<1>. HIDE DEF left
<1>9. \A T \in SUBSET (1..N) : left[T] = Round(left, T)
  BY <1>8
<1>. DEFINE Good == {i \in Nat : i <= N => LinesTo(left[1..i], i)}
<1>10. 0 \in Good
  <2>1. 1..0 = {} /\ {} \in SUBSET (1..N) /\ 0 \notin 1..N
    BY <1>1
  <2>2. left[1..0] = Base
    BY <1>9, <2>1 DEF Round
  <2>3. <<>> \in Seq(Seq(Bucket)) /\ DOMAIN <<>> = {} /\ Len(<<>>) = 0 /\ 1..(0 - 1) = {}
    OBVIOUS
  <2>4. \A d \in DOMAIN history : ~(d <= 0)
    BY <1>1
  <2>5. LinesOf(<<>>, 0)
    BY <2>3, <2>4 DEF LinesOf
  <2>6. 0 \notin Known(history)
    BY <1>1, <2>1 DEF Known
  <2>7. LinesTo(Base, 0)
    BY <1>3, <2>5, <2>6 DEF LinesTo, A
  <2>. QED  BY <2>2, <2>7
<1>11. ASSUME NEW n \in Nat, n \in Good  PROVE n + 1 \in Good
  <2>. SUFFICES ASSUME n + 1 <= N  PROVE LinesTo(left[1..(n + 1)], n + 1)
    OBVIOUS
  <2>. DEFINE i == n + 1
  <2>1. i \in 1..N /\ i - 1 = n
    BY <1>1
  <2>. HIDE DEF i
  <2>2. /\ (1..i) \in SUBSET (1..N) /\ 1..i # {}
        /\ Max(1..i) = i /\ (1..i) \ {Max(1..i)} = 1..(i - 1)
    BY <1>1, <2>1, LastIsMax
  <2>3. left[1..i] = NextLines(left[1..n], history[i])
    BY <1>9, <2>1, <2>2 DEF Round
  <2>4. LinesTo(left[1..n], n)
    BY <1>1, <1>11
  <2>5. n + 1 \in DOMAIN history
    BY <1>1, <2>1 DEF i
  <2>. QED  BY <2>3, <2>4, <2>5, LinesGrow DEF i
<1>. HIDE DEF Good
<1>12. N \in Good
  BY <1>1, <1>10, <1>11, ByNumbers
<1>. QED  BY <1>1, <1>4, <1>12 DEF Good, N

LEMMA LinesTell ==
  ASSUME ChartsInv
  PROVE  SegmentsAreRuns
<1>. DEFINE spells == {r \in (DOMAIN history) \X (DOMAIN history) :
                 /\ r[1] <= r[2] /\ \A i \in r[1]..r[2] : i \in Known(history)
                 /\ r[1] - 1 \notin Known(history) /\ r[2] + 1 \notin Known(history)}
<1>1. PICK acc : LinesTo(acc, Len(history)) /\ StepSegments(history) = Drawn(acc)
  BY SegmentsIs
<1>2. history \in Seq(Bucket) /\ DOMAIN history = 1..Len(history) /\ Len(history) \in Nat
  BY DEF ChartsInv, ChartsTypeOK
<1>3. PICK segs : segs = StepSegments(history)
  OBVIOUS
<1>4. LinesOf(segs, Len(history))
  <2>1. CASE acc.cur = <<>>
    BY <1>1, <1>3, <2>1 DEF LinesTo, Drawn
  <2>2. CASE acc.cur # <<>>
    <3>1. PICK c \in 1..Len(history) : DrawnFrom(acc, c, Len(history))
      BY <1>1, <2>2 DEF LinesTo
    <3>2. Len(history) + 1 \notin Known(history)
      <4>1. Len(history) + 1 \notin 1..Len(history)
        BY <1>2
      <4>. QED  BY <1>2, <4>1 DEF Known
    <3>3. acc \in Lines /\ Len(history) <= Len(history)
      BY <1>1, <1>2 DEF LinesTo
    <3>4. LinesOf(Append(acc.out, acc.cur), Len(history))
      BY <1>2, <3>1, <3>2, <3>3, LineEnds
    <3>. QED  BY <1>1, <1>3, <2>2, <3>4 DEF Drawn
  <2>. QED  BY <2>1, <2>2
<1>5. \A d \in DOMAIN history : d <= Len(history)
  BY <1>2
<1>6. \A c \in DOMAIN history, d \in DOMAIN history :
        MaximalRun(c, d) <=> <<c, d>> \in spells
  BY DEF MaximalRun
<1>7. \A r \in spells : \E c \in DOMAIN history, d \in DOMAIN history : r = <<c, d>>
  OBVIOUS
<1>. HIDE DEF spells
<1>8. ToSet(segs) = {SubSeq(history, r[1], r[2]) : r \in spells}
  <2>1. ASSUME NEW s \in ToSet(segs)  PROVE s \in {SubSeq(history, r[1], r[2]) : r \in spells}
    <3>1. PICK i \in DOMAIN segs : s = segs[i]
      BY DEF ToSet
    <3>2. PICK c \in DOMAIN history, d \in DOMAIN history :
            MaximalRun(c, d) /\ segs[i] = SubSeq(history, c, d)
      BY <1>4 DEF LinesOf
    <3>3. <<c, d>> \in spells /\ <<c, d>>[1] = c /\ <<c, d>>[2] = d
      BY <1>6, <3>2
    <3>. QED  BY <3>1, <3>2, <3>3
  <2>2. ASSUME NEW r \in spells  PROVE SubSeq(history, r[1], r[2]) \in ToSet(segs)
    <3>1. PICK c \in DOMAIN history, d \in DOMAIN history : r = <<c, d>>
      BY <1>7
    <3>2. MaximalRun(c, d) /\ r[1] = c /\ r[2] = d
      BY <1>6, <3>1
    <3>3. PICK i \in DOMAIN segs : segs[i] = SubSeq(history, c, d)
      BY <1>4, <1>5, <3>2 DEF LinesOf
    <3>. QED  BY <3>2, <3>3 DEF ToSet
  <2>. QED  BY <2>1, <2>2
<1>9. \A i \in 1..(Len(segs) - 1) : Last(segs[i]).t < Head(segs[i + 1]).t
  BY <1>4 DEF LinesOf
<1>. QED  BY <1>3, <1>8, <1>9 DEF SegmentsAreRuns, spells

-----------------------------------------------------------------------------
(* Candles.                                                                *)

LEMMA CeilIs ==
  ASSUME NEW n \in Int, NEW d \in Nat \ {0}
  PROVE  /\ CeilDiv(n, d) \in Int /\ n <= d * CeilDiv(n, d) /\ d * CeilDiv(n, d) < n + d
         /\ n \in Nat => CeilDiv(n, d) \in Nat
         /\ n \in Nat \ {0} => CeilDiv(n, d) \in Nat \ {0}
<1>1. (n + d - 1) \div d \in Int /\ n <= d * ((n + d - 1) \div d) /\ d * ((n + d - 1) \div d) < n + d
  OBVIOUS
<1>2. PICK c \in Int : c = (n + d - 1) \div d /\ n <= d * c /\ d * c < n + d
  BY <1>1
<1>3. n \in Nat => c \in Nat
  BY <1>2
<1>4. n \in Nat \ {0} => c \in Nat \ {0}
  BY <1>2
<1>. QED  BY <1>2, <1>3, <1>4 DEF CeilDiv

LEMMA CeilOnly ==
  ASSUME NEW n \in Int, NEW d \in Nat \ {0}, NEW i \in Int, d * (i - 1) < n, n <= d * i
  PROVE  CeilDiv(n, d) = i
<1>1. PICK c \in Int : c = CeilDiv(n, d) /\ n <= d * c /\ d * c < n + d
  BY CeilIs
<1>2. d * (i - 1) = d * i - d /\ d * (c - 1) = d * c - d
  BY <1>1
<1>3. d * (c - 1) < d * i
  BY <1>1, <1>2
<1>4. d * (i - 1) < d * c
  BY <1>1
<1>5. c - 1 < i /\ i - 1 < c
  BY <1>1, <1>3, <1>4
<1>. QED  BY <1>1, <1>5

\* The i-th of the groups of k among n.
Begin(i, k) == k * (i - 1) + 1
Until(i, k, n) == IF k * i < n THEN k * i ELSE n

LEMMA Groups ==
  ASSUME NEW n \in Nat, NEW k \in Nat \ {0}, NEW i \in 1..CeilDiv(n, k)
  PROVE  /\ Begin(i, k) \in 1..n /\ Until(i, k, n) \in 1..n /\ Begin(i, k) <= Until(i, k, n)
         /\ i < CeilDiv(n, k) => Until(i, k, n) = k * i /\ Begin(i + 1, k) = Until(i, k, n) + 1
         /\ i = CeilDiv(n, k) => Until(i, k, n) = n
         /\ \A j \in 1..n : j \in Begin(i, k)..Until(i, k, n) <=> CeilDiv(j, k) = i
<1>0. n \in Int
  OBVIOUS
<1>1. PICK c \in Nat : c = CeilDiv(n, k) /\ n <= k * c /\ k * c < n + k
  BY <1>0, CeilIs
<1>2. i \in Nat \ {0} /\ i <= c
  BY <1>1
<1>3. PICK u \in Nat, v \in Nat : u = k * (i - 1) /\ v = k * i /\ v = u + k
  BY <1>2
<1>4. v <= k * c /\ u < n
  BY <1>1, <1>2, <1>3
<1>5. i < c => v < n
  <2>. SUFFICES ASSUME i < c  PROVE v < n
    OBVIOUS
  <2>1. k * i + k <= k * c
    BY <1>1, <1>2
  <2>. QED  BY <1>1, <1>3, <2>1
<1>6. i = c => ~(v < n)
  BY <1>1, <1>3
<1>7. Begin(i, k) = u + 1 /\ Until(i, k, n) = IF v < n THEN v ELSE n
  BY <1>3 DEF Begin, Until
<1>8. u + 1 \in 1..n /\ u + 1 <= v
  BY <1>3, <1>4
<1>9. Begin(i + 1, k) = v + 1
  <2>1. (i + 1) - 1 = i
    BY <1>2
  <2>. QED  BY <1>3, <2>1 DEF Begin
<1>10. ASSUME NEW j \in 1..n  PROVE j \in Begin(i, k)..Until(i, k, n) <=> CeilDiv(j, k) = i
  <2>1. ASSUME j \in Begin(i, k)..Until(i, k, n)  PROVE CeilDiv(j, k) = i
    <3>1. k * (i - 1) < j /\ j <= k * i /\ i \in Int /\ j \in Int
      BY <1>2, <1>3, <1>7, <2>1
    <3>. QED  BY <3>1, CeilOnly
  <2>2. ASSUME CeilDiv(j, k) = i  PROVE j \in Begin(i, k)..Until(i, k, n)
    <3>1. j <= k * i /\ k * i < j + k
      <4>1. j \in Int
        OBVIOUS
      <4>. QED  BY <2>2, <4>1, CeilIs
    <3>. QED  BY <1>3, <1>7, <3>1
  <2>. QED  BY <2>1, <2>2
<1>11. (IF v < n THEN v ELSE n) \in 1..n /\ u + 1 <= (IF v < n THEN v ELSE n)
  BY <1>8
<1>. QED  BY <1>1, <1>2, <1>3, <1>5, <1>6, <1>7, <1>8, <1>9, <1>10, <1>11

LEMMA BodiesFit ==
  ASSUME ChartsInv, NEW mode
  PROVE  /\ PerCandle(history, mode) \in Nat \ {0}
         /\ mode = "candles" => CeilDiv(Len(history), PerCandle(history, mode)) <= MaxBodies
<1>1. PICK n \in Nat : n = Len(history)
  BY DEF ChartsInv, ChartsTypeOK
<1>2. PICK m \in Nat \ {0} : m = MaxBodies
  BY ChartsAssumption
<1>3. n > m => CeilDiv(n, m) \in Nat \ {0} /\ n <= m * CeilDiv(n, m)
  BY <1>1, <1>2, CeilIs
<1>4. PICK k : k = PerCandle(history, mode)
  OBVIOUS
<1>5. k = IF mode = "candles" /\ n > m THEN CeilDiv(n, m) ELSE 1
  BY <1>1, <1>2, <1>4 DEF PerCandle
<1>6. k \in Nat \ {0}
  BY <1>3, <1>5
<1>7. mode = "candles" => n <= k * m
  <2>1. CASE n > m
    <3>1. \A x \in Nat : m * x = x * m
      BY <1>2
    <3>. QED  BY <1>3, <1>5, <2>1, <3>1
  <2>2. CASE ~(n > m)
    BY <1>1, <1>2, <1>5, <2>2
  <2>. QED  BY <2>1, <2>2
<1>8. ASSUME mode = "candles"  PROVE CeilDiv(n, k) <= m
  <2>1. PICK c \in Nat : c = CeilDiv(n, k) /\ k * c < n + k
    <3>1. n \in Int /\ n \in Nat
      BY <1>1
    <3>. QED  BY <1>6, <3>1, CeilIs
  <2>2. k * c < k * (m + 1)
    <3>1. k * (m + 1) = k * m + k
      BY <1>2, <1>6
    <3>. QED  BY <1>1, <1>2, <1>6, <1>7, <1>8, <2>1, <3>1
  <2>3. c < m + 1
    BY <1>2, <1>6, <2>1, <2>2
  <2>. QED  BY <1>2, <2>1, <2>3
<1>. QED  BY <1>1, <1>2, <1>4, <1>6, <1>8

Wick == [t : Nat, out : Nat, open : Nat, high : Nat, low : Nat, close : Nat, conns : {Unknown, 1}]

Outs == [i \in DOMAIN history |-> history[i].out]

Bodies == [i \in DOMAIN history |-> Candle(history[i])]

\* What the candle m says of the buckets from a to b.
CandleTells(m, a, b) ==
  /\ m \in Wick
  /\ m.t = history[a].t /\ m.out = Total(Outs, a..b)
  /\ {m.open, m.close} \subseteq m.low..m.high
  /\ m.conns # Unknown <=> \E j \in a..b : history[j].conns # Unknown

LEMMA BodiesAre ==
  ASSUME ChartsInv
  PROVE  /\ Bodies \in Seq(Wick) /\ Len(Bodies) = Len(history)
         /\ \A i \in 1..Len(history) :
              /\ Bodies[i].t = history[i].t /\ Bodies[i].conns = history[i].conns
              /\ Bodies[i].out = history[i].out /\ Bodies[i].open = history[i].out
              /\ Bodies[i].close = history[i].out
              /\ Bodies[i].high = history[i].out /\ Bodies[i].low = history[i].out
<1>1. PICK n \in Nat : n = Len(history) /\ DOMAIN history = 1..n
  BY DEF ChartsInv, ChartsTypeOK
<1>2. \A i \in 1..n : history[i].t \in Nat /\ history[i].out \in Nat /\ history[i].conns \in {Unknown, 1}
  BY <1>1, ChartBuckets DEF ChartsInv, ChartsTypeOK
<1>3. \A i \in 1..n : Candle(history[i]) \in Wick
  <2>. SUFFICES ASSUME NEW i \in 1..n  PROVE Candle(history[i]) \in Wick
    OBVIOUS
  <2>1. PICK t \in Nat, o \in Nat, c \in {Unknown, 1} :
          t = history[i].t /\ o = history[i].out /\ c = history[i].conns
    BY <1>2
  <2>2. Candle(history[i]) = [t |-> t, out |-> o, open |-> o, high |-> o, low |-> o, close |-> o, conns |-> c]
    BY <2>1 DEF Candle
  <2>. QED  BY <2>2 DEF Wick
<1>4. Bodies \in [1..n -> Wick]
  BY <1>1, <1>3 DEF Bodies
<1>5. Bodies \in Seq(Wick) /\ Len(Bodies) = n
  BY <1>4
<1>6. \A i \in 1..n : Bodies[i] = Candle(history[i])
  BY <1>1 DEF Bodies
<1>7. \A e : /\ Candle(e).t = e.t /\ Candle(e).conns = e.conns /\ Candle(e).out = e.out
              /\ Candle(e).open = e.out /\ Candle(e).close = e.out
              /\ Candle(e).high = e.out /\ Candle(e).low = e.out
  BY DEF Candle
<1>8. PICK x : x = Bodies
  OBVIOUS
<1>9. \A i \in 1..n :
              /\ x[i].t = history[i].t /\ x[i].conns = history[i].conns
              /\ x[i].out = history[i].out /\ x[i].open = history[i].out
              /\ x[i].close = history[i].out
              /\ x[i].high = history[i].out /\ x[i].low = history[i].out
  BY <1>6, <1>7, <1>8
<1>. QED  BY <1>1, <1>5, <1>8, <1>9

LEMMA GroupFinite ==
  ASSUME NEW a \in Int, NEW b \in Int
  PROVE  IsFiniteSet(a..b)
BY FS_Interval

LEMMA MergedIs ==
  ASSUME ChartsInv, NEW a \in DOMAIN history, NEW b \in DOMAIN history, a <= b
  PROVE  CandleTells(Merged(SubSeq(Bodies, a, b)), a, b)
<1>1. PICK n \in Nat : n = Len(history) /\ DOMAIN history = 1..n
  BY DEF ChartsInv, ChartsTypeOK
<1>2. Bodies \in Seq(Wick) /\ Len(Bodies) = n
  BY <1>1, BodiesAre
<1>3. PICK l \in Nat \ {0} : l = b - a + 1
  BY <1>1
<1>4. PICK grp : grp = SubSeq(Bodies, a, b)
  OBVIOUS
<1>5. /\ grp \in Seq(Wick) /\ Len(grp) = l /\ grp # <<>>
      /\ Head(grp) = Bodies[a] /\ Last(grp) = Bodies[b]
      /\ \A i \in 1..l : grp[i] = Bodies[a + i - 1]
  BY <1>1, <1>2, <1>3, <1>4, Piece
<1>6. DOMAIN grp = 1..l /\ \A i \in 1..l : grp[i] \in Wick
  BY <1>5
<1>7. \A i \in 1..l : a + i - 1 \in a..b /\ a + i - 1 \in 1..n
  BY <1>1, <1>3
<1>8. \A j \in a..b : j - a + 1 \in 1..l /\ a + (j - a + 1) - 1 = j /\ j \in 1..n
  BY <1>1, <1>3
<1>9. \A i \in 1..l : /\ grp[i].out = history[a + i - 1].out /\ grp[i].conns = history[a + i - 1].conns
  BY <1>1, <1>5, <1>7, BodiesAre
<1>10. /\ Head(grp).t = history[a].t /\ Head(grp).t \in Nat
       /\ Head(grp).open = history[a].out /\ Head(grp).high = history[a].out /\ Head(grp).low = history[a].out
       /\ Last(grp).close = history[b].out /\ Last(grp).high = history[b].out /\ Last(grp).low = history[b].out
       /\ history[a].out \in Nat /\ history[b].out \in Nat
  <2>1. history[a].t \in Nat /\ history[a].out \in Nat /\ history[b].out \in Nat
    BY <1>1, ChartBuckets DEF ChartsInv, ChartsTypeOK
  <2>. QED  BY <1>1, <1>5, <2>1, BodiesAre
<1>11. \A w \in Wick : w.high \in Nat /\ w.low \in Nat /\ w.out \in Nat /\ w.conns \in {Unknown, 1}
  BY DEF Wick
<1>12. ASSUME NEW h, \A i \in 1..l : h[i] \in Nat
       PROVE  LET S == {h[i] : i \in 1..l}
              IN  IsFiniteSet(S) /\ S \in SUBSET Int /\ S # {}
  <2>. DEFINE S == {h[i] : i \in 1..l}
  <2>1. IsFiniteSet(1..l)
    BY GroupFinite
  <2>2. IsFiniteSet(S)
    <3>1. PICK R : R = 1..l
      OBVIOUS
    <3>2. PICK f : f = [x \in R |-> h[x]]
      OBVIOUS
    <3>3. PICK T : T = S
      OBVIOUS
    <3>4. f \in Surjection(R, T)
      BY <3>1, <3>2, <3>3 DEF Surjection
    <3>. QED  BY <2>1, <3>1, <3>3, <3>4, FS_Surjection
  <2>3. 1 \in 1..l
    BY <1>3
  <2>4. S # {}
    BY <2>3
  <2>. QED  BY <1>12, <2>2, <2>4
<1>13. 1 \in 1..l /\ l \in 1..l /\ Head(grp) = grp[1] /\ Last(grp) = grp[l]
  BY <1>3, <1>5 DEF Last
<1>14. PICK highs : highs = {w.high : w \in ToSet(grp)}
  OBVIOUS
<1>15. PICK lows : lows = {w.low : w \in ToSet(grp)}
  OBVIOUS
<1>16. /\ Max(highs) \in Nat
       /\ Head(grp).open <= Max(highs) /\ Last(grp).close <= Max(highs)
  <2>. DEFINE h == [i \in 1..l |-> grp[i].high]
  <2>1. highs = {h[i] : i \in 1..l}
    BY <1>6, <1>14 DEF ToSet
  <2>2. \A i \in 1..l : h[i] \in Nat
    BY <1>6, <1>11
  <2>3. IsFiniteSet(highs) /\ highs \in SUBSET Int /\ highs # {}
    BY <1>12, <2>1, <2>2
  <2>4. Max(highs) \in highs /\ \A y \in highs : y <= Max(highs)
    BY <2>3, MaxIs
  <2>5. Head(grp).open \in highs /\ Last(grp).close \in highs
    BY <1>10, <1>13, <2>1
  <2>6. highs \in SUBSET Nat
    BY <2>1, <2>2
  <2>. QED  BY <2>4, <2>5, <2>6
<1>17. /\ Min(lows) \in Nat
       /\ Min(lows) <= Head(grp).open /\ Min(lows) <= Last(grp).close
  <2>. DEFINE h == [i \in 1..l |-> grp[i].low]
  <2>1. lows = {h[i] : i \in 1..l}
    BY <1>6, <1>15 DEF ToSet
  <2>2. \A i \in 1..l : h[i] \in Nat
    BY <1>6, <1>11
  <2>3. IsFiniteSet(lows) /\ lows \in SUBSET Int /\ lows # {}
    BY <1>12, <2>1, <2>2
  <2>4. Min(lows) \in lows /\ \A y \in lows : Min(lows) <= y
    BY <2>3, MinIs
  <2>5. Head(grp).open \in lows /\ Last(grp).close \in lows
    BY <1>10, <1>13, <2>1
  <2>6. lows \in SUBSET Nat
    BY <2>1, <2>2
  <2>. QED  BY <2>4, <2>5, <2>6
<1>18. SumOver(grp, DOMAIN grp) = Total(Outs, a..b) /\ Total(Outs, a..b) \in Nat
  <2>1. PICK g : g = [i \in DOMAIN grp |-> grp[i].out]
    OBVIOUS
  <2>2. SumOver(grp, DOMAIN grp) = Total(g, 1..l)
    BY <1>6, <2>1 DEF SumOver, Total
  <2>3. PICK m : m = [i \in 1..l |-> a + i - 1]
    OBVIOUS
  <2>4. \A i \in 1..l : m[i] = a + i - 1
    BY <2>3
  <2>5. \A x, y \in 1..l : m[x] = m[y] => x = y
    BY <1>1, <2>4
  <2>6. a..b = {m[x] : x \in 1..l}
    <3>1. \A x \in 1..l : m[x] \in a..b
      BY <1>7, <2>4
    <3>2. \A j \in a..b : \E x \in 1..l : m[x] = j
      BY <1>8, <2>4
    <3>. QED  BY <3>1, <3>2
  <2>7. \A x \in 1..l : g[x] \in Nat /\ Outs[m[x]] = g[x]
    <3>1. \A x \in 1..l : g[x] = grp[x].out /\ g[x] \in Nat
      BY <1>6, <1>11, <2>1
    <3>2. \A x \in 1..l : Outs[m[x]] = history[a + x - 1].out
      BY <1>1, <1>7, <2>4 DEF Outs
    <3>. QED  BY <1>9, <3>1, <3>2
  <2>8. IsFiniteSet(1..l)
    BY GroupFinite
  <2>9. Total(Outs, a..b) = Total(g, 1..l)
    <3>1. PICK S : S = 1..l
      OBVIOUS
    <3>2. PICK R : R = a..b
      OBVIOUS
    <3>3. PICK h : h = Outs
      OBVIOUS
    <3>4. IsFiniteSet(S) /\ R = {m[x] : x \in S}
      BY <2>6, <2>8, <3>1, <3>2
    <3>5. \A x, y \in S : m[x] = m[y] => x = y
      BY <2>5, <3>1
    <3>6. \A x \in S : g[x] \in Nat /\ h[m[x]] = g[x]
      BY <2>7, <3>1, <3>3
    <3>7. R = {m[x] : x \in S}
      BY <3>4
    <3>8. IsFiniteSet(S)
      BY <3>4
    <3>9. Total(h, R) = Total(g, S) /\ IsFiniteSet(R)
      BY <3>5, <3>6, <3>7, <3>8, SumRenamed
    <3>. QED  BY <3>1, <3>2, <3>3, <3>9
  <2>10. Total(g, 1..l) \in Nat
    BY <2>7, <2>8, SumOfPart
  <2>. QED  BY <2>2, <2>9, <2>10
<1>19. /\ MergeGaugeClose(grp) \in {Unknown, 1}
       /\ MergeGaugeClose(grp) # Unknown <=> \E j \in a..b : history[j].conns # Unknown
  <2>1. PICK K : K = Known(grp)
    OBVIOUS
  <2>2. \A i : i \in K <=> i \in 1..l /\ grp[i].conns # Unknown
    BY <1>6, <2>1 DEF Known
  <2>3. K # {} <=> \E j \in a..b : history[j].conns # Unknown
    BY <1>7, <1>8, <1>9, <2>2
  <2>4. ASSUME K # {}  PROVE Max(K) \in K
    <3>1. IsFiniteSet(1..l) /\ K \in SUBSET (1..l)
      BY <2>2, GroupFinite
    <3>2. IsFiniteSet(K)
      BY <3>1, FS_Subset
    <3>3. K \in SUBSET Int
      BY <2>2
    <3>. QED  BY <2>4, <3>2, <3>3, MaxIs
  <2>5. MergeGaugeClose(grp) = IF K = {} THEN Unknown ELSE grp[Max(K)].conns
    BY <2>1 DEF MergeGaugeClose
  <2>6. K # {} => grp[Max(K)].conns # Unknown /\ grp[Max(K)].conns \in {Unknown, 1}
    <3>. SUFFICES ASSUME K # {}  PROVE grp[Max(K)].conns # Unknown /\ grp[Max(K)].conns \in {Unknown, 1}
      OBVIOUS
    <3>1. Max(K) \in 1..l /\ grp[Max(K)].conns # Unknown
      BY <2>2, <2>4
    <3>. QED  BY <1>6, <1>11, <3>1
  <2>. QED  BY <2>3, <2>5, <2>6
<1>20. PICK m : m = Merged(grp)
  OBVIOUS
<1>21. m = [t |-> Head(grp).t, out |-> SumOver(grp, DOMAIN grp),
            open |-> Head(grp).open, close |-> Last(grp).close,
            high |-> Max(highs), low |-> Min(lows), conns |-> MergeGaugeClose(grp)]
  BY <1>14, <1>15, <1>20 DEF Merged
<1>22. /\ m.t = Head(grp).t /\ m.out = SumOver(grp, DOMAIN grp) /\ m.open = Head(grp).open
       /\ m.close = Last(grp).close /\ m.high = Max(highs) /\ m.low = Min(lows)
       /\ m.conns = MergeGaugeClose(grp)
  BY <1>21
<1>23. m \in Wick
  <2>1. PICK t \in Nat, o \in Nat, p \in Nat, h \in Nat, w \in Nat, c \in Nat, k \in {Unknown, 1} :
          /\ t = Head(grp).t /\ o = SumOver(grp, DOMAIN grp) /\ p = Head(grp).open
          /\ h = Max(highs) /\ w = Min(lows) /\ c = Last(grp).close /\ k = MergeGaugeClose(grp)
    BY <1>10, <1>16, <1>17, <1>18, <1>19
  <2>2. m = [t |-> t, out |-> o, open |-> p, high |-> h, low |-> w, close |-> c, conns |-> k]
    BY <1>21, <2>1
  <2>. QED  BY <2>2 DEF Wick
<1>24. {m.open, m.close} \subseteq m.low..m.high
  <2>1. m.low \in Nat /\ m.high \in Nat /\ m.open \in Nat /\ m.close \in Nat
    BY <1>10, <1>16, <1>17, <1>22
  <2>. QED  BY <1>16, <1>17, <1>22, <2>1
<1>. QED  BY <1>4, <1>10, <1>18, <1>19, <1>20, <1>22, <1>23, <1>24 DEF CandleTells

\* The candles of a history, k buckets each.
CandlesOf(cs, k) ==
  /\ cs \in Seq(Wick) /\ Len(cs) = CeilDiv(Len(history), k)
  /\ \A i \in 1..Len(cs) : CandleTells(cs[i], Begin(i, k), Until(i, k, Len(history)))

LEMMA CoalescedIs ==
  ASSUME ChartsInv, NEW mode
  PROVE  CandlesOf(Coalesced(history, mode), PerCandle(history, mode))
<1>1. PICK n \in Nat : n = Len(history) /\ DOMAIN history = 1..n
  BY DEF ChartsInv, ChartsTypeOK
<1>2. PICK k \in Nat \ {0} : k = PerCandle(history, mode)
  BY BodiesFit
<1>3. PICK c \in Nat : c = CeilDiv(n, k)
  <2>1. n \in Int
    BY <1>1
  <2>. QED  BY <1>1, <2>1, CeilIs
<1>4. PICK cs : cs = Coalesced(history, mode)
  OBVIOUS
<1>5. cs = [i \in 1..c |-> Merged(SubSeq(Bodies, Begin(i, k), Until(i, k, n)))]
  <2>1. Len([i \in DOMAIN history |-> Candle(history[i])]) = n
    BY <1>1, BodiesAre DEF Bodies
  <2>2. cs = [i \in 1..CeilDiv(n, k) |->
                Merged(SubSeq([j \in DOMAIN history |-> Candle(history[j])],
                              k * (i - 1) + 1, IF k * i < n THEN k * i ELSE n))]
    BY <1>2, <1>4, <2>1 DEF Coalesced
  <2>. QED  BY <1>3, <2>2 DEF Bodies, Begin, Until
<1>6. ASSUME NEW i \in 1..c
      PROVE  CandleTells(cs[i], Begin(i, k), Until(i, k, n)) /\ cs[i] \in Wick
  <2>1. PICK a \in 1..n, b \in 1..n : a = Begin(i, k) /\ b = Until(i, k, n) /\ a <= b
    BY <1>3, Groups
  <2>2. cs[i] = Merged(SubSeq(Bodies, a, b))
    BY <1>5, <2>1
  <2>3. CandleTells(cs[i], a, b)
    BY <1>1, <2>1, <2>2, MergedIs
  <2>4. cs[i] \in Wick
    BY <2>3 DEF CandleTells
  <2>. QED  BY <2>1, <2>3, <2>4
<1>7. cs \in [1..c -> Wick]
  BY <1>5, <1>6
<1>8. cs \in Seq(Wick) /\ Len(cs) = c
  BY <1>7
<1>. QED  BY <1>1, <1>2, <1>3, <1>4, <1>6, <1>8 DEF CandlesOf

LEMMA SlotsApart ==
  ASSUME ChartsInv, NEW mode, NEW i \in Nat \ {0}, NEW j \in Nat, i < j,
         j <= Len(Coalesced(history, mode))
  PROVE  Coalesced(history, mode)[i].t + SlotOf(history, mode) <= Coalesced(history, mode)[j].t
<1>1. PICK n \in Nat : n = Len(history) /\ DOMAIN history = 1..n
  BY DEF ChartsInv, ChartsTypeOK
<1>2. PICK k \in Nat \ {0} : k = PerCandle(history, mode)
  BY BodiesFit
<1>3. PICK cs : cs = Coalesced(history, mode)
  OBVIOUS
<1>4. PICK c \in Nat : c = Len(cs) /\ c = CeilDiv(n, k)
  BY <1>1, <1>2, <1>3, CoalescedIs DEF CandlesOf
<1>5. i \in 1..c /\ j \in 1..c
  BY <1>3, <1>4
<1>6. PICK a \in 1..n : a = Begin(i, k) /\ cs[i].t = history[a].t
  <2>1. Begin(i, k) \in 1..n
    BY <1>4, <1>5, Groups
  <2>2. CandleTells(cs[i], Begin(i, k), Until(i, k, n))
    BY <1>1, <1>2, <1>3, <1>4, <1>5, CoalescedIs DEF CandlesOf
  <2>. QED  BY <2>1, <2>2 DEF CandleTells
<1>7. PICK b \in 1..n : b = Begin(j, k) /\ cs[j].t = history[b].t
  <2>1. Begin(j, k) \in 1..n
    BY <1>4, <1>5, Groups
  <2>2. CandleTells(cs[j], Begin(j, k), Until(j, k, n))
    BY <1>1, <1>2, <1>3, <1>4, <1>5, CoalescedIs DEF CandlesOf
  <2>. QED  BY <2>1, <2>2 DEF CandleTells
<1>8. a + k <= b /\ a < b
  <2>1. k * (i - 1) + k <= k * (j - 1)
    <3>1. PICK x \in Nat, y \in Nat : x = i - 1 /\ y = j - 1 /\ x < y
      OBVIOUS
    <3>2. k * x + k <= k * y
      BY <3>1
    <3>. QED  BY <3>1, <3>2
  <2>2. k * (i - 1) \in Int /\ k * (j - 1) \in Int
    OBVIOUS
  <2>3. PICK p \in Int, q \in Int : p = k * (i - 1) /\ q = k * (j - 1)
    BY <2>2
  <2>4. a = p + 1 /\ b = q + 1
    BY <1>6, <1>7, <2>3, Zenon DEF Begin
  <2>5. p + k <= q
    BY <2>1, <2>3
  <2>. QED  BY <2>4, <2>5
<1>9. history[a].t + Width * (b - a) <= history[b].t
  BY <1>1, <1>8 DEF ChartsInv, Spaced
<1>10. Width * k <= Width * (b - a) /\ Width \in Nat
  <2>1. PICK w \in Nat, d \in Nat : w = Width /\ d = b - a /\ k <= d
    BY <1>8, ChartsAssumption
  <2>2. w * k <= w * d
    BY <2>1
  <2>. QED  BY <2>1, <2>2
<1>11. history[a].t \in Nat /\ history[b].t \in Nat
  BY <1>1, ChartBuckets DEF ChartsInv, ChartsTypeOK
<1>12. PICK w \in Nat, v \in Nat : w = Width * k /\ v = Width * (b - a) /\ w <= v
  <2>1. b - a \in Nat
    BY <1>8
  <2>. QED  BY <1>10, <2>1
<1>13. history[a].t + w <= history[b].t
  BY <1>9, <1>11, <1>12, SMTT(20)
<1>. QED  BY <1>2, <1>3, <1>6, <1>7, <1>12, <1>13 DEF SlotOf

LEMMA CandlesTell ==
  ASSUME ChartsInv
  PROVE  CandlesAddUp
<1>1. PICK n \in Nat : n = Len(history) /\ DOMAIN history = 1..n
  BY DEF ChartsInv, ChartsTypeOK
<1>2. PICK k \in Nat \ {0} : k = PerCandle(history, "candles")
  BY BodiesFit
<1>3. PICK cs : cs = Coalesced(history, "candles")
  OBVIOUS
<1>4. cs \in Seq(Wick) /\ Len(cs) = CeilDiv(n, k)
  BY <1>1, <1>2, <1>3, CoalescedIs DEF CandlesOf
<1>5. PICK c \in Nat : c = Len(cs) /\ c = CeilDiv(n, k) /\ DOMAIN cs = 1..c
  BY <1>4
<1>6. \A i \in 1..c : CandleTells(cs[i], Begin(i, k), Until(i, k, n))
  BY <1>1, <1>2, <1>3, <1>5, CoalescedIs DEF CandlesOf
<1>7. Len(cs) <= MaxBodies
  BY <1>1, <1>2, <1>4, BodiesFit
<1>8. SumOver(cs, DOMAIN cs) = SumOver(history, DOMAIN history)
  <2>1. PICK S : S = 1..n
    OBVIOUS
  <2>2. PICK K : K = 1..c
    OBVIOUS
  <2>3. PICK g : g = Outs
    OBVIOUS
  <2>4. PICK of : of = [i \in DOMAIN cs |-> cs[i].out]
    OBVIOUS
  <2>5. PICK key : key = [j \in S |-> CeilDiv(j, k)]
    OBVIOUS
  <2>6. PICK part : part = [i \in K |-> Begin(i, k)..Until(i, k, n)]
    OBVIOUS
  <2>7. IsFiniteSet(S) /\ IsFiniteSet(K)
    BY <2>1, <2>2, GroupFinite
  <2>8. \A x \in S : g[x] \in Nat
    <3>1. \A x \in 1..n : history[x].out \in Nat
      BY <1>1, ChartBuckets DEF ChartsInv, ChartsTypeOK
    <3>. QED  BY <1>1, <2>1, <2>3, <3>1 DEF Outs
  <2>9. \A x \in S : key[x] \in K
    <3>. SUFFICES ASSUME NEW x \in S  PROVE key[x] \in K
      OBVIOUS
    <3>1. PICK d \in Nat \ {0} : d = CeilDiv(x, k) /\ x <= k * d /\ k * d < x + k
      <4>1. x \in Int /\ x \in Nat \ {0}
        BY <2>1
      <4>. QED  BY <4>1, CeilIs
    <3>2. n <= k * c
      <4>1. n \in Int
        BY <1>1
      <4>. QED  BY <1>5, <4>1, CeilIs
    <3>3. k * d < k * (c + 1)
      <4>1. k * (c + 1) = k * c + k
        BY <1>2
      <4>2. x \in Nat /\ x <= n
        BY <2>1
      <4>. QED  BY <1>2, <3>1, <3>2, <4>1, <4>2
    <3>4. d < c + 1
      BY <3>3
    <3>. QED  BY <2>2, <2>5, <3>1, <3>4
  <2>10. \A i \in K : part[i] \in SUBSET S /\ \A x \in S : x \in part[i] <=> key[x] = i
    <3>. SUFFICES ASSUME NEW i \in K
                  PROVE  part[i] \in SUBSET S /\ \A x \in S : x \in part[i] <=> key[x] = i
      OBVIOUS
    <3>1. i \in 1..CeilDiv(n, k) /\ part[i] = Begin(i, k)..Until(i, k, n)
      BY <1>5, <2>2, <2>6
    <3>2. Begin(i, k) \in 1..n /\ Until(i, k, n) \in 1..n
      BY <3>1, Groups
    <3>3. \A x \in 1..n : x \in part[i] <=> CeilDiv(x, k) = i
      BY <3>1, Groups
    <3>4. part[i] \in SUBSET S
      BY <2>1, <3>1, <3>2
    <3>. QED  BY <2>1, <2>5, <3>3, <3>4
  <2>11. \A i \in K : of[i] = Total(g, part[i])
    BY <1>5, <1>6, <2>2, <2>3, <2>4, <2>6 DEF CandleTells
  <2>12. Total(of, K) = Total(g, S)
    BY <2>7, <2>8, <2>9, <2>10, <2>11, SumByGroups
  <2>13. SumOver(cs, DOMAIN cs) = Total(of, K)
    BY <1>5, <2>2, <2>4 DEF SumOver, Total
  <2>14. SumOver(history, DOMAIN history) = Total(g, S)
    BY <1>1, <2>1, <2>3 DEF SumOver, Total, Outs
  <2>. QED  BY <2>12, <2>13, <2>14
<1>9. ASSUME NEW i \in 1..(Len(cs) - 1)
      PROVE  cs[i].t + SlotOf(history, "candles") <= cs[i + 1].t
  <2>1. i \in Nat \ {0} /\ i + 1 \in Nat /\ i < i + 1 /\ i + 1 <= Len(Coalesced(history, "candles"))
    BY <1>3, <1>5
  <2>. QED  BY <1>3, <2>1, SlotsApart
<1>10. \A b \in ToSet(cs) : {b.open, b.close} \subseteq b.low..b.high
  BY <1>5, <1>6 DEF ToSet, CandleTells
<1>11. \A i : i \in Known(cs) <=> i \in 1..c /\ cs[i].conns # Unknown
  BY <1>5 DEF Known
<1>12. \A j : j \in Known(history) <=> j \in 1..n /\ history[j].conns # Unknown
  BY <1>1 DEF Known
<1>13. \A i \in 1..c : cs[i].conns # Unknown <=>
                         \E j \in Begin(i, k)..Until(i, k, n) : history[j].conns # Unknown
  BY <1>6 DEF CandleTells
<1>14. Known(cs) = {} <=> Known(history) = {}
  <2>1. ASSUME NEW i \in Known(cs)  PROVE Known(history) # {}
    <3>1. i \in 1..c /\ i \in 1..CeilDiv(n, k) /\ cs[i].conns # Unknown
      BY <1>5, <1>11, <2>1
    <3>2. PICK j \in Begin(i, k)..Until(i, k, n) : history[j].conns # Unknown
      BY <1>13, <3>1
    <3>3. j \in 1..n
      <4>1. Begin(i, k) \in 1..n /\ Until(i, k, n) \in 1..n
        BY <3>1, Groups
      <4>. QED  BY <4>1
    <3>. QED  BY <1>12, <3>2, <3>3
  <2>2. ASSUME NEW j \in Known(history)  PROVE Known(cs) # {}
    <3>1. j \in 1..n /\ history[j].conns # Unknown
      BY <1>12
    <3>2. PICK i : i = CeilDiv(j, k)
      OBVIOUS
    <3>3. i \in 1..c
      <4>1. PICK d \in Nat \ {0} : d = CeilDiv(j, k) /\ j <= k * d /\ k * d < j + k
        <5>1. j \in Int /\ j \in Nat \ {0}
          BY <3>1
        <5>. QED  BY <5>1, CeilIs
      <4>2. n <= k * c
        <5>1. n \in Int
          BY <1>1
        <5>. QED  BY <1>5, <5>1, CeilIs
      <4>3. k * d < k * (c + 1)
        <5>1. k * (c + 1) = k * c + k
          BY <1>2
        <5>. QED  BY <1>2, <3>1, <4>1, <4>2, <5>1
      <4>4. d < c + 1
        BY <4>3
      <4>. QED  BY <3>2, <4>1, <4>4
    <3>4. j \in Begin(i, k)..Until(i, k, n)
      <4>1. i \in 1..CeilDiv(n, k)
        BY <1>5, <3>3
      <4>. QED  BY <3>1, <3>2, <4>1, Groups
    <3>5. cs[i].conns # Unknown
      BY <1>13, <3>1, <3>3, <3>4
    <3>. QED  BY <1>11, <3>3, <3>5
  <2>. QED  BY <2>1, <2>2
<1>15. ASSUME Known(cs) # {}  PROVE cs[Max(Known(cs))].conns = history[Max(Known(history))].conns
  <2>1. PICK K : K = Known(cs)
    OBVIOUS
  <2>2. PICK H : H = Known(history)
    OBVIOUS
  <2>3. Max(K) \in K
    <3>1. IsFiniteSet(1..c) /\ K \in SUBSET (1..c)
      BY <1>11, <2>1, GroupFinite
    <3>2. IsFiniteSet(K)
      BY <3>1, FS_Subset
    <3>3. K \in SUBSET Int /\ K # {}
      BY <1>11, <1>15, <2>1
    <3>. QED  BY <3>2, <3>3, MaxIs
  <2>4. Max(H) \in H
    <3>1. IsFiniteSet(1..n) /\ H \in SUBSET (1..n)
      BY <1>12, <2>2, GroupFinite
    <3>2. IsFiniteSet(H)
      BY <3>1, FS_Subset
    <3>3. H \in SUBSET Int /\ H # {}
      BY <1>12, <1>14, <1>15, <2>2
    <3>. QED  BY <3>2, <3>3, MaxIs
  <2>5. cs[Max(K)].conns # Unknown /\ cs[Max(K)].conns \in {Unknown, 1}
    <3>1. Max(K) \in 1..c /\ cs[Max(K)].conns # Unknown
      BY <1>11, <2>1, <2>3
    <3>2. cs[Max(K)] \in Wick
      BY <1>6, <3>1 DEF CandleTells
    <3>. QED  BY <3>1, <3>2 DEF Wick
  <2>6. history[Max(H)].conns # Unknown /\ history[Max(H)].conns \in {Unknown, 1}
    <3>1. Max(H) \in 1..n /\ history[Max(H)].conns # Unknown
      BY <1>12, <2>2, <2>4
    <3>. QED  BY <1>1, <3>1, ChartBuckets DEF ChartsInv, ChartsTypeOK
  <2>. QED  BY <2>1, <2>2, <2>5, <2>6
<1>. QED  BY <1>3, <1>7, <1>8, <1>9, <1>10, <1>14, <1>15 DEF CandlesAddUp

-----------------------------------------------------------------------------
(* The axis: labelled times and the cursor.                                *)

LEMMA DivIs ==
  ASSUME NEW n \in Int, NEW d \in Nat \ {0}
  PROVE  /\ n \div d \in Int /\ d * (n \div d) <= n /\ n < d * (n \div d) + d
         /\ (n \div d) * d = d * (n \div d) /\ d * (n \div d) \in Int
         /\ n \in Nat => n \div d \in Nat
<1>1. n \div d \in Int /\ d * (n \div d) <= n /\ n < d * (n \div d) + d
  OBVIOUS
<1>2. (n \div d) * d = d * (n \div d) /\ d * (n \div d) \in Int
  BY <1>1
<1>3. n \in Nat => n \div d \in Nat
  OBVIOUS
<1>. QED  BY <1>1, <1>2, <1>3

LEMMA AxisIs ==
  ASSUME ChartsInv, history # <<>>, NEW mode
  PROVE  LET cs == Coalesced(history, mode)
             c == CeilDiv(Len(history), PerCandle(history, mode))
         IN  /\ c \in Nat \ {0} /\ Len(cs) = c /\ cs[c].t \in Nat
             /\ SlotOf(history, mode) \in Nat \ {0}
             /\ Upper(history, mode) = cs[c].t + SlotOf(history, mode)
             /\ Upper(history, mode) \in Int /\ Lower(history, mode) \in Int
<1>1. PICK n \in Nat \ {0} : n = Len(history) /\ DOMAIN history = 1..n
  BY DEF ChartsInv, ChartsTypeOK
<1>2. PICK k \in Nat \ {0} : k = PerCandle(history, mode)
  BY BodiesFit
<1>3. PICK c \in Nat \ {0} : c = CeilDiv(n, k)
  <2>1. n \in Int
    BY <1>1
  <2>. QED  BY <1>1, <2>1, CeilIs
<1>4. PICK cs : cs = Coalesced(history, mode)
  OBVIOUS
<1>5. cs \in Seq(Wick) /\ Len(cs) = c
  BY <1>1, <1>2, <1>3, <1>4, CoalescedIs DEF CandlesOf
<1>6. cs[c] \in Wick /\ Last(cs) = cs[c]
  BY <1>3, <1>5 DEF Last
<1>7. cs[c].t \in Nat
  BY <1>6 DEF Wick
<1>8. SlotOf(history, mode) \in Nat \ {0}
  <2>1. PICK w \in Nat \ {0} : w = Width
    BY ChartsAssumption
  <2>2. w * k \in Nat \ {0}
    BY <1>2
  <2>. QED  BY <1>2, <2>1, <2>2 DEF SlotOf
<1>9. Upper(history, mode) = cs[c].t + SlotOf(history, mode)
  BY <1>4, <1>6 DEF Upper
<1>10. Upper(history, mode) \in Int
  BY <1>7, <1>8, <1>9
<1>11. Head(history).t \in Nat /\ Window \in Nat
  BY <1>1, ChartsAssumption, ChartBuckets DEF ChartsInv, ChartsTypeOK
<1>12. Lower(history, mode) \in Int
  BY <1>10, <1>11 DEF Lower
<1>. QED  BY <1>1, <1>2, <1>3, <1>4, <1>5, <1>7, <1>8, <1>9, <1>10, <1>12

LEMMA StepIs ==
  ASSUME NEW span \in Int
  PROVE  /\ TickStep(span) \in Nat \ {0}
         /\ span <= MaxTicks * Last(TickSteps) => span <= MaxTicks * TickStep(span)
<1>1. PICK n \in Nat \ {0} : n = Len(TickSteps) /\ DOMAIN TickSteps = 1..n
  BY ChartsAssumption
<1>2. /\ \A i \in 1..n : TickSteps[i] \in Nat \ {0}
      /\ Last(TickSteps) = TickSteps[n] /\ n \in 1..n
  BY <1>1, ChartsAssumption DEF Last
<1>3. PICK fits : fits = {i \in DOMAIN TickSteps : span <= MaxTicks * TickSteps[i]}
  OBVIOUS
<1>4. \A i : i \in fits <=> i \in 1..n /\ span <= MaxTicks * TickSteps[i]
  BY <1>1, <1>3
<1>5. TickStep(span) = IF fits = {} THEN Last(TickSteps) ELSE TickSteps[Min(fits)]
  BY <1>3 DEF TickStep
<1>6. ASSUME fits # {}  PROVE Min(fits) \in fits
  <2>1. IsFiniteSet(1..n) /\ fits \in SUBSET (1..n)
    BY <1>4, GroupFinite
  <2>2. IsFiniteSet(fits)
    BY <2>1, FS_Subset
  <2>3. fits \in SUBSET Int
    BY <1>4
  <2>. QED  BY <1>6, <2>2, <2>3, MinIs
<1>7. CASE fits = {}
  <2>1. ~(span <= MaxTicks * Last(TickSteps))
    BY <1>2, <1>4, <1>7
  <2>. QED  BY <1>2, <1>5, <1>7, <2>1
<1>8. CASE fits # {}
  <2>1. Min(fits) \in 1..n /\ span <= MaxTicks * TickSteps[Min(fits)]
    BY <1>4, <1>6, <1>8
  <2>. QED  BY <1>2, <1>5, <1>8, <2>1
<1>. QED  BY <1>7, <1>8

LEMMA TicksTell ==
  ASSUME ChartsInv
  PROVE  TicksFit
<1>. SUFFICES ASSUME NEW mode \in Modes, history # <<>>,
                     NEW t0, t0 = Lower(history, mode), NEW t1, t1 = Upper(history, mode),
                     NEW ticks, ticks = TimeTicks(t0, t1)
              PROVE  /\ ticks \subseteq t0..t1
                     /\ t1 - t0 <= MaxTicks * Last(TickSteps) => Cardinality(ticks) <= MaxTicks + 1
                     /\ \A a \in ticks : a + TickStep(t1 - t0) <= t1 => a + TickStep(t1 - t0) \in ticks
  BY DEF TicksFit
<1>1. t0 \in Int /\ t1 \in Int /\ t1 - t0 \in Int
  BY AxisIs
<1>2. PICK step \in Nat \ {0} :
        /\ step = TickStep(t1 - t0)
        /\ t1 - t0 <= MaxTicks * Last(TickSteps) => t1 - t0 <= MaxTicks * step
  BY <1>1, StepIs
<1>3. PICK lo \in Int : lo = CeilDiv(t0, step) /\ t0 <= step * lo
  BY <1>1, CeilIs
<1>4. PICK hi \in Int : hi = t1 \div step /\ step * hi <= t1 /\ t1 < step * hi + step
  BY <1>1, DivIs
<1>5. ticks = {n * step : n \in lo..hi}
  BY <1>2, <1>3, <1>4 DEF TimeTicks
<1>6. ticks \subseteq t0..t1
  <2>. SUFFICES ASSUME NEW n \in lo..hi  PROVE n * step \in t0..t1
    BY <1>5
  <2>1. n * step = step * n /\ step * lo <= step * n /\ step * n <= step * hi
    OBVIOUS
  <2>2. PICK x \in Int, y \in Int, z \in Int : x = step * lo /\ y = step * n /\ z = step * hi
    OBVIOUS
  <2>3. x <= y /\ y <= z /\ t0 <= x /\ z <= t1 /\ n * step = y
    BY <1>3, <1>4, <2>1, <2>2
  <2>. QED  BY <1>1, <2>2, <2>3
<1>7. ASSUME t1 - t0 <= MaxTicks * Last(TickSteps)  PROVE Cardinality(ticks) <= MaxTicks + 1
  <2>1. PICK m \in Nat : m = MaxTicks
    BY ChartsAssumption
  <2>2. hi - lo <= m
    <3>1. PICK x \in Int, y \in Int, z \in Int : x = step * lo /\ y = step * hi /\ z = m * step
      OBVIOUS
    <3>2. y - x <= z
      <4>1. t0 <= x
        BY <1>3, <3>1
      <4>2. y <= t1
        BY <1>4, <3>1
      <4>3. t1 - t0 <= z
        BY <1>2, <1>7, <2>1, <3>1
      <4>4. x \in Int /\ y \in Int /\ z \in Int
        BY <3>1
      <4>. QED  BY <1>1, <4>1, <4>2, <4>3, <4>4
    <3>3. step * (hi - lo) = y - x /\ step * (m + 1) = z + step
      BY <3>1
    <3>4. step * (hi - lo) < step * (m + 1)
      BY <3>1, <3>2, <3>3
    <3>5. hi - lo < m + 1
      <4>1. PICK d \in Int : d = hi - lo
        OBVIOUS
      <4>. QED  BY <3>4, <4>1
    <3>. QED  BY <3>5
  <2>3. IsFiniteSet(lo..hi) /\ Cardinality(lo..hi) = IF lo > hi THEN 0 ELSE hi - lo + 1
    BY FS_Interval
  <2>4. PICK f : f = [n \in lo..hi |-> n * step]
    OBVIOUS
  <2>5. f \in Surjection(lo..hi, ticks)
    BY <1>5, <2>4 DEF Surjection
  <2>6. PICK S : S = lo..hi
    OBVIOUS
  <2>7. IsFiniteSet(ticks) /\ Cardinality(ticks) <= Cardinality(S)
    BY <2>3, <2>5, <2>6, FS_Surjection
  <2>8. Cardinality(ticks) \in Nat
    BY <2>7, FS_CardinalityType
  <2>. QED  BY <2>1, <2>2, <2>3, <2>6, <2>7, <2>8
<1>8. ASSUME NEW a \in ticks, a + step <= t1  PROVE a + step \in ticks
  <2>1. PICK n \in lo..hi : a = n * step
    BY <1>5
  <2>2. n \in Int /\ lo <= n /\ a + step = (n + 1) * step /\ (n + 1) * step = step * (n + 1)
    BY <2>1
  <2>3. n + 1 <= hi
    <3>1. step * (n + 1) < step * (hi + 1)
      <4>1. step * (hi + 1) = step * hi + step
        OBVIOUS
      <4>2. PICK x \in Int, y \in Int : x = step * (n + 1) /\ y = step * hi
        BY <2>2
      <4>3. a + step = x
        BY <2>2, <4>2
      <4>4. x <= t1
        BY <1>8, <4>3
      <4>5. t1 < y + step
        BY <1>4, <4>2
      <4>6. x < y + step
        BY <1>1, <4>2, <4>4, <4>5
      <4>. QED  BY <4>1, <4>2, <4>6
    <3>2. PICK p \in Int, q \in Int : p = n + 1 /\ q = hi + 1 /\ step * p < step * q
      BY <2>2, <3>1
    <3>3. p < q
      BY <3>2
    <3>. QED  BY <2>2, <3>2, <3>3
  <2>4. n + 1 \in lo..hi
    BY <2>2, <2>3
  <2>. QED  BY <1>5, <2>2, <2>4
<1>. QED  BY <1>2, <1>6, <1>7, <1>8

\* A history without gaps is as long as its buckets are wide.
LEMMA Straight ==
  ASSUME ChartsInv, NoGaps(history)
  PROVE  \A i \in DOMAIN history : history[i].t = Head(history).t + Width * (i - 1)
<1>1. PICK n \in Nat : n = Len(history) /\ DOMAIN history = 1..n
  BY DEF ChartsInv, ChartsTypeOK
<1>. DEFINE Good == {i \in Nat : i + 1 <= n => history[i + 1].t = history[1].t + Width * i}
<1>2. PICK w \in Nat : w = Width
  BY ChartsAssumption
<1>3. \A i \in 1..n : history[i].t \in Nat
  BY <1>1, ChartBuckets DEF ChartsInv, ChartsTypeOK
<1>4. 0 \in Good
  <2>1. w * 0 = 0 /\ 0 + 1 = 1
    BY <1>2
  <2>2. 0 + 1 <= n => history[0 + 1].t = history[1].t + w * 0
    BY <1>3, <2>1
  <2>. QED  BY <1>2, <2>2
<1>5. ASSUME NEW i \in Nat, i \in Good  PROVE i + 1 \in Good
  <2>. SUFFICES ASSUME i + 1 + 1 <= n  PROVE history[i + 1 + 1].t = history[1].t + Width * (i + 1)
    OBVIOUS
  <2>1. i + 1 \in 1..(Len(history) - 1) /\ i + 1 <= n /\ 1 \in 1..n
    BY <1>1
  <2>2. history[i + 1 + 1].t = history[i + 1].t + Width
    BY <2>1 DEF NoGaps
  <2>3. history[i + 1].t = history[1].t + w * i
    BY <1>2, <1>5, <2>1
  <2>4. w * (i + 1) = w * i + w
    BY <1>2
  <2>5. PICK x \in Nat, y \in Nat : x = history[1].t /\ y = w * i
    BY <1>2, <1>3, <2>1
  <2>. QED  BY <1>2, <2>2, <2>3, <2>4, <2>5
<1>. HIDE DEF Good
<1>6. \A i \in Nat : i \in Good
  BY <1>4, <1>5, ByNumbers
<1>7. ASSUME NEW i \in DOMAIN history
      PROVE  history[i].t = Head(history).t + Width * (i - 1)
  <2>1. i - 1 \in Nat /\ (i - 1) + 1 = i /\ i <= n
    BY <1>1
  <2>2. i - 1 \in Good
    BY <1>6, <2>1
  <2>3. history # <<>>
    BY <1>1
  <2>4. Head(history) = history[1]
    BY <2>3, ChartBuckets DEF ChartsInv, ChartsTypeOK
  <2>. QED  BY <2>1, <2>2, <2>4 DEF Good
<1>. QED  BY <1>7

\* The candle whose slot h is in.
Under(h, mode, i) ==
  LET cs == Coalesced(history, mode)
  IN i \in 1..Len(cs) /\ cs[i].t <= h /\ h < cs[i].t + SlotOf(history, mode)

LEMMA UnderIsRead ==
  ASSUME ChartsInv, NEW mode \in Modes, history # <<>>, NEW h \in Int, NEW i, Under(h, mode, i)
  PROVE  ResolveHover(h, history, mode) = Coalesced(history, mode)[i]
<1>1. PICK cs : cs = Coalesced(history, mode)
  OBVIOUS
<1>2. PICK w \in Nat \ {0} : w = SlotOf(history, mode)
  BY AxisIs
<1>3. PICK c \in Nat : c = Len(cs) /\ DOMAIN cs = 1..c
  BY <1>1, CoalescedIs DEF CandlesOf
<1>4. \A j \in 1..c : cs[j].t \in Nat
  <2>1. \A j \in 1..c : cs[j] \in Wick
    BY <1>1, <1>3, CoalescedIs DEF CandlesOf
  <2>. QED  BY <2>1 DEF Wick
<1>5. i \in 1..c /\ cs[i].t <= h /\ h < cs[i].t + w
  BY <1>1, <1>2, <1>3 DEF Under
<1>6. PICK hit : hit = {b \in ToSet(cs) : b.t <= h /\ h < b.t + w}
  OBVIOUS
<1>7. ASSUME NEW b \in hit  PROVE b = cs[i]
  <2>1. PICK j \in 1..c : b = cs[j]
    BY <1>3, <1>6 DEF ToSet
  <2>2. cs[j].t <= h /\ h < cs[j].t + w
    BY <1>6, <2>1
  <2>3. j = i
    <3>1. CASE i < j
      <4>1. cs[i].t + w <= cs[j].t
        <5>1. i \in Nat \ {0} /\ j \in Nat /\ j <= Len(Coalesced(history, mode))
          BY <1>1, <1>3, <1>5
        <5>. QED  BY <1>1, <1>2, <3>1, <5>1, SlotsApart
      <4>. QED  BY <1>4, <1>5, <2>2, <4>1
    <3>2. CASE j < i
      <4>1. cs[j].t + w <= cs[i].t
        <5>1. j \in Nat \ {0} /\ i \in Nat /\ i <= Len(Coalesced(history, mode))
          BY <1>1, <1>3, <1>5
        <5>. QED  BY <1>1, <1>2, <3>2, <5>1, SlotsApart
      <4>. QED  BY <1>4, <1>5, <2>2, <4>1
    <3>. QED  BY <1>5, <3>1, <3>2
  <2>. QED  BY <2>1, <2>3
<1>8. cs[i] \in hit
  BY <1>3, <1>5, <1>6 DEF ToSet
<1>9. cs[i].t <= cs[i].t
  BY <1>4, <1>5
<1>10. (CHOOSE b \in hit : \A d \in hit : b.t <= d.t) = cs[i]
  <2>1. \A d \in hit : cs[i].t <= d.t
    BY <1>7, <1>9
  <2>2. (CHOOSE b \in hit : \A d \in hit : b.t <= d.t) \in hit
    BY <1>8, <2>1
  <2>. QED  BY <1>7, <2>2
<1>11. hit # {}
  BY <1>8
<1>. QED  BY <1>1, <1>2, <1>6, <1>10, <1>11 DEF ResolveHover

LEMMA NoneIsZero ==
  ASSUME ChartsInv, NEW mode \in Modes, history # <<>>,
         NEW h \in Lower(history, mode)..(Upper(history, mode) - 1),
         \A i : ~Under(h, mode, i)
  PROVE  ResolveHover(h, history, mode)
           = ZeroBucket((h \div SlotOf(history, mode)) * SlotOf(history, mode))
<1>1. PICK cs : cs = Coalesced(history, mode)
  OBVIOUS
<1>2. PICK w \in Nat \ {0} : w = SlotOf(history, mode)
  BY AxisIs
<1>3. DOMAIN cs = 1..Len(cs)
  BY <1>1, CoalescedIs DEF CandlesOf
<1>4. PICK hit : hit = {b \in ToSet(cs) : b.t <= h /\ h < b.t + w}
  OBVIOUS
<1>5. hit = {}
  <2>. SUFFICES ASSUME NEW b \in hit  PROVE FALSE
    OBVIOUS
  <2>1. PICK i \in 1..Len(cs) : b = cs[i]
    BY <1>3, <1>4 DEF ToSet
  <2>2. cs[i].t <= h /\ h < cs[i].t + w
    BY <1>4, <2>1
  <2>. QED  BY <1>1, <1>2, <2>1, <2>2 DEF Under
<1>6. Clamped(h, history, mode) = h
  <2>1. Lower(history, mode) \in Int /\ Upper(history, mode) \in Int
    BY AxisIs
  <2>2. PICK l \in Int, u \in Int : l = Lower(history, mode) /\ u = Upper(history, mode)
    BY <2>1
  <2>3. h \in Int /\ l <= h /\ h <= u - 1
    BY <2>2
  <2>. QED  BY <2>2, <2>3 DEF Clamped
<1>. QED  BY <1>1, <1>2, <1>4, <1>5, <1>6 DEF ResolveHover

\* The buckets that start in the slot of the i-th candle.
LEMMA InSlot ==
  ASSUME ChartsInv, NEW mode \in Modes, NEW i \in 1..Len(Coalesced(history, mode)),
         PerCandle(history, mode) = 1 \/ NoGaps(history)
  PROVE  LET k == PerCandle(history, mode)
             t == Coalesced(history, mode)[i].t
             span == t..(t + SlotOf(history, mode) - 1)
         IN  {j \in DOMAIN history : history[j].t \in span}
               = Begin(i, k)..Until(i, k, Len(history))
<1>1. PICK n \in Nat : n = Len(history) /\ DOMAIN history = 1..n
  BY DEF ChartsInv, ChartsTypeOK
<1>2. PICK k \in Nat \ {0} : k = PerCandle(history, mode)
  BY BodiesFit
<1>3. PICK cs : cs = Coalesced(history, mode)
  OBVIOUS
<1>4. PICK c \in Nat : c = Len(cs) /\ c = CeilDiv(n, k)
  BY <1>1, <1>2, <1>3, CoalescedIs DEF CandlesOf
<1>5. PICK a \in 1..n, b \in 1..n :
        a = Begin(i, k) /\ b = Until(i, k, n) /\ a <= b /\ cs[i].t = history[a].t
  <2>1. i \in 1..CeilDiv(n, k)
    BY <1>3, <1>4
  <2>2. Begin(i, k) \in 1..n /\ Until(i, k, n) \in 1..n /\ Begin(i, k) <= Until(i, k, n)
    BY <2>1, Groups
  <2>3. CandleTells(cs[i], Begin(i, k), Until(i, k, n))
    BY <1>1, <1>2, <1>3, <1>4, <2>1, CoalescedIs DEF CandlesOf
  <2>. QED  BY <2>2, <2>3 DEF CandleTells
<1>6. PICK v \in Nat \ {0} : v = Width
  BY ChartsAssumption
<1>7. PICK w \in Nat \ {0} : w = v * k /\ w = SlotOf(history, mode)
  <2>1. v * k \in Nat \ {0}
    BY <1>2, <1>6
  <2>. QED  BY <1>2, <1>6, <2>1 DEF SlotOf
<1>8. \A j \in 1..n : history[j].t \in Nat
  BY <1>1, ChartBuckets DEF ChartsInv, ChartsTypeOK
<1>9. ASSUME NEW j \in 1..n, j < a  PROVE history[j].t < history[a].t
  <2>1. history[j].t + Width * (a - j) <= history[a].t
    BY <1>1, <1>9 DEF ChartsInv, Spaced
  <2>2. PICK d \in Nat \ {0} : d = a - j
    BY <1>9
  <2>3. PICK x \in Nat \ {0} : x = v * d
    BY <2>2
  <2>4. history[j].t + x <= history[a].t
    BY <1>6, <2>1, <2>2, <2>3
  <2>5. x \in Nat \ {0}
    BY <2>3
  <2>. QED  BY <1>8, <2>4, <2>5
<1>10. ASSUME NEW j \in 1..n, b < j  PROVE history[a].t + w <= history[j].t
  <2>1. b = k * i /\ a + k = b + 1
    <3>1. i # CeilDiv(n, k)
      <4>1. i = CeilDiv(n, k) => b = n
        BY <1>3, <1>4, <1>5, Groups
      <4>. QED  BY <1>10, <4>1
    <3>2. i < CeilDiv(n, k) /\ i \in 1..CeilDiv(n, k)
      BY <1>3, <1>4, <3>1
    <3>3. b = k * i
      BY <1>5, <3>2, Groups
    <3>4. k * (i - 1) = k * i - k
      <4>1. i \in Int
        BY <3>2, <1>4
      <4>. QED  BY <4>1
    <3>. QED  BY <1>5, <3>3, <3>4 DEF Begin
  <2>2. PICK d \in Nat : d = j - a /\ k <= d
    BY <1>10, <2>1
  <2>3. history[a].t + Width * (j - a) <= history[j].t
    BY <1>1, <1>10, <1>5 DEF ChartsInv, Spaced
  <2>4. PICK x \in Nat : x = v * d /\ w <= x
    <3>1. v * k <= v * d
      BY <2>2
    <3>. QED  BY <1>7, <2>2, <3>1
  <2>. QED  BY <1>6, <1>8, <2>2, <2>3, <2>4
<1>11. ASSUME NEW j \in 1..n, a <= j, j <= b
       PROVE  history[a].t <= history[j].t /\ history[j].t < history[a].t + w
  <2>1. CASE j = a
    BY <1>7, <1>8, <2>1
  <2>2. CASE j # a
    <3>1. j - a < k
      <4>1. b <= k * i
        <5>1. k * i \in Int /\ n \in Int
          BY <1>3, <1>4
        <5>. QED  BY <1>5, <5>1 DEF Until
      <4>2. k * (i - 1) = k * i - k /\ k * i \in Int
        <5>1. i \in Int
          BY <1>3, <1>4
        <5>. QED  BY <5>1
      <4>. QED  BY <1>5, <1>11, <4>1, <4>2, SMTT(20) DEF Begin
    <3>2. NoGaps(history)
      <4>1. k # 1
        BY <1>11, <2>2, <3>1
      <4>. QED  BY <1>2, <4>1
    <3>3. PICK d \in Nat : d = j - a /\ d < k
      BY <1>11, <3>1
    <3>4. history[j].t = Head(history).t + v * (j - 1) /\ history[a].t = Head(history).t + v * (a - 1)
      BY <1>1, <1>6, <3>2, Straight
    <3>5. PICK x \in Nat, y \in Nat, z \in Nat : x = v * (j - 1) /\ y = v * (a - 1) /\ z = v * d
      BY <3>3
    <3>6. x = y + z /\ z < w
      <4>1. v * ((a - 1) + d) = v * (a - 1) + v * d
        BY <3>3
      <4>2. (a - 1) + d = j - 1
        BY <3>3
      <4>3. v * d < v * k
        BY <3>3
      <4>. QED  BY <1>7, <3>5, <4>1, <4>2, <4>3
    <3>7. Head(history).t \in Nat
      <4>1. history # <<>>
        BY <1>1
      <4>. QED  BY <4>1, ChartBuckets DEF ChartsInv, ChartsTypeOK
    <3>8. history[j].t = history[a].t + z
      <4>1. history[j].t = Head(history).t + x /\ history[a].t = Head(history).t + y
        BY <3>4, <3>5
      <4>. QED  BY <3>5, <3>6, <3>7, <4>1, SMTT(20)
    <3>9. PICK p \in Nat, q \in Nat : p = history[a].t /\ q = history[j].t
      BY <1>8
    <3>10. q = p + z
      BY <3>8, <3>9
    <3>11. z \in Nat /\ z < w /\ w \in Nat
      BY <1>7, <3>5, <3>6
    <3>. QED  BY <3>9, <3>10, <3>11
  <2>. QED  BY <2>1, <2>2
<1>12. \A j \in 1..n : history[j].t \in cs[i].t..(cs[i].t + w - 1) <=> j \in a..b
  <2>. SUFFICES ASSUME NEW j \in 1..n
                PROVE  history[j].t \in cs[i].t..(cs[i].t + w - 1) <=> j \in a..b
    OBVIOUS
  <2>1. history[j].t \in cs[i].t..(cs[i].t + w - 1) <=>
          history[a].t <= history[j].t /\ history[j].t < history[a].t + w
    <3>1. PICK x \in Nat, y \in Nat : x = cs[i].t /\ x = history[a].t /\ y = history[j].t
      BY <1>5, <1>8
    <3>2. w \in Nat
      BY <1>7
    <3>3. y \in x..(x + w - 1) <=> x <= y /\ y < x + w
      BY <3>2
    <3>. QED  BY <3>1, <3>3
  <2>2. history[a].t \in Nat /\ history[j].t \in Nat
    BY <1>8
  <2>. QED  BY <1>9, <1>10, <1>11, <2>1, <2>2, SMTT(20)
<1>13. {j \in DOMAIN history : history[j].t \in cs[i].t..(cs[i].t + w - 1)} = a..b
  BY <1>1, <1>12
<1>. QED  BY <1>1, <1>2, <1>3, <1>5, <1>7, <1>13

\* Where the history has no gap, every moment from its first is in the slot of a candle.
LEMMA SomeUnder ==
  ASSUME ChartsInv, NEW mode \in Modes, history # <<>>, NoGaps(history),
         NEW h \in Int, Head(history).t <= h, h < Upper(history, mode)
  PROVE  \E i : Under(h, mode, i)
<1>1. PICK n \in Nat : n = Len(history) /\ DOMAIN history = 1..n
  BY DEF ChartsInv, ChartsTypeOK
<1>2. PICK k \in Nat \ {0} : k = PerCandle(history, mode)
  BY BodiesFit
<1>3. PICK cs : cs = Coalesced(history, mode)
  OBVIOUS
<1>4. PICK c \in Nat \ {0} : c = Len(cs) /\ c = CeilDiv(n, k)
  BY <1>1, <1>2, <1>3, AxisIs
<1>5. PICK v \in Nat \ {0} : v = Width
  BY ChartsAssumption
<1>6. PICK w \in Nat \ {0} : w = v * k /\ w = SlotOf(history, mode)
  <2>1. v * k \in Nat \ {0}
    BY <1>2, <1>5
  <2>. QED  BY <1>2, <1>5, <2>1 DEF SlotOf
<1>7. PICK t \in Nat : t = Head(history).t
  BY ChartBuckets DEF ChartsInv, ChartsTypeOK
<1>8. \A i \in 1..c : cs[i].t = t + w * (i - 1)
  <2>. SUFFICES ASSUME NEW i \in 1..c  PROVE cs[i].t = t + w * (i - 1)
    OBVIOUS
  <2>1. PICK a \in 1..n : a = k * (i - 1) + 1 /\ cs[i].t = history[a].t
    <3>1. i \in 1..CeilDiv(n, k)
      BY <1>4
    <3>2. Begin(i, k) \in 1..n
      BY <3>1, Groups
    <3>3. CandleTells(cs[i], Begin(i, k), Until(i, k, n))
      BY <1>1, <1>2, <1>3, <1>4, CoalescedIs DEF CandlesOf
    <3>. QED  BY <3>2, <3>3 DEF CandleTells, Begin
  <2>2. history[a].t = t + v * (a - 1)
    BY <1>1, <1>5, <1>7, Straight
  <2>3. v * (a - 1) = w * (i - 1)
    <3>1. PICK d \in Nat : d = i - 1
      OBVIOUS
    <3>2. k * d \in Nat /\ a - 1 = k * d
      BY <2>1, <3>1
    <3>3. v * (k * d) = (v * k) * d
      BY <3>1
    <3>. QED  BY <1>6, <3>1, <3>2, <3>3
  <2>. QED  BY <2>1, <2>2, <2>3
<1>9. PICK x \in Nat : x = h - t
  BY <1>7
<1>10. PICK q \in Nat : w * q <= x /\ x < w * q + w
  <2>1. x \in Int /\ x \in Nat
    BY <1>9
  <2>. QED  BY <2>1, DivIs
<1>11. x < w * c
  <2>1. Upper(history, mode) = cs[c].t + w
    BY <1>1, <1>2, <1>3, <1>4, <1>6, AxisIs
  <2>2. cs[c].t = t + w * (c - 1) /\ w * (c - 1) = w * c - w
    BY <1>4, <1>8
  <2>3. PICK y \in Int : y = w * c
    BY <1>4
  <2>4. h < t + (y - w) + w
    BY <2>1, <2>2, <2>3
  <2>. QED  BY <1>9, <2>3, <2>4
<1>12. q < c
  <2>1. PICK y \in Int, z \in Int : y = w * q /\ z = w * c
    BY <1>4, <1>10
  <2>2. y < z
    BY <1>9, <1>10, <1>11, <2>1
  <2>. QED  BY <1>4, <1>10, <2>1, <2>2
<1>13. PICK i \in 1..c : i = q + 1 /\ i - 1 = q
  BY <1>4, <1>10, <1>12
<1>14. cs[i].t <= h /\ h < cs[i].t + w
  <2>1. PICK y \in Int : y = w * q
    BY <1>10
  <2>2. y <= x /\ x < y + w /\ cs[i].t = t + y
    BY <1>8, <1>10, <1>13, <2>1
  <2>. QED  BY <1>7, <1>9, <2>1, <2>2
<1>15. Under(h, mode, i)
  BY <1>3, <1>4, <1>6, <1>14 DEF Under
<1>. QED  BY <1>15

LEMMA ReadingsTell ==
  ASSUME ChartsInv
  PROVE  HoverIsHonest
<1>. SUFFICES ASSUME NEW mode \in Modes, history # <<>>,
                     NEW h \in Lower(history, mode)..(Upper(history, mode) - 1)
              PROVE  LET b == ResolveHover(h, history, mode)
                         span == b.t..(b.t + SlotOf(history, mode) - 1)
                         one == PerCandle(history, mode) = 1
                     IN /\ h \in span
                        /\ h < Head(history).t => b = ZeroBucket(b.t)
                        /\ b.conns # Unknown => h \in Recorded(history) \/ ~one
                        /\ one \/ (NoGaps(history) /\ Head(history).t <= h) =>
                             b.out = SumOver(history, {i \in DOMAIN history : history[i].t \in span})
  BY DEF HoverIsHonest
<1>. DEFINE one == PerCandle(history, mode) = 1
<1>b. PICK b : b = ResolveHover(h, history, mode)
  OBVIOUS
<1>s. PICK span : span = b.t..(b.t + SlotOf(history, mode) - 1)
  OBVIOUS
<1>o. one <=> PerCandle(history, mode) = 1
  OBVIOUS
<1>. HIDE DEF one
<1>1. PICK n \in Nat : n = Len(history) /\ DOMAIN history = 1..n
  BY DEF ChartsInv, ChartsTypeOK
<1>2. PICK k \in Nat \ {0} : k = PerCandle(history, mode)
  BY BodiesFit
<1>3. PICK cs : cs = Coalesced(history, mode)
  OBVIOUS
<1>4. PICK w \in Nat \ {0} : w = SlotOf(history, mode)
  BY AxisIs
<1>5. h \in Int /\ h < Upper(history, mode)
  <2>1. PICK l \in Int, u \in Int : l = Lower(history, mode) /\ u = Upper(history, mode)
    BY AxisIs
  <2>. QED  BY <2>1
<1>6. \A j \in 1..n : history[j].t \in Nat
  BY <1>1, ChartBuckets DEF ChartsInv, ChartsTypeOK
<1>7. Head(history) = history[1] /\ 1 \in 1..n
  BY <1>1, ChartBuckets DEF ChartsInv, ChartsTypeOK
<1>8. CASE \E i : Under(h, mode, i)
  <2>1. PICK i : Under(h, mode, i)
    BY <1>8
  <2>2. i \in 1..Len(cs) /\ cs[i].t <= h /\ h < cs[i].t + w /\ i \in 1..CeilDiv(n, k)
    BY <1>1, <1>2, <1>3, <1>4, <2>1, CoalescedIs DEF Under, CandlesOf
  <2>3. b = cs[i]
    BY <1>b, <1>3, <1>5, <2>1, UnderIsRead
  <2>4. CandleTells(b, Begin(i, k), Until(i, k, n))
    BY <1>1, <1>2, <1>3, <2>2, <2>3, CoalescedIs DEF CandlesOf
  <2>5. PICK a \in 1..n, z \in 1..n :
          a = Begin(i, k) /\ z = Until(i, k, n) /\ a <= z /\ b.t = history[a].t
    BY <2>2, <2>4, Groups DEF CandleTells
  <2>6. PICK t \in Nat : t = b.t
    BY <1>6, <2>5
  <2>7. h \in span
    <3>1. t <= h /\ h < t + w /\ span = t..(t + w - 1)
      BY <1>s, <1>4, <2>2, <2>3, <2>6
    <3>2. h \in Int /\ t \in Int /\ w \in Int
      BY <1>4, <1>5, <2>6
    <3>. QED  BY <3>1, <3>2
  <2>8. ~(h < Head(history).t)
    <3>1. history[1].t <= history[a].t
      <4>1. CASE a = 1
        BY <1>6, <1>7, <4>1
      <4>2. CASE a # 1
        <5>1. 1 < a
          BY <4>2
        <5>2. history[1].t + Width * (a - 1) <= history[a].t
          BY <1>1, <1>7, <5>1 DEF ChartsInv, Spaced
        <5>3. PICK x \in Nat : x = Width * (a - 1)
          <6>1. PICK v \in Nat, d \in Nat : v = Width /\ d = a - 1
            BY ChartsAssumption
          <6>. QED  BY <6>1
        <5>. QED  BY <1>6, <1>7, <5>2, <5>3
      <4>. QED  BY <4>1, <4>2
    <3>. QED  BY <1>5, <1>6, <1>7, <2>2, <2>3, <2>5, <3>1
  <2>9. ASSUME b.conns # Unknown, one  PROVE h \in Recorded(history)
    <3>1. w = Width
      <4>1. Width * 1 = Width
        BY ChartsAssumption
      <4>. QED  BY <1>o, <1>4, <2>9, <4>1 DEF SlotOf
    <3>2. h \in history[a].t..(history[a].t + Width - 1)
      BY <1>s, <1>4, <2>5, <2>7, <3>1
    <3>3. history[a] \in ToSet(history)
      BY <1>1 DEF ToSet
    <3>. QED  BY <3>2, <3>3 DEF Recorded
  <2>10. ASSUME one \/ NoGaps(history)
         PROVE  b.out = SumOver(history, {j \in DOMAIN history : history[j].t \in span})
    <3>1. PICK I : I = {j \in DOMAIN history : history[j].t \in span}
      OBVIOUS
    <3>2. i \in 1..Len(Coalesced(history, mode)) /\ (PerCandle(history, mode) = 1 \/ NoGaps(history))
      BY <1>o, <1>3, <2>2, <2>10
    <3>3. {j \in DOMAIN history :
             history[j].t \in Coalesced(history, mode)[i].t..
                                (Coalesced(history, mode)[i].t + SlotOf(history, mode) - 1)}
            = Begin(i, PerCandle(history, mode))..Until(i, PerCandle(history, mode), Len(history))
      BY <3>2, InSlot
    <3>4. I = Begin(i, k)..Until(i, k, n)
      BY <1>s, <1>1, <1>2, <1>3, <2>3, <3>1, <3>3
    <3>5. b.out = Total(Outs, I)
      BY <2>4, <3>4 DEF CandleTells
    <3>. QED  BY <3>1, <3>5 DEF SumOver, Total, Outs
  <2>. QED  BY <1>b, <1>s, <1>o, <2>7, <2>8, <2>9, <2>10
<1>9. CASE \A i : ~Under(h, mode, i)
  <2>1. PICK q \in Int : q = h \div w /\ w * q <= h /\ h < w * q + w /\ q * w = w * q
    BY <1>4, <1>5, DivIs
  <2>2. PICK t \in Int : t = q * w /\ t <= h /\ h < t + w
    BY <2>1
  <2>3. b = ZeroBucket(t)
    BY <1>b, <1>4, <1>9, <2>1, <2>2, NoneIsZero
  <2>4. b.t = t /\ b.out = 0 /\ b.conns = Unknown
    BY <2>3 DEF ZeroBucket
  <2>5. span = t..(t + w - 1)
    BY <1>s, <1>4, <2>4
  <2>6. h \in span
    <3>1. t \in Int /\ t <= h /\ h < t + w /\ w \in Int
      BY <1>4, <2>2
    <3>. QED  BY <1>5, <2>5, <3>1
  <2>7. ASSUME one \/ (NoGaps(history) /\ Head(history).t <= h)
        PROVE  b.out = SumOver(history, {i \in DOMAIN history : history[i].t \in span})
    <3>1. one
      <4>1. ~(NoGaps(history) /\ Head(history).t <= h)
        BY <1>5, <1>9, SomeUnder
      <4>. QED  BY <2>7, <4>1
    <3>2. k = 1 /\ w = Width
      <4>1. Width * 1 = Width
        BY ChartsAssumption
      <4>. QED  BY <1>o, <1>2, <1>4, <3>1, <4>1 DEF SlotOf
    <3>3. ASSUME NEW j \in 1..n, history[j].t \in span  PROVE FALSE
      <4>1. PICK x \in Nat : x = history[j].t
        BY <1>6
      <4>2. PICK p \in Nat : x = w * p
        <5>1. \E p \in Nat : history[j].t = Width * p
          BY <1>1, ChartBuckets DEF ChartsInv, ChartsTypeOK
        <5>. QED  BY <3>2, <4>1, <5>1
      <4>3. t <= x /\ x < t + w
        <5>1. t \in Int /\ w \in Int /\ x \in t..(t + w - 1)
          BY <1>4, <2>2, <2>5, <3>3, <4>1
        <5>. QED  BY <5>1
      <4>4. x = t
        <5>1. w * q <= w * p /\ w * p < w * q + w
          BY <2>1, <2>2, <4>2, <4>3
        <5>2. w * (q + 1) = w * q + w
          BY <2>1
        <5>3. PICK r \in Int : r = q + 1
          BY <2>1
        <5>4. w * p < w * r
          BY <5>1, <5>2, <5>3
        <5>5. p < r
          BY <4>2, <5>3, <5>4
        <5>6. q <= p
          BY <2>1, <4>2, <5>1
        <5>7. p = q
          BY <2>1, <4>2, <5>3, <5>5, <5>6
        <5>. QED  BY <2>1, <2>2, <4>2, <5>7
      <4>5. cs[j].t = history[j].t /\ j \in 1..Len(cs)
        <5>1. CeilDiv(n, 1) = n
          <6>1. n \in Int /\ 1 * (n - 1) < n /\ n <= 1 * n
            BY <1>1
          <6>. QED  BY <6>1, CeilOnly
        <5>2. Len(cs) = n
          BY <1>1, <1>2, <1>3, <3>2, <5>1, CoalescedIs DEF CandlesOf
        <5>3. CandleTells(cs[j], Begin(j, 1), Until(j, 1, n))
          BY <1>1, <1>2, <1>3, <3>2, <5>2, CoalescedIs DEF CandlesOf
        <5>4. Begin(j, 1) = j
          BY DEF Begin
        <5>. QED  BY <5>2, <5>3, <5>4 DEF CandleTells
      <4>6. Under(h, mode, j)
        BY <1>3, <1>4, <2>2, <4>1, <4>4, <4>5 DEF Under
      <4>. QED  BY <1>9, <4>6
    <3>4. {i \in DOMAIN history : history[i].t \in span} = {}
      BY <1>1, <3>3
    <3>5. SumOver(history, {}) = 0
      <4>1. Total(Outs, {}) = 0
        BY SumEmpty
      <4>. QED  BY <4>1 DEF SumOver, Total, Outs
    <3>. QED  BY <2>4, <3>4, <3>5
  <2>. QED  BY <1>b, <1>s, <1>o, <2>3, <2>4, <2>6, <2>7
<1>. QED  BY <1>8, <1>9

\* What the charts make of a history is true of it.
LEMMA ChartsPromise ==
  ASSUME ChartsInv
  PROVE  ChartsTell
BY ReadingsTell, StripTells, CandlesTell, LinesTell, TicksTell DEF ChartsTell, ChartsInv
=============================================================================
