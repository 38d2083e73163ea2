---------------------------- MODULE RoutinesProofs ----------------------------
(***************************************************************************)
(* Machine-checked proofs about three parts of the gateway and the agent:  *)
(*                                                                         *)
(* Admission, for any connections, agents, transports and scopes and any   *)
(* number of the operator's calls: what an eviction does, type             *)
(* correctness, what the actor's map says of the handlers (MapInv), and    *)
(* what the scopes they read are worth (GrantInv).                         *)
(*                                                                         *)
(* AgentLink, the agent's Run.                                             *)
(*                                                                         *)
(* WriteQueue, the writer behind the queue of the history: lemmas about    *)
(* sequences, its invariant, the steps of the callers, the steps of the    *)
(* writer, and what the invariant says.                                    *)
(***************************************************************************)
EXTENDS Admission, AgentLink, WriteQueue, FiniteSetTheorems, TLAPS

-----------------------------------------------------------------------------
(* The inductive invariants of Admission.                                  *)

\* The connection in the actor's map is one of the agent it stands for, its
\* handler has been admitted and has not told the actor that it ends, and it has
\* not been evicted.
MapNamesLive ==
  \A a \in AgentIDs : agents[a] # Nobody =>
    /\ AgentOf[agents[a]] = a
    /\ pc[agents[a]] \in {"admitted", "serving", "leaving"}
    /\ agents[a] \notin evicted

\* Only a connection that was admitted is evicted.
EvictedWereAdmitted ==
  \A c \in evicted : pc[c] \in {"admitted", "serving", "leaving", "done"}

\* The actor that has shut down keeps no session.
StoppedIsEmpty == stopped => \A a \in AgentIDs : agents[a] = Nobody

\* The handlers that have returned have closed their transport.
DoneIsShut == \A c \in Conns : pc[c] = "done" => c \notin open

MapInv ==
  /\ TypeOK
  /\ MapNamesLive
  /\ EvictedWereAdmitted
  /\ StoppedIsEmpty
  /\ DoneIsShut
  /\ LiveIsNotEvicted

\* A handler between Validate and Admit holds the scope of the record, unless the
\* record was changed under it.
HandlerHoldsRecord ==
  \A c \in Conns : pc[c] = "validated" => grant[c] = record[AgentOf[c]] \/ c \in late

GrantInv == HandlerHoldsRecord /\ StaleGrantOnlyByRace

-----------------------------------------------------------------------------
(* Type correctness.                                                       *)

LEMMA TypeInit == Init => TypeOK
<1> SUFFICES ASSUME Init PROVE TypeOK
  OBVIOUS
<1>1. record \in [AgentIDs -> Grants \cup {Revoked}]
  BY DEF Init
<1>2. pc \in [Conns -> {"hello", "validated", "admitted", "serving", "leaving", "done"}]
  BY DEF Init
<1>3. changes \in 0..MaxChanges
  BY AdmissionAssumption DEF Init
<1>4. grant \in [Conns -> Grants \cup {Revoked}] /\ agents \in [AgentIDs -> Conns \cup {Nobody}]
  BY DEF Init
<1>5. evicting \subseteq AgentIDs /\ open \subseteq Conns /\ published \subseteq Conns
      /\ evicted \subseteq Conns /\ late \subseteq Conns /\ stopped \in BOOLEAN
  BY DEF Init
<1>. QED  BY <1>1, <1>2, <1>3, <1>4, <1>5 DEF TypeOK

LEMMA TypeStep == TypeOK /\ [Next]_vars => TypeOK'
<1> SUFFICES ASSUME TypeOK, [Next]_vars PROVE TypeOK'
  OBVIOUS
<1> USE AdmissionAssumption
<1>1. ASSUME NEW c \in Conns, Validate(c) PROVE TypeOK'
  BY <1>1 DEF Validate, Step, TypeOK
<1>2. ASSUME NEW c \in Conns, ValidateRefused(c) PROVE TypeOK'
  BY <1>2 DEF ValidateRefused, Refuse, TypeOK
<1>3. ASSUME NEW c \in Conns, PreAuthFails(c) PROVE TypeOK'
  BY <1>3 DEF PreAuthFails, Refuse, TypeOK
<1>4. ASSUME NEW c \in Conns, Admit(c) PROVE TypeOK'
  BY <1>4 DEF Admit, Step, evict, Superseded, TypeOK
<1>5. ASSUME NEW c \in Conns, AdmitRefused(c) PROVE TypeOK'
  BY <1>5 DEF AdmitRefused, Refuse, TypeOK
<1>6. ASSUME NEW c \in Conns, Publish(c) PROVE TypeOK'
  BY <1>6 DEF Publish, Step, TypeOK
<1>7. ASSUME NEW c \in Conns, HelloFails(c) PROVE TypeOK'
  BY <1>7 DEF HelloFails, Step, TypeOK
<1>8. ASSUME NEW c \in Conns, ServeEnds(c) PROVE TypeOK'
  BY <1>8 DEF ServeEnds, Step, TypeOK
<1>9. ASSUME NEW c \in Conns, Disconnected(c) PROVE TypeOK'
  BY <1>9 DEF Disconnected, LeavingSession, Step, TypeOK
<1>10. ASSUME NEW c \in Conns, GoesSilent(c) PROVE TypeOK'
  BY <1>10 DEF GoesSilent, Step, TypeOK
<1>11. ASSUME NEW c \in Conns, LinkLost(c) PROVE TypeOK'
  BY <1>11 DEF LinkLost, TypeOK
<1>12. ASSUME NEW a \in AgentIDs, EvictAgent(a) PROVE TypeOK'
  BY <1>12 DEF EvictAgent, EvictTarget, evict, TypeOK
<1>13. ASSUME NEW a \in AgentIDs, NEW r \in Grants \cup {Revoked}, ChangeRecord(a, r) PROVE TypeOK'
  BY <1>13 DEF ChangeRecord, Between, TypeOK
<1>14. CASE Shutdown
  BY <1>14 DEF Shutdown, Live, TypeOK
<1>15. CASE UNCHANGED vars
  BY <1>15 DEF vars, TypeOK
<1>. QED
  BY <1>1, <1>2, <1>3, <1>4, <1>5, <1>6, <1>7, <1>8, <1>9, <1>10, <1>11, <1>12,
     <1>13, <1>14, <1>15 DEF Next, HandlerStep

(***************************************************************************)
(* Every variable holds a value of its type. The code: the fields of       *)
(* agentSession and of the actor's state.                                  *)
(***************************************************************************)
THEOREM TypeCorrect == Spec => []TypeOK
<1>. QED  BY TypeInit, TypeStep, PTL DEF Spec

-----------------------------------------------------------------------------
(* The map and the handlers.                                               *)

LEMMA MapInit == Init => MapInv
  BY TypeInit, AdmissionAssumption
  DEF Init, MapInv, MapNamesLive, EvictedWereAdmitted, StoppedIsEmpty, DoneIsShut, LiveIsNotEvicted

LEMMA MapStep == MapInv /\ [Next]_vars => MapInv'
<1> SUFFICES ASSUME MapInv, [Next]_vars PROVE MapInv'
  OBVIOUS
<1> USE AdmissionAssumption
<1> USE DEF MapInv, TypeOK, MapNamesLive, EvictedWereAdmitted, StoppedIsEmpty, DoneIsShut, LiveIsNotEvicted
<1>0. TypeOK'
  BY TypeStep
<1>1. ASSUME NEW c \in Conns, Validate(c) PROVE MapInv'
  BY <1>0, <1>1 DEF Validate, Step
<1>2. ASSUME NEW c \in Conns, ValidateRefused(c) PROVE MapInv'
  BY <1>0, <1>2 DEF ValidateRefused, Refuse
<1>3. ASSUME NEW c \in Conns, PreAuthFails(c) PROVE MapInv'
  BY <1>0, <1>3 DEF PreAuthFails, Refuse
<1>4. ASSUME NEW c \in Conns, Admit(c) PROVE MapInv'
  \* The newcomer was never evicted; the session it takes the place of is now.
  <2>1. c \notin evicted
    BY <1>4 DEF Admit, Step
  <2>2. /\ pc' = [pc EXCEPT ![c] = "admitted"]
        /\ agents' = [agents EXCEPT ![AgentOf[c]] = c]
        /\ evicted' = evicted \cup Superseded(AgentOf[c])
        /\ open' \subseteq open
        /\ ~stopped'
    BY <1>4 DEF Admit, Step, evict
  <2>3. Superseded(AgentOf[c]) = {agents[AgentOf[c]]} \ {Nobody}
    BY DEF Superseded
  <2>4. c \notin evicted'
    BY <2>1, <2>2, <2>3, <1>4 DEF Admit, Step
  <2>5. MapNamesLive'
    BY <2>2, <2>3, <2>4
  <2>6. EvictedWereAdmitted'
    BY <2>2, <2>3
  <2>7. DoneIsShut'
    BY <2>2
  <2>8. LiveIsNotEvicted'
    BY <2>2, <2>3, <2>4
  <2>. QED  BY <1>0, <2>2, <2>5, <2>6, <2>7, <2>8
<1>5. ASSUME NEW c \in Conns, AdmitRefused(c) PROVE MapInv'
  BY <1>0, <1>5 DEF AdmitRefused, Refuse
<1>6. ASSUME NEW c \in Conns, Publish(c) PROVE MapInv'
  BY <1>0, <1>6 DEF Publish, Step
<1>7. ASSUME NEW c \in Conns, HelloFails(c) PROVE MapInv'
  BY <1>0, <1>7 DEF HelloFails, Step
<1>8. ASSUME NEW c \in Conns, ServeEnds(c) PROVE MapInv'
  BY <1>0, <1>8 DEF ServeEnds, Step
<1>9. ASSUME NEW c \in Conns, Disconnected(c) PROVE MapInv'
  <2>1. pc[c] = "leaving" /\ pc' = [pc EXCEPT ![c] = "done"] /\ open' = open \ {c} /\ stopped' = stopped
    BY <1>9 DEF Disconnected, Step
  <2>2. CASE agents[AgentOf[c]] = c
    <3>1. ~stopped
      BY <2>2
    <3>2. evicted' = evicted \cup {c}
      BY <1>9, <2>2, <3>1 DEF Disconnected, LeavingSession
    <3>3. agents' = [a \in AgentIDs |-> IF agents[a] = c THEN Nobody ELSE agents[a]]
      BY <1>9, <2>2 DEF Disconnected, LeavingSession
    <3>4. \A a \in AgentIDs : agents[a] = c => a = AgentOf[c]
      OBVIOUS
    <3>. QED  BY <1>0, <2>1, <2>2, <3>1, <3>2, <3>3, <3>4
  <2>3. CASE agents[AgentOf[c]] # c
    <3>1. LeavingSession(c) = {}
      BY <2>3 DEF LeavingSession
    <3>2. evicted' = evicted /\ agents' = agents
      BY <1>9, <3>1 DEF Disconnected
    <3>. QED  BY <1>0, <2>1, <2>3, <3>2
  <2>. QED  BY <2>2, <2>3
<1>10. ASSUME NEW c \in Conns, GoesSilent(c) PROVE MapInv'
  BY <1>0, <1>10 DEF GoesSilent, Step
<1>11. ASSUME NEW c \in Conns, LinkLost(c) PROVE MapInv'
  BY <1>0, <1>11 DEF LinkLost
<1>12. ASSUME NEW a \in AgentIDs, EvictAgent(a) PROVE MapInv'
  <2>1. agents' = [agents EXCEPT ![a] = Nobody]
    BY <1>12 DEF EvictAgent, EvictTarget
  <2>2. evicted' = evicted \cup ({agents[a]} \ {Nobody})
    BY <1>12 DEF EvictAgent, EvictTarget, evict
  <2>3. pc' = pc /\ stopped' = stopped /\ open' \subseteq open
    BY <1>12 DEF EvictAgent, evict
  <2>. QED  BY <1>0, <2>1, <2>2, <2>3
<1>13. ASSUME NEW a \in AgentIDs, NEW r \in Grants \cup {Revoked}, ChangeRecord(a, r) PROVE MapInv'
  BY <1>0, <1>13 DEF ChangeRecord
<1>14. CASE Shutdown
  <2>1. /\ agents' = [a \in AgentIDs |-> Nobody]
        /\ evicted' = evicted \cup Live
        /\ pc' = pc /\ open' \subseteq open
    BY <1>14 DEF Shutdown
  <2>2. \A c \in Live : agents[AgentOf[c]] = c /\ pc[c] \in {"admitted", "serving", "leaving"}
    BY DEF Live
  <2>3. \A c \in Conns : agents[AgentOf[c]] = c => c \in Live
    BY DEF Live
  <2>. QED  BY <1>0, <2>1, <2>2, <2>3
<1>15. CASE UNCHANGED vars
  BY <1>15 DEF vars
<1>. QED
  BY <1>1, <1>2, <1>3, <1>4, <1>5, <1>6, <1>7, <1>8, <1>9, <1>10, <1>11, <1>12,
     <1>13, <1>14, <1>15 DEF Next, HandlerStep

(***************************************************************************)
(* A handler that has returned leaves neither an open transport nor a      *)
(* session in the map, and among the connections whose handlers run on     *)
(* exactly the one in the map is not evicted, whatever supersession,       *)
(* revocation, disconnect and shutdown came between. The code:             *)
(* buildAndAdmit, evict and the deferred calls of handleControlConn.       *)
(***************************************************************************)
THEOREM OpenOnlyWhileLive == Spec => []OpenIsLive
<1>1. MapInv => OpenIsLive
  BY AdmissionAssumption
  DEF MapInv, MapNamesLive, DoneIsShut, OpenIsLive, DoneIsClosed, TypeOK
<1>. QED  BY <1>1, MapInit, MapStep, PTL DEF Spec

-----------------------------------------------------------------------------
(* The scopes.                                                             *)

LEMMA GrantInit == Init => GrantInv
  BY AdmissionAssumption DEF Init, GrantInv, HandlerHoldsRecord, StaleGrantOnlyByRace

LEMMA GrantStep == MapInv /\ GrantInv /\ [Next]_vars => GrantInv'
<1> SUFFICES ASSUME MapInv, GrantInv, [Next]_vars PROVE GrantInv'
  OBVIOUS
<1> USE AdmissionAssumption
<1> USE DEF GrantInv, HandlerHoldsRecord, StaleGrantOnlyByRace, TypeOK
<1>0. TypeOK /\ MapNamesLive
  BY DEF MapInv
<1> USE DEF MapNamesLive
<1>1. ASSUME NEW c \in Conns, Validate(c) PROVE GrantInv'
  <2>1. \A a \in AgentIDs : agents[a] # c
    BY <1>0, <1>1 DEF Validate, Step
  <2>. QED  BY <1>0, <1>1, <2>1 DEF Validate, Step
<1>2. ASSUME NEW c \in Conns, ValidateRefused(c) \/ PreAuthFails(c) \/ AdmitRefused(c) PROVE GrantInv'
  BY <1>0, <1>2 DEF ValidateRefused, PreAuthFails, AdmitRefused, Refuse
<1>3. ASSUME NEW c \in Conns, Admit(c) PROVE GrantInv'
  BY <1>0, <1>3 DEF Admit, Step
<1>4. ASSUME NEW c \in Conns, Publish(c) \/ HelloFails(c) \/ ServeEnds(c) \/ GoesSilent(c) PROVE GrantInv'
  BY <1>0, <1>4 DEF Publish, HelloFails, ServeEnds, GoesSilent, Step
<1>5. ASSUME NEW c \in Conns, Disconnected(c) PROVE GrantInv'
  BY <1>0, <1>5 DEF Disconnected, LeavingSession, Step
<1>6. ASSUME NEW c \in Conns, LinkLost(c) PROVE GrantInv'
  BY <1>0, <1>6 DEF LinkLost
<1>7. ASSUME NEW a \in AgentIDs, EvictAgent(a) PROVE GrantInv'
  <2>1. agents' = [agents EXCEPT ![a] = Nobody]
    BY <1>0, <1>7 DEF EvictAgent, EvictTarget
  <2>. QED  BY <1>0, <1>7, <2>1 DEF EvictAgent
<1>8. ASSUME NEW a \in AgentIDs, NEW r \in Grants \cup {Revoked}, ChangeRecord(a, r) PROVE GrantInv'
  BY <1>0, <1>8 DEF ChangeRecord, Between
<1>9. CASE Shutdown
  BY <1>0, <1>9 DEF Shutdown
<1>10. CASE UNCHANGED vars
  BY <1>10 DEF vars
<1>. QED
  BY <1>1, <1>2, <1>3, <1>4, <1>5, <1>6, <1>7, <1>8, <1>9, <1>10 DEF Next, HandlerStep

(***************************************************************************)
(* When no eviction is to come, a session that holds another scope than    *)
(* its agent's record is one whose handler stood between Validate and the  *)
(* actor's map while the operator wrote. The code: RevokeAgent and         *)
(* SetAgentScope against handleControlConn and handleQUICSession.          *)
(***************************************************************************)
THEOREM StaleOnlyByRace == Spec => []StaleGrantOnlyByRace
<1>1. Init => MapInv /\ GrantInv
  BY MapInit, GrantInit
<1>2. (MapInv /\ GrantInv) /\ [Next]_vars => (MapInv /\ GrantInv)'
  BY MapStep, GrantStep
<1>3. MapInv /\ GrantInv => StaleGrantOnlyByRace
  BY DEF GrantInv
<1>. QED  BY <1>1, <1>2, <1>3, PTL DEF Spec

-----------------------------------------------------------------------------
(* The agent's link.                                                       *)

\* Inductive: a walk of the ladder still has the last rung before it, or is on it.
WalkHasLast ==
  transport = TransportAuto /\ runAt \in {"connecting", "serving"}
    => Len(transportPreference) \in rungs /\ Last(transportPreference) \notin failed
LinkInv == LinkSafe /\ WalkHasLast

LEMMA MinIs ==
  ASSUME NEW S \in SUBSET Nat, S # {}
  PROVE  Min(S) \in S /\ \A j \in S : Min(S) <= j
<1>1. PICK x \in S : \A y \in S : ~(<<y, x>> \in OpToRel(<, Nat))
  BY NatLessThanWellFounded, WFMin
<1>2. \A y \in S : y \in Nat /\ x \in Nat
  OBVIOUS
<1>3. \A y \in S : ~(y < x)
  BY <1>1, <1>2, Zenon DEF OpToRel
<1>4. \A y \in S : x <= y
  BY <1>2, <1>3
<1>. QED  BY <1>4 DEF Min

LEMMA LadderIs ==
  ASSUME NEW s, s = transportPreference
  PROVE  /\ Len(s) \in Nat \ {0} /\ DOMAIN s = 1..Len(s) /\ Last(s) = s[Len(s)]
         /\ \A i \in 1..Len(s) : s[i] \in Transports
         /\ \A i, j \in 1..Len(s) : s[i] = s[j] => i = j
         /\ \A t \in Transports : \E i \in 1..Len(s) : s[i] = t
  BY LinkAssumption DEF Transports, ToSet, Last, IsInjective

LEMMA BoundsAre ==
  /\ transportReprobeAfter \in Nat /\ StableAfter \in Nat /\ MaxDelay \in Nat /\ MaxAttempt \in Nat
  /\ 0 \in 0..transportReprobeAfter /\ transportReprobeAfter \in 0..transportReprobeAfter
  /\ 0 \in 0..StableAfter /\ 0 \in 0..MaxDelay /\ 0 \in 0..MaxAttempt
  BY LinkAssumption

\* The rung that is tried is the first one left: if it is the last of the ladder,
\* nothing is left behind it.
LEMMA RungIs ==
  ASSUME rungs \subseteq DOMAIN transportPreference, rungs # {}
  PROVE  /\ Rung \in rungs /\ Current \in Transports
         /\ Rung = Len(transportPreference) => Rest = {}
<1>. DEFINE n == Len(transportPreference)
<1>1. /\ n \in Nat /\ DOMAIN transportPreference = 1..n
      /\ \A i \in 1..n : transportPreference[i] \in Transports
  BY LadderIs
<1>2. rungs \in SUBSET Nat
  BY <1>1
<1>3. Rung \in rungs /\ \A j \in rungs : Rung <= j
  BY <1>2, MinIs DEF Rung
<1>4. ASSUME Rung = n, NEW j \in Rest PROVE FALSE
  <2>1. j \in 1..n /\ j # n /\ n <= j
    BY <1>1, <1>3, <1>4 DEF Rest
  <2>. HIDE DEF n
  <2>. QED  BY <1>1, <2>1
<1>. QED  BY <1>1, <1>3, <1>4 DEF Current

LEMMA LinkStarts == LinkInit => LinkInv
<1> SUFFICES ASSUME LinkInit PROVE LinkInv
  OBVIOUS
<1>1. Last(transportPreference) \in Transports
  BY LadderIs
<1>2. LinkTypeOK
  BY BoundsAre DEF LinkInit, LinkTypeOK
<1>3. LastRungNeverCooled
  BY <1>1 DEF LinkInit, LastRungNeverCooled
<1>. QED  BY <1>2, <1>3 DEF LinkInit, LinkInv, LinkSafe, WalkHasLast

LEMMA LinkStep == LinkInv /\ [LinkNext]_linkVars => LinkInv'
<1> SUFFICES ASSUME LinkInv, [LinkNext]_linkVars PROVE LinkInv'
  OBVIOUS
<1>. DEFINE n == Len(transportPreference)  last == Last(transportPreference)
<1>. USE DEF LinkInv, LinkSafe
<1>1. /\ n \in 1..n /\ last \in Transports /\ last = transportPreference[n]
      /\ DOMAIN transportPreference = 1..n
      /\ \A i \in 1..n : transportPreference[i] = last => i = n
  <2>1. n \in 1..n
    BY LadderIs
  <2>. QED  BY <2>1, LadderIs
<1>2. StartCycle => LinkInv'
  <2> SUFFICES ASSUME StartCycle PROVE LinkInv'
    OBVIOUS
  <2>1. n \in Uncooled /\ Uncooled \subseteq 1..n
    BY <1>1 DEF LastRungNeverCooled, Uncooled, RungsOf
  <2>2. ladderOrder = Uncooled
    BY <2>1 DEF ladderOrder
  <2>3. transport # TransportAuto => RungsOf({transport}) # {} /\ RungsOf({transport}) \subseteq 1..n
    BY LadderIs, <1>1 DEF LinkTypeOK, RungsOf
  <2>4. rungs' \subseteq 1..n /\ rungs' # {}
    BY <2>1, <2>2, <2>3 DEF StartCycle
  <2>5. LinkTypeOK'
    BY <1>1, <2>4, BoundsAre DEF StartCycle, LinkTypeOK, world
  <2>6. WalkHasLast'
    BY <2>1, <2>2 DEF StartCycle, WalkHasLast
  <2>. QED  BY <2>5, <2>6 DEF StartCycle, LastRungNeverCooled
<1>3. Connected => LinkInv'
  BY DEF Connected, LinkTypeOK, LastRungNeverCooled, WalkHasLast, clocks, world
<1>4. Refused => LinkInv'
  BY DEF Refused, LinkTypeOK, LastRungNeverCooled, WalkHasLast, clocks, world
<1>5. ConnectFails => LinkInv'
  <2> SUFFICES ASSUME ConnectFails PROVE LinkInv'
    OBVIOUS
  <2>1. rungs \subseteq DOMAIN transportPreference /\ rungs # {}
    BY DEF ConnectFails, LinkTypeOK
  <2>2. Rung \in rungs /\ Current \in Transports /\ (Rung = n => Rest = {})
    BY <2>1, RungIs
  <2>3. /\ runAt' \in {"connecting", "ended"} /\ err' \in {"none", "down", "fatal"}
        /\ runAt' = "connecting" => Rest # {}
    BY DEF ConnectFails, LinkTypeOK
  <2>4. LinkTypeOK'
    BY <2>1, <2>2, <2>3 DEF ConnectFails, LinkTypeOK, Rest, clocks, world
  <2>5. WalkHasLast'
    <3>1. CASE Rung = n
      BY <2>2, <2>3, <3>1 DEF WalkHasLast
    <3>2. CASE Rung # n
      <4>1. Current # last
        BY <1>1, <2>1, <2>2, <3>2 DEF Current
      <4>. QED  BY <4>1, <3>2 DEF ConnectFails, WalkHasLast, Rest
    <3>. QED  BY <3>1, <3>2
  <2>. QED  BY <2>4, <2>5 DEF ConnectFails, LastRungNeverCooled, clocks
<1>6. SessionEnds => LinkInv'
  <2> SUFFICES ASSUME SessionEnds PROVE LinkInv'
    OBVIOUS
  <2>1. LinkTypeOK'
    BY BoundsAre DEF SessionEnds, LinkTypeOK, world
  <2>2. LastRungNeverCooled'
    BY <1>1 DEF SessionEnds, LastRungNeverCooled, WalkHasLast
  <2>. QED  BY <2>1, <2>2 DEF SessionEnds, WalkHasLast
<1>7. GiveUp \/ StopWaiting => LinkInv'
  BY DEF GiveUp, StopWaiting, Return, LinkTypeOK, LastRungNeverCooled, WalkHasLast, clocks, world
<1>8. BackOff => LinkInv'
  <2> SUFFICES ASSUME BackOff PROVE LinkInv'
    OBVIOUS
  <2>1. attempt' \in 0..MaxAttempt /\ delay' \in 0..MaxDelay
    BY BoundsAre DEF BackOff, LinkTypeOK, Waits
  <2>. QED  BY <2>1 DEF BackOff, LinkTypeOK, LastRungNeverCooled, WalkHasLast, world
<1>9. TimerFires => LinkInv'
  BY DEF TimerFires, LinkTypeOK, LastRungNeverCooled, WalkHasLast, clocks, world
<1>10. TickTaken => LinkInv'
  BY <1>1, BoundsAre DEF TickTaken, LinkTypeOK, LastRungNeverCooled, WalkHasLast
<1>11. ASSUME NEW B \in SUBSET Transports, Weather(B) PROVE LinkInv'
  BY <1>11 DEF Weather, LinkTypeOK, LastRungNeverCooled, WalkHasLast, runVars, clocks
<1>12. NetworkChange \/ StopAgent => LinkInv'
  BY DEF NetworkChange, StopAgent, LinkTypeOK, LastRungNeverCooled, WalkHasLast, runVars, clocks
<1>13. TimePasses => LinkInv'
  <2> SUFFICES ASSUME TimePasses PROVE LinkInv'
    OBVIOUS
  <2>1. Less(0) = 0 /\ \A k \in Nat : \A m \in 0..k : Less(m) \in 0..k
    BY DEF Less
  <2>2. cooldown' \in [Transports -> 0..transportReprobeAfter]
    BY <2>1, BoundsAre DEF TimePasses, LinkTypeOK, CoolingLeft
  <2>3. cooldown'[last] = 0
    BY <1>1, <2>1 DEF TimePasses, LastRungNeverCooled, CoolingLeft
  <2>4. delay' \in 0..MaxDelay /\ age' \in 0..StableAfter
    BY <2>1, BoundsAre DEF TimePasses, LinkTypeOK
  <2>. QED  BY <2>2, <2>3, <2>4 DEF TimePasses, LinkTypeOK, LastRungNeverCooled, WalkHasLast, runVars, world
<1>14. UNCHANGED linkVars => LinkInv'
  BY DEF linkVars, runVars, clocks, world, LinkTypeOK, LastRungNeverCooled, WalkHasLast
<1>. QED
  BY <1>2, <1>3, <1>4, <1>5, <1>6, <1>7, <1>8, <1>9, <1>10, <1>11, <1>12, <1>13, <1>14
  DEF LinkNext, RunStep

(***************************************************************************)
(* The last transport of the ladder is never cooled, so that a cycle in    *)
(* the mode auto always has one to try, for any ladder, cooldown and       *)
(* backoff. The code: runSessionAuto, which parks only what a later        *)
(* transport outdid, coolTransports and ladderOrder of agent.go.           *)
(***************************************************************************)
THEOREM LadderNeverRunsOut == LinkSpec => []LinkSafe
  BY LinkStarts, LinkStep, PTL DEF LinkSpec, LinkInv

-----------------------------------------------------------------------------
(* The queue, and its inductive invariant.                                 *)

\* All that was accepted and not dropped, in the order in which it runs.
Line == (ran \o pending) \o writeC

\* Nothing is in the line twice, each producer's writes are in its order (which is
\* InOrder, said of the line), and a barrier comes after what it covers.
OnceEach == \A i, j \in DOMAIN Line : Line[i] = Line[j] => i = j
Ordered ==
  \A i, j \in DOMAIN Line :
    i < j /\ Line[i] \in Writes /\ Line[j] \in Writes /\ Line[i].by = Line[j].by
      => Line[i].nth < Line[j].nth
Behind == \A i, j \in DOMAIN Line : Line[j] \in Producers /\ Line[i] \in covers[Line[j]] => i < j

\* What is in the line, or is promised to have run, was accepted; what was accepted
\* and is in the line no more was dropped and counted.
Known == (Range(Line) \cap Writes) \cup owed \cup UNION {covers[p] : p \in Producers} \subseteq Accepted
Lost == Accepted \ Range(Line)
Counted == IsFiniteSet(Lost) /\ Cardinality(Lost) = dropped

\* A barrier is in one place, from its sending on.
BarrierPlaces ==
  /\ closed = Producers \cap Range(ran)
  /\ victim \cap Range(Line) = {}
  /\ \A p \in Producers :
       /\ at[p] = "barrier" => p \notin Range(Line) \cup victim
       /\ at[p] = "waiting" => p \in Range(Line) \cup victim

\* One caller at a time has qmu, and only that one has a barrier to put back.
Locked ==
  /\ \A p, q \in Producers : InLoop(p) /\ InLoop(q) => p = q
  /\ \A p \in Producers : at[p] = "resend" => \E b \in Producers : victim = {b}
  /\ victim # {} => \E p \in Producers : at[p] = "resend"
  /\ \A p \in Producers : at[p] = "lock" \/ InLoop(p) => made[p] > 0

\* The writer that is done was told to stop, and has run what it owed.
Stopped == (writer # "run" => stopC) /\ CloseDrains

QueueType ==
  /\ at \in [Producers -> Places] /\ made \in [Producers -> 0..MaxWrites]
  /\ victim \subseteq Producers
  /\ writeC \in Seq(Ops) /\ Len(writeC) <= QueueCap
  /\ pending \in Seq(Ops) /\ ran \in Seq(Ops)
  /\ covers \in [Producers -> SUBSET Writes] /\ owed \subseteq Writes
  /\ dropped \in Nat
  /\ writer \in {"run", "drain", "done"} /\ stopC \in BOOLEAN

QueueInv ==
  /\ QueueType /\ Locked /\ BarrierPlaces /\ Known /\ Counted
  /\ OnceEach /\ Ordered /\ Behind /\ Stopped

-----------------------------------------------------------------------------
(* Sequences.                                                              *)

LEMMA ConcatIs ==
  ASSUME NEW S, NEW s \in Seq(S), NEW t \in Seq(S)
  PROVE  /\ s \o t \in Seq(S) /\ Len(s \o t) = Len(s) + Len(t)
         /\ DOMAIN (s \o t) = 1..Len(s) + Len(t)
         /\ \A i \in 1..Len(s) : (s \o t)[i] = s[i]
         /\ \A i \in 1..Len(t) : (s \o t)[Len(s) + i] = t[i]
         /\ Range(s \o t) = Range(s) \cup Range(t)
<1>1. /\ s \o t \in Seq(S) /\ Len(s \o t) = Len(s) + Len(t)
      /\ DOMAIN (s \o t) = 1..Len(s) + Len(t)
      /\ \A i \in 1..Len(s) : (s \o t)[i] = s[i]
      /\ \A i \in 1..Len(t) : (s \o t)[Len(s) + i] = t[i]
  OBVIOUS
<1>2. ASSUME NEW i \in 1..Len(s) + Len(t) PROVE i \in 1..Len(s) \/ \E j \in 1..Len(t) : i = Len(s) + j
  <2>1. CASE i > Len(s)
    <3>1. i - Len(s) \in 1..Len(t) /\ i = Len(s) + (i - Len(s))
      BY <2>1
    <3>. QED  BY <3>1
  <2>. QED  BY <2>1
<1>3. ASSUME NEW i \in 1..Len(t) PROVE Len(s) + i \in 1..Len(s) + Len(t)
  OBVIOUS
<1>4. DOMAIN s = 1..Len(s) /\ DOMAIN t = 1..Len(t) /\ \A i \in 1..Len(s) : i \in 1..Len(s) + Len(t)
  OBVIOUS
<1>5. Range(s \o t) \subseteq Range(s) \cup Range(t)
  BY <1>1, <1>2, <1>4 DEF Range
<1>6. Range(s) \subseteq Range(s \o t) /\ Range(t) \subseteq Range(s \o t)
  BY <1>1, <1>3, <1>4 DEF Range
<1>. QED  BY <1>1, <1>5, <1>6

LEMMA AppendIs ==
  ASSUME NEW S, NEW s \in Seq(S), NEW x \in S
  PROVE  /\ Append(s, x) \in Seq(S) /\ Len(Append(s, x)) = Len(s) + 1
         /\ DOMAIN Append(s, x) = 1..Len(s) + 1
         /\ \A i \in 1..Len(s) : Append(s, x)[i] = s[i]
         /\ Append(s, x)[Len(s) + 1] = x
         /\ Range(Append(s, x)) = Range(s) \cup {x}
<1>1. /\ Append(s, x) \in Seq(S) /\ Len(Append(s, x)) = Len(s) + 1
      /\ DOMAIN Append(s, x) = 1..Len(s) + 1
      /\ \A i \in 1..Len(s) : Append(s, x)[i] = s[i]
      /\ Append(s, x)[Len(s) + 1] = x
  OBVIOUS
<1>2. DOMAIN s = 1..Len(s) /\ Len(s) \in Nat
  OBVIOUS
<1>3. 1..Len(s) + 1 = 1..Len(s) \cup {Len(s) + 1}
  BY <1>2
<1>. QED  BY <1>1, <1>2, <1>3 DEF Range

\* What is sent comes last of the line of all that was accepted.
LEMMA SendLast ==
  ASSUME NEW S, NEW r \in Seq(S), NEW w \in Seq(S), NEW x \in S
  PROVE  r \o Append(w, x) = Append(r \o w, x)
  OBVIOUS

\* The first of the channel goes to the end of the batch: the line stays.
LEMMA MoveOn ==
  ASSUME NEW r \in Seq(Ops), NEW b \in Seq(Ops), NEW w \in Seq(Ops), w # <<>>
  PROVE  (r \o Append(b, Head(w))) \o Tail(w) = (r \o b) \o w
<1>1. Head(w) \in Ops /\ Tail(w) \in Seq(Ops) /\ Len(Tail(w)) = Len(w) - 1 /\ Len(w) \in Nat \ {0}
      /\ Head(w) = w[1] /\ \A i \in 1..Len(w) - 1 : Tail(w)[i] = w[i + 1]
  OBVIOUS
<1>2. ASSUME NEW u \in Seq(Ops), NEW v \in Seq(Ops) PROVE (r \o u) \o v = r \o (u \o v)
  OBVIOUS
<1>3. Append(b, Head(w)) \in Seq(Ops) /\ Append(b, Head(w)) \o Tail(w) = b \o w
  BY <1>1
<1>4. (r \o Append(b, Head(w))) \o Tail(w) = r \o (Append(b, Head(w)) \o Tail(w))
  BY <1>1, <1>2, <1>3
<1>5. (r \o b) \o w = r \o (b \o w)
  BY <1>2
<1>. QED  BY <1>3, <1>4, <1>5

LEMMA EmptyLast ==
  ASSUME NEW S, NEW r \in Seq(S)
  PROVE  r \o <<>> = r
  OBVIOUS

\* The first of the channel is taken out of the line.
LEMMA TakeOut ==
  ASSUME NEW S, NEW r \in Seq(S), NEW w \in Seq(S), w # <<>>
  PROVE  /\ r \o w \in Seq(S) /\ r \o Tail(w) \in Seq(S)
         /\ Len(r \o w) = Len(r \o Tail(w)) + 1 /\ Len(r) + 1 \in 1..Len(r \o w)
         /\ (r \o w)[Len(r) + 1] = Head(w)
         /\ \A i \in 1..Len(r \o Tail(w)) :
              (r \o Tail(w))[i] = (r \o w)[IF i <= Len(r) THEN i ELSE i + 1]
<1>1. Tail(w) \in Seq(S) /\ Len(Tail(w)) = Len(w) - 1 /\ Len(w) \in Nat \ {0}
      /\ Head(w) = w[1] /\ \A i \in 1..Len(w) - 1 : Tail(w)[i] = w[i + 1]
  OBVIOUS
<1>. QED  BY <1>1

-----------------------------------------------------------------------------
(* The line and its parts.                                                 *)

LEMMA LineIs ==
  ASSUME QueueType
  PROVE  /\ ran \o pending \in Seq(Ops) /\ Line \in Seq(Ops)
         /\ Range(Line) = Range(ran) \cup OnTheWay
         /\ Range(Line) \subseteq Ops /\ DOMAIN Line = 1..Len(Line) /\ Len(Line) \in Nat
<1> DEFINE r == ran \o pending
<1>0. ran \in Seq(Ops) /\ pending \in Seq(Ops) /\ writeC \in Seq(Ops)
  BY DEF QueueType
<1>1. r \in Seq(Ops) /\ Range(r) = Range(ran) \cup Range(pending)
  BY <1>0, ConcatIs
<1>a. Line = r \o writeC
  BY DEF Line
<1> HIDE DEF r
<1>2. Line \in Seq(Ops) /\ Range(Line) = Range(r) \cup Range(writeC)
  BY <1>0, <1>1, <1>a, ConcatIs
<1>3. DOMAIN Line = 1..Len(Line) /\ Len(Line) \in Nat
  BY <1>2
<1>4. Range(Line) \subseteq Ops
  BY <1>2, <1>3 DEF Range
<1>. QED  BY <1>1, <1>2, <1>3, <1>4 DEF OnTheWay, r

\* What has run comes before what is on its way.
LEMMA RanFirst ==
  ASSUME QueueType, OnceEach
  PROVE  /\ Range(ran) \cap OnTheWay = {}
         /\ \A i, j \in DOMAIN Line :
              i < j /\ Line[j] \in Range(ran) => Line[i] \in Range(ran)
<1> DEFINE rest == pending \o writeC
<1>1. /\ ran \in Seq(Ops) /\ rest \in Seq(Ops) /\ Range(rest) = OnTheWay
      /\ Line = ran \o rest
  <2>1. pending \in Seq(Ops) /\ writeC \in Seq(Ops) /\ ran \in Seq(Ops)
    BY DEF QueueType
  <2>2. rest \in Seq(Ops) /\ Range(rest) = OnTheWay
    BY <2>1, ConcatIs DEF OnTheWay
  <2>3. (ran \o pending) \o writeC = ran \o rest
    BY <2>1
  <2>. QED  BY <2>1, <2>2, <2>3 DEF Line
<1> HIDE DEF rest
<1>2. /\ DOMAIN Line = 1..Len(ran) + Len(rest)
      /\ \A i \in 1..Len(ran) : Line[i] = ran[i]
      /\ \A i \in 1..Len(rest) : Line[Len(ran) + i] = rest[i]
  BY <1>1, ConcatIs
<1>3. /\ DOMAIN ran = 1..Len(ran) /\ DOMAIN rest = 1..Len(rest)
      /\ Len(ran) \in Nat /\ Len(rest) \in Nat
  BY <1>1
<1>4. ASSUME NEW i \in 1..Len(ran), NEW j \in 1..Len(rest) PROVE ran[i] # rest[j]
  <2>1. i \in DOMAIN Line /\ Len(ran) + j \in DOMAIN Line /\ i # Len(ran) + j
    BY <1>2, <1>3
  <2>. QED  BY <1>2, <2>1 DEF OnceEach
<1>5. Range(ran) \cap Range(rest) = {}
  BY <1>3, <1>4 DEF Range
<1>6. ASSUME NEW i \in DOMAIN Line, NEW j \in DOMAIN Line, i < j, Line[j] \in Range(ran)
      PROVE  Line[i] \in Range(ran)
  <2>1. j \in 1..Len(ran)
    <3>1. SUFFICES ASSUME j \notin 1..Len(ran) PROVE FALSE
      OBVIOUS
    <3>2. j - Len(ran) \in 1..Len(rest) /\ j = Len(ran) + (j - Len(ran))
      BY <1>2, <1>3, <3>1
    <3>3. Line[j] \in Range(rest)
      BY <1>2, <1>3, <3>2 DEF Range
    <3>. QED  BY <1>5, <1>6, <3>3
  <2>2. i \in 1..Len(ran)
    BY <1>2, <1>3, <1>6, <2>1
  <2>. QED  BY <1>2, <1>3, <2>2 DEF Range
<1>. QED  BY <1>1, <1>5, <1>6

\* What a producer writes next is not accepted yet, and what it has in the line is older.
LEMMA NextWrite ==
  ASSUME QueueType, Known, NEW p \in Producers, NEW n \in 1..MaxWrites,
         n > made[p] \/ (n = made[p] /\ at[p] \notin {"idle", "barrier", "waiting"})
  PROVE  LET w == [by |-> p, nth |-> n] IN
         /\ w \in Writes /\ w \notin Accepted /\ w \notin Range(Line) /\ w \notin owed
         /\ \A q \in Producers : w \notin covers[q]
         /\ \A v \in Range(Line) : v \in Writes /\ v.by = p => v.nth < n
<1> DEFINE w == [by |-> p, nth |-> n]
<1>1. w \in Writes /\ w.by = p /\ w.nth = n
  BY DEF Writes
<1>2. w \notin Accepted
  BY <1>1 DEF Accepted, QueueType
<1>3. ASSUME NEW v \in Range(Line), v \in Writes, v.by = p PROVE v.nth < n
  <2>1. v \in Accepted /\ v.nth \in Nat /\ made[p] \in Nat
    BY <1>3 DEF Known, Writes, QueueType
  <2>. QED  BY <1>3, <2>1 DEF Accepted
<1>. QED  BY <1>1, <1>2, <1>3 DEF Known

-----------------------------------------------------------------------------
(* What the three kinds of step do to the line.                            *)

\* The order of what stays in the line stays.
LEMMA OrderAppend ==
  ASSUME QueueType, OnceEach, Ordered, Behind, UNCHANGED covers,
         NEW x \in Ops, Line' = Append(Line, x), x \notin Range(Line),
         \A p \in Producers : x \notin covers[p],
         \A v \in Range(Line) : v \in Writes /\ x \in Writes /\ v.by = x.by => v.nth < x.nth
  PROVE  OnceEach' /\ Ordered' /\ Behind' /\ Range(Line)' = Range(Line) \cup {x}
<1> DEFINE n == Len(Line)
<1>1. /\ n \in Nat /\ DOMAIN Line = 1..n /\ DOMAIN Line' = 1..n + 1
      /\ Line'[n + 1] = x /\ \A i \in 1..n : Line'[i] = Line[i] /\ Line[i] \in Range(Line)
      /\ Range(Line') = Range(Line) \cup {x} /\ Range(Line) \subseteq Ops
  <2>1. Line \in Seq(Ops) /\ n \in Nat /\ DOMAIN Line = 1..n /\ Range(Line) \subseteq Ops
    BY LineIs
  <2>2. /\ DOMAIN Line' = 1..n + 1 /\ Line'[n + 1] = x /\ \A i \in 1..n : Line'[i] = Line[i]
        /\ Range(Line') = Range(Line) \cup {x}
    BY <2>1, AppendIs
  <2>3. \A i \in 1..n : Line[i] \in Range(Line)
    BY <2>1 DEF Range
  <2>. QED  BY <2>1, <2>2, <2>3
<1> HIDE DEF n
<1>2. OnceEach'
  BY <1>1 DEF OnceEach
<1>3. Behind'
  BY <1>1 DEF Behind
<1>4. Ordered'
  <2> SUFFICES ASSUME NEW i \in DOMAIN Line', NEW j \in DOMAIN Line', i < j,
                      Line'[i] \in Writes, Line'[j] \in Writes, Line'[i].by = Line'[j].by
               PROVE  Line'[i].nth < Line'[j].nth
    BY DEF Ordered
  <2>1. i \in 1..n /\ Line'[i] = Line[i] /\ Line[i] \in Writes
    BY <1>1 DEF Ops
  <2>2. CASE j \in 1..n
    BY <1>1, <2>1, <2>2 DEF Ordered
  <2>3. CASE j = n + 1
    BY <1>1, <2>1, <2>3 DEF Ops
  <2>. QED  BY <1>1, <2>2, <2>3
<1>. QED  BY <1>1, <1>2, <1>3, <1>4

LEMMA OrderRemove ==
  ASSUME QueueType, OnceEach, Ordered, Behind, UNCHANGED <<covers, ran, pending>>,
         writeC # <<>>, writeC' = Tail(writeC)
  PROVE  /\ OnceEach' /\ Ordered' /\ Behind'
         /\ Head(writeC) \in Range(Line) /\ Range(Line)' = Range(Line) \ {Head(writeC)}
<1> DEFINE r == ran \o pending
           k == Len(r)
           n == Len(Line')
           f(i) == IF i <= k THEN i ELSE i + 1
<1>1. r \in Seq(Ops) /\ k \in Nat /\ writeC \in Seq(Ops)
  BY LineIs DEF QueueType
<1>2. /\ Line \in Seq(Ops) /\ Line' \in Seq(Ops) /\ n \in Nat
      /\ DOMAIN Line = 1..n + 1 /\ DOMAIN Line' = 1..n /\ k + 1 \in 1..n + 1
      /\ Line[k + 1] = Head(writeC)
      /\ \A i \in 1..n : Line'[i] = Line[f(i)]
  <2>1. Line = r \o writeC /\ Line' = r \o Tail(writeC)
    BY DEF Line
  <2> HIDE DEF r
  <2>2. /\ Line \in Seq(Ops) /\ Line' \in Seq(Ops)
        /\ Len(Line) = n + 1 /\ k + 1 \in 1..n + 1
        /\ Line[k + 1] = Head(writeC)
        /\ \A i \in 1..n : Line'[i] = Line[f(i)]
    BY <1>1, <2>1, TakeOut
  <2>3. n \in Nat /\ DOMAIN Line = 1..Len(Line) /\ DOMAIN Line' = 1..n
    BY <2>2
  <2>. QED  BY <2>2, <2>3
<1> HIDE DEF r, k, n
<1>3. \A i \in 1..n : f(i) \in 1..n + 1 /\ f(i) # k + 1
  BY <1>1, <1>2
<1>4. \A i, j \in 1..n : (i < j => f(i) < f(j)) /\ (f(i) < f(j) => i < j) /\ (f(i) = f(j) => i = j)
  BY <1>1, <1>2
<1>5. ASSUME NEW j \in 1..n + 1, j # k + 1 PROVE \E i \in 1..n : f(i) = j
  <2>1. CASE j <= k
    <3>1. j \in 1..n /\ f(j) = j
      BY <1>1, <1>2, <2>1
    <3>. QED  BY <3>1
  <2>2. CASE j > k + 1
    <3>1. j - 1 \in 1..n /\ f(j - 1) = j
      BY <1>1, <1>2, <2>2
    <3>. QED  BY <3>1
  <2>. QED  BY <1>1, <1>2, <1>5, <2>1, <2>2
<1> HIDE DEF f
<1>6. OnceEach'
  BY <1>2, <1>3, <1>4 DEF OnceEach
<1>7. Behind'
  BY <1>2, <1>3, <1>4 DEF Behind
<1>8. Ordered'
  <2> SUFFICES ASSUME NEW i \in DOMAIN Line', NEW j \in DOMAIN Line', i < j,
                      Line'[i] \in Writes, Line'[j] \in Writes, Line'[i].by = Line'[j].by
               PROVE  Line'[i].nth < Line'[j].nth
    BY DEF Ordered
  <2>1. /\ f(i) \in DOMAIN Line /\ f(j) \in DOMAIN Line /\ f(i) < f(j)
        /\ Line'[i] = Line[f(i)] /\ Line'[j] = Line[f(j)]
    BY <1>2, <1>3, <1>4
  <2>. QED  BY <2>1 DEF Ordered
<1>9. Head(writeC) \in Range(Line)
  BY <1>2 DEF Range
<1>10. Range(Line') \subseteq Range(Line) \ {Head(writeC)}
  BY <1>2, <1>3 DEF Range, OnceEach
<1>11. Range(Line) \ {Head(writeC)} \subseteq Range(Line')
  <2> SUFFICES ASSUME NEW j \in 1..n + 1, Line[j] # Head(writeC) PROVE Line[j] \in Range(Line')
    BY <1>2 DEF Range
  <2>1. j # k + 1
    BY <1>2
  <2>2. PICK i \in 1..n : f(i) = j
    BY <1>5, <2>1
  <2>. QED  BY <1>2, <2>2 DEF Range
<1>. QED  BY <1>6, <1>7, <1>8, <1>9, <1>10, <1>11

\* The line stays as it is when the writer moves it on.
LEMMA OrderStays ==
  ASSUME OnceEach, Ordered, Behind, UNCHANGED covers, Line' = Line
  PROVE  OnceEach' /\ Ordered' /\ Behind'
  BY DEF OnceEach, Ordered, Behind

LEMMA OrderedIsInOrder == QueueType => (Ordered <=> InOrder)
<1> SUFFICES ASSUME QueueType PROVE Ordered <=> InOrder
  OBVIOUS
<1>1. \A i \in DOMAIN Line : Line[i] \in Writes <=> ~IsBarrier(Line[i])
  BY LineIs, NamesAssumption DEF Range, Ops, IsBarrier
<1>2. InOrder <=> \A i, j \in DOMAIN Line :
        i < j /\ ~IsBarrier(Line[i]) /\ ~IsBarrier(Line[j]) /\ Line[i].by = Line[j].by
          => Line[i].nth < Line[j].nth
  BY DEF InOrder, Line
<1>. QED  BY <1>1, <1>2 DEF Ordered

-----------------------------------------------------------------------------
(* Which writes are accepted.                                              *)

\* Where a producer is when its latest write is accepted.
Back == {"idle", "barrier", "waiting"}

LEMMA AcceptedStays ==
  ASSUME UNCHANGED made, \A p \in Producers : at'[p] \in Back <=> at[p] \in Back
  PROVE  Accepted' = Accepted
  BY DEF Accepted, Back, Writes

\* A producer that comes back with its write.
LEMMA AcceptedGrows ==
  ASSUME QueueType, made' \in [Producers -> 0..MaxWrites], NEW p \in Producers,
         made'[p] > 0, at'[p] \in Back,
         (made'[p] = made[p] + 1 /\ at[p] \in Back) \/ (made'[p] = made[p] /\ at[p] \notin Back),
         \A q \in Producers \ {p} : made'[q] = made[q] /\ (at'[q] \in Back <=> at[q] \in Back)
  PROVE  Accepted' = Accepted \cup {[by |-> p, nth |-> made'[p]]}
<1> DEFINE x == [by |-> p, nth |-> made'[p]]
<1>1. x \in Writes /\ x.by = p /\ x.nth = made'[p]
  BY DEF Writes
<1>2. ASSUME NEW w \in Writes PROVE w \in Accepted' <=> w \in Accepted \/ w = x
  <2>1. w.nth \in Nat /\ w.by \in Producers /\ (w = x <=> w.by = p /\ w.nth = made'[p])
    BY DEF Writes
  <2>2. made[w.by] \in Nat /\ made[p] \in Nat
    BY <2>1 DEF QueueType
  <2>3. CASE w.by # p
    BY <1>2, <2>1, <2>3 DEF Accepted, Back
  <2>4. CASE w.by = p
    BY <1>2, <2>1, <2>2, <2>4 DEF Accepted, Back
  <2>. QED  BY <2>3, <2>4
<1>3. Accepted' \subseteq Writes /\ Accepted \subseteq Writes
  BY DEF Accepted
<1>. QED  BY <1>1, <1>2, <1>3

LEMMA CountedStays ==
  ASSUME Counted, Lost' = Lost, UNCHANGED dropped
  PROVE  Counted'
  BY DEF Counted

-----------------------------------------------------------------------------
(* The steps.                                                              *)

LEMMA LockStep ==
  ASSUME QueueInv, NEW p \in Producers, Lock(p)
  PROVE  QueueInv'
<1>1. /\ at[p] = "lock" /\ \A q \in Producers : ~InLoop(q)
      /\ \A q \in Producers : at'[q] = IF q = p THEN "send" ELSE at[q]
      /\ at' \in [Producers -> Places]
      /\ UNCHANGED <<made, victim, writeC, pending, ran, closed, covers, dropped, writer, stopC, owed>>
  BY DEF QueueInv, QueueType, Lock, Goto, Places, callVars, writerVars, stopVars
<1>2. Line' = Line /\ Accepted' = Accepted /\ OnTheWay' = OnTheWay
  BY <1>1, AcceptedStays DEF Line, Back, OnTheWay
<1>3. QueueType' /\ Locked'
  BY <1>1 DEF QueueInv, QueueType, Locked, InLoop
<1>4. BarrierPlaces' /\ Known' /\ Counted' /\ Stopped'
  BY <1>1, <1>2 DEF QueueInv, BarrierPlaces, Known, Counted, Lost, Stopped, CloseDrains
<1>5. OnceEach' /\ Ordered' /\ Behind'
  BY <1>1, <1>2, OrderStays DEF QueueInv
<1>. QED  BY <1>3, <1>4, <1>5 DEF QueueInv

\* Both ways into the queue: the fast path, and the one with the lock held.
LEMMA WriteSent ==
  ASSUME QueueInv, NEW p \in Producers, NEW x \in Writes,
         x = [by |-> p, nth |-> made'[p]],
         \/ at[p] = "idle" /\ made[p] < WritesOf[p] /\ made' = [made EXCEPT ![p] = @ + 1] /\ at' = at
         \/ at[p] = "send" /\ made' = made /\ at' = [at EXCEPT ![p] = "idle"],
         ~Full, writeC' = Append(writeC, x),
         UNCHANGED <<victim, pending, ran, closed, covers, dropped, writer, stopC, owed>>
  PROVE  QueueInv'
<1>1. /\ made' \in [Producers -> 0..MaxWrites] /\ at' \in [Producers -> Places]
      /\ \A q \in Producers \ {p} : made'[q] = made[q] /\ at'[q] = at[q]
      /\ at'[p] = "idle" /\ made'[p] \in 1..MaxWrites
      /\ \/ made'[p] = made[p] + 1 /\ at[p] = "idle"
         \/ made'[p] = made[p] /\ at[p] = "send"
  <2>1. /\ made \in [Producers -> 0..MaxWrites] /\ at \in [Producers -> Places]
        /\ made[p] \in Nat /\ WritesOf[p] \in 0..MaxWrites /\ MaxWrites \in Nat
        /\ at[p] = "send" => made[p] > 0
    BY QueueAssumption DEF QueueInv, QueueType, Locked, InLoop
  <2>2. CASE at[p] = "idle" /\ made[p] < WritesOf[p] /\ made' = [made EXCEPT ![p] = @ + 1] /\ at' = at
    BY <2>1, <2>2
  <2>3. CASE at[p] = "send" /\ made' = made /\ at' = [at EXCEPT ![p] = "idle"]
    BY <2>1, <2>3 DEF Places
  <2>. QED  BY <2>2, <2>3
<1>2. /\ x \notin Accepted /\ x \notin Range(Line) /\ x \notin owed
      /\ \A q \in Producers : x \notin covers[q]
      /\ \A v \in Range(Line) : v \in Writes /\ v.by = p => v.nth < made'[p]
  <2>1. made'[p] > made[p] \/ (made'[p] = made[p] /\ at[p] \notin {"idle", "barrier", "waiting"})
    BY <1>1 DEF QueueInv, QueueType
  <2>. QED  BY <1>1, <2>1, NextWrite DEF QueueInv
<1>3. x \in Ops /\ x \notin Producers
  BY NamesAssumption DEF Ops
<1>4. writeC' \in Seq(Ops) /\ Len(writeC') <= QueueCap /\ Line' = Append(Line, x)
  <2>1. writeC \in Seq(Ops) /\ Len(writeC) # QueueCap /\ Len(writeC) <= QueueCap /\ QueueCap \in Nat
    BY QueueAssumption DEF QueueInv, QueueType, Full
  <2>2. ran \o pending \in Seq(Ops)
    BY LineIs DEF QueueInv
  <2>3. Line' = Append(Line, x)
    BY <1>3, <2>1, <2>2, SendLast DEF Line
  <2>4. Append(writeC, x) \in Seq(Ops) /\ Len(Append(writeC, x)) <= QueueCap
    BY <1>3, <2>1
  <2>. QED  BY <2>3, <2>4
<1>5. OnceEach' /\ Ordered' /\ Behind' /\ Range(Line)' = Range(Line) \cup {x}
  BY <1>2, <1>3, <1>4, OrderAppend DEF QueueInv
<1>6. Accepted' = Accepted \cup {x}
  BY <1>1, AcceptedGrows DEF QueueInv, Back
<1>7. QueueType' /\ Locked'
  BY <1>1, <1>4 DEF QueueInv, QueueType, Locked, InLoop
<1>8. OnTheWay' = OnTheWay \cup {x}
  BY <1>3, AppendIs DEF QueueInv, QueueType, OnTheWay
<1>9. BarrierPlaces'
  BY <1>1, <1>3, <1>5 DEF QueueInv, QueueType, BarrierPlaces
<1>10. Known' /\ Counted'
  <2>1. Lost' = Lost
    BY <1>2, <1>5, <1>6 DEF Lost
  <2>. QED  BY <1>5, <1>6, <2>1, CountedStays DEF QueueInv, Known
<1>11. Stopped'
  BY <1>2, <1>8 DEF QueueInv, Stopped, CloseDrains
<1>. QED  BY <1>5, <1>7, <1>9, <1>10, <1>11 DEF QueueInv

\* A barrier that is sent, or sent again by whoever evicted it.
LEMMA BarrierEnters ==
  ASSUME QueueInv, NEW p \in Producers, NEW b \in Producers,
         \/ at[p] = "barrier" /\ b = p /\ at' = [at EXCEPT ![p] = "waiting"] /\ victim' = victim
         \/ at[p] = "resend" /\ victim = {b} /\ at' = [at EXCEPT ![p] = "send"] /\ victim' = {},
         ~Full, writeC' = Append(writeC, b),
         UNCHANGED <<made, pending, ran, closed, covers, dropped, writer, stopC, owed>>
  PROVE  QueueInv'
<1>1. /\ at' \in [Producers -> Places] /\ at \in [Producers -> Places]
      /\ \A q \in Producers \ {p} : at'[q] = at[q]
      /\ \/ at[p] = "barrier" /\ b = p /\ at'[p] = "waiting" /\ victim' = victim
         \/ at[p] = "resend" /\ victim = {b} /\ at'[p] = "send" /\ victim' = {}
  BY DEF QueueInv, QueueType, Places
<1>2. b \notin Range(Line) /\ b \in Ops /\ b \notin Writes
  BY <1>1, NamesAssumption DEF QueueInv, BarrierPlaces, Ops
<1>3. writeC' \in Seq(Ops) /\ Len(writeC') <= QueueCap /\ Line' = Append(Line, b)
  <2>1. writeC \in Seq(Ops) /\ Len(writeC) # QueueCap /\ Len(writeC) <= QueueCap /\ QueueCap \in Nat
    BY QueueAssumption DEF QueueInv, QueueType, Full
  <2>2. ran \o pending \in Seq(Ops)
    BY LineIs DEF QueueInv
  <2>3. Line' = Append(Line, b)
    BY <1>2, <2>1, <2>2, SendLast DEF Line
  <2>4. Append(writeC, b) \in Seq(Ops) /\ Len(Append(writeC, b)) <= QueueCap
    BY <1>2, <2>1
  <2>. QED  BY <2>3, <2>4
<1>4. OnceEach' /\ Ordered' /\ Behind' /\ Range(Line)' = Range(Line) \cup {b}
  <2>1. \A q \in Producers : b \notin covers[q]
    BY <1>2 DEF QueueInv, QueueType
  <2>. QED  BY <1>2, <1>3, <2>1, OrderAppend DEF QueueInv
<1>5. Accepted' = Accepted /\ Accepted \subseteq Writes
  <2>1. Accepted' = Accepted
    BY <1>1, AcceptedStays DEF Back
  <2>. QED  BY <2>1 DEF Accepted
<1>6. QueueType'
  BY <1>1, <1>3 DEF QueueInv, QueueType
<1>7. Locked'
  <2>1. \A q, o \in Producers : InLoop(q)' /\ InLoop(o)' => q = o
    BY <1>1 DEF QueueInv, Locked, InLoop
  <2>2. \A q \in Producers : at'[q] = "resend" => \E d \in Producers : victim' = {d}
    BY <1>1 DEF QueueInv, Locked, InLoop
  <2>3. victim' # {} => \E q \in Producers : at'[q] = "resend"
    BY <1>1 DEF QueueInv, Locked
  <2>4. \A q \in Producers : at'[q] = "lock" \/ InLoop(q)' => made'[q] > 0
    BY <1>1 DEF QueueInv, Locked, InLoop
  <2>. QED  BY <2>1, <2>2, <2>3, <2>4 DEF Locked
<1>8. BarrierPlaces'
  BY <1>1, <1>4 DEF QueueInv, QueueType, BarrierPlaces, Locked
<1>9. Known' /\ Counted'
  <2>1. Lost' = Lost
    BY <1>2, <1>4, <1>5 DEF Lost
  <2>. QED  BY <1>2, <1>4, <1>5, <2>1, CountedStays DEF QueueInv, Known
<1>10. Stopped'
  <2>1. OnTheWay' = OnTheWay \cup {b}
    BY <1>2, AppendIs DEF QueueInv, QueueType, OnTheWay
  <2>. QED  BY <1>2, <2>1 DEF QueueInv, QueueType, Stopped, CloseDrains
<1>. QED  BY <1>4, <1>6, <1>7, <1>8, <1>9, <1>10 DEF QueueInv

\* A caller that leaves the queue as it is, and its write where it was.
LEMMA CallerMoves ==
  ASSUME QueueInv, NEW p \in Producers, NEW to \in Places,
         at' = [at EXCEPT ![p] = to],
         \/ at[p] = "send" /\ to = "pop"
         \/ at[p] = "pop" /\ to = "send"
         \/ at[p] \in {"barrier", "waiting"} /\ to = "idle",
         UNCHANGED <<made, victim, writeC, pending, ran, closed, covers, dropped, writer, stopC, owed>>
  PROVE  QueueInv'
<1>1. /\ at' \in [Producers -> Places] /\ at'[p] = to
      /\ \A q \in Producers \ {p} : at'[q] = at[q]
  BY DEF QueueInv, QueueType
<1>2. Line' = Line /\ Accepted' = Accepted /\ OnTheWay' = OnTheWay
  <2>1. \A q \in Producers : at'[q] \in Back <=> at[q] \in Back
    BY <1>1 DEF Back
  <2>. QED  BY <2>1, AcceptedStays DEF Line, OnTheWay
<1>3. QueueType'
  BY <1>1 DEF QueueInv, QueueType
<1>4. Locked'
  <2>1. \A q \in Producers : /\ InLoop(q)' => InLoop(q)
                             /\ (at'[q] = "resend" <=> at[q] = "resend")
                             /\ (at'[q] = "lock" <=> at[q] = "lock")
    BY <1>1 DEF InLoop
  <2>. QED  BY <2>1 DEF QueueInv, Locked
<1>5. BarrierPlaces'
  <2>1. \A q \in Producers : (at'[q] = "barrier" => at[q] = "barrier")
                              /\ (at'[q] = "waiting" => at[q] = "waiting")
    BY <1>1
  <2>. QED  BY <1>2, <2>1 DEF QueueInv, BarrierPlaces
<1>6. Known' /\ Counted' /\ Stopped'
  BY <1>2 DEF QueueInv, Known, Counted, Lost, Stopped, CloseDrains
<1>7. OnceEach' /\ Ordered' /\ Behind'
  BY <1>2, OrderStays DEF QueueInv
<1>. QED  BY <1>3, <1>4, <1>5, <1>6, <1>7 DEF QueueInv

\* The queue is full: the write goes on to the lock.
LEMMA EnqueueWaits ==
  ASSUME QueueInv, NEW p \in Producers, at[p] = "idle", made[p] < WritesOf[p],
         made' = [made EXCEPT ![p] = @ + 1], at' = [at EXCEPT ![p] = "lock"],
         UNCHANGED <<victim, writeC, pending, ran, closed, covers, dropped, writer, stopC, owed>>
  PROVE  QueueInv'
<1>1. /\ made' \in [Producers -> 0..MaxWrites] /\ at' \in [Producers -> Places]
      /\ \A q \in Producers \ {p} : made'[q] = made[q] /\ at'[q] = at[q]
      /\ at'[p] = "lock" /\ made'[p] = made[p] + 1 /\ made[p] \in Nat
  <2>1. /\ made \in [Producers -> 0..MaxWrites] /\ at \in [Producers -> Places]
        /\ WritesOf \in [Producers -> 0..MaxWrites] /\ MaxWrites \in Nat
    BY QueueAssumption DEF QueueInv, QueueType
  <2>2. made[p] \in Nat /\ made[p] + 1 \in 0..MaxWrites /\ "lock" \in Places
    BY <2>1 DEF Places
  <2>. QED  BY <2>1, <2>2
<1>2. Accepted' = Accepted
  <2>1. ASSUME NEW w \in Writes PROVE w \in Accepted' <=> w \in Accepted
    <3>1. w.nth \in Nat /\ w.by \in Producers
      BY DEF Writes
    <3>. QED  BY <1>1, <2>1, <3>1 DEF Accepted
  <2>. QED  BY <2>1 DEF Accepted
<1>3. Line' = Line /\ OnTheWay' = OnTheWay
  BY DEF Line, OnTheWay
<1>4. QueueType'
  BY <1>1 DEF QueueInv, QueueType
<1>5. Locked'
  <2>1. \A q \in Producers : /\ InLoop(q)' => InLoop(q)
                             /\ (at'[q] = "resend" <=> at[q] = "resend")
                             /\ q # p => (at'[q] = "lock" <=> at[q] = "lock")
    BY <1>1 DEF InLoop
  <2>2. \A q \in Producers : at'[q] = "lock" \/ InLoop(q)' => made'[q] > 0
    BY <1>1, <2>1 DEF QueueInv, Locked
  <2>. QED  BY <2>1, <2>2 DEF QueueInv, Locked
<1>6. BarrierPlaces' /\ Known' /\ Counted' /\ Stopped'
  BY <1>1, <1>2, <1>3 DEF QueueInv, BarrierPlaces, Known, Counted, Lost, Stopped, CloseDrains
<1>7. OnceEach' /\ Ordered' /\ Behind'
  BY <1>3, OrderStays DEF QueueInv
<1>. QED  BY <1>4, <1>5, <1>6, <1>7 DEF QueueInv

LEMMA BarrierAsked ==
  ASSUME QueueInv, NEW p \in Producers, Barrier(p)
  PROVE  QueueInv'
<1>1. /\ at[p] = "idle" /\ p \notin closed \cup OnTheWay \cup victim
      /\ at' \in [Producers -> Places] /\ covers' \in [Producers -> SUBSET Writes]
      /\ at'[p] = "barrier" /\ \A q \in Producers \ {p} : at'[q] = at[q]
      /\ covers'[p] = Accepted /\ \A q \in Producers \ {p} : covers'[q] = covers[q]
      /\ UNCHANGED <<made, victim, writeC, pending, ran, closed, dropped, writer, stopC, owed>>
  <2>1. Accepted \subseteq Writes
    BY DEF Accepted
  <2>. QED  BY <2>1 DEF QueueInv, QueueType, Barrier, Goto, Places, stopVars, writerVars
<1>2. Line' = Line /\ Accepted' = Accepted /\ OnTheWay' = OnTheWay
  <2>1. \A q \in Producers : at'[q] \in Back <=> at[q] \in Back
    BY <1>1 DEF Back
  <2>. QED  BY <1>1, <2>1, AcceptedStays DEF Line, OnTheWay
<1>3. p \notin Range(Line)
  BY <1>1, LineIs DEF QueueInv, BarrierPlaces
<1>4. QueueType'
  BY <1>1 DEF QueueInv, QueueType
<1>5. Locked'
  <2>1. \A q \in Producers : /\ InLoop(q)' => InLoop(q)
                             /\ (at'[q] = "resend" <=> at[q] = "resend")
                             /\ (at'[q] = "lock" <=> at[q] = "lock")
    BY <1>1 DEF InLoop
  <2>. QED  BY <1>1, <2>1 DEF QueueInv, Locked
<1>6. BarrierPlaces'
  BY <1>1, <1>2, <1>3 DEF QueueInv, BarrierPlaces
<1>7. Known'
  BY <1>1, <1>2 DEF QueueInv, Known
<1>8. Counted' /\ Stopped'
  BY <1>1, <1>2 DEF QueueInv, Counted, Lost, Stopped, CloseDrains
<1>9. Behind'
  <2>1. \A j \in DOMAIN Line : Line[j] # p
    BY <1>3 DEF Range
  <2>. QED  BY <1>1, <1>2, <2>1 DEF QueueInv, Behind
<1>10. OnceEach' /\ Ordered'
  BY <1>2 DEF QueueInv, OnceEach, Ordered
<1>. QED  BY <1>4, <1>5, <1>6, <1>7, <1>8, <1>9, <1>10 DEF QueueInv

\* The oldest of a full queue goes, or is taken out to be sent again.
LEMMA EvictRemoves ==
  ASSUME QueueInv, NEW p \in Producers, Evict(p), writeC # <<>>
  PROVE  QueueInv'
<1> DEFINE h == Head(writeC)
<1>1. /\ at[p] = "pop" /\ writeC' = Tail(writeC)
      /\ \/ /\ h \in Producers /\ victim' = {h} /\ dropped' = dropped
            /\ at' = [at EXCEPT ![p] = "resend"]
         \/ /\ h \notin Producers /\ victim' = victim /\ dropped' = dropped + 1
            /\ at' = [at EXCEPT ![p] = "send"]
      /\ UNCHANGED <<made, pending, ran, closed, covers, writer, stopC, owed>>
  BY DEF Evict, Goto, IsBarrier, callVars, writerVars, stopVars
<1>2. /\ OnceEach' /\ Ordered' /\ Behind'
      /\ h \in Range(Line) /\ Range(Line)' = Range(Line) \ {h}
  BY <1>1, OrderRemove DEF QueueInv
<1>3. /\ writeC' \in Seq(Ops) /\ Len(writeC') <= QueueCap /\ h \in Ops
      /\ Range(writeC') \subseteq Range(writeC)
  <2>1. writeC \in Seq(Ops) /\ Len(writeC) <= QueueCap /\ QueueCap \in Nat
    BY QueueAssumption DEF QueueInv, QueueType
  <2>2. /\ Tail(writeC) \in Seq(Ops) /\ Len(Tail(writeC)) = Len(writeC) - 1 /\ h \in Ops
        /\ \A i \in 1..Len(Tail(writeC)) : Tail(writeC)[i] = writeC[i + 1] /\ i + 1 \in 1..Len(writeC)
        /\ DOMAIN Tail(writeC) = 1..Len(Tail(writeC)) /\ DOMAIN writeC = 1..Len(writeC)
    BY <2>1
  <2>3. Range(Tail(writeC)) \subseteq Range(writeC)
    BY <2>2 DEF Range
  <2>4. Len(Tail(writeC)) <= QueueCap
    BY <2>1, <2>2
  <2>. QED  BY <1>1, <2>2, <2>3, <2>4
<1> HIDE DEF h
<1>4. /\ at' \in [Producers -> Places] /\ \A q \in Producers \ {p} : at'[q] = at[q]
      /\ at'[p] \in {"send", "resend"} /\ at[p] = "pop" /\ (at'[p] = "resend" <=> h \in Producers)
  BY <1>1 DEF QueueInv, QueueType, Places
<1>5. Accepted' = Accepted
  BY <1>1, <1>4, AcceptedStays DEF Back
<1>6. victim = {}
  BY <1>4 DEF QueueInv, Locked, InLoop
<1>7. QueueType'
  BY <1>1, <1>3, <1>4 DEF QueueInv, QueueType
<1>8. Locked'
  <2>1. \A q \in Producers : /\ InLoop(q)' <=> InLoop(q)
                             /\ q # p => (at'[q] = "resend" <=> at[q] = "resend")
                             /\ (at'[q] = "lock" <=> at[q] = "lock")
    BY <1>4 DEF InLoop
  <2>2. \A q \in Producers : at[q] # "resend"
    BY <1>4 DEF QueueInv, Locked, InLoop
  <2>. QED  BY <1>1, <1>4, <1>6, <2>1, <2>2 DEF QueueInv, Locked
<1>9. BarrierPlaces'
  <2>1. \A q \in Producers : (at'[q] = "barrier" <=> at[q] = "barrier")
                              /\ (at'[q] = "waiting" <=> at[q] = "waiting")
    BY <1>4
  <2>. QED  BY <1>1, <1>2, <1>6, <2>1 DEF QueueInv, BarrierPlaces
<1>10. Known'
  BY <1>1, <1>2, <1>5 DEF QueueInv, Known
<1>11. Counted'
  <2>1. CASE h \in Producers
    <3>1. Lost' = Lost
      BY <1>2, <1>5, <2>1, NamesAssumption DEF Lost, Accepted
    <3>. QED  BY <1>1, <2>1, <3>1, CountedStays DEF QueueInv
  <2>2. CASE h \notin Producers
    <3>1. h \in Accepted
      BY <1>2, <1>3, <2>2 DEF QueueInv, Known, Ops
    <3>2. h \notin Lost /\ Lost' = Lost \cup {h}
      BY <1>2, <1>5, <3>1 DEF Lost
    <3>3. IsFiniteSet(Lost') /\ Cardinality(Lost') = Cardinality(Lost) + 1
      BY <3>2, FS_AddElement DEF QueueInv, Counted
    <3>. QED  BY <1>1, <2>2, <3>3 DEF QueueInv, Counted
  <2>. QED  BY <2>1, <2>2
<1>12. Stopped'
  <2>1. OnTheWay' \subseteq OnTheWay
    BY <1>1, <1>3 DEF OnTheWay
  <2>. QED  BY <1>1, <2>1 DEF QueueInv, Stopped, CloseDrains
<1>. QED  BY <1>2, <1>7, <1>8, <1>9, <1>10, <1>11, <1>12 DEF QueueInv

\* The writer takes the first of the channel into its batch and goes on.
LEMMA WriterTakes ==
  ASSUME QueueInv, writer # "done", writeC # <<>>, writeC' = Tail(writeC),
         pending' = Append(pending, Head(writeC)),
         UNCHANGED <<at, victim, made, ran, closed, covers, dropped, writer, stopC, owed>>
  PROVE  QueueInv'
<1>1. writeC \in Seq(Ops) /\ pending \in Seq(Ops) /\ ran \in Seq(Ops) /\ Len(writeC) <= QueueCap
      /\ QueueCap \in Nat
  BY QueueAssumption DEF QueueInv, QueueType
<1>2. Line' = Line
  <2>1. (ran \o Append(pending, Head(writeC))) \o Tail(writeC) = (ran \o pending) \o writeC
    BY <1>1, MoveOn
  <2>2. Line' = (ran \o Append(pending, Head(writeC))) \o Tail(writeC)
    BY DEF Line
  <2>. QED  BY <2>1, <2>2 DEF Line
<1>3. QueueType'
  <2>1. Tail(writeC) \in Seq(Ops) /\ Len(Tail(writeC)) <= QueueCap /\ Head(writeC) \in Ops
    BY <1>1
  <2>2. Append(pending, Head(writeC)) \in Seq(Ops)
    BY <1>1, <2>1
  <2>. QED  BY <2>1, <2>2 DEF QueueInv, QueueType
<1>4. Accepted' = Accepted
  BY DEF Accepted
<1>5. Locked' /\ BarrierPlaces' /\ Known' /\ Counted' /\ Stopped'
  BY <1>2, <1>4
  DEF QueueInv, Locked, InLoop, BarrierPlaces, Known, Counted, Lost, Stopped, CloseDrains
<1>6. OnceEach' /\ Ordered' /\ Behind'
  BY <1>2, OrderStays DEF QueueInv
<1>. QED  BY <1>3, <1>5, <1>6 DEF QueueInv

\* A batch runs, and those who wait for its barriers go on.
LEMMA BatchRuns ==
  ASSUME QueueInv, NEW batch \in Seq(Ops), RunBatch(batch),
         (ran \o batch) \o writeC' = Line, writeC' \in Seq(Ops), Len(writeC') <= QueueCap,
         writer' \in {"run", "drain", "done"}, writer' # "run" => stopC,
         writer' = "done" => writeC' = <<>>,
         UNCHANGED <<at, victim, made, covers, dropped, stopC, owed>>
  PROVE  QueueInv'
<1>1. /\ ran' = ran \o batch /\ ran' \in Seq(Ops) /\ Range(ran') = Range(ran) \cup Range(batch)
      /\ closed' = closed \cup (Producers \cap Range(batch)) /\ pending' = <<>>
  <2>1. ran \in Seq(Ops)
    BY DEF QueueInv, QueueType
  <2>2. ran \o batch \in Seq(Ops) /\ Range(ran \o batch) = Range(ran) \cup Range(batch)
    BY <2>1, ConcatIs
  <2>. QED  BY <2>2 DEF RunBatch, IsBarrier
<1>2. Line' = Line
  BY <1>1, EmptyLast DEF Line
<1>3. QueueType'
  BY <1>1 DEF QueueInv, QueueType
<1>4. Accepted' = Accepted
  BY DEF Accepted
<1>5. BarrierPlaces'
  BY <1>1, <1>2 DEF QueueInv, BarrierPlaces
<1>6. Locked' /\ Known' /\ Counted'
  BY <1>2, <1>4 DEF QueueInv, Locked, InLoop, Known, Counted, Lost
<1>7. Stopped'
  <2>1. writer' = "done" => OnTheWay' = {}
    BY <1>1 DEF OnTheWay, Range
  <2>. QED  BY <2>1 DEF Stopped, CloseDrains
<1>8. OnceEach' /\ Ordered' /\ Behind'
  BY <1>2, OrderStays DEF QueueInv
<1>. QED  BY <1>3, <1>5, <1>6, <1>7, <1>8 DEF QueueInv

\* Close is called, or the writer sees it.
LEMMA CloseCalled ==
  ASSUME QueueInv, Close \/ SeesStop
  PROVE  QueueInv'
<1>1. /\ UNCHANGED <<at, victim, made, writeC, pending, ran, closed, covers, dropped>>
      /\ \/ stopC' = TRUE /\ owed' = Accepted /\ writer' = writer /\ ~stopC
         \/ writer' = "drain" /\ stopC /\ stopC' = stopC /\ owed' = owed
  BY DEF Close, SeesStop, callVars, writerVars, stopVars
<1>2. Line' = Line /\ Accepted' = Accepted
  BY <1>1 DEF Line, Accepted
<1>3. QueueType'
  BY <1>1 DEF QueueInv, QueueType, Accepted
<1>4. Locked' /\ BarrierPlaces' /\ Known' /\ Counted'
  BY <1>1, <1>2 DEF QueueInv, Locked, InLoop, BarrierPlaces, Known, Counted, Lost
<1>5. Stopped'
  BY <1>1 DEF QueueInv, Stopped, CloseDrains
<1>6. OnceEach' /\ Ordered' /\ Behind'
  BY <1>1, <1>2, OrderStays DEF QueueInv
<1>. QED  BY <1>3, <1>4, <1>5, <1>6 DEF QueueInv

LEMMA QueueStarts == QueueInit => QueueInv
<1> SUFFICES ASSUME QueueInit PROVE QueueInv
  OBVIOUS
<1>1. Line = <<>> /\ DOMAIN Line = {} /\ Range(Line) = {} /\ Range(ran) = {} /\ OnTheWay = {}
  BY DEF QueueInit, Line, Range, OnTheWay
<1>2. Accepted = {} /\ Lost = {}
  BY DEF QueueInit, Accepted, Lost, Writes
<1>3. QueueType
  <2>1. <<>> \in Seq(Ops) /\ Len(<<>>) = 0 /\ 0 <= QueueCap /\ 0 \in 0..MaxWrites
    BY QueueAssumption
  <2>. QED  BY <2>1 DEF QueueInit, QueueType, Places
<1>4. Locked /\ BarrierPlaces /\ Known /\ Stopped
  BY <1>1, <1>2 DEF QueueInit, Locked, InLoop, BarrierPlaces, Known, Stopped, CloseDrains
<1>5. Counted
  BY <1>2, FS_EmptySet DEF QueueInit, Counted
<1>6. OnceEach /\ Ordered /\ Behind
  BY <1>1 DEF OnceEach, Ordered, Behind
<1>. QED  BY <1>3, <1>4, <1>5, <1>6 DEF QueueInv

LEMMA QueueStep == QueueInv /\ [QueueNext]_queueVars => QueueInv'
<1> SUFFICES ASSUME QueueInv, [QueueNext]_queueVars PROVE QueueInv'
  OBVIOUS
<1> USE DEF callVars, writerVars, stopVars, Goto
<1>1. ASSUME NEW p \in Producers, Enqueue(p) PROVE QueueInv'
  <2>1. CASE ~Full /\ writeC' = Append(writeC, Writing(p)') /\ UNCHANGED at
    <3>1. Writing(p)' = [by |-> p, nth |-> made'[p]] /\ Writing(p)' \in Writes
      <4>1. /\ made \in [Producers -> 0..MaxWrites] /\ WritesOf \in [Producers -> 0..MaxWrites]
            /\ made[p] < WritesOf[p] /\ made'[p] = made[p] + 1 /\ MaxWrites \in Nat
        BY <1>1, QueueAssumption DEF QueueInv, QueueType, Enqueue
      <4>2. made'[p] \in 1..MaxWrites
        BY <4>1
      <4>. QED  BY <4>2 DEF Writing, Writes
    <3>. QED  BY <1>1, <2>1, <3>1, WriteSent DEF Enqueue
  <2>2. CASE Full /\ at' = [at EXCEPT ![p] = "lock"] /\ UNCHANGED writeC
    BY <1>1, <2>2, EnqueueWaits DEF Enqueue
  <2>. QED  BY <1>1, <2>1, <2>2 DEF Enqueue
<1>2. ASSUME NEW p \in Producers, SlowSend(p) PROVE QueueInv'
  <2>1. CASE ~Full /\ writeC' = Append(writeC, Writing(p)) /\ at' = [at EXCEPT ![p] = "idle"]
    <3>1. Writing(p) = [by |-> p, nth |-> made'[p]] /\ Writing(p) \in Writes
      <4>1. made[p] \in 1..MaxWrites /\ made' = made
        BY <1>2, QueueAssumption DEF QueueInv, QueueType, Locked, InLoop, SlowSend
      <4>. QED  BY <4>1 DEF Writing, Writes
    <3>. QED  BY <1>2, <2>1, <3>1, WriteSent DEF SlowSend
  <2>2. CASE Full /\ at' = [at EXCEPT ![p] = "pop"] /\ UNCHANGED writeC
    BY <1>2, <2>2, CallerMoves DEF SlowSend, Places
  <2>. QED  BY <1>2, <2>1, <2>2 DEF SlowSend
<1>3. ASSUME NEW p \in Producers, Evict(p) PROVE QueueInv'
  <2>1. CASE writeC = <<>>
    BY <1>3, <2>1, CallerMoves DEF Evict, Places
  <2>. QED  BY <1>3, <2>1, EvictRemoves
<1>4. ASSUME NEW p \in Producers, Resend(p) PROVE QueueInv'
  <2>1. PICK b \in Producers : victim = {b}
    BY <1>4 DEF QueueInv, Locked, Resend
  <2>. QED  BY <1>4, <2>1, BarrierEnters DEF Resend
<1>5. ASSUME NEW p \in Producers, BarrierSent(p) PROVE QueueInv'
  BY <1>5, BarrierEnters DEF BarrierSent
<1>6. ASSUME NEW p \in Producers, BarrierReturns(p) PROVE QueueInv'
  BY <1>6, CallerMoves DEF BarrierReturns, Places
<1>7. writeC \in Seq(Ops) /\ pending \in Seq(Ops) /\ ran \in Seq(Ops)
      /\ Len(writeC) <= QueueCap /\ QueueCap \in Nat /\ writer \in {"run", "drain", "done"}
      /\ (writer # "run" => stopC)
  BY QueueAssumption DEF QueueInv, QueueType, Stopped
<1>8. CASE Take
  <2> DEFINE batch == Append(pending, Head(writeC))
  <2>1. /\ writer # "done" /\ writeC # <<>> /\ writeC' = Tail(writeC)
        /\ UNCHANGED <<at, victim, made, covers, dropped, writer, stopC, owed>>
        /\ RunBatch(batch) \/ (pending' = batch /\ UNCHANGED <<ran, closed>>)
    BY <1>8 DEF Take
  <2>2. /\ batch \in Seq(Ops) /\ writeC' \in Seq(Ops) /\ Len(writeC') <= QueueCap
    BY <1>7, <2>1
  <2>3. (ran \o batch) \o writeC' = Line
    <3>1. (ran \o Append(pending, Head(writeC))) \o Tail(writeC) = (ran \o pending) \o writeC
      BY <1>7, <2>1, MoveOn
    <3>. QED  BY <2>1, <3>1 DEF Line
  <2>4. CASE RunBatch(batch)
    <3> HIDE DEF batch
    <3>. QED  BY <1>7, <2>1, <2>2, <2>3, <2>4, BatchRuns
  <2>5. CASE pending' = batch /\ UNCHANGED <<ran, closed>>
    BY <2>1, <2>5, WriterTakes
  <2>. QED  BY <2>1, <2>4, <2>5
<1>9. CASE Flush \/ DrainEnds
  <2>1. /\ RunBatch(pending) /\ writeC' = writeC
        /\ UNCHANGED <<at, victim, made, covers, dropped, stopC, owed>>
        /\ \/ writer = "run" /\ writer' = "run"
           \/ writer = "drain" /\ writer' = "done" /\ writeC = <<>>
    BY <1>9 DEF Flush, DrainEnds
  <2>2. (ran \o pending) \o writeC' = Line
    BY <2>1 DEF Line
  <2>. QED  BY <1>7, <2>1, <2>2, BatchRuns
<1>10. CASE UNCHANGED queueVars
  <2>1. Line' = Line /\ Accepted' = Accepted /\ OnTheWay' = OnTheWay
    BY <1>10 DEF queueVars, Line, Accepted, OnTheWay
  <2>2. QueueType' /\ Locked' /\ BarrierPlaces' /\ Known' /\ Counted' /\ Stopped'
    BY <1>10, <2>1
    DEF queueVars, QueueInv, QueueType, Locked, InLoop, BarrierPlaces, Known, Counted, Lost, Stopped,
        CloseDrains
  <2>3. OnceEach' /\ Ordered' /\ Behind'
    BY <1>10, <2>1, OrderStays DEF QueueInv, queueVars
  <2>. QED  BY <2>2, <2>3 DEF QueueInv
<1>. QED
  BY <1>1, <1>2, <1>3, <1>4, <1>5, <1>6, <1>8, <1>9, <1>10, LockStep, BarrierAsked, CloseCalled
  DEF QueueNext, CallStep

\* Sets of at most one.
LEMMA AtMostOne ==
  ASSUME NEW S, \A x, y \in S : x = y
  PROVE  Cardinality(S) <= 1
<1>1. CASE S = {}
  BY <1>1, FS_EmptySet
<1>2. ASSUME NEW x \in S PROVE Cardinality(S) <= 1
  <2>1. S = {x}
    BY <1>2
  <2>. QED  BY <2>1, FS_Singleton
<1>. QED  BY <1>1, <1>2

LEMMA QueueHolds == QueueInv => QueueSafe
<1> SUFFICES ASSUME QueueInv PROVE QueueSafe
  OBVIOUS
<1>1. Range(Line) = Range(ran) \cup OnTheWay /\ Range(ran) \cap OnTheWay = {}
  BY LineIs, RanFirst DEF QueueInv
<1>2. QueueTypeOK
  <2>1. Cardinality(victim) <= 1
    <3>1. \A x, y \in victim : x = y
      BY DEF QueueInv, Locked
    <3>. QED  BY <3>1, AtMostOne
  <2>2. Cardinality({p \in Producers : InLoop(p)}) <= 1
    BY AtMostOne DEF QueueInv, Locked
  <2>3. closed \subseteq Producers
    BY DEF QueueInv, BarrierPlaces
  <2>. QED  BY <2>1, <2>2, <2>3 DEF QueueInv, QueueType, QueueTypeOK
<1>3. DropsAreExact
  BY <1>1 DEF QueueInv, Counted, Lost, DropsAreExact
<1>4. BarriersCover
  <2> SUFFICES ASSUME NEW p \in closed, NEW w \in covers[p], w \in OnTheWay PROVE FALSE
    BY DEF BarriersCover
  <2>1. p \in Producers /\ p \in Range(ran)
    BY DEF QueueInv, BarrierPlaces
  <2>2. PICK i \in DOMAIN Line, j \in DOMAIN Line : Line[i] = w /\ Line[j] = p
    BY <1>1, <2>1 DEF Range
  <2>3. i < j
    BY <2>1, <2>2 DEF QueueInv, Behind
  <2>4. w \in Range(ran)
    BY <2>1, <2>2, <2>3, RanFirst DEF QueueInv
  <2>. QED  BY <1>1, <2>4
<1>5. BarriersKept
  BY <1>1 DEF QueueInv, BarrierPlaces, BarriersKept
<1>6. InOrder
  BY OrderedIsInOrder DEF QueueInv
<1>. QED  BY <1>2, <1>3, <1>4, <1>5, <1>6 DEF QueueInv, Stopped, QueueSafe

(***************************************************************************)
(* The queue in front of the database loses no write without counting it,  *)
(* runs nothing twice, keeps each goroutine's writes in their order, loses *)
(* no barrier to an eviction and lets none return before what it covers    *)
(* has run, and its Close drains, for any number of goroutines, any        *)
(* capacity and any batch size. The code: Enqueue, Barrier, the writer     *)
(* goroutine and Close of db.go.                                           *)
(***************************************************************************)
THEOREM QueueStaysSafe == QueueSpec => []QueueSafe
  BY QueueStarts, QueueStep, QueueHolds, PTL DEF QueueSpec
=============================================================================
