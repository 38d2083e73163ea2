-------------------------- MODULE PersistenceProofs --------------------------
(***************************************************************************)
(* Machine-checked proofs about what the gateway keeps across restarts.    *)
(*                                                                         *)
(* Of AgentStore, for any keys, labels, tickets and connections and any    *)
(* number of restarts: type correctness, the labels as keys (for the       *)
(* memory and the file, whether or not writing the file may fail), and     *)
(* what holds of the tickets and the records as long as it does not fail.  *)
(*                                                                         *)
(* Of BandwidthStore, for any ladder of tiers, any agents and any clock:   *)
(* numbers, a ring, the tiers against the disk and the save under way, the *)
(* histories of agents, types, and what a run of the history checks but    *)
(* one property; then that one, that every byte is counted once in each    *)
(* tier: a pair of tiers, the pair that the rows on disk make, the steps.  *)
(***************************************************************************)
EXTENDS AgentStore, BandwidthStore, SumProofs

-----------------------------------------------------------------------------
(* The inductive invariants of the store of agents.                        *)

\* No two records of a table have one label.
KeyedBy(table) ==
  \A k, l \in Keys : table[k] # None /\ table[l] # None /\ LabelOf[k] = LabelOf[l] => k = l

\* The memory is keyed, and so is the file that a restart makes the memory.
KeyedInv == KeyedBy(agents) /\ KeyedBy(disk.agents)

\* Every change has reached the file.
FileIsMemory == disk.agents = agents /\ disk.nonces = nonces

\* Ticket t has let key k in, or is what enrolled it.
Used(t, k) == <<t, k>> \in authed \/ (agents[k] # None /\ agents[k].ticket = t)

\* A single-use ticket that was used is consumed, and by one key.
TicketInv ==
  \A t \in Tickets \ Reusable : \A k \in Keys : Used(t, k) =>
    /\ nonces[t] = "consumed"
    /\ \A l \in Keys : Used(t, l) => l = k

\* A handler that has found no record where there is one now is known to have missed it.
RacedInv == \A c \in Conns : pc[c] = "unknown" /\ agents[KeyOf[c]] # None => c \in raced

-----------------------------------------------------------------------------
\* A set whose members are all the same has at most one.
LEMMA AtMostOne ==
  ASSUME NEW S, \A x, y \in S : x = y
  PROVE  Cardinality(S) <= 1
<1>1. CASE S = {}
  BY <1>1, FS_EmptySet
<1>2. CASE S # {}
  <2>1. PICK x \in S : TRUE
    BY <1>2
  <2>2. S = {x}
    BY <2>1
  <2>. QED  BY <2>2, FS_Singleton
<1>. QED  BY <1>1, <1>2

-----------------------------------------------------------------------------
(* Type correctness.                                                       *)

\* Writing the file keeps it of its type, and leaves in it what the memory holds
\* or what it held before.
LEMMA SaveType ==
  ASSUME TypeOK, NEW ok \in Results, save(ok),
         agents' \in [Keys -> Record \cup {None}],
         nonces' \in [Tickets -> {"none", "open", "consumed"}]
  PROVE  /\ disk' \in [agents : [Keys -> Record \cup {None}],
                       nonces : [Tickets -> {"none", "open", "consumed"}]]
         /\ disk' = disk \/ (disk'.agents = agents' /\ disk'.nonces = nonces')
         /\ ~MaySaveFail => disk'.agents = agents' /\ disk'.nonces = nonces'
<1>1. ~MaySaveFail => ok
  BY StoreAssumption DEF Results
<1>. QED  BY <1>1 DEF save, TypeOK

LEMMA TypeInit == Init => TypeOK
<1> SUFFICES ASSUME Init PROVE TypeOK
  OBVIOUS
<1>1. /\ agents \in [Keys -> Record \cup {None}]
      /\ nonces \in [Tickets -> {"none", "open", "consumed"}]
  BY DEF Init
<1>2. disk \in [agents : [Keys -> Record \cup {None}],
                nonces : [Tickets -> {"none", "open", "consumed"}]]
  BY <1>1 DEF Init
<1>3. /\ pc \in [Conns -> {"idle", "hello", "unknown"}]
      /\ carries \in [Conns -> Tickets \cup {None}]
      /\ answer \in [Conns -> {"none", "admitted", "revoked", "refused"}]
  BY DEF Init
<1>. QED  BY <1>1, <1>2, <1>3 DEF Init, TypeOK

LEMMA TypeStep == TypeOK /\ [Next]_vars => TypeOK'
<1> SUFFICES ASSUME TypeOK, [Next]_vars PROVE TypeOK'
  OBVIOUS
<1> USE StoreAssumption, NoRecordAssumption
<1>1. ASSUME NEW c \in Conns, NEW t \in Tickets \cup {None}, Hello(c, t) PROVE TypeOK'
  BY <1>1 DEF Hello, TypeOK
<1>2. ASSUME NEW c \in Conns, LookupKnown(c) PROVE TypeOK'
  <2>1. KeyOf[c] \in Keys /\ agents[KeyOf[c]] \in Record
    BY <1>2 DEF LookupKnown, Known, TypeOK
  <2>2. <<agents[KeyOf[c]].ticket, KeyOf[c]>> \in Tickets \X Keys
    BY <2>1 DEF Record
  <2>3. authed' \subseteq Tickets \X Keys
    BY <1>2, <2>2 DEF LookupKnown, TypeOK
  <2>. QED  BY <1>2, <2>3 DEF LookupKnown, Answer, TypeOK
<1>3. ASSUME NEW c \in Conns, LookupUnknown(c) PROVE TypeOK'
  BY <1>3 DEF LookupUnknown, Answer, TypeOK
<1>4. ASSUME NEW c \in Conns, EnrollRefused(c) PROVE TypeOK'
  BY <1>4 DEF EnrollRefused, Answer, TypeOK
<1>5. ASSUME NEW c \in Conns, Enroll(c) PROVE TypeOK'
  <2>1. KeyOf[c] \in Keys /\ carries[c] \in Tickets
    BY <1>5 DEF Enroll, Redeemable, TypeOK
  <2>2. [revoked |-> FALSE, gen |-> 0, ticket |-> carries[c]] \in Record
    BY <2>1 DEF Record
  <2>3. agents' \in [Keys -> Record \cup {None}]
    BY <1>5, <2>2 DEF Enroll, TypeOK
  <2>4. nonces' \in [Tickets -> {"none", "open", "consumed"}]
    BY <1>5, <2>1 DEF Enroll, Consumed, TypeOK
  <2>5. PICK ok \in Results :
          /\ save(ok) /\ Answer(c, IF ok THEN "admitted" ELSE "refused")
          /\ authed' = IF ok THEN authed \cup {<<carries[c], KeyOf[c]>>} ELSE authed
    BY <1>5 DEF Enroll
  <2>6. authed' \subseteq Tickets \X Keys
    BY <2>1, <2>5 DEF TypeOK
  <2>. QED  BY <1>5, <2>3, <2>4, <2>5, <2>6, SaveType DEF Enroll, Answer, Missing, TypeOK
<1>6. ASSUME NEW t \in Tickets, IssueEnrollment(t) PROVE TypeOK'
  <2>1. nonces' \in [Tickets -> {"none", "open", "consumed"}] /\ agents' \in [Keys -> Record \cup {None}]
    BY <1>6 DEF IssueEnrollment, TypeOK
  <2>. QED  BY <1>6, <2>1, SaveType DEF IssueEnrollment, TypeOK
<1>7. ASSUME NEW t \in Tickets, Expire(t) PROVE TypeOK'
  BY <1>7 DEF Expire, TypeOK
<1>8. ASSUME NEW a \in Labels, Revoke(a) PROVE TypeOK'
  <2>1. PICK k \in Holders(a) :
          /\ agents' = [agents EXCEPT ![k].revoked = TRUE]
          /\ revoked' = revoked \cup {l \in Keys : LabelOf[l] = a /\ agents[l] # None}
          /\ UNCHANGED <<nonces, minted, expired, pc, carries, answer, authed, raced>>
          /\ \E ok \in Results : save(ok)
    BY <1>8 DEF Revoke
  <2>2. k \in Keys /\ agents[k] \in Record
    BY DEF Holders, TypeOK
  <2>3. [agents[k] EXCEPT !.revoked = TRUE] \in Record
    BY <2>2 DEF Record
  <2>4. agents' \in [Keys -> Record \cup {None}]
    BY <2>1, <2>3 DEF TypeOK
  <2>. QED  BY <2>1, <2>4, SaveType DEF TypeOK
<1>9. ASSUME NEW a \in Labels, AdoptConfig(a) PROVE TypeOK'
  <2>1. PICK k \in Holders(a) :
          /\ agents[k].gen < MaxGen
          /\ agents' = [agents EXCEPT ![k].gen = Bump(@)]
          /\ UNCHANGED <<nonces, minted, expired, pc, carries, answer, authed, revoked, raced>>
          /\ \E ok \in Results : save(ok)
    BY <1>9 DEF AdoptConfig
  <2>2. k \in Keys /\ agents[k] \in Record
    BY DEF Holders, TypeOK
  <2>3. [agents[k] EXCEPT !.gen = Bump(@)] \in Record
    BY <2>1, <2>2 DEF Record, Bump
  <2>4. agents' \in [Keys -> Record \cup {None}]
    BY <2>1, <2>3 DEF TypeOK
  <2>. QED  BY <2>1, <2>4, SaveType DEF TypeOK
<1>10. CASE Restart
  BY <1>10 DEF Restart, TypeOK
<1>11. CASE UNCHANGED vars
  BY <1>11 DEF vars, TypeOK
<1>. QED
  BY <1>1, <1>2, <1>3, <1>4, <1>5, <1>6, <1>7, <1>8, <1>9, <1>10, <1>11 DEF Next

(***************************************************************************)
(* The labels as keys. What a call does to the table of records is one of  *)
(* five things, and to the file one of three.                              *)
(***************************************************************************)

\* The records of a call that makes none and takes none away.
SameRecords == \A k \in Keys : agents'[k] = None <=> agents[k] = None

\* Revoke and AdoptConfig write into a record and leave the rest.
LEMMA ManagedRecord ==
  ASSUME TypeOK, NEW a \in Labels, Revoke(a) \/ AdoptConfig(a)
  PROVE  /\ SameRecords
         /\ \A k \in Keys : agents[k] # None =>
              /\ agents'[k].ticket = agents[k].ticket
              /\ agents'[k].gen >= agents[k].gen
              /\ agents[k].revoked => agents'[k].revoked
         /\ UNCHANGED <<nonces, pc, authed, raced>>
         /\ \E ok \in Results : save(ok)
<1>0. \A k \in Keys : agents[k] # None => agents[k] \in Record /\ agents[k].gen \in Nat
  BY StoreAssumption DEF TypeOK, Record
<1>1. CASE Revoke(a)
  <2>1. PICK k \in Holders(a) : agents' = [agents EXCEPT ![k].revoked = TRUE]
    BY <1>1 DEF Revoke
  <2>2. k \in Keys /\ agents[k] \in Record /\ agents[k] # None
    BY <1>0 DEF Holders
  <2>3. /\ agents'[k] = [agents[k] EXCEPT !.revoked = TRUE]
        /\ \A l \in Keys : l # k => agents'[l] = agents[l]
    BY <2>1, <2>2 DEF TypeOK
  <2>4. /\ agents'[k] \in Record /\ agents'[k].ticket = agents[k].ticket
        /\ agents'[k].gen = agents[k].gen /\ agents'[k].revoked = TRUE
    BY <2>2, <2>3 DEF Record
  <2>5. UNCHANGED <<nonces, pc, authed, raced>> /\ \E ok \in Results : save(ok)
    BY <1>1 DEF Revoke
  <2>6. SameRecords
    BY <2>2, <2>3, <2>4, NoRecordAssumption DEF SameRecords
  <2>7. ASSUME NEW l \in Keys, agents[l] # None
        PROVE  /\ agents'[l].ticket = agents[l].ticket
               /\ agents'[l].gen >= agents[l].gen
               /\ agents[l].revoked => agents'[l].revoked
    <3>1. CASE l = k
      BY <1>0, <2>2, <2>4, <3>1
    <3>2. CASE l # k
      BY <1>0, <2>3, <2>7, <3>2
    <3>. QED  BY <3>1, <3>2
  <2>. QED  BY <2>5, <2>6, <2>7
<1>2. CASE AdoptConfig(a)
  <2>1. PICK k \in Holders(a) : agents' = [agents EXCEPT ![k].gen = Bump(@)] /\ agents[k].gen < MaxGen
    BY <1>2 DEF AdoptConfig
  <2>2. k \in Keys /\ agents[k] \in Record /\ agents[k] # None /\ agents[k].gen \in Nat
    BY <1>0 DEF Holders
  <2>3. /\ agents'[k] = [agents[k] EXCEPT !.gen = Bump(@)]
        /\ \A l \in Keys : l # k => agents'[l] = agents[l]
    BY <2>1, <2>2 DEF TypeOK
  <2>4. /\ agents'[k] \in Record /\ agents'[k].ticket = agents[k].ticket
        /\ agents'[k].gen = agents[k].gen + 1 /\ agents'[k].revoked = agents[k].revoked
    BY <2>1, <2>2, <2>3, StoreAssumption DEF Record, Bump
  <2>. QED  BY <1>0, <1>2, <2>2, <2>3, <2>4, NoRecordAssumption DEF AdoptConfig, SameRecords
<1>. QED  BY <1>1, <1>2

\* Enroll makes the record of its key, or makes it anew, and touches no other.
LEMMA EnrollRecord ==
  ASSUME TypeOK, NEW c \in Conns, Enroll(c)
  PROVE  /\ KeyOf[c] \in Keys /\ carries[c] \in Tickets
         /\ nonces[carries[c]] = "open" /\ ~Collides(KeyOf[c]) /\ pc[c] = "unknown"
         /\ agents'[KeyOf[c]] # None /\ agents'[KeyOf[c]].ticket = carries[c]
         /\ \A k \in Keys : k # KeyOf[c] => agents'[k] = agents[k]
         /\ \A t \in Tickets : nonces'[t] =
              IF t = carries[c] /\ t \notin Reusable THEN "consumed" ELSE nonces[t]
         /\ authed' = authed \/ authed' = authed \cup {<<carries[c], KeyOf[c]>>}
         /\ \E ok \in Results : save(ok)
<1> DEFINE r == [revoked |-> FALSE, gen |-> 0, ticket |-> carries[c]]
<1>1. KeyOf[c] \in Keys /\ carries[c] \in Tickets
  BY StoreAssumption DEF Enroll, Redeemable, TypeOK
<1>2. r \in Record /\ r # None /\ r.ticket = carries[c]
  <2>1. 0 \in 0..MaxGen
    BY StoreAssumption
  <2>2. r \in Record
    BY <1>1, <2>1 DEF Record
  <2>. QED  BY <2>2, NoRecordAssumption
<1>3. agents' = [agents EXCEPT ![KeyOf[c]] = r]
  BY DEF Enroll
<1> HIDE DEF r
<1>4. \A t \in Tickets : nonces'[t] =
        IF t = carries[c] /\ t \notin Reusable THEN "consumed" ELSE nonces[t]
  BY <1>1 DEF Enroll, Consumed, TypeOK
<1>. QED  BY <1>1, <1>2, <1>3, <1>4 DEF Enroll, Redeemable, TypeOK

LEMMA KeyedInit == Init => KeyedInv
  BY DEF Init, KeyedInv, KeyedBy

LEMMA KeyedStep == TypeOK /\ KeyedInv /\ [Next]_vars => KeyedInv'
<1> SUFFICES ASSUME TypeOK, KeyedInv, [Next]_vars PROVE KeyedInv'
  OBVIOUS
<1>0. TypeOK'
  BY TypeStep
<1>1. ASSUME NEW ok \in Results, save(ok), KeyedBy(agents)' PROVE KeyedInv'
  <2>1. disk' = disk \/ disk'.agents = agents'
    BY <1>0, <1>1, SaveType DEF TypeOK
  <2>. QED  BY <1>1, <2>1 DEF KeyedInv, KeyedBy
<1>2. ASSUME NEW c \in Conns, Enroll(c) PROVE KeyedInv'
  <2>1. /\ KeyOf[c] \in Keys /\ ~Collides(KeyOf[c])
        /\ \A k \in Keys : k # KeyOf[c] => agents'[k] = agents[k]
    BY <1>2, EnrollRecord
  <2>2. \A l \in Keys : agents[l] # None /\ LabelOf[l] = LabelOf[KeyOf[c]] => l = KeyOf[c]
    BY <2>1 DEF Collides, Holders
  <2>3. KeyedBy(agents)'
    BY <2>1, <2>2 DEF KeyedInv, KeyedBy
  <2>4. \E ok \in Results : save(ok)
    BY <1>2, EnrollRecord
  <2>. QED  BY <1>1, <2>3, <2>4
<1>3. ASSUME NEW a \in Labels, Revoke(a) \/ AdoptConfig(a) PROVE KeyedInv'
  <2>1. SameRecords /\ \E ok \in Results : save(ok)
    BY <1>3, ManagedRecord
  <2>2. KeyedBy(agents)'
    BY <2>1 DEF SameRecords, KeyedInv, KeyedBy
  <2>. QED  BY <1>1, <2>1, <2>2
<1>4. ASSUME NEW t \in Tickets, IssueEnrollment(t) PROVE KeyedInv'
  BY <1>1, <1>4 DEF IssueEnrollment, KeyedInv, KeyedBy
<1>5. CASE Restart
  BY <1>5 DEF Restart, KeyedInv, KeyedBy
<1>6. CASE UNCHANGED <<agents, disk>>
  BY <1>6 DEF KeyedInv, KeyedBy
<1>. QED
  BY <1>2, <1>3, <1>4, <1>5, <1>6
  DEF Next, Hello, LookupKnown, LookupUnknown, EnrollRefused, Expire, vars

(***************************************************************************)
(* No two records, in the memory or in the file, share the label by which  *)
(* every management call names an agent: "the agentID is a true primary    *)
(* key" also across restarts and when the file cannot be written. The      *)
(* code: Enroll's collision check and the load of agents.json.             *)
(***************************************************************************)
THEOREM LabelsAreKeys == Spec => []StoreIsKeyed
<1>1. ASSUME TypeOK, KeyedInv PROVE StoreIsKeyed
  <2>1. ASSUME NEW a \in Labels PROVE Cardinality(Holders(a)) <= 1
    <3>1. \A k, l \in Holders(a) : k = l
      BY <1>1 DEF Holders, KeyedInv, KeyedBy
    <3>. QED  BY <3>1, AtMostOne
  <2>. QED  BY <1>1, <2>1 DEF StoreIsKeyed, LabelIsKey
<1>. QED  BY <1>1, TypeInit, TypeStep, KeyedInit, KeyedStep, PTL DEF Spec

-----------------------------------------------------------------------------
(* Tickets and records, as long as writing the file does not fail: a       *)
(* record that is in the memory only is gone after a restart, and so is    *)
(* the fact that its ticket was consumed.                                  *)

LEMMA FileInit == Init => FileIsMemory
  BY DEF Init, FileIsMemory

LEMMA FileStep == ~MaySaveFail /\ TypeOK /\ FileIsMemory /\ [Next]_vars => FileIsMemory'
<1> SUFFICES ASSUME ~MaySaveFail, TypeOK, FileIsMemory, [Next]_vars PROVE FileIsMemory'
  OBVIOUS
<1>0. TypeOK'
  BY TypeStep
<1>1. ASSUME NEW ok \in Results, save(ok) PROVE FileIsMemory'
  BY <1>0, <1>1, SaveType DEF TypeOK, FileIsMemory
<1>2. CASE UNCHANGED <<agents, nonces, disk>>
  BY <1>2 DEF FileIsMemory
<1>3. CASE Restart
  BY <1>3 DEF Restart, FileIsMemory
<1>. QED
  BY <1>1, <1>2, <1>3
  DEF Next, Hello, LookupKnown, LookupUnknown, EnrollRefused, Enroll, IssueEnrollment, Expire,
      Revoke, AdoptConfig, vars

LEMMA TicketInit == Init => TicketInv
  BY DEF Init, TicketInv, Used

LEMMA TicketStep == TypeOK /\ FileIsMemory /\ TicketInv /\ [Next]_vars => TicketInv'
<1> SUFFICES ASSUME TypeOK, FileIsMemory, TicketInv, [Next]_vars PROVE TicketInv'
  OBVIOUS
<1>0. ASSUME \A t \in Tickets \ Reusable : \A k \in Keys : Used(t, k)' => Used(t, k),
             \A t \in Tickets \ Reusable : nonces[t] = "consumed" => nonces'[t] = "consumed"
      PROVE  TicketInv'
  BY <1>0 DEF TicketInv
<1>1. ASSUME UNCHANGED <<agents, authed>>,
             \A t \in Tickets \ Reusable : nonces[t] = "consumed" => nonces'[t] = "consumed"
      PROVE  TicketInv'
  BY <1>0, <1>1 DEF Used
<1>2. ASSUME NEW c \in Conns, LookupKnown(c) PROVE TicketInv'
  <2> DEFINE k == KeyOf[c]
  <2>1. agents[k] # None /\ agents' = agents /\ nonces' = nonces
        /\ (authed' = authed \/ authed' = authed \cup {<<agents[k].ticket, k>>})
    BY <1>2 DEF LookupKnown, Known
  <2>2. \A t \in Tickets, l \in Keys : Used(t, l)' => Used(t, l)
    BY <2>1 DEF Used
  <2>. QED  BY <1>0, <2>1, <2>2
<1>3. ASSUME NEW c \in Conns, Enroll(c) PROVE TicketInv'
  <2> DEFINE k == KeyOf[c]
             u == carries[c]
  <2>1. /\ k \in Keys /\ u \in Tickets /\ nonces[u] = "open"
        /\ agents'[k].ticket = u
        /\ \A l \in Keys : l # k => agents'[l] = agents[l]
        /\ \A t \in Tickets : nonces'[t] = IF t = u /\ t \notin Reusable THEN "consumed" ELSE nonces[t]
        /\ authed' = authed \/ authed' = authed \cup {<<u, k>>}
    BY <1>3, EnrollRecord
  <2>2. ASSUME NEW t \in Tickets, NEW l \in Keys, Used(t, l)'
        PROVE  Used(t, l) \/ (t = u /\ l = k)
    BY <2>1, <2>2 DEF Used
  <2>3. ASSUME u \notin Reusable, NEW l \in Keys PROVE ~Used(u, l)
    BY <2>1, <2>3 DEF TicketInv
  <2>4. ASSUME NEW t \in Tickets \ Reusable, NEW l \in Keys, Used(t, l)'
        PROVE  /\ nonces'[t] = "consumed"
               /\ \A j \in Keys : Used(t, j)' => j = l
    <3>1. CASE t = u
      BY <2>1, <2>2, <2>3, <2>4, <3>1
    <3>2. CASE t # u
      BY <2>1, <2>2, <2>4, <3>2 DEF TicketInv
    <3>. QED  BY <3>1, <3>2
  <2>. QED  BY <2>4 DEF TicketInv
<1>4. ASSUME NEW a \in Labels, Revoke(a) \/ AdoptConfig(a) PROVE TicketInv'
  <2>1. /\ SameRecords /\ UNCHANGED <<nonces, authed>>
        /\ \A k \in Keys : agents[k] # None => agents'[k].ticket = agents[k].ticket
    BY <1>4, ManagedRecord
  <2>2. \A t \in Tickets, k \in Keys : Used(t, k)' => Used(t, k)
    BY <2>1 DEF Used, SameRecords
  <2>. QED  BY <1>0, <2>1, <2>2
<1>5. ASSUME NEW t \in Tickets, IssueEnrollment(t) PROVE TicketInv'
  <2>1. \A u \in Tickets : nonces[u] = "consumed" => nonces'[u] = "consumed"
    BY <1>5 DEF IssueEnrollment, TypeOK
  <2>. QED  BY <1>1, <1>5, <2>1 DEF IssueEnrollment
<1>6. CASE Restart
  BY <1>1, <1>6 DEF Restart, FileIsMemory
<1>7. CASE UNCHANGED <<agents, nonces, authed>>
  BY <1>1, <1>7
<1>. QED
  BY <1>2, <1>3, <1>4, <1>5, <1>6, <1>7
  DEF Next, Hello, LookupUnknown, EnrollRefused, Expire, vars

(***************************************************************************)
(* A single-use ticket lets one key in, however its connections, restarts  *)
(* and the operator's calls interleave, provided that agents.json can be   *)
(* written. The code: Enroll's consumption of the nonce under the mutex,   *)
(* and save before the answer.                                             *)
(***************************************************************************)
THEOREM TicketUsedOnce == ASSUME ~MaySaveFail PROVE Spec => []SingleUse
<1>1. TicketInv => SingleUse
  <2> SUFFICES ASSUME TicketInv, NEW t \in Tickets \ Reusable
               PROVE  Cardinality({k \in Keys : <<t, k>> \in authed}) <= 1
    BY DEF SingleUse
  <2>1. \A k, l \in {k \in Keys : <<t, k>> \in authed} : k = l
    BY DEF TicketInv, Used
  <2>. QED  BY <2>1, AtMostOne
<1>2. TypeOK /\ FileIsMemory /\ [Next]_vars => FileIsMemory'
  BY FileStep
<1>. QED  BY <1>1, <1>2, TypeInit, TypeStep, FileInit, TicketInit, TicketStep, PTL DEF Spec

LEMMA RacedInit == Init => RacedInv
  BY DEF Init, RacedInv

LEMMA RacedStep == TypeOK /\ FileIsMemory /\ RacedInv /\ [Next]_vars => RacedInv'
<1> SUFFICES ASSUME TypeOK, FileIsMemory, RacedInv, [Next]_vars PROVE RacedInv'
  OBVIOUS
<1>0. ASSUME SameRecords, raced' = raced,
             \A c \in Conns : pc'[c] = "unknown" => pc[c] = "unknown" \/ agents[KeyOf[c]] = None
      PROVE  RacedInv'
  BY <1>0, StoreAssumption DEF SameRecords, RacedInv
<1>1. ASSUME NEW c \in Conns, NEW t \in Tickets \cup {None}, Hello(c, t) PROVE RacedInv'
  BY <1>0, <1>1 DEF Hello, SameRecords, TypeOK
<1>2. ASSUME NEW c \in Conns, LookupKnown(c) PROVE RacedInv'
  BY <1>0, <1>2 DEF LookupKnown, Answer, SameRecords, TypeOK
<1>3. ASSUME NEW c \in Conns, LookupUnknown(c) PROVE RacedInv'
  BY <1>0, <1>3 DEF LookupUnknown, Known, Answer, SameRecords, TypeOK
<1>4. ASSUME NEW c \in Conns, EnrollRefused(c) PROVE RacedInv'
  BY <1>4 DEF EnrollRefused, Answer, RacedInv, TypeOK
<1>5. ASSUME NEW c \in Conns, Enroll(c) PROVE RacedInv'
  <2>1. \A k \in Keys : k # KeyOf[c] => agents'[k] = agents[k]
    BY <1>5, EnrollRecord
  <2>2. \A d \in Conns : pc'[d] = IF d = c THEN "idle" ELSE pc[d]
    BY <1>5 DEF Enroll, Answer, TypeOK
  <2>3. raced' = (raced \cup Missing(KeyOf[c])) \ {c}
    BY <1>5 DEF Enroll
  <2>. QED  BY <2>1, <2>2, <2>3, StoreAssumption DEF RacedInv, Missing
<1>6. ASSUME NEW a \in Labels, Revoke(a) \/ AdoptConfig(a) PROVE RacedInv'
  BY <1>0, <1>6, ManagedRecord
<1>7. ASSUME NEW t \in Tickets, IssueEnrollment(t) \/ Expire(t) PROVE RacedInv'
  BY <1>0, <1>7 DEF IssueEnrollment, Expire, SameRecords
<1>8. CASE Restart
  BY <1>8 DEF Restart, RacedInv
<1>9. CASE UNCHANGED vars
  BY <1>0, <1>9 DEF vars, SameRecords
<1>. QED  BY <1>1, <1>2, <1>3, <1>4, <1>5, <1>6, <1>7, <1>8, <1>9 DEF Next

\* The only step that takes something back from a record is the Enroll of a
\* handler that has missed it.
LEMMA SurvivesStep ==
  ASSUME TypeOK, FileIsMemory, RacedInv, [Next]_vars, NEW k \in Keys, agents[k] # None,
         ~\E c \in raced : KeyOf[c] = k /\ Enroll(c)
  PROVE  /\ agents'[k] # None
         /\ agents'[k].gen >= agents[k].gen
         /\ agents[k].revoked => agents'[k].revoked
<1>0. agents[k].gen \in Nat
  BY StoreAssumption DEF TypeOK, Record
<1>1. CASE agents'[k] = agents[k]
  BY <1>0, <1>1
<1>2. ASSUME NEW c \in Conns, Enroll(c) PROVE agents'[k] = agents[k]
  BY <1>2, EnrollRecord DEF RacedInv
<1>3. ASSUME NEW a \in Labels, Revoke(a) \/ AdoptConfig(a)
      PROVE  agents'[k] # None /\ agents'[k].gen >= agents[k].gen
             /\ (agents[k].revoked => agents'[k].revoked)
  BY <1>3, ManagedRecord DEF SameRecords
<1>4. CASE Restart
  BY <1>0, <1>4 DEF Restart, FileIsMemory
<1>. QED
  BY <1>1, <1>2, <1>3, <1>4
  DEF Next, Hello, LookupKnown, LookupUnknown, EnrollRefused, IssueEnrollment, Expire, vars

(***************************************************************************)
(* A record is forever, provided that agents.json can be written: nothing  *)
(* but a hello that raced the record's own enrollment takes back its       *)
(* revocation or its configuration. The code: Enroll, Revoke, AdoptConfig  *)
(* and the load at the start.                                              *)
(***************************************************************************)
THEOREM RecordsAreForever == ASSUME ~MaySaveFail PROVE Spec => RecordSurvives
<1>1. TypeOK /\ FileIsMemory /\ RacedInv /\ [Next]_vars =>
        [\A k \in Keys :
           agents[k] # None /\ ~(\E c \in raced : KeyOf[c] = k /\ Enroll(c)) =>
             /\ agents'[k] # None
             /\ agents'[k].gen >= agents[k].gen
             /\ agents[k].revoked => agents'[k].revoked]_vars
  BY SurvivesStep
<1>2. TypeOK /\ FileIsMemory /\ [Next]_vars => FileIsMemory'
  BY FileStep
<1>. QED
  BY <1>1, <1>2, TypeInit, TypeStep, FileInit, RacedInit, RacedStep, PTL
  DEF Spec, RecordSurvives

-----------------------------------------------------------------------------
(* The inductive invariants of the bandwidth history.                      *)

\* A bucket of tier k, no later than the clock can be.
BucketOf(k) == {r \in Bucket : r.i * Res[k] <= MaxTime}

\* valid, of any ring.
Has(k, ring, i) ==
  /\ i \in Nat /\ i <= ring.cur /\ i >= Floor(k, ring.cur)
  /\ ring.buf[pos(k, i)] # Nothing /\ ring.buf[pos(k, i)].i = i

\* A ring that is not empty has its current bucket.
RingOK(k, ring) ==
  /\ ring.cur \in Nat \cup {-1}
  /\ ring.buf \in [0..Slots[k] - 1 -> BucketOf(k) \cup {Nothing}]
  /\ ring.cur # -1 => Has(k, ring, ring.cur)

\* Below bucket m, rows have what the ring has.
SameBelow(k, ring, rows, m) ==
  \A r \in Bucket : r.i >= Floor(k, ring.cur) /\ r.i < m =>
    (r \in rows <=> Has(k, ring, r.i) /\ ring.buf[pos(k, r.i)].n = r.n)

\* The ring has a bucket for each row that it has not lapped.
Covers(k, ring, rows) ==
  \A r \in rows : r.i >= Floor(k, ring.cur) => Has(k, ring, r.i)

HasNewest(rows) == rows = {} \/ \E r \in rows : \A q \in rows : q.i <= r.i

\* What is on disk of a tier, against what is in memory.
DiskInv(k) ==
  /\ rrd.rows[k] \subseteq BucketOf(k) /\ HasNewest(rrd.rows[k])
  /\ lastCurT[k] \in Nat \cup {-1} /\ lastCurT[k] <= tiers[k].cur
  /\ SameBelow(k, tiers[k], rrd.rows[k], lastCurT[k])
  /\ Covers(k, tiers[k], rrd.rows[k])

\* The newest bucket that is being saved.
SavedCur(k, ts) == ts.floor + Slots[k] - 1

\* What is being saved of a tier: all of it as it was, of which only the newest bucket
\* and later ones can have changed.
SavedInv(k, ts) ==
  /\ SavedCur(k, ts) \in Nat /\ SavedCur(k, ts) <= tiers[k].cur
  /\ ts.floor = Floor(k, SavedCur(k, ts))
  /\ ts.dirty = lastCurT[k] /\ ts.dirty <= SavedCur(k, ts)
  /\ ts.rows \subseteq BucketOf(k)
  /\ \E r \in ts.rows : r.i = SavedCur(k, ts)
  /\ \A r \in ts.rows : r.i <= SavedCur(k, ts)
  /\ SameBelow(k, tiers[k], ts.rows, SavedCur(k, ts))
  /\ Covers(k, tiers[k], ts.rows)
  /\ saving.landed => SameBelow(k, tiers[k], rrd.rows[k], SavedCur(k, ts))

TiersInv ==
  /\ \A k \in Levels : RingOK(k, tiers[k])
  /\ \A k \in Persisted : DiskInv(k)
  /\ saving # Nothing =>
       \A k \in Persisted : k \in DOMAIN saving.tiers => SavedInv(k, saving.tiers[k])

\* The rows of agents once the save has landed.
RowsToCome ==
  IF saving # Nothing /\ ~saving.landed
  THEN (rrd.agents \ saving.delete) \cup saving.agents ELSE rrd.agents

Few(S) == IsFiniteSet(S) /\ Cardinality(S) <= MaxAgents

\* An agent is alive or marked, and both what there is of rows and what there will be
\* are those of few agents, of which the others are marked.
AgentsInv ==
  /\ evicted \cap Live = {} /\ Few(Live)
  /\ Few(rrd.agents) /\ rrd.agents \subseteq Live \cup evicted
  /\ Few(RowsToCome) /\ RowsToCome \subseteq Live \cup evicted
  /\ saving # Nothing => RowsToCome \cap saving.delete = {}

\* A snapshot is a record.
SnapshotInv ==
  saving # Nothing =>
    saving = [landed |-> saving.landed, delete |-> saving.delete, agents |-> saving.agents,
              tiers |-> saving.tiers]

HistoryInv == StoreTypeOK /\ SnapshotInv /\ TiersInv /\ AgentsInv

-----------------------------------------------------------------------------
(* Numbers.                                                                *)

LEMMA Division ==
  ASSUME NEW s \in Nat \ {0}, NEW t \in Nat
  PROVE  /\ t \div s \in Nat /\ (t \div s) * s <= t
         /\ t % s \in 0..s - 1
  BY SMT

\* Two indices less than a ring apart have different slots.
LEMMA SlotsDiffer ==
  ASSUME NEW s \in Nat \ {0}, NEW i \in Nat, NEW j \in Nat, j < i, i - j < s
  PROVE  i % s # j % s
<1>1. /\ i = s * (i \div s) + (i % s) /\ j = s * (j \div s) + (j % s)
      /\ i \div s \in Int /\ j \div s \in Int /\ i % s \in Int /\ j % s \in Int
  BY SMT
<1>2. SUFFICES ASSUME i % s = j % s PROVE FALSE
  OBVIOUS
<1>. DEFINE d == (i \div s) - (j \div s)
<1>3. d \in Int /\ i - j = s * d
  <2>1. s * (i \div s) - s * (j \div s) = s * ((i \div s) - (j \div s))
    BY <1>1, SMT
  <2>. QED  BY <1>1, <1>2, <2>1
<1>. HIDE DEF d
<1>4. CASE d >= 1
  <2>1. s * d >= s
    BY <1>3, <1>4, SMT
  <2>. QED  BY <1>3, <2>1
<1>5. CASE d <= 0
  <2>1. s * d <= 0
    BY <1>3, <1>5, SMT
  <2>. QED  BY <1>3, <2>1
<1>. QED  BY <1>3, <1>4, <1>5

LEMMA Ladder ==
  /\ \A k \in Levels : Res[k] \in Nat \ {0} /\ Slots[k] \in Nat \ {0} /\ k \in Nat
  /\ \A k \in Levels : k # 1 => k - 1 \in Levels
  /\ Persisted \subseteq Levels
<1>1. Len(Res) \in Nat /\ Len(Slots) = Len(Res)
  BY LadderAssumption
<1>2. \A k \in Levels : Res[k] \in Nat \ {0} /\ Slots[k] \in Nat \ {0}
  BY <1>1, LadderAssumption DEF Levels
<1>. QED  BY <1>1, <1>2, LadderAssumption DEF Levels

LEMMA PosIs ==
  ASSUME NEW k \in Levels
  PROVE  /\ \A i \in Nat : pos(k, i) \in 0..Slots[k] - 1
         /\ \A i, j \in Nat : pos(k, i) = pos(k, j) /\ i - j < Slots[k] /\ j - i < Slots[k] => i = j
<1>1. Slots[k] \in Nat \ {0}
  BY Ladder
<1>2. ASSUME NEW i \in Nat, NEW j \in Nat, j < i, i - j < Slots[k] PROVE pos(k, i) # pos(k, j)
  BY <1>1, <1>2, SlotsDiffer DEF pos
<1>3. \A i \in Nat : pos(k, i) \in 0..Slots[k] - 1
  BY <1>1, Division DEF pos
<1>. QED  BY <1>2, <1>3

-----------------------------------------------------------------------------
(* A ring.                                                                 *)

LEMMA EmptyRingOK ==
  ASSUME NEW k \in Levels
  PROVE  RingOK(k, EmptyRing(k)) /\ \A i : ~Has(k, EmptyRing(k), i)
BY Ladder DEF RingOK, Has, EmptyRing

\* What a tier keeps when a point is added: everything below its current bucket that
\* it does not lap.
Grows(k, old, new) ==
  /\ new.cur >= old.cur
  /\ \A i \in Nat : i < old.cur /\ i >= Floor(k, new.cur) =>
       (Has(k, new, i) <=> Has(k, old, i)) /\ new.buf[pos(k, i)] = old.buf[pos(k, i)]
  /\ \A i \in Nat : i >= Floor(k, new.cur) /\ Has(k, old, i) => Has(k, new, i)

LEMMA MergeGrows ==
  ASSUME NEW k \in Levels, NEW ring, RingOK(k, ring),
         NEW t \in Nat, NEW n \in Nat, t <= MaxTime, t \div Res[k] >= ring.cur
  PROVE  /\ RingOK(k, mergeCur(k, ring, [t |-> t, n |-> n]))
         /\ Grows(k, ring, mergeCur(k, ring, [t |-> t, n |-> n]))
<1>. DEFINE i == t \div Res[k]
            p == pos(k, i)
            r == [i |-> i, n |-> n + IF i = ring.cur THEN ring.buf[p].n ELSE 0]
            new == mergeCur(k, ring, [t |-> t, n |-> n])
<1>1. i \in Nat /\ i * Res[k] <= MaxTime
  <2>1. Res[k] \in Nat \ {0} /\ MaxTime \in Nat
    BY Ladder, LadderAssumption
  <2>2. i \in Nat /\ i * Res[k] <= t
    BY <2>1, Division
  <2>3. i * Res[k] \in Nat
    BY <2>1, <2>2
  <2>. QED  BY <2>1, <2>2, <2>3
<1>2. p \in 0..Slots[k] - 1 /\ Slots[k] \in Nat \ {0}
  BY <1>1, PosIs, Ladder
<1>3. new.cur = i /\ new.buf = [ring.buf EXCEPT ![p] = r]
  BY DEF mergeCur
<1>. HIDE DEF new, i, p
<1>4. r \in BucketOf(k) /\ r.i = i
  <2>1. i = ring.cur => ring.buf[p].n \in Nat
    <3>. HAVE i = ring.cur
    <3>1. Has(k, ring, i)
      BY <1>1 DEF RingOK
    <3>2. ring.buf[p] \in BucketOf(k)
      BY <1>2, <3>1 DEF RingOK, Has, p
    <3>. QED  BY <3>2 DEF BucketOf, Bucket
  <2>. QED  BY <1>1, <2>1 DEF BucketOf, Bucket
<1>5. r # Nothing
  BY <1>4, NothingAssumption DEF BucketOf
<1>. HIDE DEF r
<1>6. new.buf \in [0..Slots[k] - 1 -> BucketOf(k) \cup {Nothing}] /\ new.buf[p] = r
  BY <1>2, <1>3, <1>4 DEF RingOK
<1>7. Has(k, new, i)
  BY <1>1, <1>2, <1>3, <1>4, <1>5, <1>6 DEF Has, Floor, p
<1>8. ring.cur \in Int /\ i >= ring.cur
  BY DEF RingOK, i
<1>9. ASSUME NEW j \in Nat, j < i, j >= Floor(k, i)
      PROVE  new.buf[pos(k, j)] = ring.buf[pos(k, j)]
  <2>1. pos(k, j) # p
    BY <1>1, <1>2, <1>9, PosIs DEF p, Floor
  <2>2. pos(k, j) \in 0..Slots[k] - 1
    BY PosIs
  <2>. QED  BY <1>3, <2>1, <2>2 DEF RingOK
<1>10. RingOK(k, new)
  BY <1>1, <1>3, <1>6, <1>7 DEF RingOK
<1>11. ASSUME NEW j \in Nat, j < ring.cur, j >= Floor(k, i)
       PROVE  Has(k, new, j) <=> Has(k, ring, j)
  <2>1. new.buf[pos(k, j)] = ring.buf[pos(k, j)]
    BY <1>1, <1>8, <1>9, <1>11
  <2>2. Floor(k, i) >= Floor(k, ring.cur) /\ Floor(k, i) \in Int /\ Floor(k, ring.cur) \in Int
    BY <1>1, <1>2, <1>8 DEF Floor
  <2>. QED  BY <1>1, <1>3, <1>8, <1>11, <2>1, <2>2 DEF Has
<1>12. ASSUME NEW j \in Nat, j >= Floor(k, i), Has(k, ring, j) PROVE Has(k, new, j)
  <2>1. CASE j < ring.cur
    BY <1>11, <1>12, <2>1
  <2>2. CASE j = ring.cur
    <3>1. CASE i = j
      BY <1>7, <3>1
    <3>2. CASE i # j
      <4>1. new.buf[pos(k, j)] = ring.buf[pos(k, j)]
        BY <1>1, <1>8, <1>9, <1>12, <2>2, <3>2
      <4>. QED  BY <1>1, <1>3, <1>8, <1>12, <2>2, <3>2, <4>1 DEF Has
    <3>. QED  BY <3>1, <3>2
  <2>. QED  BY <1>8, <1>12, <2>1, <2>2 DEF Has
<1>13. Grows(k, ring, new)
  <2>1. ASSUME NEW j \in Nat, j < ring.cur, j >= Floor(k, i)
        PROVE  new.buf[pos(k, j)] = ring.buf[pos(k, j)]
    BY <1>1, <1>8, <1>9, <2>1
  <2>. QED  BY <1>3, <1>8, <1>11, <1>12, <2>1 DEF Grows
<1>. QED  BY <1>10, <1>13 DEF new

LEMMA SameGrows ==
  ASSUME NEW k \in Levels, NEW old, NEW new, RingOK(k, old), RingOK(k, new), Grows(k, old, new),
         NEW rows, NEW m \in Int, m <= old.cur, SameBelow(k, old, rows, m)
  PROVE  SameBelow(k, new, rows, m)
<1>1. /\ old.cur \in Int /\ new.cur \in Int /\ new.cur >= old.cur /\ Slots[k] \in Int
  BY Ladder DEF RingOK, Grows
<1>2. ASSUME NEW r \in Bucket, r.i >= Floor(k, new.cur), r.i < m
      PROVE  r \in rows <=> Has(k, new, r.i) /\ new.buf[pos(k, r.i)].n = r.n
  <2>1. r.i \in Nat /\ r.i < old.cur /\ r.i >= Floor(k, old.cur)
    BY <1>1, <1>2 DEF Bucket, Floor
  <2>. QED  BY <1>2, <2>1 DEF Grows, SameBelow
<1>. QED  BY <1>2 DEF SameBelow

LEMMA CoversGrows ==
  ASSUME NEW k \in Levels, NEW old, NEW new, RingOK(k, old), RingOK(k, new), Grows(k, old, new),
         NEW rows, rows \subseteq Bucket, Covers(k, old, rows)
  PROVE  Covers(k, new, rows)
<1>1. /\ old.cur \in Int /\ new.cur \in Int /\ new.cur >= old.cur /\ Slots[k] \in Int
  BY Ladder DEF RingOK, Grows
<1>2. ASSUME NEW r \in rows, r.i >= Floor(k, new.cur) PROVE Has(k, new, r.i)
  <2>1. r.i \in Nat /\ r.i >= Floor(k, old.cur)
    BY <1>1, <1>2 DEF Bucket, Floor
  <2>. QED  BY <1>2, <2>1 DEF Grows, Covers
<1>. QED  BY <1>2 DEF Covers

\* Rows of which the newest is the ring's again cover what was there.
LEMMA RestoreIs ==
  ASSUME NEW k \in Levels, NEW rows, rows \subseteq BucketOf(k), HasNewest(rows)
  PROVE  RingOK(k, restoreTier(k, rows)) /\ Covers(k, restoreTier(k, rows), rows)
<1>. DEFINE new == restoreTier(k, rows)
<1>1. CASE rows = {}
  BY <1>1, EmptyRingOK DEF restoreTier, Covers
<1>2. CASE rows # {}
  <2>. DEFINE newest == Max({r.i : r \in rows})
              at(s) == {r \in rows : pos(k, r.i) = s /\ r.i >= Floor(k, newest)}
  <2>1. /\ newest \in {r.i : r \in rows} /\ \A r \in rows : newest >= r.i
    <3>1. PICK r \in rows : \A q \in rows : q.i <= r.i
      BY <1>2 DEF HasNewest
    <3>2. r.i \in {q.i : q \in rows} /\ \A y \in {q.i : q \in rows} : r.i >= y
      <4>1. \A q \in rows : q.i \in Nat
        BY DEF BucketOf, Bucket
      <4>. QED  BY <3>1, <4>1
    <3>. QED  BY <3>2 DEF Max
  <2>2. \A r \in rows : r \in BucketOf(k) /\ r.i \in Nat /\ r # Nothing
    BY NothingAssumption DEF BucketOf, Bucket
  <2>3. newest \in Nat /\ Slots[k] \in Nat \ {0}
    BY <2>1, <2>2, Ladder
  <2>4. new.cur = newest /\ new.buf = [s \in 0..Slots[k] - 1 |->
          IF at(s) = {} THEN Nothing ELSE CHOOSE r \in at(s) : TRUE]
    BY <1>2 DEF restoreTier
  <2>. HIDE DEF new, newest
  <2>5. new.buf \in [0..Slots[k] - 1 -> BucketOf(k) \cup {Nothing}]
    <3>1. \A s : at(s) # {} => (CHOOSE r \in at(s) : TRUE) \in BucketOf(k)
      BY <2>2
    <3>. QED  BY <2>4, <3>1
  <2>6. ASSUME NEW r \in rows, r.i >= Floor(k, newest) PROVE Has(k, new, r.i)
    <3>. DEFINE s == pos(k, r.i)
                q == CHOOSE q \in at(s) : TRUE
    <3>1. s \in 0..Slots[k] - 1
      BY <2>2, PosIs
    <3>2. r \in at(s)
      BY <2>6
    <3>3. q \in at(s) /\ new.buf[s] = q
      BY <2>4, <3>1, <3>2
    <3>. HIDE DEF q
    <3>4. q \in rows /\ pos(k, q.i) = pos(k, r.i) /\ q.i >= Floor(k, newest)
      BY <3>3
    <3>5. q.i = r.i
      <4>1. /\ q.i \in Nat /\ q.i <= newest /\ q.i >= newest - Slots[k] + 1
            /\ r.i \in Nat /\ r.i <= newest /\ r.i >= newest - Slots[k] + 1
        BY <2>1, <2>2, <2>6, <3>4 DEF Floor
      <4>2. q.i - r.i < Slots[k] /\ r.i - q.i < Slots[k]
        BY <2>3, <4>1
      <4>. QED  BY <3>4, <4>1, <4>2, PosIs
    <3>. QED  BY <2>1, <2>2, <2>4, <2>6, <3>3, <3>4, <3>5 DEF Has
  <2>7. Has(k, new, newest)
    <3>1. PICK r \in rows : r.i = newest
      BY <2>1
    <3>2. newest >= Floor(k, newest)
      BY <2>3 DEF Floor
    <3>. QED  BY <2>6, <3>1, <3>2
  <2>8. RingOK(k, new)
    BY <2>3, <2>4, <2>5, <2>7 DEF RingOK
  <2>9. Covers(k, new, rows)
    BY <2>4, <2>6 DEF Covers
  <2>. QED  BY <2>8, <2>9 DEF new
<1>. QED  BY <1>1, <1>2

LEMMA RingType ==
  ASSUME NEW k \in Levels, NEW ring, RingOK(k, ring)
  PROVE  /\ ring.cur \in -1..MaxTime
         /\ ring.buf \in [0..Slots[k] - 1 -> Bucket \cup {Nothing}]
<1>1. Res[k] \in Nat \ {0} /\ Slots[k] \in Nat \ {0} /\ MaxTime \in Nat
  BY Ladder, LadderAssumption
<1>2. ring.cur # -1 => ring.cur \in Nat /\ ring.cur <= MaxTime
  <2>. HAVE ring.cur # -1
  <2>1. ring.cur \in Nat /\ Has(k, ring, ring.cur)
    BY DEF RingOK
  <2>2. pos(k, ring.cur) \in 0..Slots[k] - 1
    BY <2>1, PosIs
  <2>3. ring.buf[pos(k, ring.cur)] \in BucketOf(k)
    BY <2>1, <2>2 DEF RingOK, Has
  <2>4. ring.cur * Res[k] <= MaxTime
    BY <2>1, <2>3 DEF Has, BucketOf
  <2>5. ring.cur <= ring.cur * Res[k] /\ ring.cur * Res[k] \in Nat
    BY <1>1, <2>1, SMT
  <2>. QED  BY <1>1, <2>1, <2>4, <2>5
<1>3. BucketOf(k) \subseteq Bucket
  BY DEF BucketOf
<1>. QED  BY <1>1, <1>2, <1>3 DEF RingOK

-----------------------------------------------------------------------------
(* The tiers.                                                              *)

LEMMA AddIs ==
  ASSUME StoreTypeOK, \A k \in Levels : RingOK(k, tiers[k]),
         NEW d \in Nat, add([t |-> clock, n |-> d])
  PROVE  \A k \in Levels : RingOK(k, tiers'[k]) /\ Grows(k, tiers[k], tiers'[k])
<1>. DEFINE b == [t |-> clock, n |-> d]
<1>1. SUFFICES ASSUME NEW k \in Levels
               PROVE  RingOK(k, tiers'[k]) /\ Grows(k, tiers[k], tiers'[k])
  OBVIOUS
<1>2. tiers'[k] = IF /\ \A j \in 1..k - 1 : Completes(j, b)
                     /\ Given(k, b).t \div Res[k] >= tiers[k].cur
                  THEN mergeCur(k, tiers[k], Given(k, b)) ELSE tiers[k]
  BY <1>1 DEF add
<1>3. CASE /\ \A j \in 1..k - 1 : Completes(j, b)
           /\ Given(k, b).t \div Res[k] >= tiers[k].cur
  <2>1. PICK t \in Nat, n \in Nat : Given(k, b) = [t |-> t, n |-> n] /\ t <= MaxTime
    <3>1. CASE k = 1
      <4>1. clock \in Nat /\ clock <= MaxTime
        BY ClockAssumption DEF StoreTypeOK
      <4>. QED  BY <3>1, <4>1 DEF Given
    <3>2. CASE k # 1
      <4>1. k - 1 \in Levels /\ k - 1 \in 1..k - 1
        BY <1>1, <3>2, Ladder DEF Levels
      <4>. DEFINE c == tiers[k - 1].cur
                  r == tiers[k - 1].buf[pos(k - 1, c)]
      <4>2. c \in Nat /\ Has(k - 1, tiers[k - 1], c)
        BY <1>3, <4>1 DEF Completes, RingOK
      <4>3. pos(k - 1, c) \in 0..Slots[k - 1] - 1
        BY <4>1, <4>2, PosIs
      <4>4. r \in BucketOf(k - 1) /\ r.i = c
        BY <4>1, <4>2, <4>3 DEF RingOK, Has
      <4>5. c * Res[k - 1] \in Nat /\ c * Res[k - 1] <= MaxTime /\ r.n \in Nat
        BY <4>1, <4>2, <4>4, Ladder DEF BucketOf, Bucket
      <4>6. Given(k, b) = [t |-> c * Res[k - 1], n |-> r.n]
        BY <3>2 DEF Given, Completed
      <4>. QED  BY <4>5, <4>6
    <3>. QED  BY <3>1, <3>2
  <2>2. t \div Res[k] >= tiers[k].cur
    BY <1>3, <2>1
  <2>. QED  BY <1>1, <1>2, <1>3, <2>1, <2>2, MergeGrows
<1>4. CASE tiers'[k] = tiers[k]
  <2>1. tiers[k].cur \in Int
    BY <1>1 DEF RingOK
  <2>. QED  BY <1>1, <1>4, <2>1 DEF Grows
<1>. QED  BY <1>2, <1>3, <1>4

LEMMA TiersInit == StoreInit => TiersInv
<1> SUFFICES ASSUME StoreInit PROVE TiersInv
  OBVIOUS
<1>1. ASSUME NEW k \in Levels PROVE RingOK(k, tiers[k]) /\ tiers[k].cur = -1
  BY EmptyRingOK DEF StoreInit, EmptyRing
<1>2. ASSUME NEW k \in Persisted PROVE DiskInv(k)
  <2>1. k \in Levels
    BY Ladder
  <2>2. rrd.rows[k] = {} /\ lastCurT[k] = -1
    BY DEF StoreInit, NoMarks
  <2>3. SameBelow(k, tiers[k], {}, -1)
    BY DEF SameBelow, Bucket
  <2>. QED  BY <1>1, <2>1, <2>2, <2>3 DEF DiskInv, HasNewest, Covers
<1>3. saving = Nothing
  BY DEF StoreInit
<1>. QED  BY <1>1, <1>2, <1>3 DEF TiersInv

\* A sample changes no bucket but the current ones and those that are lapped.
LEMMA SampleKeeps ==
  ASSUME HistoryInv, NEW d \in Nat, add([t |-> clock, n |-> d]),
         UNCHANGED <<lastCurT, saving, rrd>>
  PROVE  TiersInv'
<1>1. \A k \in Levels : RingOK(k, tiers[k]) /\ RingOK(k, tiers'[k]) /\ Grows(k, tiers[k], tiers'[k])
  BY AddIs DEF HistoryInv, TiersInv
<1>2. ASSUME NEW k \in Levels PROVE tiers[k].cur \in Int /\ tiers'[k].cur \in Int /\ tiers'[k].cur >= tiers[k].cur
  BY <1>1 DEF RingOK, Grows
<1>3. ASSUME NEW k \in Persisted PROVE DiskInv(k)'
  <2>1. k \in Levels /\ DiskInv(k)
    BY Ladder DEF HistoryInv, TiersInv
  <2>2. rrd.rows[k] \subseteq Bucket
    BY <2>1 DEF DiskInv, BucketOf
  <2>3. Covers(k, tiers'[k], rrd.rows[k])
    BY <1>1, <2>1, <2>2, CoversGrows DEF DiskInv
  <2>4. SameBelow(k, tiers'[k], rrd.rows[k], lastCurT[k])
    BY <1>1, <2>1, SameGrows DEF DiskInv
  <2>5. lastCurT[k] <= tiers'[k].cur
    BY <1>2, <2>1 DEF DiskInv
  <2>. QED  BY <2>1, <2>3, <2>4, <2>5 DEF DiskInv
<1>4. ASSUME saving # Nothing, NEW k \in Persisted, k \in DOMAIN saving.tiers
      PROVE  SavedInv(k, saving.tiers[k])'
  <2>. DEFINE ts == saving.tiers[k]
  <2>1. k \in Levels /\ SavedInv(k, ts)
    BY <1>4, Ladder DEF HistoryInv, TiersInv
  <2>2. ts.rows \subseteq Bucket
    BY <2>1 DEF SavedInv, BucketOf
  <2>. HIDE DEF ts
  <2>3. Covers(k, tiers'[k], ts.rows)
    BY <1>1, <2>1, <2>2, CoversGrows DEF SavedInv
  <2>4. SavedCur(k, ts) \in Int /\ SavedCur(k, ts) <= tiers[k].cur /\ SavedCur(k, ts) <= tiers'[k].cur
    BY <1>2, <2>1 DEF SavedInv
  <2>5. SameBelow(k, tiers'[k], ts.rows, SavedCur(k, ts))
    BY <1>1, <2>1, <2>4, SameGrows DEF SavedInv
  <2>6. saving.landed => SameBelow(k, tiers'[k], rrd.rows[k], SavedCur(k, ts))
    BY <1>1, <2>1, <2>4, SameGrows DEF SavedInv
  <2>7. ts' = ts
    BY DEF ts
  <2>8. SavedInv(k, ts)'
    BY <2>1, <2>3, <2>4, <2>5, <2>6, <2>7 DEF SavedInv, SavedCur
  <2>. QED  BY <2>8 DEF ts
<1>. QED  BY <1>1, <1>3, <1>4 DEF TiersInv

LEMMA TakesKeeps == HistoryInv /\ FlushTakes => TiersInv'
<1> SUFFICES ASSUME HistoryInv, FlushTakes PROVE TiersInv'
  OBVIOUS
<1>1. \A k \in Levels : RingOK(k, tiers'[k])
  BY DEF HistoryInv, TiersInv, FlushTakes
<1>2. \A k \in Persisted : DiskInv(k)'
  BY DEF HistoryInv, TiersInv, FlushTakes, DiskInv
<1>3. ASSUME NEW k \in Persisted, k \in DOMAIN saving'.tiers
      PROVE  SavedInv(k, saving.tiers[k])'
  <2>. DEFINE ts == saving'.tiers[k]
              c == tiers[k].cur
  <2>1. /\ ts = [rows  |-> {[i |-> i, n |-> BytesOf(k, i)] : i \in Held(k)},
                 floor |-> Floor(k, c), dirty |-> lastCurT[k]]
        /\ c >= 0 /\ saving'.landed = FALSE
        /\ UNCHANGED <<tiers, lastCurT, rrd>>
    BY <1>3 DEF FlushTakes
  <2>2. /\ k \in Levels /\ RingOK(k, tiers[k]) /\ DiskInv(k)
        /\ Slots[k] \in Nat \ {0}
    BY Ladder DEF HistoryInv, TiersInv
  <2>3. c \in Nat /\ Has(k, tiers[k], c)
    BY <2>1, <2>2 DEF RingOK
  <2>. HIDE DEF ts
  <2>4. SavedCur(k, ts) = c /\ ts.floor = Floor(k, c)
    BY <2>1, <2>2, <2>3 DEF SavedCur, Floor
  <2>5. ASSUME NEW i PROVE i \in Held(k) <=> Has(k, tiers[k], i)
    <3>1. Floor(k, c) \in Int
      BY <2>2, <2>3 DEF Floor
    <3>. QED  BY <2>3, <3>1 DEF Held, valid, Has
  <2>6. ASSUME NEW i, Has(k, tiers[k], i)
        PROVE  [i |-> i, n |-> BytesOf(k, i)] \in BucketOf(k) /\ i \in Nat /\ i <= c
    <3>1. i \in Nat /\ i <= c
      BY <2>6 DEF Has
    <3>2. pos(k, i) \in 0..Slots[k] - 1
      BY <2>2, <3>1, PosIs
    <3>3. tiers[k].buf[pos(k, i)] \in BucketOf(k) /\ tiers[k].buf[pos(k, i)].i = i
      BY <2>2, <2>6, <3>2 DEF RingOK, Has
    <3>. QED  BY <3>1, <3>3 DEF BytesOf, BucketOf, Bucket
  <2>7. ts.rows \subseteq BucketOf(k) /\ \A r \in ts.rows : r.i <= c /\ Has(k, tiers[k], r.i)
    BY <2>1, <2>5, <2>6
  <2>8. \E r \in ts.rows : r.i = c
    <3>1. [i |-> c, n |-> BytesOf(k, c)] \in ts.rows
      BY <2>1, <2>3, <2>5
    <3>. QED  BY <3>1
  <2>9. SameBelow(k, tiers[k], ts.rows, c)
    <3>1. ASSUME NEW r \in Bucket
          PROVE  r \in ts.rows <=> Has(k, tiers[k], r.i) /\ tiers[k].buf[pos(k, r.i)].n = r.n
      <4>1. r \in ts.rows <=> \E i \in Held(k) : r = [i |-> i, n |-> BytesOf(k, i)]
        BY <2>1
      <4>2. r = [i |-> r.i, n |-> r.n]
        BY DEF Bucket
      <4>. QED  BY <2>5, <4>1, <4>2 DEF BytesOf
    <3>. QED  BY <3>1 DEF SameBelow
  <2>10. Covers(k, tiers[k], ts.rows)
    BY <2>7 DEF Covers
  <2>11. ts.dirty = lastCurT[k] /\ ts.dirty <= c
    BY <2>1, <2>2 DEF DiskInv
  <2>. QED
    BY <2>1, <2>3, <2>4, <2>7, <2>8, <2>9, <2>10, <2>11 DEF SavedInv, SavedCur, ts
<1>. QED  BY <1>1, <1>2, <1>3 DEF TiersInv

\* What a save makes of the rows of a tier.
LEMMA UpsertIs ==
  ASSUME TiersInv, saving # Nothing, NEW k \in Persisted, k \in DOMAIN saving.tiers,
         NEW rows, rows = Upsert(rrd.rows[k], saving.tiers[k])
  PROVE  /\ rows \subseteq BucketOf(k) /\ HasNewest(rows)
         /\ SameBelow(k, tiers[k], rows, SavedCur(k, saving.tiers[k]))
         /\ Covers(k, tiers[k], rows)
<1>. DEFINE ts == saving.tiers[k]
            old == rrd.rows[k]
            c == SavedCur(k, ts)
            new == {r \in ts.rows : r.i >= ts.dirty}
            kept == {r \in old : r.i >= ts.floor /\ r.i \notin {q.i : q \in new}}
<1>1. k \in Levels /\ SavedInv(k, ts) /\ DiskInv(k) /\ RingOK(k, tiers[k]) /\ Slots[k] \in Nat \ {0}
  BY Ladder DEF TiersInv
<1>2. rows = kept \cup new
  BY DEF Upsert
<1>. HIDE DEF ts
<1>3. \A r \in old \cup ts.rows : r \in BucketOf(k) /\ r \in Bucket /\ r.i \in Nat
  BY <1>1 DEF DiskInv, SavedInv, BucketOf, Bucket
<1>4. rows \subseteq BucketOf(k) /\ Covers(k, tiers[k], rows)
  BY <1>1, <1>2, <1>3 DEF DiskInv, SavedInv, Covers
<1>5. /\ c \in Nat /\ tiers[k].cur \in Int /\ c <= tiers[k].cur
      /\ ts.dirty \in Int /\ ts.dirty <= c /\ ts.dirty = lastCurT[k]
      /\ ts.floor = c - Slots[k] + 1
  BY <1>1 DEF SavedInv, DiskInv, RingOK, Floor
<1>6. PICK top \in new : top.i = c
  BY <1>1, <1>5 DEF SavedInv
<1>7. HasNewest(rows)
  <2>1. PICK r \in old \cup new : (r \in old \/ old = {}) /\ \A q \in old : q.i <= r.i
    BY <1>1, <1>6 DEF DiskInv, HasNewest
  <2>2. \A q \in new : q.i <= c
    BY <1>1 DEF SavedInv
  <2>3. CASE r \in kept /\ r.i > c
    <3>1. \A q \in rows : q.i <= r.i
      BY <1>2, <1>3, <1>5, <2>1, <2>2, <2>3
    <3>. QED  BY <1>2, <2>3, <3>1 DEF HasNewest
  <2>4. CASE ~(r \in kept /\ r.i > c)
    <3>1. ASSUME NEW q \in kept, q.i > c PROVE FALSE
      <4>1. r.i >= q.i /\ q.i \in Nat /\ r.i \in Nat
        BY <1>3, <2>1, <3>1
      <4>2. r.i > c /\ r.i >= ts.floor
        BY <1>1, <1>5, <3>1, <4>1
      <4>3. r.i \notin {x.i : x \in new}
        BY <1>5, <2>2, <4>1, <4>2
      <4>4. r \in old
        BY <2>1, <3>1
      <4>. QED  BY <2>4, <4>2, <4>3, <4>4
    <3>2. \A q \in rows : q.i <= top.i
      BY <1>2, <1>3, <1>5, <1>6, <2>2, <3>1
    <3>. QED  BY <1>2, <1>6, <3>2 DEF HasNewest
  <2>. QED  BY <2>3, <2>4
<1>8. SameBelow(k, tiers[k], rows, c)
  <2>1. SUFFICES ASSUME NEW r \in Bucket, r.i >= Floor(k, tiers[k].cur), r.i < c
                 PROVE  r \in rows <=> Has(k, tiers[k], r.i) /\ tiers[k].buf[pos(k, r.i)].n = r.n
    BY DEF SameBelow
  <2>2. r.i \in Nat /\ r.i >= ts.floor
    BY <1>1, <1>5, <2>1 DEF Floor, Bucket
  <2>. DEFINE here == Has(k, tiers[k], r.i) /\ tiers[k].buf[pos(k, r.i)].n = r.n
  <2>3. r \in ts.rows <=> here
    BY <1>1, <2>1 DEF SavedInv, SameBelow
  <2>4. CASE r.i < ts.dirty
    <3>1. r \in old <=> here
      BY <1>1, <1>5, <2>1, <2>4 DEF DiskInv, SameBelow
    <3>2. r.i \notin {q.i : q \in new} /\ r \notin new
      BY <1>3, <1>5, <2>2, <2>4
    <3>. QED  BY <1>2, <2>2, <3>1, <3>2
  <2>5. CASE r.i >= ts.dirty
    <3>1. r \in new <=> here
      BY <2>3, <2>5
    <3>2. r \notin kept
      <4>1. SUFFICES ASSUME r \in kept PROVE FALSE
        OBVIOUS
      <4>2. Has(k, tiers[k], r.i)
        BY <1>1, <2>1, <4>1 DEF DiskInv, Covers
      <4>. DEFINE q == tiers[k].buf[pos(k, r.i)]
      <4>3. q \in Bucket /\ q.i = r.i
        <5>1. pos(k, r.i) \in 0..Slots[k] - 1
          BY <1>1, <2>2, PosIs
        <5>. QED  BY <1>1, <4>2, <5>1 DEF RingOK, Has, BucketOf
      <4>4. q \in ts.rows
        BY <1>1, <2>1, <4>2, <4>3 DEF SavedInv, SameBelow
      <4>5. q \in new
        BY <2>5, <4>3, <4>4
      <4>. QED  BY <4>1, <4>3, <4>5
    <3>. QED  BY <1>2, <3>1, <3>2
  <2>. QED  BY <1>5, <2>2, <2>4, <2>5
<1>. QED  BY <1>4, <1>7, <1>8 DEF ts

LEMMA LandsKeeps == HistoryInv /\ SaveLands => TiersInv'
<1> SUFFICES ASSUME HistoryInv, SaveLands PROVE TiersInv'
  OBVIOUS
<1>1. /\ TiersInv /\ saving # Nothing /\ UNCHANGED <<tiers, lastCurT>>
      /\ saving'.tiers = saving.tiers
  BY DEF HistoryInv, SaveLands, SnapshotInv
<1>2. \A k \in Levels : RingOK(k, tiers'[k])
  BY <1>1 DEF TiersInv
<1>3. ASSUME NEW k \in Persisted PROVE DiskInv(k)'
  <2>1. DiskInv(k) /\ k \in Levels
    BY <1>1, Ladder DEF TiersInv
  <2>2. CASE k \notin DOMAIN saving.tiers
    <3>1. rrd'.rows[k] = rrd.rows[k]
      BY <2>2 DEF SaveLands
    <3>. QED  BY <1>1, <2>1, <3>1 DEF DiskInv
  <2>3. CASE k \in DOMAIN saving.tiers
    <3>. DEFINE ts == saving.tiers[k]
    <3>1. rrd'.rows[k] = Upsert(rrd.rows[k], ts)
      BY <2>3 DEF SaveLands
    <3>2. SavedInv(k, ts)
      BY <1>1, <2>3 DEF TiersInv
    <3>3. /\ rrd'.rows[k] \subseteq BucketOf(k) /\ HasNewest(rrd'.rows[k])
          /\ SameBelow(k, tiers[k], rrd'.rows[k], SavedCur(k, ts))
          /\ Covers(k, tiers[k], rrd'.rows[k])
      BY <1>1, <2>3, <3>1, UpsertIs
    <3>4. lastCurT[k] \in Int /\ SavedCur(k, ts) \in Int /\ lastCurT[k] <= SavedCur(k, ts)
      BY <2>1, <3>2 DEF DiskInv, SavedInv
    <3>5. SameBelow(k, tiers[k], rrd'.rows[k], lastCurT[k])
      BY <3>3, <3>4 DEF SameBelow, Bucket
    <3>. QED  BY <1>1, <2>1, <3>3, <3>5 DEF DiskInv
  <2>. QED  BY <2>2, <2>3
<1>4. ASSUME NEW k \in Persisted, k \in DOMAIN saving'.tiers PROVE SavedInv(k, saving.tiers[k])'
  <2>. DEFINE ts == saving.tiers[k]
  <2>1. SavedInv(k, ts) /\ rrd'.rows[k] = Upsert(rrd.rows[k], ts)
    BY <1>1, <1>4 DEF TiersInv, SaveLands
  <2>2. SameBelow(k, tiers[k], rrd'.rows[k], SavedCur(k, ts))
    BY <1>1, <1>4, <2>1, UpsertIs
  <2>3. ts' = ts
    BY <1>1
  <2>. HIDE DEF ts
  <2>4. SavedInv(k, ts)'
    BY <1>1, <2>1, <2>2, <2>3 DEF SavedInv, SavedCur
  <2>. QED  BY <2>4 DEF ts
<1>. QED  BY <1>2, <1>3, <1>4 DEF TiersInv

LEMMA MarksKeep == HistoryInv /\ FlushMarks => TiersInv'
<1> SUFFICES ASSUME HistoryInv, FlushMarks PROVE TiersInv'
  OBVIOUS
<1>1. TiersInv /\ saving # Nothing /\ saving.landed /\ saving' = Nothing /\ UNCHANGED <<tiers, rrd>>
  BY DEF HistoryInv, FlushMarks
<1>2. \A k \in Levels : RingOK(k, tiers'[k])
  BY <1>1 DEF TiersInv
<1>3. ASSUME NEW k \in Persisted PROVE DiskInv(k)'
  <2>1. DiskInv(k) /\ k \in Levels
    BY <1>1, Ladder DEF TiersInv
  <2>2. CASE ~(k \in DOMAIN saving.tiers /\ saving.tiers[k].rows # {})
    <3>1. lastCurT'[k] = lastCurT[k]
      BY <2>2 DEF FlushMarks
    <3>. QED  BY <1>1, <2>1, <3>1 DEF DiskInv
  <2>3. CASE k \in DOMAIN saving.tiers /\ saving.tiers[k].rows # {}
    <3>. DEFINE ts == saving.tiers[k]
    <3>1. lastCurT'[k] = Max({r.i : r \in ts.rows})
      BY <2>3 DEF FlushMarks
    <3>2. SavedInv(k, ts)
      BY <1>1, <2>3 DEF TiersInv
    <3>. HIDE DEF ts
    <3>3. Max({r.i : r \in ts.rows}) = SavedCur(k, ts)
      <4>. DEFINE S == {r.i : r \in ts.rows}
      <4>1. SavedCur(k, ts) \in S /\ \A x \in S : x <= SavedCur(k, ts) /\ x \in Nat
        BY <3>2 DEF SavedInv, BucketOf, Bucket
      <4>. HIDE DEF S
      <4>2. Max(S) \in S /\ \A x \in S : Max(S) >= x
        BY <4>1 DEF Max
      <4>3. Max(S) = SavedCur(k, ts)
        BY <4>1, <4>2
      <4>. QED  BY <4>3 DEF S
    <3>. QED  BY <1>1, <2>1, <3>1, <3>2, <3>3 DEF DiskInv, SavedInv
  <2>. QED  BY <2>2, <2>3
<1>. QED  BY <1>1, <1>2, <1>3 DEF TiersInv

LEMMA ReopenKeeps == HistoryInv /\ Reopen => TiersInv'
<1> SUFFICES ASSUME HistoryInv, Reopen PROVE TiersInv'
  OBVIOUS
<1>1. /\ rrd' = rrd /\ saving' = Nothing /\ lastCurT' = NoMarks
      /\ tiers' = [k \in Levels |->
           IF k \in Persisted THEN restoreTier(k, rrd.rows[k]) ELSE EmptyRing(k)]
  BY DEF Reopen
<1>2. ASSUME NEW k \in Persisted
      PROVE  /\ k \in Levels /\ DiskInv(k) /\ tiers'[k] = restoreTier(k, rrd.rows[k])
             /\ RingOK(k, tiers'[k]) /\ Covers(k, tiers'[k], rrd.rows[k])
  <2>1. k \in Levels /\ DiskInv(k) /\ tiers'[k] = restoreTier(k, rrd.rows[k])
    BY <1>1, Ladder DEF HistoryInv, TiersInv
  <2>. QED  BY <2>1, RestoreIs DEF DiskInv
<1>3. ASSUME NEW k \in Levels PROVE RingOK(k, tiers'[k])
  <2>1. CASE k \in Persisted
    BY <1>2, <2>1
  <2>2. CASE k \notin Persisted
    BY <1>1, <2>2, EmptyRingOK
  <2>. QED  BY <2>1, <2>2
<1>4. ASSUME NEW k \in Persisted PROVE DiskInv(k)'
  <2>1. lastCurT'[k] = -1
    BY <1>1 DEF NoMarks
  <2>2. SameBelow(k, tiers'[k], rrd.rows[k], -1)
    BY DEF SameBelow, Bucket
  <2>3. -1 <= tiers'[k].cur
    BY <1>2 DEF RingOK
  <2>. QED  BY <1>1, <1>2, <2>1, <2>2, <2>3 DEF DiskInv
<1>. QED  BY <1>1, <1>3, <1>4 DEF TiersInv

LEMMA TiersStep == HistoryInv /\ [StoreNext]_storeVars => TiersInv'
<1> SUFFICES ASSUME HistoryInv, [StoreNext]_storeVars PROVE TiersInv'
  OBVIOUS
<1>1. ASSUME UNCHANGED <<tiers, lastCurT, rrd>>, saving' = saving \/ saving' = Nothing PROVE TiersInv'
  BY <1>1 DEF HistoryInv, TiersInv, DiskInv, SavedInv, SavedCur
<1>2. ASSUME NEW d \in 0..1, Sample(d) PROVE TiersInv'
  <2>1. UNCHANGED <<lastCurT, saving, rrd>> /\ (UNCHANGED tiers \/ add([t |-> clock, n |-> d]))
    BY <1>2 DEF Sample
  <2>. QED  BY <1>1, <2>1, SampleKeeps
<1>3. ASSUME NEW gap \in 1..MaxGap, Tick(gap) PROVE TiersInv'
  BY <1>1, <1>3 DEF Tick
<1>4. ASSUME NEW a \in Agents, NEW deep \in BOOLEAN, SampleAgent(a, deep) PROVE TiersInv'
  BY <1>1, <1>4 DEF SampleAgent
<1>5. CASE SaveFails
  BY <1>1, <1>5 DEF SaveFails
<1>6. CASE UNCHANGED storeVars
  BY <1>1, <1>6 DEF storeVars
<1>. QED
  BY <1>2, <1>3, <1>4, <1>5, <1>6, TakesKeeps, LandsKeeps, MarksKeep, ReopenKeeps DEF StoreNext

\* CleanIsSaved is what DiskInv says of each tier.
LEMMA TiersGiveClean == TiersInv => CleanIsSaved
<1> SUFFICES ASSUME TiersInv, NEW k \in Persisted
             PROVE  {r \in rrd.rows[k] : r.i >= Floor(k, tiers[k].cur) /\ r.i < lastCurT[k]}
                      = {[i |-> i, n |-> BytesOf(k, i)] : i \in {j \in Held(k) : j < lastCurT[k]}}
  BY DEF CleanIsSaved
<1>. DEFINE saved == {r \in rrd.rows[k] : r.i >= Floor(k, tiers[k].cur) /\ r.i < lastCurT[k]}
            held == {[i |-> i, n |-> BytesOf(k, i)] : i \in {j \in Held(k) : j < lastCurT[k]}}
<1>1. k \in Levels /\ RingOK(k, tiers[k]) /\ DiskInv(k) /\ Slots[k] \in Nat \ {0}
  BY Ladder DEF TiersInv
<1>2. tiers[k].cur \in Int /\ Floor(k, tiers[k].cur) \in Int
  BY <1>1 DEF RingOK, Floor
<1>3. ASSUME NEW i PROVE i \in Held(k) <=> Has(k, tiers[k], i)
  BY <1>2 DEF Held, valid, Has
<1>4. ASSUME NEW r \in saved PROVE r \in held
  <2>1. r \in Bucket /\ r.i < lastCurT[k] /\ Has(k, tiers[k], r.i) /\ BytesOf(k, r.i) = r.n
    BY <1>1, <1>4 DEF DiskInv, SameBelow, BucketOf, BytesOf
  <2>2. r = [i |-> r.i, n |-> r.n]
    BY <2>1 DEF Bucket
  <2>. QED  BY <1>3, <2>1, <2>2
<1>5. ASSUME NEW r \in held PROVE r \in saved
  <2>1. PICK i \in Held(k) : i < lastCurT[k] /\ r = [i |-> i, n |-> BytesOf(k, i)]
    OBVIOUS
  <2>2. Has(k, tiers[k], i)
    BY <1>3
  <2>3. pos(k, i) \in 0..Slots[k] - 1
    BY <1>1, <2>2, PosIs DEF Has
  <2>4. tiers[k].buf[pos(k, i)] \in Bucket
    BY <1>1, <2>2, <2>3 DEF RingOK, Has, BucketOf
  <2>5. r \in Bucket
    BY <2>1, <2>2, <2>4 DEF Bucket, BytesOf, Has
  <2>6. r.i >= Floor(k, tiers[k].cur) /\ r.i < lastCurT[k] /\ Has(k, tiers[k], r.i)
        /\ tiers[k].buf[pos(k, r.i)].n = r.n
    BY <2>1, <2>2 DEF Has, BytesOf
  <2>. QED  BY <1>1, <2>5, <2>6 DEF DiskInv, SameBelow
<1>. QED  BY <1>4, <1>5

-----------------------------------------------------------------------------
(* The histories of agents.                                                *)

LEMMA FewEmpty == Few({})
BY FS_EmptySet, LadderAssumption DEF Few

LEMMA AgentsInit == StoreInit => AgentsInv
BY FewEmpty DEF StoreInit, AgentsInv, RowsToCome, Live

\* A history that is new takes the place of the oldest when there is no room.
LEMMA RoomIs ==
  ASSUME Few(Live), NEW a, a \notin Live, NEW out \in SUBSET Live,
         IF Cardinality(Live) < MaxAgents THEN out = {} ELSE \E v \in Live : out = {v}
  PROVE  Few((Live \ out) \cup {a})
<1>1. IsFiniteSet(Live) /\ Cardinality(Live) \in Nat /\ Cardinality(Live) <= MaxAgents
      /\ MaxAgents \in Nat
  BY FS_CardinalityType, LadderAssumption DEF Few
<1>2. CASE Cardinality(Live) < MaxAgents
  <2>1. IsFiniteSet(Live \cup {a}) /\ Cardinality(Live \cup {a}) = Cardinality(Live) + 1
    BY <1>1, FS_AddElement
  <2>2. (Live \ out) \cup {a} = Live \cup {a}
    BY <1>2
  <2>. QED  BY <1>1, <1>2, <2>1, <2>2 DEF Few
<1>3. CASE ~(Cardinality(Live) < MaxAgents)
  <2>1. PICK v \in Live : out = {v}
    BY <1>3
  <2>2. IsFiniteSet(Live \ {v}) /\ Cardinality(Live \ {v}) = Cardinality(Live) - 1
    BY <1>1, FS_RemoveElement
  <2>3. IsFiniteSet((Live \ {v}) \cup {a})
        /\ Cardinality((Live \ {v}) \cup {a}) = Cardinality(Live \ {v}) + 1
    BY <2>2, FS_AddElement
  <2>. QED  BY <1>1, <2>1, <2>2, <2>3 DEF Few
<1>. QED  BY <1>2, <1>3

LEMMA SampleAgentKeeps ==
  ASSUME HistoryInv, NEW a \in Agents, NEW deep \in BOOLEAN, SampleAgent(a, deep)
  PROVE  AgentsInv'
<1>1. /\ AgentsInv /\ StoreTypeOK /\ UNCHANGED <<rrd, saving>> /\ RowsToCome' = RowsToCome
  BY DEF HistoryInv, SampleAgent, RowsToCome
<1>2. clock \in Nat
  BY <1>1, ClockAssumption DEF StoreTypeOK
<1>3. \A r \in BOOLEAN : [touched |-> clock, rows |-> r] # Nothing
  BY <1>2, NothingAssumption DEF History
<1>4. CASE a \in Live
  <2>1. histories[a] \in History
    BY <1>1, <1>4 DEF StoreTypeOK, Live
  <2>2. Live' = Live
    <3>1. histories' = [histories EXCEPT ![a] = [touched |-> clock, rows |-> @.rows \/ deep]]
      BY <1>4 DEF SampleAgent
    <3>2. (histories[a].rows \/ deep) \in BOOLEAN
      OBVIOUS
    <3>3. histories'[a] # Nothing /\ \A b \in Agents \ {a} : histories'[b] = histories[b]
      BY <1>1, <1>3, <3>1, <3>2 DEF StoreTypeOK
    <3>. QED  BY <1>4, <3>3 DEF Live
  <2>3. evicted' = evicted
    BY <1>4 DEF SampleAgent
  <2>. QED  BY <1>1, <2>2, <2>3 DEF AgentsInv
<1>5. CASE a \notin Live
  <2>1. PICK out \in IF Cardinality(Live) < MaxAgents THEN {{}} ELSE {{v} : v \in Oldest} :
          /\ histories' = [b \in Agents |->
               IF b = a THEN [touched |-> clock, rows |-> FALSE]
               ELSE IF b \in out THEN Nothing ELSE histories[b]]
          /\ evicted' = (evicted \cup out) \ {a}
    BY <1>5 DEF SampleAgent
  <2>2. /\ out \subseteq Live
        /\ IF Cardinality(Live) < MaxAgents THEN out = {} ELSE \E v \in Live : out = {v}
    BY DEF Oldest
  <2>3. Live' = (Live \ out) \cup {a}
    BY <1>3, <2>1 DEF Live
  <2>4. Few(Live')
    BY <1>1, <1>5, <2>2, <2>3, RoomIs DEF AgentsInv
  <2>5. evicted' \cap Live' = {} /\ Live \cup evicted \subseteq Live' \cup evicted'
    BY <1>1, <2>1, <2>3 DEF AgentsInv
  <2>. QED  BY <1>1, <2>4, <2>5 DEF AgentsInv, Few
<1>. QED  BY <1>4, <1>5

LEMMA AgentsStep == HistoryInv /\ [StoreNext]_storeVars => AgentsInv'
<1> SUFFICES ASSUME HistoryInv, [StoreNext]_storeVars PROVE AgentsInv'
  OBVIOUS
<1>1. AgentsInv
  BY DEF HistoryInv
<1>2. ASSUME UNCHANGED <<histories, evicted, saving, rrd>> PROVE AgentsInv'
  BY <1>1, <1>2 DEF AgentsInv, RowsToCome, Live, Few
<1>3. ASSUME NEW a \in Agents, NEW deep \in BOOLEAN, SampleAgent(a, deep) PROVE AgentsInv'
  BY <1>3, SampleAgentKeeps
<1>4. CASE FlushTakes
  <2>1. /\ UNCHANGED <<histories, evicted, rrd>> /\ saving = Nothing
        /\ Live' = Live /\ RowsToCome = rrd.agents
    BY <1>4 DEF FlushTakes, Live, RowsToCome
  <2>2. /\ saving'.landed = FALSE /\ saving'.delete = evicted
        /\ saving'.agents = {a \in Live : histories[a].rows}
    BY <1>4 DEF FlushTakes
  <2>3. CASE saving' = Nothing
    BY <1>1, <2>1, <2>3 DEF AgentsInv, RowsToCome, Few
  <2>4. CASE saving' # Nothing
    <3>1. RowsToCome' = (rrd.agents \ evicted) \cup {a \in Live : histories[a].rows}
      BY <2>1, <2>2, <2>4 DEF RowsToCome
    <3>2. RowsToCome' \subseteq Live
      BY <1>1, <3>1 DEF AgentsInv
    <3>3. Few(RowsToCome')
      <4>1. /\ IsFiniteSet(Live) /\ Cardinality(Live) \in Nat /\ Cardinality(Live) <= MaxAgents
            /\ IsFiniteSet(RowsToCome') /\ Cardinality(RowsToCome') \in Nat
            /\ Cardinality(RowsToCome') <= Cardinality(Live)
        BY <1>1, <3>2, FS_Subset, FS_CardinalityType DEF AgentsInv, Few
      <4>2. MaxAgents \in Nat
        BY LadderAssumption
      <4>. QED  BY <4>1, <4>2 DEF Few
    <3>. QED  BY <1>1, <2>1, <2>2, <2>4, <3>2, <3>3 DEF AgentsInv, Few
  <2>. QED  BY <2>3, <2>4
<1>5. CASE SaveLands
  <2>1. /\ UNCHANGED <<histories, evicted>> /\ saving # Nothing /\ ~saving.landed /\ Live' = Live
        /\ rrd'.agents = (rrd.agents \ saving.delete) \cup saving.agents
        /\ saving'.landed /\ saving'.delete = saving.delete
    BY <1>5 DEF SaveLands, HistoryInv, SnapshotInv, Live
  <2>2. RowsToCome' = rrd'.agents /\ RowsToCome' = RowsToCome
    BY <2>1 DEF RowsToCome
  <2>. QED  BY <1>1, <2>1, <2>2 DEF AgentsInv, Few
<1>6. CASE SaveFails
  BY <1>1, <1>6 DEF SaveFails, AgentsInv, RowsToCome, Live, Few
<1>7. CASE FlushMarks
  <2>1. /\ UNCHANGED <<histories, rrd>> /\ saving # Nothing /\ saving.landed /\ saving' = Nothing
        /\ evicted' = evicted \ saving.delete /\ Live' = Live
    BY <1>7 DEF FlushMarks, Live
  <2>2. RowsToCome = rrd.agents /\ RowsToCome' = rrd.agents
    BY <2>1 DEF RowsToCome
  <2>. QED  BY <1>1, <2>1, <2>2 DEF AgentsInv, Few
<1>8. CASE Reopen
  <2>1. /\ rrd' = rrd /\ evicted' = {} /\ saving' = Nothing
        /\ histories' = [a \in Agents |->
             IF a \in rrd.agents THEN [touched |-> 0, rows |-> TRUE] ELSE Nothing]
    BY <1>8 DEF Reopen
  <2>2. [touched |-> 0, rows |-> TRUE] # Nothing
    <3>1. [touched |-> 0, rows |-> TRUE] \in History
      BY DEF History
    <3>. QED  BY <3>1, NothingAssumption
  <2>3. rrd.agents \subseteq Agents
    BY DEF HistoryInv, StoreTypeOK
  <2>4. Live' = rrd.agents /\ RowsToCome' = rrd.agents
    BY <2>1, <2>2, <2>3 DEF Live, RowsToCome
  <2>. QED  BY <1>1, <2>1, <2>4 DEF AgentsInv, Few
<1>. QED
  BY <1>2, <1>3, <1>4, <1>5, <1>6, <1>7, <1>8 DEF StoreNext, storeVars, Sample, Tick

-----------------------------------------------------------------------------
(* Types, and the theorem.                                                 *)

LEMMA HistoryTypeInit == StoreInit => StoreTypeOK /\ SnapshotInv
<1> SUFFICES ASSUME StoreInit PROVE StoreTypeOK /\ SnapshotInv
  OBVIOUS
<1>1. \A k \in Levels : /\ tiers[k].cur \in -1..MaxTime
                        /\ tiers[k].buf \in [0..Slots[k] - 1 -> Bucket \cup {Nothing}]
  BY TiersInit, RingType DEF TiersInv
<1>2. clock \in Dawn..MaxTime /\ crashes \in 0..MaxCrashes
  BY ClockAssumption, LadderAssumption DEF StoreInit
<1>3. lastCurT \in [Persisted -> -1..MaxTime]
  BY LadderAssumption DEF StoreInit, NoMarks
<1>. QED  BY <1>1, <1>2, <1>3 DEF StoreInit, StoreTypeOK, SnapshotInv

LEMMA HistoryTypeStep == HistoryInv /\ TiersInv' /\ [StoreNext]_storeVars => StoreTypeOK' /\ SnapshotInv'
<1> SUFFICES ASSUME HistoryInv, TiersInv', [StoreNext]_storeVars PROVE StoreTypeOK' /\ SnapshotInv'
  OBVIOUS
<1>1. StoreTypeOK /\ SnapshotInv
  BY DEF HistoryInv
<1>2. \A k \in Levels : /\ tiers'[k].cur \in -1..MaxTime
                        /\ tiers'[k].buf \in [0..Slots[k] - 1 -> Bucket \cup {Nothing}]
  BY RingType DEF TiersInv
<1>3. ASSUME UNCHANGED <<lastCurT, histories, evicted, saving, rrd, crashes>>,
             clock' \in Dawn..MaxTime, lastT' \in {clock, lastT}
      PROVE  StoreTypeOK' /\ SnapshotInv'
  <2>1. lastT' \in 0..MaxTime \cup {Nothing}
    BY <1>1, <1>3, ClockAssumption DEF StoreTypeOK
  <2>. QED  BY <1>1, <1>2, <1>3, <2>1 DEF StoreTypeOK, SnapshotInv
<1>4. ASSUME NEW d \in 0..1, Sample(d) PROVE StoreTypeOK' /\ SnapshotInv'
  BY <1>1, <1>3, <1>4 DEF Sample, StoreTypeOK
<1>5. ASSUME NEW gap \in 1..MaxGap, Tick(gap) PROVE StoreTypeOK' /\ SnapshotInv'
  <2>1. clock' \in Dawn..MaxTime
    BY <1>1, <1>5, ClockAssumption, LadderAssumption DEF Tick, StoreTypeOK
  <2>. QED  BY <1>3, <1>5, <2>1 DEF Tick
<1>6. ASSUME NEW a \in Agents, NEW deep \in BOOLEAN, SampleAgent(a, deep)
      PROVE  StoreTypeOK' /\ SnapshotInv'
  <2>1. clock \in Nat /\ \A r \in BOOLEAN : [touched |-> clock, rows |-> r] \in History
    BY <1>1, ClockAssumption DEF StoreTypeOK, History
  <2>2. histories' \in [Agents -> History \cup {Nothing}] /\ evicted' \subseteq Agents
    <3>1. CASE a \in Live
      <4>1. (histories[a].rows \/ deep) \in BOOLEAN
        OBVIOUS
      <4>. QED  BY <1>1, <1>6, <2>1, <3>1, <4>1 DEF SampleAgent, StoreTypeOK
    <3>2. CASE a \notin Live
      <4>1. PICK out \in IF Cardinality(Live) < MaxAgents THEN {{}} ELSE {{v} : v \in Oldest} :
              /\ histories' = [b \in Agents |->
                   IF b = a THEN [touched |-> clock, rows |-> FALSE]
                   ELSE IF b \in out THEN Nothing ELSE histories[b]]
              /\ evicted' = (evicted \cup out) \ {a}
        BY <1>6, <3>2 DEF SampleAgent
      <4>2. out \subseteq Agents
        BY DEF Oldest, Live
      <4>. QED  BY <1>1, <2>1, <4>1, <4>2 DEF StoreTypeOK
    <3>. QED  BY <3>1, <3>2
  <2>. QED  BY <1>1, <1>2, <1>6, <2>2 DEF SampleAgent, StoreTypeOK, SnapshotInv
<1>7. CASE FlushTakes
  <2>1. UNCHANGED <<clock, tiers, lastT, lastCurT, histories, evicted, rrd, crashes>>
    BY <1>7 DEF FlushTakes
  <2>2. /\ saving'.landed \in BOOLEAN
        /\ saving'.delete \subseteq Agents /\ saving'.agents \subseteq Agents
        /\ DOMAIN saving'.tiers \subseteq Persisted
        /\ SnapshotInv'
    BY <1>1, <1>7 DEF FlushTakes, StoreTypeOK, Live, SnapshotInv
  <2>3. saving' # Nothing => \A k \in DOMAIN saving'.tiers : saving'.tiers[k].rows \subseteq Bucket
    BY <2>2 DEF TiersInv, SavedInv, BucketOf
  <2>. QED  BY <1>1, <2>1, <2>2, <2>3 DEF StoreTypeOK
<1>8. CASE SaveLands
  <2>1. UNCHANGED <<clock, tiers, lastT, lastCurT, histories, evicted, crashes>>
    BY <1>8 DEF SaveLands
  <2>2. /\ saving'.landed \in BOOLEAN /\ saving'.delete = saving.delete
        /\ saving'.agents = saving.agents /\ saving'.tiers = saving.tiers /\ saving # Nothing
        /\ SnapshotInv'
    BY <1>1, <1>8 DEF SaveLands, SnapshotInv
  <2>3. rrd' \in [rows : [Persisted -> SUBSET Bucket], agents : SUBSET Agents]
    <3>1. \A k \in Persisted : rrd'.rows[k] \subseteq Bucket
      BY DEF TiersInv, DiskInv, BucketOf
    <3>2. rrd'.agents \subseteq Agents
      BY <1>1, <1>8 DEF SaveLands, StoreTypeOK
    <3>3. PICK f : rrd' = [rows |-> [k \in Persisted |-> f[k]], agents |-> rrd'.agents]
      <4>. DEFINE g == [k \in Persisted |->
             IF k \in DOMAIN saving.tiers THEN Upsert(rrd.rows[k], saving.tiers[k]) ELSE rrd.rows[k]]
      <4>1. rrd' = [rows |-> [k \in Persisted |-> g[k]], agents |-> rrd'.agents]
        BY <1>8 DEF SaveLands
      <4>. HIDE DEF g
      <4>. QED  BY <4>1
    <3>. QED  BY <3>1, <3>2, <3>3
  <2>. QED  BY <1>1, <2>1, <2>2, <2>3 DEF StoreTypeOK
<1>9. CASE SaveFails
  BY <1>1, <1>9 DEF SaveFails, StoreTypeOK, SnapshotInv
<1>10. CASE FlushMarks
  <2>1. UNCHANGED <<clock, tiers, lastT, histories, rrd, crashes>> /\ saving' = Nothing
        /\ evicted' \subseteq evicted
    BY <1>10 DEF FlushMarks
  <2>2. lastCurT' \in [Persisted -> -1..MaxTime]
    <3>1. \A k \in Persisted : lastCurT'[k] \in -1..MaxTime
      <4>1. SUFFICES ASSUME NEW k \in Persisted PROVE lastCurT'[k] \in -1..MaxTime
        OBVIOUS
      <4>2. /\ k \in Levels /\ lastCurT'[k] \in Nat \cup {-1} /\ lastCurT'[k] <= tiers'[k].cur
        BY Ladder DEF TiersInv, DiskInv
      <4>. QED  BY <1>2, <4>2, LadderAssumption
    <3>2. PICK f : lastCurT' = [k \in Persisted |-> f[k]]
      <4>. DEFINE g == [k \in Persisted |->
             IF k \in DOMAIN saving.tiers /\ saving.tiers[k].rows # {}
             THEN Max({r.i : r \in saving.tiers[k].rows}) ELSE lastCurT[k]]
      <4>1. lastCurT' = [k \in Persisted |-> g[k]]
        BY <1>10 DEF FlushMarks
      <4>. HIDE DEF g
      <4>. QED  BY <4>1
    <3>. QED  BY <3>1, <3>2
  <2>. QED  BY <1>1, <1>2, <2>1, <2>2 DEF StoreTypeOK, SnapshotInv
<1>11. CASE Reopen
  <2>1. clock' \in Dawn..MaxTime
    BY <1>1, <1>11, ClockAssumption, LadderAssumption DEF Reopen, StoreTypeOK
  <2>2. lastCurT' \in [Persisted -> -1..MaxTime] /\ crashes' \in 0..MaxCrashes
    BY <1>1, <1>11, LadderAssumption DEF Reopen, NoMarks, StoreTypeOK
  <2>3. histories' \in [Agents -> History \cup {Nothing}]
    BY <1>11 DEF Reopen, History
  <2>. QED  BY <1>1, <1>2, <1>11, <2>1, <2>2, <2>3 DEF Reopen, StoreTypeOK, SnapshotInv
<1>12. CASE UNCHANGED storeVars
  BY <1>1, <1>12 DEF storeVars, StoreTypeOK, SnapshotInv
<1>. QED
  BY <1>4, <1>5, <1>6, <1>7, <1>8, <1>9, <1>10, <1>11, <1>12 DEF StoreNext

\* Whatever the ladder of tiers, the clock, the failures of saves and the restarts: a save
\* may pass over what Flush has marked as clean, for it is on disk as it is in memory, though
\* samples come while a save is written without the lock; rows of an agent whose history
\* is gone are marked to be deleted, and both keep to the cap of maxAgentHistories.
THEOREM HistoryIsSafe == StoreSpec => []StoreSafe
<1>1. StoreInit => HistoryInv
  BY HistoryTypeInit, TiersInit, AgentsInit DEF HistoryInv
<1>2. HistoryInv /\ [StoreNext]_storeVars => HistoryInv'
  BY TiersStep, AgentsStep, HistoryTypeStep DEF HistoryInv
<1>3. HistoryInv => StoreSafe
  BY TiersGiveClean
  DEF HistoryInv, StoreSafe, EvictedAreMarked, AgentsInv, AgentsBounded, Few
<1>. QED  BY <1>1, <1>2, <1>3, PTL DEF StoreSpec

-----------------------------------------------------------------------------
(* Every byte is counted once in each tier: the inductive invariant.       *)

\* How many buckets of tier k - 1 make up one of tier k.
Ratio(k) == Res[k] \div Res[k - 1]

\* No slot of a ring has a bucket later than the current one.
NoneAhead(k, ring) ==
  \A s \in 0..Slots[k] - 1 : ring.buf[s] # Nothing => ring.buf[s].i <= ring.cur

\* The completed buckets of the ring lo of tier k - 1 that make up bucket i of tier k.
Part(k, lo, i) == {j \in 0..lo.cur - 1 : Has(k - 1, lo, j) /\ j \div Ratio(k) = i}

\* The bytes of the buckets S of a ring.
BytesOfRing(k, ring, S) == Total([j \in S |-> ring.buf[pos(k, j)].n], S)

\* Tier k, the ring hi, counts what tier k - 1, the ring lo, has completed: nothing later,
\* everything that lo still has all of, and each byte once.
PairOK(k, lo, hi) ==
  /\ hi.cur * Ratio(k) <= lo.cur
  /\ \A j \in Nat : Has(k - 1, lo, j) /\ j < lo.cur => j < (hi.cur + 1) * Ratio(k)
  /\ \A i \in Nat : Has(k, hi, i) /\ i * Ratio(k) >= Floor(k - 1, lo.cur) =>
       hi.buf[pos(k, i)].n = BytesOfRing(k - 1, lo, Part(k, lo, i))

\* The rows that a save makes of a ring.
RowsOf(k, ring) ==
  {[i |-> i, n |-> ring.buf[pos(k, i)].n] : i \in {i \in 0..ring.cur : Has(k, ring, i)}}

\* Tiers that are saved, as is the one below.
Adjacent == {k \in Persisted \ {1} : k - 1 \in Persisted}

\* The rows of tier k in the snapshot that is being saved.
SavedRows(k) == IF k \in DOMAIN saving.tiers THEN saving.tiers[k].rows ELSE {}

\* The rows of a tier once the save has landed.
Landing(k) ==
  IF k \in DOMAIN saving.tiers THEN Upsert(rrd.rows[k], saving.tiers[k]) ELSE rrd.rows[k]

\* The tiers are in step in the memory; so would they be if they were restored from the
\* disk now, or from the snapshot that is being saved, which is what the disk will have.
AgreeInv ==
  /\ \A k \in Levels : NoneAhead(k, tiers[k])
  /\ \A k \in Persisted \ {1} :
       k - 1 \in Persisted \/ crashes = 0 => PairOK(k, tiers[k - 1], tiers[k])
  /\ \A k \in Adjacent :
       PairOK(k, restoreTier(k - 1, rrd.rows[k - 1]), restoreTier(k, rrd.rows[k]))
  /\ saving # Nothing =>
       /\ \A k \in Adjacent :
            PairOK(k, restoreTier(k - 1, SavedRows(k - 1)), restoreTier(k, SavedRows(k)))
       /\ ~saving.landed => \A k \in Persisted : Landing(k) = SavedRows(k)

-----------------------------------------------------------------------------
(* A pair of tiers.                                                        *)

\* The quotient is the only number of its kind.
LEMMA QuotientIs ==
  ASSUME NEW x \in Nat, NEW y \in Nat \ {0}, NEW q \in Nat, q * y <= x, x < (q + 1) * y
  PROVE  x \div y = q
<1>. DEFINE d == x \div y
<1>1. d \in Nat /\ d * y <= x /\ x < (d + 1) * y
  BY SMT
<1>. HIDE DEF d
<1>2. CASE d < q
  <2>1. (d + 1) * y <= q * y
    BY <1>1, <1>2, SMT
  <2>. QED  BY <1>1, <2>1, SMT
<1>3. CASE d > q
  <2>1. (q + 1) * y <= d * y
    BY <1>1, <1>3, SMT
  <2>. QED  BY <1>1, <2>1, SMT
<1>4. d = q
  BY <1>1, <1>2, <1>3
<1>. QED  BY <1>4 DEF d

\* Multiplication keeps the order.
LEMMA Monotone ==
  ASSUME NEW a \in Int, NEW b \in Int, NEW r \in Nat, a <= b
  PROVE  a * r <= b * r /\ a * r \in Int /\ b * r \in Int
BY SMT

\* A bucket of a tier is a whole number of buckets of the tier below it.
LEMMA RatioIs ==
  ASSUME NEW k \in Levels, k # 1
  PROVE  /\ k - 1 \in Levels /\ Ratio(k) \in Nat \ {0}
         /\ \A c \in Nat : /\ c \div Ratio(k) \in Nat
                           /\ (c \div Ratio(k)) * Ratio(k) <= c
                           /\ c < (c \div Ratio(k) + 1) * Ratio(k)
                           /\ (c * Res[k - 1]) \div Res[k] = c \div Ratio(k)
<1>. DEFINE s == Res[k - 1]
            R == Ratio(k)
<1>1. /\ k - 1 \in Levels /\ s \in Nat \ {0} /\ Res[k] \in Nat \ {0} /\ Res[k] % s = 0
  <2>1. k \in 2..Len(Res)
    BY LadderAssumption DEF Levels
  <2>. QED  BY <2>1, Ladder, LadderAssumption
<1>2. R \in Nat /\ Res[k] = R * s
  BY <1>1, SMT DEF Ratio
<1>3. R # 0
  BY <1>1, <1>2, SMT
<1>. HIDE DEF s, R
<1>4. ASSUME NEW c \in Nat
      PROVE  /\ c \div R \in Nat /\ (c \div R) * R <= c /\ c < (c \div R + 1) * R
             /\ (c * s) \div Res[k] = c \div R
  <2>. DEFINE q == c \div R
  <2>1. q \in Nat /\ q * R <= c /\ c < (q + 1) * R
    BY <1>2, <1>3, SMT
  <2>. HIDE DEF q
  <2>2. q * (R * s) = (q * R) * s /\ (q + 1) * (R * s) = ((q + 1) * R) * s
    BY <1>1, <1>2, <2>1, SMT
  <2>. DEFINE lowest == q * R
              next == (q + 1) * R
  <2>3. lowest \in Nat /\ next \in Nat /\ lowest <= c /\ c < next
    BY <1>2, <2>1
  <2>. HIDE DEF lowest, next
  <2>4. lowest * s <= c * s /\ c * s < next * s
    BY <1>1, <2>3, SMT
  <2>5. q * Res[k] <= c * s /\ c * s < (q + 1) * Res[k] /\ c * s \in Nat
    BY <1>1, <1>2, <2>2, <2>4 DEF lowest, next
  <2>6. (c * s) \div Res[k] = q
    BY <1>1, <2>1, <2>5, QuotientIs
  <2>. QED  BY <2>1, <2>6 DEF q
<1>. QED  BY <1>1, <1>2, <1>3, <1>4 DEF s, R

\* The ring new is the ring once a point of n bytes has come into bucket i, bucket for
\* bucket.
Counted(k, ring, i, n, new) ==
  /\ RingOK(k, new) /\ new.cur = i /\ Has(k, new, i) /\ NoneAhead(k, new)
  /\ new.buf[pos(k, i)].n = n + IF i = ring.cur THEN ring.buf[pos(k, i)].n ELSE 0
  /\ \A j \in Nat : j < i => (Has(k, new, j) <=> Has(k, ring, j) /\ j >= Floor(k, i))
  /\ \A j \in Nat : j < i /\ j >= Floor(k, i) => new.buf[pos(k, j)] = ring.buf[pos(k, j)]

LEMMA MergeExactly ==
  ASSUME NEW k \in Levels, NEW ring, RingOK(k, ring), NoneAhead(k, ring),
         NEW t \in Nat, NEW n \in Nat, t <= MaxTime, NEW i \in Nat, i = t \div Res[k], i >= ring.cur,
         NEW new, new = mergeCur(k, ring, [t |-> t, n |-> n])
  PROVE  Counted(k, ring, i, n, new)
<1>. DEFINE p == pos(k, i)
            r == [i |-> i, n |-> n + IF i = ring.cur THEN ring.buf[p].n ELSE 0]
<1>1. p \in 0..Slots[k] - 1 /\ Slots[k] \in Nat \ {0}
  BY PosIs, Ladder
<1>2. new.cur = i /\ new.buf = [ring.buf EXCEPT ![p] = r]
  BY DEF mergeCur
<1>3. RingOK(k, new)
  BY MergeGrows
<1>. HIDE DEF p
<1>4. /\ new.buf[p] = r /\ r.i = i
      /\ r.n = n + IF i = ring.cur THEN ring.buf[p].n ELSE 0
      /\ \A s \in 0..Slots[k] - 1 : s # p => new.buf[s] = ring.buf[s]
  BY <1>1, <1>2 DEF RingOK
<1>. HIDE DEF r
<1>5. Has(k, new, i)
  BY <1>2, <1>3 DEF RingOK
<1>6. ring.cur \in Int /\ Floor(k, i) \in Int /\ Floor(k, ring.cur) \in Int
      /\ Floor(k, i) >= Floor(k, ring.cur)
  BY <1>1 DEF RingOK, Floor
<1>7. ASSUME NEW j \in Nat, j < i, j >= Floor(k, i)
      PROVE  new.buf[pos(k, j)] = ring.buf[pos(k, j)] /\ pos(k, j) \in 0..Slots[k] - 1
  <2>1. pos(k, j) # p
    BY <1>1, <1>7, PosIs DEF p, Floor
  <2>2. pos(k, j) \in 0..Slots[k] - 1
    BY PosIs
  <2>. QED  BY <1>4, <2>1, <2>2
<1>8. ASSUME NEW j \in Nat, j < i
      PROVE  Has(k, new, j) <=> Has(k, ring, j) /\ j >= Floor(k, i)
  <2>1. ASSUME Has(k, new, j)  PROVE Has(k, ring, j) /\ j >= Floor(k, i)
    <3>1. j >= Floor(k, i) /\ new.buf[pos(k, j)] # Nothing /\ new.buf[pos(k, j)].i = j
      BY <1>2, <2>1 DEF Has
    <3>2. ring.buf[pos(k, j)] # Nothing /\ ring.buf[pos(k, j)].i = j /\ j <= ring.cur
      BY <1>7, <1>8, <3>1 DEF NoneAhead
    <3>. QED  BY <1>6, <3>1, <3>2 DEF Has
  <2>2. ASSUME Has(k, ring, j), j >= Floor(k, i)  PROVE Has(k, new, j)
    BY <1>2, <1>7, <1>8, <2>2 DEF Has
  <2>. QED  BY <2>1, <2>2
<1>9. ASSUME NEW s \in 0..Slots[k] - 1, new.buf[s] # Nothing  PROVE new.buf[s].i <= new.cur
  <2>1. CASE s = p
    BY <1>2, <1>4, <2>1
  <2>2. CASE s # p
    <3>1. ring.buf[s] # Nothing /\ ring.buf[s].i <= ring.cur /\ new.buf[s] = ring.buf[s]
      BY <1>4, <1>9, <2>2 DEF NoneAhead
    <3>2. ring.buf[s].i \in Nat
      BY <3>1 DEF RingOK, BucketOf, Bucket
    <3>. QED  BY <1>2, <1>6, <3>1, <3>2
  <2>. QED  BY <2>1, <2>2
<1>. QED  BY <1>2, <1>3, <1>4, <1>5, <1>7, <1>8, <1>9 DEF Counted, NoneAhead, p

\* The buckets that make up one of the next tier can be counted.
LEMMA PartIs ==
  ASSUME NEW k \in Levels, k # 1, NEW lo, RingOK(k - 1, lo), NEW i
  PROVE  /\ IsFiniteSet(Part(k, lo, i))
         /\ \A j \in Part(k, lo, i) : j \in Nat /\ lo.buf[pos(k - 1, j)].n \in Nat
<1>1. k - 1 \in Levels
  BY RatioIs
<1>2. IsFiniteSet(Part(k, lo, i))
  <2>1. lo.cur - 1 \in Int /\ Part(k, lo, i) \subseteq 0..lo.cur - 1
    BY DEF RingOK, Part
  <2>2. \A a, b \in Int : IsFiniteSet(a..b)
    BY FS_Interval
  <2>3. IsFiniteSet(0..lo.cur - 1)
    BY <2>1, <2>2
  <2>. QED  BY <2>1, <2>3, FS_Subset
<1>3. ASSUME NEW j \in Part(k, lo, i)  PROVE j \in Nat /\ lo.buf[pos(k - 1, j)].n \in Nat
  <2>1. j \in Nat /\ Has(k - 1, lo, j)
    BY DEF Part
  <2>2. pos(k - 1, j) \in 0..Slots[k - 1] - 1
    BY <1>1, <2>1, PosIs
  <2>. QED  BY <2>1, <2>2 DEF RingOK, Has, BucketOf, Bucket
<1>. QED  BY <1>2, <1>3

\* Rings that have the same in some buckets have the same bytes in them.
LEMMA BytesSame ==
  ASSUME NEW k, NEW a, NEW b, NEW S, IsFiniteSet(S),
         \A j \in S : a.buf[pos(k, j)].n = b.buf[pos(k, j)].n
  PROVE  BytesOfRing(k, a, S) = BytesOfRing(k, b, S)
<1>. DEFINE g == [j \in S |-> a.buf[pos(k, j)].n]
            h == [j \in S |-> b.buf[pos(k, j)].n]
<1>1. \A j \in S : g[j] = h[j]
  OBVIOUS
<1>. HIDE DEF g, h
<1>2. Total(g, S) = Total(h, S)
  BY <1>1, SumSame
<1>. QED  BY <1>2 DEF BytesOfRing, g, h

\* One more bucket adds its bytes.
LEMMA BytesAdd ==
  ASSUME NEW k, NEW a, NEW S, IsFiniteSet(S), NEW c, c \notin S,
         \A j \in S \cup {c} : a.buf[pos(k, j)].n \in Nat
  PROVE  /\ BytesOfRing(k, a, S \cup {c}) = a.buf[pos(k, c)].n + BytesOfRing(k, a, S)
         /\ BytesOfRing(k, a, S) \in Nat
<1>. DEFINE g == [j \in S \cup {c} |-> a.buf[pos(k, j)].n]
            h == [j \in S |-> a.buf[pos(k, j)].n]
<1>1. /\ g[c] = a.buf[pos(k, c)].n /\ \A j \in S \cup {c} : g[j] \in Nat
      /\ \A j \in S : g[j] = h[j] /\ h[j] \in Nat
  OBVIOUS
<1>. HIDE DEF g, h
<1>2. IsFiniteSet(S \cup {c}) /\ (S \cup {c}) \ {c} = S
  BY FS_AddElement
<1>3. Total(g, S \cup {c}) = g[c] + Total(g, (S \cup {c}) \ {c})
  BY <1>1, <1>2, SumTakeOut
<1>4. Total(g, S) = Total(h, S) /\ Total(h, S) \in Nat
  BY <1>1, SumSame, SumTakeOut
<1>. QED  BY <1>1, <1>2, <1>3, <1>4 DEF BytesOfRing, g, h

\* Two rings hold the same completed buckets, and the same current one.
AlikeBelow(k, a, b) ==
  /\ a.cur = b.cur
  /\ \A j \in Nat : j < a.cur =>
       /\ Has(k, a, j) <=> Has(k, b, j)
       /\ Has(k, a, j) => a.buf[pos(k, j)].n = b.buf[pos(k, j)].n

Alike(k, a, b) ==
  /\ AlikeBelow(k, a, b)
  /\ Has(k, a, a.cur) <=> Has(k, b, a.cur)
  /\ Has(k, a, a.cur) => a.buf[pos(k, a.cur)].n = b.buf[pos(k, a.cur)].n

\* What holds of a pair of rings depends on their contents only.
LEMMA PairAlike ==
  ASSUME NEW k \in Levels, k # 1, NEW lo, NEW hi, NEW lo2, NEW hi2,
         RingOK(k - 1, lo), RingOK(k, hi), AlikeBelow(k - 1, lo, lo2), Alike(k, hi, hi2),
         PairOK(k, lo, hi)
  PROVE  PairOK(k, lo2, hi2)
<1>1. /\ lo2.cur = lo.cur /\ hi2.cur = hi.cur /\ lo.cur \in Int /\ hi.cur \in Int
  BY DEF AlikeBelow, Alike, RingOK
<1>2. ASSUME NEW i  PROVE Part(k, lo2, i) = Part(k, lo, i)
  BY <1>1 DEF Part, AlikeBelow
<1>3. ASSUME NEW i
      PROVE  BytesOfRing(k - 1, lo2, Part(k, lo, i)) = BytesOfRing(k - 1, lo, Part(k, lo, i))
  <2>1. IsFiniteSet(Part(k, lo, i))
    BY PartIs
  <2>2. \A j \in Part(k, lo, i) : lo.buf[pos(k - 1, j)].n = lo2.buf[pos(k - 1, j)].n
    BY <1>1 DEF Part, AlikeBelow
  <2>. QED  BY <2>1, <2>2, BytesSame
<1>4. \A j \in Nat : Has(k - 1, lo2, j) /\ j < lo2.cur => j < (hi2.cur + 1) * Ratio(k)
  BY <1>1 DEF AlikeBelow, PairOK
<1>5. \A i \in Nat : Has(k, hi2, i) => Has(k, hi, i) /\ hi2.buf[pos(k, i)].n = hi.buf[pos(k, i)].n
  <2>. SUFFICES ASSUME NEW i \in Nat, Has(k, hi2, i)
                PROVE  Has(k, hi, i) /\ hi2.buf[pos(k, i)].n = hi.buf[pos(k, i)].n
    OBVIOUS
  <2>1. i <= hi.cur
    BY <1>1 DEF Has
  <2>2. CASE i < hi.cur
    BY <2>2 DEF Alike, AlikeBelow
  <2>3. CASE i = hi.cur
    BY <2>3 DEF Alike
  <2>. QED  BY <1>1, <2>1, <2>2, <2>3
<1>. QED  BY <1>1, <1>2, <1>3, <1>4, <1>5 DEF PairOK

\* A point that stays within the current bucket completes nothing.
LEMMA PairStays ==
  ASSUME NEW k \in Levels, k # 1, NEW lo, NEW hi, RingOK(k - 1, lo), RingOK(k, hi),
         NoneAhead(k - 1, lo), PairOK(k, lo, hi),
         NEW t \in Nat, NEW n \in Nat, t <= MaxTime, t \div Res[k - 1] = lo.cur
  PROVE  PairOK(k, mergeCur(k - 1, lo, [t |-> t, n |-> n]), hi)
<1>. DEFINE new == mergeCur(k - 1, lo, [t |-> t, n |-> n])
<1>1. k - 1 \in Levels /\ lo.cur \in Nat
  <2>1. k - 1 \in Levels /\ Res[k - 1] \in Nat \ {0}
    BY RatioIs, Ladder
  <2>. QED  BY <2>1, Division
<1>2. /\ new.cur = lo.cur
      /\ \A j \in Nat : j < lo.cur =>
           (Has(k - 1, new, j) <=> Has(k - 1, lo, j) /\ j >= Floor(k - 1, lo.cur))
      /\ \A j \in Nat : j < lo.cur /\ j >= Floor(k - 1, lo.cur) =>
           new.buf[pos(k - 1, j)] = lo.buf[pos(k - 1, j)]
  BY <1>1, MergeExactly DEF Counted
<1>. HIDE DEF new
<1>3. AlikeBelow(k - 1, lo, new)
  BY <1>2 DEF AlikeBelow, Has
<1>4. Alike(k, hi, hi)
  BY DEF Alike, AlikeBelow
<1>5. PairOK(k, new, hi)
  BY <1>3, <1>4, PairAlike
<1>. QED  BY <1>5 DEF new

\* The first point of all completes nothing either.
LEMMA PairStarts ==
  ASSUME NEW k \in Levels, k # 1, NEW lo, NEW hi, RingOK(k - 1, lo), RingOK(k, hi),
         NoneAhead(k - 1, lo), PairOK(k, lo, hi), lo.cur = -1,
         NEW t \in Nat, NEW n \in Nat, t <= MaxTime
  PROVE  PairOK(k, mergeCur(k - 1, lo, [t |-> t, n |-> n]), hi)
<1>. DEFINE new == mergeCur(k - 1, lo, [t |-> t, n |-> n])
            i == t \div Res[k - 1]
<1>1. k - 1 \in Levels /\ Ratio(k) \in Nat \ {0} /\ i \in Nat
  <2>1. k - 1 \in Levels /\ Res[k - 1] \in Nat \ {0} /\ Ratio(k) \in Nat \ {0}
    BY RatioIs, Ladder
  <2>. QED  BY <2>1, Division
<1>2. hi.cur = -1
  <2>1. hi.cur \in Nat => hi.cur * Ratio(k) \in Nat
    BY <1>1
  <2>. QED  BY <2>1 DEF PairOK, RingOK
<1>. HIDE DEF i
<1>3. new.cur = i /\ \A j \in Nat : j < i => (Has(k - 1, new, j) => Has(k - 1, lo, j))
  <2>1. i >= lo.cur /\ i = t \div Res[k - 1]
    BY <1>1 DEF i
  <2>. QED  BY <1>1, <2>1, MergeExactly DEF Counted
<1>. HIDE DEF new
<1>4. \A j \in Nat : ~Has(k - 1, lo, j) /\ ~Has(k, hi, j)
  BY <1>2 DEF Has
<1>5. hi.cur * Ratio(k) <= new.cur
  BY <1>1, <1>2, <1>3
<1>6. PairOK(k, new, hi)
  BY <1>3, <1>4, <1>5 DEF PairOK
<1>. QED  BY <1>6 DEF new

\* A point past the current bucket completes it, and what it has goes into the bucket of
\* the next tier that it is part of.
LEMMA PairCascades ==
  ASSUME NEW k \in Levels, k # 1, NEW lo, NEW hi, RingOK(k - 1, lo), RingOK(k, hi),
         NoneAhead(k - 1, lo), NoneAhead(k, hi), PairOK(k, lo, hi),
         NEW c \in Nat, c = lo.cur,
         NEW t \in Nat, NEW n \in Nat, t <= MaxTime, t \div Res[k - 1] > c,
         NEW lo2, lo2 = mergeCur(k - 1, lo, [t |-> t, n |-> n]),
         NEW done, done = lo.buf[pos(k - 1, c)].n,
         NEW hi2, hi2 = mergeCur(k, hi, [t |-> c * Res[k - 1], n |-> done])
  PROVE  PairOK(k, lo2, hi2) /\ (c * Res[k - 1]) \div Res[k] >= hi.cur
<1>. DEFINE i == t \div Res[k - 1]
            h == c \div Ratio(k)
<1>1. /\ k - 1 \in Levels /\ Ratio(k) \in Nat \ {0} /\ i \in Nat
      /\ Res[k - 1] \in Nat \ {0} /\ Slots[k - 1] \in Nat \ {0} /\ Slots[k] \in Nat \ {0}
      /\ h \in Nat /\ h * Ratio(k) <= c /\ c < (h + 1) * Ratio(k)
      /\ (c * Res[k - 1]) \div Res[k] = h
  <2>1. k - 1 \in Levels /\ Res[k - 1] \in Nat \ {0}
    BY RatioIs, Ladder
  <2>. QED  BY <2>1, RatioIs, Ladder, Division
<1>2. /\ i > c /\ i = t \div Res[k - 1] /\ i >= lo.cur
  BY <1>1
<1>. HIDE DEF i
<1>3. /\ Has(k - 1, lo, c) /\ done \in Nat /\ c * Res[k - 1] \in Nat /\ c * Res[k - 1] <= MaxTime
  <2>1. Has(k - 1, lo, c) /\ pos(k - 1, c) \in 0..Slots[k - 1] - 1
    <3>1. Has(k - 1, lo, c)
      BY DEF RingOK
    <3>. QED  BY <1>1, <3>1, PosIs
  <2>2. lo.buf[pos(k - 1, c)] \in BucketOf(k - 1) /\ lo.buf[pos(k - 1, c)].i = c
    BY <2>1 DEF RingOK, Has
  <2>. QED  BY <1>1, <2>1, <2>2 DEF BucketOf, Bucket
<1>4. hi.cur \in Int /\ hi.cur <= h
  <2>1. hi.cur \in Int /\ hi.cur * Ratio(k) <= c
    BY DEF RingOK, PairOK
  <2>2. CASE hi.cur >= h + 1
    <3>1. hi.cur * Ratio(k) >= (h + 1) * Ratio(k)
      <4>1. h + 1 \in Int /\ h + 1 <= hi.cur /\ Ratio(k) \in Nat
        BY <1>1, <2>1, <2>2
      <4>. QED  BY <2>1, <4>1, Monotone
    <3>2. hi.cur * Ratio(k) \in Int /\ (h + 1) * Ratio(k) \in Int
      BY <1>1, <2>1, Monotone
    <3>. QED  BY <1>1, <2>1, <3>1, <3>2
  <2>. QED  BY <1>1, <2>1, <2>2
<1>5. /\ lo2.cur = i
      /\ \A j \in Nat : j < i =>
           (Has(k - 1, lo2, j) <=> Has(k - 1, lo, j) /\ j >= Floor(k - 1, i))
      /\ \A j \in Nat : j < i /\ j >= Floor(k - 1, i) =>
           lo2.buf[pos(k - 1, j)] = lo.buf[pos(k - 1, j)]
  <2>1. k - 1 \in Levels /\ i \in Nat
    BY <1>1
  <2>. QED  BY <1>2, <2>1, MergeExactly DEF Counted
<1>6. /\ hi2.cur = h /\ Has(k, hi2, h)
      /\ hi2.buf[pos(k, h)].n = done + IF h = hi.cur THEN hi.buf[pos(k, h)].n ELSE 0
      /\ \A j \in Nat : j < h =>
           (Has(k, hi2, j) <=> Has(k, hi, j) /\ j >= Floor(k, h))
      /\ \A j \in Nat : j < h /\ j >= Floor(k, h) => hi2.buf[pos(k, j)] = hi.buf[pos(k, j)]
  <2>. DEFINE at == c * Res[k - 1]
  <2>1. at \in Nat /\ at <= MaxTime /\ h \in Nat /\ h = at \div Res[k] /\ h >= hi.cur /\ done \in Nat
    BY <1>1, <1>3, <1>4
  <2>2. hi2 = mergeCur(k, hi, [t |-> at, n |-> done])
    OBVIOUS
  <2>. HIDE DEF at, h
  <2>3. Counted(k, hi, h, done, hi2)
    BY <2>1, <2>2, MergeExactly
  <2>. QED  BY <2>3 DEF Counted
<1>. HIDE DEF h
<1>7. hi2.cur * Ratio(k) <= lo2.cur
  <2>1. h * Ratio(k) \in Nat
    BY <1>1
  <2>. QED  BY <1>1, <1>2, <1>5, <1>6, <2>1
<1>8. \A j \in Nat : Has(k - 1, lo2, j) /\ j < i => Has(k - 1, lo, j) /\ j <= c
  BY <1>5 DEF Has
<1>9. \A j \in Nat : Has(k - 1, lo2, j) /\ j < lo2.cur => j < (hi2.cur + 1) * Ratio(k)
  <2>1. (h + 1) * Ratio(k) \in Nat
    BY <1>1
  <2>. QED  BY <1>1, <1>5, <1>6, <1>8, <2>1
<1>10. Floor(k - 1, i) \in Int /\ Floor(k - 1, c) \in Int /\ Floor(k - 1, c) <= Floor(k - 1, i)
  BY <1>1, <1>2 DEF Floor
<1>11. ASSUME NEW x \in Nat, x * Ratio(k) >= Floor(k - 1, i)
       PROVE  /\ Part(k, lo2, x) = Part(k, lo, x) \cup (IF x = h THEN {c} ELSE {})
              /\ \A j \in Part(k, lo2, x) : lo2.buf[pos(k - 1, j)].n = lo.buf[pos(k - 1, j)].n
  <2>1. \A j \in Nat : j \div Ratio(k) = x => j >= Floor(k - 1, i)
    <3>. SUFFICES ASSUME NEW j \in Nat, j \div Ratio(k) = x  PROVE j >= Floor(k - 1, i)
      OBVIOUS
    <3>1. (j \div Ratio(k)) * Ratio(k) <= j
      BY RatioIs
    <3>2. x * Ratio(k) \in Int
      BY <1>1, Monotone
    <3>. QED  BY <1>10, <1>11, <3>1, <3>2
  <2>2. ASSUME NEW j  PROVE j \in Part(k, lo2, x) <=> j \in Part(k, lo, x) \/ (j = c /\ x = h)
    <3>1. j \in Part(k, lo2, x) <=> j \in Nat /\ j < i /\ Has(k - 1, lo2, j) /\ j \div Ratio(k) = x
      BY <1>1, <1>5 DEF Part
    <3>2. j \in Part(k, lo, x) <=> j \in Nat /\ j < c /\ Has(k - 1, lo, j) /\ j \div Ratio(k) = x
      BY DEF Part
    <3>3. j \in Nat /\ j < i /\ j \div Ratio(k) = x => (Has(k - 1, lo2, j) <=> Has(k - 1, lo, j))
      BY <1>5, <2>1
    <3>4. Has(k - 1, lo, j) => j \in Nat /\ j <= c
      BY DEF Has
    <3>5. c \div Ratio(k) = h
      BY DEF h
    <3>6. j \in Nat => (j < i /\ j <= c <=> j < c \/ j = c)
      BY <1>1, <1>2
    <3>. QED  BY <1>3, <3>1, <3>2, <3>3, <3>4, <3>5, <3>6
  <2>3. \A j \in Part(k, lo2, x) : lo2.buf[pos(k - 1, j)].n = lo.buf[pos(k - 1, j)].n
    <3>1. \A j \in Part(k, lo2, x) : j \in Nat /\ j < i /\ j \div Ratio(k) = x
      BY <1>1, <1>5 DEF Part
    <3>. QED  BY <1>5, <2>1, <3>1
  <2>. QED  BY <2>2, <2>3
<1>12. ASSUME NEW x \in Nat, Has(k, hi2, x), x * Ratio(k) >= Floor(k - 1, i)
       PROVE  hi2.buf[pos(k, x)].n = BytesOfRing(k - 1, lo2, Part(k, lo2, x))
  <2>1. x * Ratio(k) \in Nat /\ x * Ratio(k) >= Floor(k - 1, c)
    BY <1>1, <1>10, <1>12
  <2>2. /\ IsFiniteSet(Part(k, lo, x)) /\ \A j \in Part(k, lo, x) : lo.buf[pos(k - 1, j)].n \in Nat
    BY PartIs
  <2>3. x <= h
    BY <1>6, <1>12 DEF Has
  <2>4. CASE x # h
    <3>1. Has(k, hi, x) /\ hi2.buf[pos(k, x)] = hi.buf[pos(k, x)]
      <4>1. x < h
        BY <1>1, <2>3, <2>4
      <4>. QED  BY <1>6, <1>12, <4>1
    <3>2. Part(k, lo2, x) = Part(k, lo, x)
      BY <1>11, <1>12, <2>4
    <3>3. BytesOfRing(k - 1, lo2, Part(k, lo, x)) = BytesOfRing(k - 1, lo, Part(k, lo, x))
      BY <1>11, <1>12, <2>2, <3>2, BytesSame
    <3>. QED  BY <2>1, <3>1, <3>2, <3>3 DEF PairOK
  <2>5. CASE x = h
    <3>1. c \notin Part(k, lo, x)
      BY DEF Part
    <3>2. Part(k, lo2, x) = Part(k, lo, x) \cup {c}
      BY <1>11, <1>12, <2>5
    <3>3. BytesOfRing(k - 1, lo2, Part(k, lo2, x)) = BytesOfRing(k - 1, lo, Part(k, lo2, x))
      <4>1. IsFiniteSet(Part(k, lo2, x))
        BY <2>2, <3>2, FS_AddElement
      <4>. QED  BY <1>11, <1>12, <4>1, BytesSame
    <3>4. /\ BytesOfRing(k - 1, lo, Part(k, lo, x) \cup {c})
               = done + BytesOfRing(k - 1, lo, Part(k, lo, x))
          /\ BytesOfRing(k - 1, lo, Part(k, lo, x)) \in Nat
      BY <1>3, <2>2, <3>1, BytesAdd
    <3>5. (IF h = hi.cur THEN hi.buf[pos(k, h)].n ELSE 0) = BytesOfRing(k - 1, lo, Part(k, lo, x))
      <4>1. CASE h = hi.cur
        <5>1. Has(k, hi, h)
          BY <1>1, <4>1 DEF RingOK
        <5>. QED  BY <1>1, <2>1, <2>5, <4>1, <5>1 DEF PairOK
      <4>2. CASE h # hi.cur
        <5>1. (hi.cur + 1) * Ratio(k) <= h * Ratio(k)
          <6>1. h \in Int /\ Ratio(k) \in Nat
            BY <1>1
          <6>2. hi.cur + 1 <= h /\ hi.cur + 1 \in Int
            BY <1>4, <4>2, <6>1
          <6>. QED  BY <6>1, <6>2, Monotone
        <5>2. Part(k, lo, x) = {}
          <6>. SUFFICES ASSUME NEW j \in Part(k, lo, x)  PROVE FALSE
            OBVIOUS
          <6>1. j \in Nat /\ j < c /\ Has(k - 1, lo, j) /\ j \div Ratio(k) = h
            BY <2>5 DEF Part
          <6>2. h * Ratio(k) <= j
            BY <6>1, RatioIs
          <6>3. j < (hi.cur + 1) * Ratio(k)
            BY <6>1 DEF PairOK
          <6>4. (hi.cur + 1) * Ratio(k) \in Int /\ h * Ratio(k) \in Int
            BY <1>1, <1>4
          <6>. QED  BY <5>1, <6>1, <6>2, <6>3, <6>4
        <5>3. BytesOfRing(k - 1, lo, {}) = 0
          BY SumEmpty DEF BytesOfRing
        <5>. QED  BY <4>2, <5>2, <5>3
      <4>. QED  BY <4>1, <4>2
    <3>. QED  BY <1>6, <2>5, <3>2, <3>3, <3>4, <3>5
  <2>. QED  BY <2>4, <2>5
<1>. QED  BY <1>1, <1>4, <1>5, <1>7, <1>9, <1>12 DEF PairOK

-----------------------------------------------------------------------------
(* Saving and restoring a ring.                                            *)

\* The rows that a save makes are the buckets that the ring has.
LEMMA RowsAre ==
  ASSUME NEW k \in Levels, NEW ring, RingOK(k, ring)
  PROVE  /\ RowsOf(k, ring) \subseteq BucketOf(k)
         /\ \A r \in Bucket : r \in RowsOf(k, ring) <=>
              Has(k, ring, r.i) /\ ring.buf[pos(k, r.i)].n = r.n
         /\ \A j : Has(k, ring, j) => \E r \in RowsOf(k, ring) : r.i = j
<1>1. ring.cur \in Int
  BY DEF RingOK
<1>2. ASSUME NEW j, Has(k, ring, j)
      PROVE  [i |-> j, n |-> ring.buf[pos(k, j)].n] \in BucketOf(k)
  <2>1. j \in Nat /\ pos(k, j) \in 0..Slots[k] - 1
    BY <1>2, PosIs DEF Has
  <2>2. ring.buf[pos(k, j)] \in BucketOf(k) /\ ring.buf[pos(k, j)].i = j
    BY <1>2, <2>1 DEF RingOK, Has
  <2>. QED  BY <2>1, <2>2 DEF BucketOf, Bucket
<1>3. RowsOf(k, ring) \subseteq BucketOf(k)
  BY <1>2 DEF RowsOf
<1>4. \A j : Has(k, ring, j) <=> j \in {i \in 0..ring.cur : Has(k, ring, i)}
  BY <1>1 DEF Has
<1>5. ASSUME NEW r \in Bucket
      PROVE  r \in RowsOf(k, ring) <=> Has(k, ring, r.i) /\ ring.buf[pos(k, r.i)].n = r.n
  <2>1. r = [i |-> r.i, n |-> r.n]
    BY DEF Bucket
  <2>. QED  BY <1>4, <2>1 DEF RowsOf
<1>6. ASSUME NEW j, Has(k, ring, j)  PROVE \E r \in RowsOf(k, ring) : r.i = j
  <2>1. [i |-> j, n |-> ring.buf[pos(k, j)].n] \in RowsOf(k, ring)
    BY <1>4, <1>6 DEF RowsOf
  <2>. QED  BY <2>1
<1>. QED  BY <1>3, <1>5, <1>6

\* What restoreTier makes of rows.
LEMMA RestoreFields ==
  ASSUME NEW k \in Levels, NEW rows, rows \subseteq BucketOf(k), rows # {},
         NEW top \in rows, \A q \in rows : q.i <= top.i,
         NEW new, new = restoreTier(k, rows)
  PROVE  /\ new.cur = top.i
         /\ \A s \in 0..Slots[k] - 1 : new.buf[s] # Nothing =>
              new.buf[s] \in rows /\ pos(k, new.buf[s].i) = s
<1>. DEFINE newest == Max({r.i : r \in rows})
            at(s) == {r \in rows : pos(k, r.i) = s /\ r.i >= Floor(k, newest)}
<1>1. \A r \in rows : r.i \in Nat
  BY DEF BucketOf, Bucket
<1>2. newest = top.i
  <2>. DEFINE S == {r.i : r \in rows}
  <2>1. top.i \in S /\ \A y \in S : y <= top.i /\ y \in Nat
    BY <1>1
  <2>. HIDE DEF S
  <2>2. Max(S) \in S /\ \A y \in S : Max(S) >= y
    BY <2>1 DEF Max
  <2>3. Max(S) = top.i
    BY <2>1, <2>2
  <2>. QED  BY <2>3 DEF S
<1>3. new.cur = newest /\ new.buf = [s \in 0..Slots[k] - 1 |->
        IF at(s) = {} THEN Nothing ELSE CHOOSE r \in at(s) : TRUE]
  BY DEF restoreTier
<1>. HIDE DEF newest
<1>4. ASSUME NEW s \in 0..Slots[k] - 1, new.buf[s] # Nothing
      PROVE  new.buf[s] \in rows /\ pos(k, new.buf[s].i) = s
  <2>1. at(s) # {} /\ new.buf[s] = CHOOSE r \in at(s) : TRUE
    BY <1>3, <1>4
  <2>2. new.buf[s] \in at(s)
    BY <2>1
  <2>. QED  BY <2>2
<1>. QED  BY <1>2, <1>3, <1>4

\* A restored ring has nothing ahead of its current bucket.
LEMMA RestoreNoneAhead ==
  ASSUME NEW k \in Levels, NEW rows, rows \subseteq BucketOf(k), HasNewest(rows)
  PROVE  NoneAhead(k, restoreTier(k, rows))
<1>1. CASE rows = {}
  BY <1>1 DEF restoreTier, EmptyRing, NoneAhead
<1>2. CASE rows # {}
  <2>. DEFINE new == restoreTier(k, rows)
  <2>1. PICK top \in rows : \A q \in rows : q.i <= top.i
    BY <1>2 DEF HasNewest
  <2>2. /\ new.cur = top.i
        /\ \A s \in 0..Slots[k] - 1 : new.buf[s] # Nothing =>
             new.buf[s] \in rows /\ pos(k, new.buf[s].i) = s
    BY <1>2, <2>1, RestoreFields
  <2>. HIDE DEF new
  <2>3. NoneAhead(k, new)
    BY <2>1, <2>2 DEF NoneAhead
  <2>. QED  BY <2>3 DEF new
<1>. QED  BY <1>1, <1>2

\* A ring that is saved and restored has what it had.
LEMMA RestoreExactly ==
  ASSUME NEW k \in Levels, NEW ring, RingOK(k, ring)
  PROVE  Alike(k, ring, restoreTier(k, RowsOf(k, ring)))
<1>. DEFINE rows == RowsOf(k, ring)
            new == restoreTier(k, rows)
<1>1. /\ rows \subseteq BucketOf(k)
      /\ \A r \in Bucket : r \in rows <=> Has(k, ring, r.i) /\ ring.buf[pos(k, r.i)].n = r.n
      /\ \A j : Has(k, ring, j) => \E r \in rows : r.i = j
  BY RowsAre
<1>2. ring.cur \in Nat \cup {-1} /\ Slots[k] \in Nat \ {0}
  BY Ladder DEF RingOK
<1>. HIDE DEF rows
<1>3. \A r \in rows : r \in Bucket /\ Has(k, ring, r.i) /\ ring.buf[pos(k, r.i)].n = r.n
                      /\ r.i \in Nat /\ r.i <= ring.cur
  BY <1>1 DEF BucketOf, Has
<1>4. CASE ring.cur = -1
  <2>1. rows = {}
    BY <1>3, <1>4
  <2>2. new.cur = -1
    BY <2>1 DEF restoreTier, EmptyRing
  <2>3. \A j \in Nat : ~(j < ring.cur)
    BY <1>4
  <2>4. ~Has(k, ring, ring.cur) /\ ~Has(k, new, ring.cur)
    BY <1>4 DEF Has
  <2>. HIDE DEF new
  <2>5. Alike(k, ring, new)
    BY <1>4, <2>2, <2>3, <2>4 DEF Alike, AlikeBelow
  <2>. QED  BY <2>5 DEF new, rows
<1>5. CASE ring.cur # -1
  <2>1. PICK top \in rows : top.i = ring.cur
    BY <1>1, <1>5 DEF RingOK
  <2>2. \A q \in rows : q.i <= top.i
    BY <1>3, <2>1
  <2>3. /\ new.cur = ring.cur
        /\ \A s \in 0..Slots[k] - 1 : new.buf[s] # Nothing =>
             new.buf[s] \in rows /\ pos(k, new.buf[s].i) = s
    <3>1. rows # {}
      OBVIOUS
    <3>. QED  BY <1>1, <2>1, <2>2, <3>1, RestoreFields
  <2>4. Covers(k, new, rows)
    BY <1>1, <2>2, RestoreIs DEF HasNewest
  <2>. HIDE DEF new
  <2>5. ASSUME NEW j \in Nat
        PROVE  /\ Has(k, ring, j) <=> Has(k, new, j)
               /\ Has(k, ring, j) => ring.buf[pos(k, j)].n = new.buf[pos(k, j)].n
    <3>0. pos(k, j) \in 0..Slots[k] - 1
      BY PosIs
    <3>1. ASSUME Has(k, ring, j)  PROVE Has(k, new, j)
      <4>1. PICK r \in rows : r.i = j
        BY <1>1, <3>1
      <4>2. j >= Floor(k, new.cur)
        BY <2>3, <3>1 DEF Has
      <4>. QED  BY <2>4, <4>1, <4>2 DEF Covers
    <3>2. ASSUME Has(k, new, j)
          PROVE  Has(k, ring, j) /\ ring.buf[pos(k, j)].n = new.buf[pos(k, j)].n
      <4>1. new.buf[pos(k, j)] \in rows /\ new.buf[pos(k, j)].i = j
        BY <2>3, <3>0, <3>2 DEF Has
      <4>. QED  BY <1>3, <4>1
    <3>. QED  BY <3>1, <3>2
  <2>6. ring.cur \in Nat
    BY <1>2, <1>5
  <2>7. Alike(k, ring, new)
    BY <2>3, <2>5, <2>6 DEF Alike, AlikeBelow
  <2>. QED  BY <2>7 DEF new, rows
<1>. QED  BY <1>4, <1>5

-----------------------------------------------------------------------------
(* The steps.                                                              *)

\* The tiers that have one below them.
LEMMA AdjacentIs ==
  /\ \A k \in Persisted \ {1} : k \in Levels /\ k # 1 /\ k - 1 \in Levels
  /\ \A k \in Adjacent : k \in Persisted \ {1} /\ k - 1 \in Persisted
BY Ladder DEF Adjacent

LEMMA AgreeInit == StoreInit => AgreeInv
<1>. SUFFICES ASSUME StoreInit  PROVE AgreeInv
  OBVIOUS
<1>1. ASSUME NEW k \in Levels  PROVE tiers[k] = EmptyRing(k) /\ NoneAhead(k, EmptyRing(k))
  BY DEF StoreInit, NoneAhead, EmptyRing
<1>2. ASSUME NEW k \in Persisted \ {1}  PROVE PairOK(k, EmptyRing(k - 1), EmptyRing(k))
  <2>1. k \in Levels /\ k - 1 \in Levels /\ Ratio(k) \in Nat \ {0}
    BY AdjacentIs, RatioIs
  <2>2. EmptyRing(k).cur = -1 /\ EmptyRing(k - 1).cur = -1
    BY DEF EmptyRing
  <2>3. \A i : ~Has(k, EmptyRing(k), i) /\ ~Has(k - 1, EmptyRing(k - 1), i)
    BY <2>1, EmptyRingOK
  <2>. QED  BY <2>1, <2>2, <2>3 DEF PairOK
<1>3. ASSUME NEW k \in Persisted  PROVE restoreTier(k, rrd.rows[k]) = EmptyRing(k)
  BY DEF StoreInit, restoreTier
<1>4. saving = Nothing
  BY DEF StoreInit
<1>5. \A k \in Persisted \ {1} : PairOK(k, tiers[k - 1], tiers[k])
  BY <1>1, <1>2, AdjacentIs
<1>6. \A k \in Adjacent :
        PairOK(k, restoreTier(k - 1, rrd.rows[k - 1]), restoreTier(k, rrd.rows[k]))
  BY <1>2, <1>3, AdjacentIs
<1>. QED  BY <1>1, <1>4, <1>5, <1>6 DEF AgreeInv

\* What a tier is given when those below it complete.
LEMMA GivenIs ==
  ASSUME StoreTypeOK, \A k \in Levels : RingOK(k, tiers[k]), NEW d \in Nat, NEW k \in Levels,
         \A j \in 1..k - 1 : Completes(j, [t |-> clock, n |-> d])
  PROVE  \E t, n \in Nat : Given(k, [t |-> clock, n |-> d]) = [t |-> t, n |-> n] /\ t <= MaxTime
<1>. DEFINE b == [t |-> clock, n |-> d]
<1>1. CASE k = 1
  <2>1. clock \in Nat /\ clock <= MaxTime
    BY ClockAssumption DEF StoreTypeOK
  <2>. QED  BY <1>1, <2>1 DEF Given
<1>2. CASE k # 1
  <2>1. k - 1 \in Levels /\ k - 1 \in 1..k - 1
    BY <1>2, Ladder DEF Levels
  <2>. DEFINE c == tiers[k - 1].cur
              r == tiers[k - 1].buf[pos(k - 1, c)]
  <2>2. c \in Nat /\ Has(k - 1, tiers[k - 1], c)
    BY <2>1 DEF Completes, RingOK
  <2>3. pos(k - 1, c) \in 0..Slots[k - 1] - 1
    BY <2>1, <2>2, PosIs
  <2>4. r \in BucketOf(k - 1) /\ r.i = c
    BY <2>1, <2>2, <2>3 DEF RingOK, Has
  <2>5. c * Res[k - 1] \in Nat /\ c * Res[k - 1] <= MaxTime /\ r.n \in Nat
    BY <2>1, <2>2, <2>4, Ladder DEF BucketOf, Bucket
  <2>6. Given(k, b) = [t |-> c * Res[k - 1], n |-> r.n]
    BY <1>2 DEF Given, Completed
  <2>. QED  BY <2>5, <2>6
<1>. QED  BY <1>1, <1>2

\* A sample keeps each tier in step with the one below.
LEMMA PairAdds ==
  ASSUME StoreTypeOK, \A k \in Levels : RingOK(k, tiers[k]) /\ NoneAhead(k, tiers[k]),
         NEW d \in Nat, add([t |-> clock, n |-> d]),
         NEW k \in Levels, k # 1, PairOK(k, tiers[k - 1], tiers[k])
  PROVE  PairOK(k, tiers'[k - 1], tiers'[k])
<1>. DEFINE b == [t |-> clock, n |-> d]
            Takes(l) == /\ \A j \in 1..l - 1 : Completes(j, b)
                        /\ Given(l, b).t \div Res[l] >= tiers[l].cur
            c == tiers[k - 1].cur
<1>1. /\ k - 1 \in Levels /\ k - 1 \in 1..k - 1 /\ k \in Nat /\ k - 1 \in Nat
      /\ RingOK(k - 1, tiers[k - 1]) /\ RingOK(k, tiers[k])
      /\ NoneAhead(k - 1, tiers[k - 1]) /\ NoneAhead(k, tiers[k])
  <2>1. k - 1 \in Levels /\ k \in Nat /\ k >= 2
    BY RatioIs DEF Levels
  <2>. QED  BY <2>1
<1>2. \A l \in Levels :
        tiers'[l] = IF Takes(l) THEN mergeCur(l, tiers[l], Given(l, b)) ELSE tiers[l]
  BY DEF add
<1>3. Takes(k) => Takes(k - 1) /\ Completes(k - 1, b)
  <2>. HAVE Takes(k)
  <2>1. Completes(k - 1, b) /\ \A j \in 1..(k - 1) - 1 : Completes(j, b)
    BY <1>1
  <2>2. Given(k - 1, b).t \div Res[k - 1] > tiers[k - 1].cur
    BY <2>1 DEF Completes
  <2>3. Given(k - 1, b).t \div Res[k - 1] \in Int /\ tiers[k - 1].cur \in Int
    <3>1. PICK t \in Nat, n \in Nat : Given(k - 1, b) = [t |-> t, n |-> n]
      BY <1>1, <2>1, GivenIs
    <3>2. t \div Res[k - 1] \in Nat
      BY <1>1, Ladder, Division
    <3>. QED  BY <1>1, <3>1, <3>2 DEF RingOK
  <2>. QED  BY <2>1, <2>2, <2>3
<1>4. CASE ~Takes(k - 1)
  <2>1. tiers'[k - 1] = tiers[k - 1] /\ tiers'[k] = tiers[k]
    BY <1>1, <1>2, <1>3, <1>4
  <2>. QED  BY <2>1
<1>5. CASE Takes(k - 1)
  <2>1. PICK t \in Nat, n \in Nat : Given(k - 1, b) = [t |-> t, n |-> n] /\ t <= MaxTime
    BY <1>1, <1>5, GivenIs
  <2>2. t \div Res[k - 1] \in Nat /\ t \div Res[k - 1] >= c /\ c \in Nat \cup {-1}
    <3>1. t \div Res[k - 1] \in Nat
      BY <1>1, Ladder, Division
    <3>. QED  BY <1>1, <1>5, <2>1, <3>1 DEF RingOK
  <2>3. tiers'[k - 1] = mergeCur(k - 1, tiers[k - 1], [t |-> t, n |-> n])
    BY <1>1, <1>2, <1>5, <2>1
  <2>4. Completes(k - 1, b) <=> c >= 0 /\ t \div Res[k - 1] > c
    BY <2>1 DEF Completes
  <2>5. CASE c = -1
    <3>1. tiers'[k] = tiers[k]
      BY <1>2, <1>3, <2>4, <2>5
    <3>. QED  BY <1>1, <2>1, <2>3, <2>5, <3>1, PairStarts
  <2>6. CASE t \div Res[k - 1] = c
    <3>1. tiers'[k] = tiers[k]
      BY <1>2, <1>3, <2>2, <2>4, <2>6
    <3>. QED  BY <1>1, <2>1, <2>3, <2>6, <3>1, PairStays
  <2>7. CASE c # -1 /\ t \div Res[k - 1] # c
    <3>1. c \in Nat /\ t \div Res[k - 1] > c /\ Completes(k - 1, b)
      BY <2>2, <2>4, <2>7
    <3>2. Given(k, b) = [t |-> c * Res[k - 1], n |-> tiers[k - 1].buf[pos(k - 1, c)].n]
      BY DEF Given, Completed
    <3>. DEFINE given == [t |-> c * Res[k - 1], n |-> tiers[k - 1].buf[pos(k - 1, c)].n]
    <3>3. /\ PairOK(k, mergeCur(k - 1, tiers[k - 1], [t |-> t, n |-> n]), mergeCur(k, tiers[k], given))
          /\ (c * Res[k - 1]) \div Res[k] >= tiers[k].cur
      BY <1>1, <2>1, <3>1, PairCascades
    <3>4. Takes(k)
      <4>1. \A j \in 1..k - 1 : j = k - 1 \/ j \in 1..(k - 1) - 1
        BY <1>1
      <4>2. \A j \in 1..k - 1 : Completes(j, b)
        BY <1>5, <3>1, <4>1
      <4>. QED  BY <3>2, <3>3, <4>2
    <3>5. tiers'[k] = mergeCur(k, tiers[k], given)
      BY <1>2, <3>2, <3>4
    <3>. QED  BY <2>3, <3>3, <3>5
  <2>. QED  BY <2>5, <2>6, <2>7
<1>. QED  BY <1>4, <1>5

\* A sample keeps all the tiers in step.
LEMMA SampleAgrees ==
  ASSUME HistoryInv, AgreeInv, NEW d \in Nat, add([t |-> clock, n |-> d]),
         UNCHANGED <<saving, rrd, crashes>>
  PROVE  AgreeInv'
<1>. DEFINE b == [t |-> clock, n |-> d]
<1>1. StoreTypeOK /\ \A k \in Levels : RingOK(k, tiers[k]) /\ NoneAhead(k, tiers[k])
  BY DEF HistoryInv, TiersInv, AgreeInv
<1>2. ASSUME NEW k \in Levels  PROVE NoneAhead(k, tiers'[k])
  <2>1. CASE tiers'[k] = tiers[k]
    BY <1>1, <2>1
  <2>2. CASE tiers'[k] # tiers[k]
    <3>1. /\ tiers'[k] = mergeCur(k, tiers[k], Given(k, b))
          /\ \A j \in 1..k - 1 : Completes(j, b)
          /\ Given(k, b).t \div Res[k] >= tiers[k].cur
      BY <2>2 DEF add
    <3>2. PICK t \in Nat, n \in Nat : Given(k, b) = [t |-> t, n |-> n] /\ t <= MaxTime
      BY <1>1, <3>1, GivenIs
    <3>3. t \div Res[k] \in Nat
      BY Ladder, Division
    <3>. QED  BY <1>1, <3>1, <3>2, <3>3, MergeExactly DEF Counted
  <2>. QED  BY <2>1, <2>2
<1>3. ASSUME NEW k \in Persisted \ {1}, k - 1 \in Persisted \/ crashes = 0
      PROVE  PairOK(k, tiers'[k - 1], tiers'[k])
  BY <1>1, <1>3, AdjacentIs, PairAdds DEF AgreeInv
<1>4. saving' = saving /\ rrd' = rrd /\ crashes' = crashes
  OBVIOUS
<1>. QED  BY <1>2, <1>3, <1>4 DEF AgreeInv, SavedRows, Landing

\* What a save that has just been taken will make of the rows of a tier.
LEMMA LandingIs ==
  ASSUME TiersInv, NEW k \in Persisted, NEW ts,
         ts.rows = RowsOf(k, tiers[k]), ts.floor = Floor(k, tiers[k].cur), ts.dirty = lastCurT[k]
  PROVE  Upsert(rrd.rows[k], ts) = ts.rows
<1>. DEFINE new == {r \in ts.rows : r.i >= ts.dirty}
            kept == {r \in rrd.rows[k] : r.i >= ts.floor /\ r.i \notin {q.i : q \in new}}
<1>1. k \in Levels /\ DiskInv(k) /\ RingOK(k, tiers[k])
  BY Ladder DEF TiersInv
<1>2. /\ ts.rows \subseteq BucketOf(k)
      /\ \A r \in Bucket : r \in ts.rows <=>
           Has(k, tiers[k], r.i) /\ tiers[k].buf[pos(k, r.i)].n = r.n
      /\ \A j : Has(k, tiers[k], j) => \E r \in ts.rows : r.i = j
  BY <1>1, RowsAre
<1>3. Upsert(rrd.rows[k], ts) = kept \cup new
  BY DEF Upsert
<1>4. \A r \in rrd.rows[k] \cup ts.rows : r \in Bucket /\ r.i \in Nat
  BY <1>1, <1>2 DEF DiskInv, BucketOf, Bucket
<1>5. lastCurT[k] \in Int /\ ts.dirty \in Int
  BY <1>1 DEF DiskInv
<1>6. ASSUME NEW r \in kept  PROVE r \in ts.rows
  <2>1. r \in rrd.rows[k] /\ r \in Bucket /\ r.i \in Nat /\ r.i >= Floor(k, tiers[k].cur)
    BY <1>4
  <2>2. Has(k, tiers[k], r.i)
    BY <1>1, <2>1 DEF DiskInv, Covers
  <2>3. r.i < ts.dirty
    <3>1. PICK q \in ts.rows : q.i = r.i
      BY <1>2, <2>2
    <3>2. q \notin new
      BY <3>1
    <3>. QED  BY <1>5, <2>1, <3>1, <3>2
  <2>. QED  BY <1>1, <1>2, <2>1, <2>3 DEF DiskInv, SameBelow
<1>7. ASSUME NEW r \in ts.rows, r \notin new  PROVE r \in kept
  <2>1. r \in Bucket /\ r.i \in Nat /\ r.i < ts.dirty
    BY <1>4, <1>5, <1>7
  <2>2. r.i >= Floor(k, tiers[k].cur) /\ Has(k, tiers[k], r.i) /\ tiers[k].buf[pos(k, r.i)].n = r.n
    BY <1>2, <2>1 DEF Has
  <2>3. r \in rrd.rows[k]
    BY <1>1, <2>1, <2>2 DEF DiskInv, SameBelow
  <2>4. r.i \notin {q.i : q \in new}
    BY <1>4, <1>5, <2>1
  <2>. QED  BY <2>2, <2>3, <2>4
<1>. QED  BY <1>3, <1>6, <1>7

\* A save takes tiers that are in step, and what it leaves on disk will be what it took.
LEMMA TakesAgrees == HistoryInv /\ AgreeInv /\ FlushTakes => AgreeInv'
<1>. SUFFICES ASSUME HistoryInv, AgreeInv, FlushTakes  PROVE AgreeInv'
  OBVIOUS
<1>1. TiersInv /\ UNCHANGED <<tiers, rrd, crashes>>
  BY DEF HistoryInv, FlushTakes
<1>2. DOMAIN saving'.tiers = {k \in Persisted : tiers[k].cur >= 0}
  BY DEF FlushTakes
<1>3. ASSUME NEW k \in Persisted
      PROVE  k \in Levels /\ RingOK(k, tiers[k]) /\ SavedRows(k)' = RowsOf(k, tiers[k])
  <2>1. k \in Levels /\ RingOK(k, tiers[k])
    BY <1>1, Ladder DEF TiersInv
  <2>2. CASE tiers[k].cur >= 0
    <3>1. saving'.tiers[k].rows = {[i |-> i, n |-> BytesOf(k, i)] : i \in Held(k)}
      BY <2>2 DEF FlushTakes
    <3>2. Held(k) = {i \in 0..tiers[k].cur : Has(k, tiers[k], i)}
      <4>1. tiers[k].cur \in Int /\ Floor(k, tiers[k].cur) \in Int
        BY <2>1, Ladder DEF RingOK, Floor
      <4>. QED  BY <4>1 DEF Held, valid, Has
    <3>. QED  BY <1>2, <2>1, <2>2, <3>1, <3>2 DEF SavedRows, RowsOf, BytesOf
  <2>3. CASE ~(tiers[k].cur >= 0)
    <3>1. tiers[k].cur = -1
      BY <2>1, <2>3 DEF RingOK
    <3>2. RowsOf(k, tiers[k]) = {}
      BY <3>1 DEF RowsOf
    <3>. QED  BY <1>2, <2>1, <2>3, <3>2 DEF SavedRows
  <2>. QED  BY <2>2, <2>3
<1>4. ASSUME NEW k \in Adjacent
      PROVE  PairOK(k, restoreTier(k - 1, SavedRows(k - 1)'), restoreTier(k, SavedRows(k)'))
  <2>1. /\ k \in Levels /\ k # 1 /\ k - 1 \in Levels /\ k - 1 \in Persisted /\ k \in Persisted \ {1}
        /\ RingOK(k, tiers[k]) /\ RingOK(k - 1, tiers[k - 1])
        /\ SavedRows(k)' = RowsOf(k, tiers[k])
        /\ SavedRows(k - 1)' = RowsOf(k - 1, tiers[k - 1])
    BY <1>3, AdjacentIs
  <2>2. PairOK(k, tiers[k - 1], tiers[k])
    BY <2>1 DEF AgreeInv
  <2>3. /\ AlikeBelow(k - 1, tiers[k - 1], restoreTier(k - 1, RowsOf(k - 1, tiers[k - 1])))
        /\ Alike(k, tiers[k], restoreTier(k, RowsOf(k, tiers[k])))
    BY <2>1, RestoreExactly DEF Alike
  <2>. QED  BY <2>1, <2>2, <2>3, PairAlike
<1>5. ASSUME NEW k \in Persisted  PROVE Landing(k)' = SavedRows(k)'
  <2>1. CASE k \in DOMAIN saving'.tiers
    <3>. DEFINE ts == saving'.tiers[k]
    <3>1. ts.floor = Floor(k, tiers[k].cur) /\ ts.dirty = lastCurT[k]
      BY <1>2, <2>1 DEF FlushTakes
    <3>2. ts.rows = RowsOf(k, tiers[k])
      BY <1>3, <2>1 DEF SavedRows
    <3>. HIDE DEF ts
    <3>3. Upsert(rrd.rows[k], ts) = ts.rows
      BY <1>1, <3>1, <3>2, LandingIs
    <3>. QED  BY <1>1, <2>1, <3>3 DEF Landing, SavedRows, ts, Upsert
  <2>2. CASE k \notin DOMAIN saving'.tiers
    <3>1. k \in Levels /\ DiskInv(k) /\ tiers[k].cur = -1 /\ Slots[k] \in Nat \ {0}
      BY <1>1, <1>2, <2>2, Ladder DEF TiersInv, RingOK
    <3>2. ASSUME NEW r \in rrd.rows[k]  PROVE FALSE
      <4>1. r.i \in Nat
        BY <3>1 DEF DiskInv, BucketOf, Bucket
      <4>2. r.i >= Floor(k, tiers[k].cur)
        BY <3>1, <4>1 DEF Floor
      <4>3. Has(k, tiers[k], r.i)
        BY <3>1, <4>2 DEF DiskInv, Covers
      <4>. QED  BY <3>1, <4>1, <4>3 DEF Has
    <3>. QED  BY <1>1, <2>2, <3>2 DEF Landing, SavedRows
  <2>. QED  BY <2>1, <2>2
<1>6. /\ \A k \in Levels : NoneAhead(k, tiers'[k])
      /\ \A k \in Persisted \ {1} :
           k - 1 \in Persisted \/ crashes' = 0 => PairOK(k, tiers'[k - 1], tiers'[k])
      /\ \A k \in Adjacent :
           PairOK(k, restoreTier(k - 1, rrd'.rows[k - 1]), restoreTier(k, rrd'.rows[k]))
  BY <1>1 DEF AgreeInv
<1>. QED  BY <1>4, <1>5, <1>6 DEF AgreeInv

\* When it lands, the disk has what it took.
LEMMA LandsAgrees == HistoryInv /\ AgreeInv /\ SaveLands => AgreeInv'
<1>. SUFFICES ASSUME HistoryInv, AgreeInv, SaveLands  PROVE AgreeInv'
  OBVIOUS
<1>1. /\ UNCHANGED <<tiers, crashes>> /\ saving # Nothing /\ ~saving.landed
      /\ saving'.tiers = saving.tiers /\ saving'.landed
  BY DEF HistoryInv, SnapshotInv, SaveLands
<1>2. ASSUME NEW k \in Persisted  PROVE rrd'.rows[k] = SavedRows(k) /\ SavedRows(k)' = SavedRows(k)
  <2>1. rrd'.rows[k] = Landing(k)
    BY DEF SaveLands, Landing
  <2>2. Landing(k) = SavedRows(k)
    BY <1>1 DEF AgreeInv
  <2>. QED  BY <1>1, <2>1, <2>2 DEF SavedRows
<1>3. ASSUME NEW k \in Adjacent
      PROVE  /\ PairOK(k, restoreTier(k - 1, rrd'.rows[k - 1]), restoreTier(k, rrd'.rows[k]))
             /\ PairOK(k, restoreTier(k - 1, SavedRows(k - 1)'), restoreTier(k, SavedRows(k)'))
  <2>1. PairOK(k, restoreTier(k - 1, SavedRows(k - 1)), restoreTier(k, SavedRows(k)))
    BY <1>1 DEF AgreeInv
  <2>2. k \in Persisted /\ k - 1 \in Persisted
    BY AdjacentIs
  <2>. QED  BY <1>2, <2>1, <2>2
<1>4. /\ \A k \in Levels : NoneAhead(k, tiers'[k])
      /\ \A k \in Persisted \ {1} :
           k - 1 \in Persisted \/ crashes' = 0 => PairOK(k, tiers'[k - 1], tiers'[k])
  BY <1>1 DEF AgreeInv
<1>. QED  BY <1>1, <1>3, <1>4 DEF AgreeInv

\* A restart makes of the memory what the disk restores to.
LEMMA ReopenAgrees == HistoryInv /\ AgreeInv /\ Reopen => AgreeInv'
<1>. SUFFICES ASSUME HistoryInv, AgreeInv, Reopen  PROVE AgreeInv'
  OBVIOUS
<1>1. /\ rrd' = rrd /\ saving' = Nothing /\ crashes' = crashes + 1 /\ crashes \in Nat
      /\ tiers' = [k \in Levels |->
           IF k \in Persisted THEN restoreTier(k, rrd.rows[k]) ELSE EmptyRing(k)]
  BY LadderAssumption DEF Reopen, HistoryInv, StoreTypeOK
<1>2. ASSUME NEW k \in Levels  PROVE NoneAhead(k, tiers'[k])
  <2>1. CASE k \in Persisted
    <3>1. tiers'[k] = restoreTier(k, rrd.rows[k]) /\ rrd.rows[k] \subseteq BucketOf(k)
          /\ HasNewest(rrd.rows[k])
      BY <1>1, <2>1 DEF HistoryInv, TiersInv, DiskInv
    <3>. QED  BY <3>1, RestoreNoneAhead
  <2>2. CASE k \notin Persisted
    BY <1>1, <2>2 DEF EmptyRing, NoneAhead
  <2>. QED  BY <2>1, <2>2
<1>3. ASSUME NEW k \in Persisted \ {1}, k - 1 \in Persisted \/ crashes' = 0
      PROVE  PairOK(k, tiers'[k - 1], tiers'[k])
  <2>1. k \in Adjacent /\ k \in Levels /\ k - 1 \in Levels
    BY <1>1, <1>3, AdjacentIs DEF Adjacent
  <2>2. tiers'[k] = restoreTier(k, rrd.rows[k]) /\ tiers'[k - 1] = restoreTier(k - 1, rrd.rows[k - 1])
    BY <1>1, <2>1, AdjacentIs
  <2>. QED  BY <2>1, <2>2 DEF AgreeInv
<1>. QED  BY <1>1, <1>2, <1>3 DEF AgreeInv

LEMMA AgreeStep == HistoryInv /\ AgreeInv /\ [StoreNext]_storeVars => AgreeInv'
<1>. SUFFICES ASSUME HistoryInv, AgreeInv, [StoreNext]_storeVars  PROVE AgreeInv'
  OBVIOUS
<1>1. ASSUME UNCHANGED <<tiers, rrd, crashes>>, saving' = saving \/ saving' = Nothing
      PROVE  AgreeInv'
  BY <1>1 DEF AgreeInv, SavedRows, Landing
<1>2. ASSUME NEW d \in 0..1, Sample(d)  PROVE AgreeInv'
  <2>1. /\ UNCHANGED <<saving, rrd, crashes>>
        /\ UNCHANGED tiers \/ add([t |-> clock, n |-> d])
    BY <1>2 DEF Sample
  <2>. QED  BY <1>1, <2>1, SampleAgrees
<1>3. ASSUME NEW gap \in 1..MaxGap, Tick(gap)  PROVE AgreeInv'
  BY <1>1, <1>3 DEF Tick
<1>4. ASSUME NEW a \in Agents, NEW deep \in BOOLEAN, SampleAgent(a, deep)  PROVE AgreeInv'
  BY <1>1, <1>4 DEF SampleAgent
<1>5. CASE SaveFails
  BY <1>1, <1>5 DEF SaveFails
<1>6. CASE FlushMarks
  BY <1>1, <1>6 DEF FlushMarks
<1>7. CASE UNCHANGED storeVars
  BY <1>1, <1>7 DEF storeVars
<1>. QED
  BY <1>2, <1>3, <1>4, <1>5, <1>6, <1>7, TakesAgrees, LandsAgrees, ReopenAgrees DEF StoreNext

\* SumBelow is the sum over the completed buckets.
LEMMA SumBelowIs ==
  ASSUME NEW k \in Levels, k # 1, RingOK(k - 1, tiers[k - 1]), NEW i
  PROVE  SumBelow(k, i) = BytesOfRing(k - 1, tiers[k - 1], Part(k, tiers[k - 1], i))
<1>. DEFINE below == {j \in Held(k - 1) : j \div (Res[k] \div Res[k - 1]) = i /\ j < tiers[k - 1].cur}
            bytes == [j \in below |-> BytesOf(k - 1, j)]
<1>1. SumBelow(k, i) = Total(bytes, DOMAIN bytes)
  BY DEF SumBelow, FoldFunction, Total
<1>2. below = Part(k, tiers[k - 1], i)
  <2>1. tiers[k - 1].cur \in Int /\ Floor(k - 1, tiers[k - 1].cur) \in Int
    BY RatioIs, Ladder DEF RingOK, Floor
  <2>2. \A j : j \in Held(k - 1) <=> Has(k - 1, tiers[k - 1], j)
    BY <2>1 DEF Held, valid, Has
  <2>3. \A j : Has(k - 1, tiers[k - 1], j) => j \in Nat
    BY DEF Has
  <2>. QED  BY <2>1, <2>2, <2>3 DEF Part, Ratio
<1>3. bytes = [j \in Part(k, tiers[k - 1], i) |-> tiers[k - 1].buf[pos(k - 1, j)].n]
  BY <1>2 DEF BytesOf
<1>4. DOMAIN bytes = Part(k, tiers[k - 1], i)
  BY <1>3
<1>. HIDE DEF bytes
<1>. QED  BY <1>1, <1>3, <1>4 DEF BytesOfRing

LEMMA AgreeGives == HistoryInv /\ AgreeInv => TiersAgree
<1>. SUFFICES ASSUME HistoryInv, AgreeInv, NEW k \in Persisted \ {1},
                     k - 1 \in Persisted \/ crashes = 0, NEW i \in Held(k),
                     i * (Res[k] \div Res[k - 1]) >= Floor(k - 1, tiers[k - 1].cur)
              PROVE  BytesOf(k, i) = SumBelow(k, i)
  BY DEF TiersAgree
<1>1. /\ k \in Levels /\ k # 1 /\ k - 1 \in Levels /\ RingOK(k, tiers[k])
      /\ RingOK(k - 1, tiers[k - 1]) /\ PairOK(k, tiers[k - 1], tiers[k])
  BY AdjacentIs DEF HistoryInv, TiersInv, AgreeInv
<1>2. Has(k, tiers[k], i) /\ i \in Nat
  BY DEF Held, valid, Has
<1>3. BytesOf(k, i) = BytesOfRing(k - 1, tiers[k - 1], Part(k, tiers[k - 1], i))
  BY <1>1, <1>2 DEF PairOK, BytesOf, Ratio
<1>. QED  BY <1>1, <1>3, SumBelowIs

(***************************************************************************)
(* A bucket of a coarser tier holds exactly the bytes of the completed     *)
(* buckets of the next finer tier that make it up, as long as that one     *)
(* still has them all: no cascade drops or repeats a byte, whatever the    *)
(* gaps between samples, and neither does a restart from rows of which     *)
(* each save wrote only the newer ones. The code: the cascade of           *)
(* history.add, snapshotLocked, DB.SaveStats and restoreTier.              *)
(***************************************************************************)
THEOREM HistoryIsCountedOnce == StoreSpec => []TiersAgree
<1>1. StoreInit => HistoryInv /\ AgreeInv
  BY HistoryTypeInit, TiersInit, AgentsInit, AgreeInit DEF HistoryInv
<1>2. HistoryInv /\ AgreeInv /\ [StoreNext]_storeVars => HistoryInv' /\ AgreeInv'
  BY TiersStep, AgentsStep, HistoryTypeStep, AgreeStep DEF HistoryInv
<1>. QED  BY <1>1, <1>2, AgreeGives, PTL DEF StoreSpec
=============================================================================
