----------------------------- MODULE AgentStore -----------------------------
(***************************************************************************)
(* The gateway's allowlist of agent identities and pairing tickets         *)
(* (agentstore.go), and the validator that admits a hello by it (auth.go   *)
(* identityValidator). The store's mutex makes each call one action; a     *)
(* Validate is two calls, Lookup and Enroll. Every change rewrites the     *)
(* file; the gateway may crash at any time and then starts from the file.  *)
(*                                                                         *)
(* A definition named X_Y is not part of the model: it is X with the bug Y *)
(* put in, and some property must fail when it takes the place of X.       *)
(***************************************************************************)
EXTENDS Naturals, FiniteSets

CONSTANTS
  Keys,        \* agents' public keys
  LabelOf,     \* [Keys -> Labels]: the agentID a key derives
  Labels,
  Tickets,
  Reusable,    \* SUBSET Tickets: tickets that enroll many agents
  Conns,       \* connections that send hellos, one after the other
  KeyOf,       \* [Conns -> Keys]
  MaySaveFail, \* may writing the file fail?
  MaxGen,      \* bound: configurations adopted for an agent
  None

ASSUME StoreAssumption ==
  /\ LabelOf \in [Keys -> Labels]
  /\ KeyOf \in [Conns -> Keys]
  /\ Reusable \subseteq Tickets
  /\ MaySaveFail \in BOOLEAN
  /\ MaxGen \in Nat
  /\ None \notin Tickets

\* What a record keeps: ticket stands for the scope it carried.
Record == [revoked : BOOLEAN, gen : 0..MaxGen, ticket : Tickets]
ASSUME NoRecordAssumption == None \notin Record

VARIABLES
  agents,      \* agents[k]: the record in memory, or None
  nonces,      \* nonces[t]: "none", "open" or "consumed", in memory
  disk,        \* the file: agents and nonces
  minted,      \* tickets that have been handed to the operator
  expired,     \* tickets whose time is over
  pc,          \* pc[c]: "idle", "hello" (before Lookup), "unknown" (before Enroll)
  carries,     \* carries[c]: the ticket of the hello, or None
  answer,      \* answer[c]: what the last hello of c was told
  authed,      \* history: <<t, k>>: k was admitted by a record that t enrolled
  revoked,     \* history: keys whose revocation has been reported done
  raced        \* history: connections whose Lookup has missed a record made since

vars == <<agents, nonces, disk, minted, expired, pc, carries, answer, authed, revoked,
          raced>>

TypeOK ==
  /\ agents \in [Keys -> Record \cup {None}]
  /\ nonces \in [Tickets -> {"none", "open", "consumed"}]
  /\ disk \in [agents : [Keys -> Record \cup {None}],
               nonces : [Tickets -> {"none", "open", "consumed"}]]
  /\ minted \subseteq Tickets /\ expired \subseteq Tickets
  /\ pc \in [Conns -> {"idle", "hello", "unknown"}]
  /\ carries \in [Conns -> Tickets \cup {None}]
  /\ answer \in [Conns -> {"none", "admitted", "revoked", "refused"}]
  /\ authed \subseteq Tickets \X Keys
  /\ revoked \subseteq Keys /\ raced \subseteq Conns

Init ==
  /\ agents = [k \in Keys |-> None]
  /\ nonces = [t \in Tickets |-> "none"]
  /\ disk = [agents |-> agents, nonces |-> nonces]
  /\ minted = {} /\ expired = {}
  /\ pc = [c \in Conns |-> "idle"]
  /\ carries = [c \in Conns |-> None]
  /\ answer = [c \in Conns |-> "none"]
  /\ authed = {} /\ revoked = {} /\ raced = {}

-----------------------------------------------------------------------------
(* The file.                                                               *)

\* Written to a temporary file and renamed: all of it or nothing.
save(ok) ==
  disk' = IF ok THEN [agents |-> agents', nonces |-> nonces'] ELSE disk

Results == {TRUE} \cup {~MaySaveFail}

\* The gateway dies with its handlers, and starts again.
Restart ==
  /\ agents' = disk.agents
  /\ nonces' = disk.nonces
  /\ pc' = [c \in Conns |-> "idle"]
  /\ carries' = [c \in Conns |-> None]
  /\ raced' = {}
  /\ UNCHANGED <<disk, minted, expired, answer, authed, revoked>>

-----------------------------------------------------------------------------
(* The operator. A label resolves to some record that has it.              *)

Holders(a) == {k \in Keys : agents[k] # None /\ LabelOf[k] = a}

IssueEnrollment(t) ==
  /\ t \notin minted /\ nonces[t] = "none"
  /\ nonces' = [nonces EXCEPT ![t] = "open"]
  /\ UNCHANGED <<agents, expired, pc, carries, answer, authed, revoked, raced>>
  /\ \E ok \in Results : save(ok) /\ minted' = IF ok THEN minted \cup {t} ELSE minted

Expire(t) ==
  /\ nonces[t] # "none" /\ t \notin expired
  /\ expired' = expired \cup {t}
  /\ UNCHANGED <<agents, nonces, disk, minted, pc, carries, answer, authed, revoked, raced>>

Revoke(a) ==
  \E k \in Holders(a) :
    /\ ~agents[k].revoked
    /\ agents' = [agents EXCEPT ![k].revoked = TRUE]
    /\ revoked' = revoked \cup {l \in Keys : LabelOf[l] = a /\ agents[l] # None}
    /\ UNCHANGED <<nonces, minted, expired, pc, carries, answer, authed, raced>>
    /\ \E ok \in Results : save(ok)

Bump_Twice(g) == g + 2
Bump(g) == g + 1
AdoptConfig(a) ==
  \E k \in Holders(a) :
    /\ agents[k].gen < MaxGen
    /\ agents' = [agents EXCEPT ![k].gen = Bump(@)]
    /\ UNCHANGED <<nonces, minted, expired, pc, carries, answer, authed, revoked, raced>>
    /\ \E ok \in Results : save(ok)

-----------------------------------------------------------------------------
(* A hello.                                                                *)

Hello(c, t) ==
  /\ pc[c] = "idle"
  /\ t \in minted \cup {None}
  /\ pc' = [pc EXCEPT ![c] = "hello"]
  /\ carries' = [carries EXCEPT ![c] = t]
  /\ answer' = [answer EXCEPT ![c] = "none"]
  /\ UNCHANGED <<agents, nonces, disk, minted, expired, authed, revoked, raced>>

Answer(c, a) ==
  /\ pc' = [pc EXCEPT ![c] = "idle"]
  /\ answer' = [answer EXCEPT ![c] = a]
  /\ carries' = [carries EXCEPT ![c] = None]

Known_Unrevoked(k) == agents[k] # None /\ ~agents[k].revoked
Known(k) == agents[k] # None

\* Enrolled keys are judged by the allowlist; their ticket is ignored.
LookupKnown(c) ==
  LET k == KeyOf[c] IN
  /\ pc[c] = "hello" /\ Known(k)
  /\ Answer(c, IF agents[k].revoked THEN "revoked" ELSE "admitted")
  /\ authed' = IF agents[k].revoked THEN authed ELSE authed \cup {<<agents[k].ticket, k>>}
  /\ UNCHANGED <<agents, nonces, disk, minted, expired, revoked, raced>>

LookupUnknown(c) ==
  /\ pc[c] = "hello" /\ ~Known(KeyOf[c])
  /\ IF carries[c] = None
     THEN Answer(c, "refused")
     ELSE pc' = [pc EXCEPT ![c] = "unknown"] /\ UNCHANGED <<answer, carries>>
  /\ UNCHANGED <<agents, nonces, disk, minted, expired, authed, revoked, raced>>

Redeemable(t) == t # None /\ nonces[t] = "open" /\ t \notin expired
Collides_Never(k) == FALSE
Collides(k) == \E l \in Holders(LabelOf[k]) : l # k
Consumed_Never(t) == nonces
Consumed(t) == IF t \in Reusable THEN nonces ELSE [nonces EXCEPT ![t] = "consumed"]

EnrollRefused(c) ==
  /\ pc[c] = "unknown"
  /\ ~Redeemable(carries[c]) \/ Collides(KeyOf[c])
  /\ Answer(c, "refused")
  /\ raced' = raced \ {c}
  /\ UNCHANGED <<agents, nonces, disk, minted, expired, authed, revoked>>

\* The hellos of a key that are between their Lookup and their Enroll.
Missing(k) == {c \in Conns : KeyOf[c] = k /\ pc[c] = "unknown"}

\* A new record, which replaces any that came since Lookup. When it cannot be
\* saved the agent is refused, but the memory keeps the change.
Enroll(c) ==
  LET k == KeyOf[c] t == carries[c] IN
  /\ pc[c] = "unknown"
  /\ Redeemable(t) /\ ~Collides(k)
  /\ agents' = [agents EXCEPT ![k] = [revoked |-> FALSE, gen |-> 0, ticket |-> t]]
  /\ nonces' = Consumed(t)
  /\ raced' = (raced \cup Missing(k)) \ {c}
  /\ UNCHANGED <<minted, expired, revoked>>
  /\ \E ok \in Results :
       /\ save(ok)
       /\ Answer(c, IF ok THEN "admitted" ELSE "refused")
       /\ authed' = IF ok THEN authed \cup {<<t, k>>} ELSE authed

-----------------------------------------------------------------------------
Next ==
  \/ \E c \in Conns :
       \/ \E t \in Tickets \cup {None} : Hello(c, t)
       \/ LookupKnown(c) \/ LookupUnknown(c) \/ EnrollRefused(c) \/ Enroll(c)
  \/ \E t \in Tickets : IssueEnrollment(t) \/ Expire(t)
  \/ \E a \in Labels : Revoke(a) \/ AdoptConfig(a)
  \/ Restart

Spec == Init /\ [][Next]_vars

-----------------------------------------------------------------------------
(* Properties.                                                             *)

\* A single-use ticket admits at most one agent, across restarts.
SingleUse ==
  \A t \in Tickets \ Reusable : Cardinality({k \in Keys : <<t, k>> \in authed}) <= 1

\* The agentID is a true primary key: a management call names one record.
LabelIsKey == \A a \in Labels : Cardinality(Holders(a)) <= 1

\* What the store holds in memory and on disk is well formed, and keyed.
StoreIsKeyed == TypeOK /\ LabelIsKey

\* A revoked agent is never admitted again, across restarts: the revocation that
\* was reported to the operator is the last word on its key. It does not hold: see
\* the run revocation_lost.
RevocationSticks ==
  [][\A c \in Conns : answer[c] # "admitted" /\ answer'[c] = "admitted"
       => KeyOf[c] \notin revoked]_vars

\* A record is forever: whatever the operator has set on it (the revocation, the
\* generation of its configuration) is never taken back, unless by the Enroll of
\* a hello that had missed the record when it was being made by another hello.
RecordSurvives ==
  [][\A k \in Keys :
       agents[k] # None /\ ~(\E c \in raced : KeyOf[c] = k /\ Enroll(c)) =>
         /\ agents'[k] # None
         /\ agents'[k].gen >= agents[k].gen
         /\ agents[k].revoked => agents'[k].revoked]_vars

=============================================================================
