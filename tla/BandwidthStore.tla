---------------------------- MODULE BandwidthStore ----------------------------
(***************************************************************************)
(* The bandwidth history (stats.go) and its periodic save (Flush, and the  *)
(* SaveStats and LoadStats of analytics/statspersist.go): a ladder of      *)
(* rings of buckets, where a completed bucket cascades into the next tier, *)
(* the histories of agents behind it with the oldest evicted, and a save   *)
(* that writes without the lock while sampling goes on.                    *)
(*                                                                         *)
(* A bucket is its index and its bytes; rates and gauges, the peers and    *)
(* the lifetime counters are left out. The tiers are those of the whole    *)
(* gateway; of an agent's history there is only whether its persisted      *)
(* tiers hold anything.                                                    *)
(*                                                                         *)
(* A definition named X_Y is not part of the model: it is X with the bug Y *)
(* put in, and some property must fail when it takes the place of X.       *)
(***************************************************************************)
EXTENDS Integers, FiniteSets, FiniteSetsExt, Functions, Sequences

CONSTANTS
  Res,         \* tierSpecs: resolution of each tier
  Slots,       \* and the number of its slots
  Persisted,   \* and the tiers that are saved
  Agents,
  MaxAgents,   \* maxAgentHistories
  MaxGap,      \* bound: time from one sample to the next
  MaxTime,     \* bound: the clock
  MaxCrashes,  \* bound: ends of the process
  Nothing

ASSUME LadderAssumption ==
  /\ Res \in Seq(Nat \ {0}) /\ Slots \in Seq(Nat \ {0})
  /\ Len(Res) = Len(Slots) /\ Persisted \subseteq 1..Len(Res)
  /\ \A k \in 2..Len(Res) : Res[k] % Res[k - 1] = 0
  /\ MaxAgents \in Nat \ {0} /\ MaxTime \in Nat /\ MaxCrashes \in Nat
  /\ MaxGap \in Nat \ {0}

Levels == 1..Len(Res)
Bucket == [i : Nat, n : Nat]
History == [touched : Nat, rows : BOOLEAN]   \* of an agent: last sample, persisted tiers

\* The first time of all, which no tier has in its bucket 0: that one is 1970's, and
\* restoreTier would drop it.
Dawn == Res[Len(Res)] + 1

ASSUME ClockAssumption == Dawn \in 1..MaxTime
ASSUME NothingAssumption == Nothing \notin Bucket \cup History

VARIABLES
  clock,     \* unix time, in units of the finest bucket
  tiers,     \* tiers[k]: [cur, buf], cur is -1 when empty
  lastT,     \* the last sample's time, or Nothing before the baseline
  lastCurT,  \* lastCurT[k]: the current bucket at the last successful save, or -1
  histories, \* [Agents -> [touched, rows] or Nothing]: store.agents
  evicted,   \* agents whose rows the next save deletes
  saving,    \* the snapshot that Flush is saving, or Nothing
  rrd,       \* the table: [rows : [Persisted -> buckets], agents : agents with rows]
  crashes

storeVars == <<clock, tiers, lastT, lastCurT, histories, evicted, saving, rrd, crashes>>

EmptyRing(k) == [cur |-> -1, buf |-> [s \in 0..Slots[k] - 1 |-> Nothing]]
NoMarks == [k \in Persisted |-> -1]

StoreTypeOK ==
  /\ clock \in Dawn..MaxTime
  /\ \A k \in Levels : /\ tiers[k].cur \in -1..MaxTime
                       /\ tiers[k].buf \in [0..Slots[k] - 1 -> Bucket \cup {Nothing}]
  /\ lastT \in 0..MaxTime \cup {Nothing} /\ lastCurT \in [Persisted -> -1..MaxTime]
  /\ histories \in [Agents -> History \cup {Nothing}] /\ evicted \subseteq Agents
  /\ saving # Nothing =>
       /\ saving.landed \in BOOLEAN
       /\ saving.delete \subseteq Agents /\ saving.agents \subseteq Agents
       /\ DOMAIN saving.tiers \subseteq Persisted
       /\ \A k \in DOMAIN saving.tiers : saving.tiers[k].rows \subseteq Bucket
  /\ rrd \in [rows : [Persisted -> SUBSET Bucket], agents : SUBSET Agents]
  /\ crashes \in 0..MaxCrashes

StoreInit ==
  /\ clock = Dawn /\ tiers = [k \in Levels |-> EmptyRing(k)]
  /\ lastT = Nothing /\ lastCurT = NoMarks
  /\ histories = [a \in Agents |-> Nothing] /\ evicted = {} /\ saving = Nothing
  /\ rrd = [rows |-> [k \in Persisted |-> {}], agents |-> {}]
  /\ crashes = 0

-----------------------------------------------------------------------------
\* A ring.

pos(k, i) == i % Slots[k]

\* The oldest index that the ring has a slot for.
Floor(k, cur) == cur - Slots[k] + 1

valid(k, i) ==
  /\ i \in Nat /\ i <= tiers[k].cur /\ i >= Floor(k, tiers[k].cur)
  /\ tiers[k].buf[pos(k, i)] # Nothing /\ tiers[k].buf[pos(k, i)].i = i

Held(k) == {i \in Floor(k, tiers[k].cur)..tiers[k].cur : valid(k, i)}
BytesOf(k, i) == tiers[k].buf[pos(k, i)].n

mergeCur_Lapped(k, r, b) ==
  LET i == b.t \div Res[k]
      old == r.buf[pos(k, i)]
  IN [cur |-> i, buf |-> [r.buf EXCEPT ![pos(k, i)] =
       [i |-> i, n |-> b.n + IF old = Nothing THEN 0 ELSE old.n]]]

\* start and mergeCur: the current bucket takes a point in, or a new one starts with it.
mergeCur(k, r, b) ==
  LET i == b.t \div Res[k] IN
  [cur |-> i, buf |-> [r.buf EXCEPT ![pos(k, i)] =
    [i |-> i, n |-> b.n + IF i = r.cur THEN @.n ELSE 0]]]

Completed_AtNow(k, b) ==
  [t |-> b.t, n |-> tiers[k].buf[pos(k, tiers[k].cur)].n]

\* The bucket that a point completes, under its own time.
Completed(k, b) ==
  [t |-> tiers[k].cur * Res[k], n |-> tiers[k].buf[pos(k, tiers[k].cur)].n]

\* What tier k is given when each tier below it completes a bucket, from the sample up.
Given(k, b) == IF k = 1 THEN b ELSE Completed(k - 1, b)
Completes(k, b) == tiers[k].cur >= 0 /\ Given(k, b).t \div Res[k] > tiers[k].cur

\* history.add; a tier that is ahead of the point drops it, and nothing cascades.
add(b) ==
  tiers' = [k \in Levels |->
    IF /\ \A j \in 1..k - 1 : Completes(j, b)
       /\ Given(k, b).t \div Res[k] >= tiers[k].cur
    THEN mergeCur(k, tiers[k], Given(k, b)) ELSE tiers[k]]

\* Sample: the first one after a start is only the baseline, and a clock that has not
\* moved on is passed over; the bytes it would have counted come with the next.
Sample(d) ==
  /\ IF lastT = Nothing THEN lastT' = clock /\ UNCHANGED tiers
     ELSE clock > lastT /\ lastT' = clock /\ add([t |-> clock, n |-> d])
  /\ UNCHANGED <<clock, lastCurT, histories, evicted, saving, rrd, crashes>>

Tick(gap) ==
  /\ clock + gap <= MaxTime /\ clock' = clock + gap
  /\ UNCHANGED <<tiers, lastT, lastCurT, histories, evicted, saving, rrd, crashes>>

-----------------------------------------------------------------------------
\* The histories of agents.

Live == {a \in Agents : histories[a] # Nothing}
Oldest == {a \in Live : \A b \in Live : histories[a].touched <= histories[b].touched}

\* SampleAgent, with evictAgentIfFullLocked; deep: the points have by now completed a
\* bucket of a persisted tier.
SampleAgent(a, deep) ==
  /\ IF a \in Live
     THEN /\ histories' = [histories EXCEPT ![a] = [touched |-> clock, rows |-> @.rows \/ deep]]
          /\ UNCHANGED evicted
     ELSE /\ ~deep
          /\ \E out \in IF Cardinality(Live) < MaxAgents THEN {{}} ELSE {{v} : v \in Oldest} :
               /\ histories' = [b \in Agents |->
                    IF b = a THEN [touched |-> clock, rows |-> FALSE]
                    ELSE IF b \in out THEN Nothing ELSE histories[b]]
               /\ evicted' = (evicted \cup out) \ {a}
  /\ UNCHANGED <<clock, tiers, lastT, lastCurT, saving, rrd, crashes>>

-----------------------------------------------------------------------------
\* Flush. It runs again only when it has ended: flushMu.

\* snapshotLocked, with the lock held.
FlushTakes ==
  /\ saving = Nothing
  /\ saving' =
       [landed |-> FALSE, delete |-> evicted, agents |-> {a \in Live : histories[a].rows},
        tiers |-> [k \in {k \in Persisted : tiers[k].cur >= 0} |->
          [rows  |-> {[i |-> i, n |-> BytesOf(k, i)] : i \in Held(k)},
           floor |-> Floor(k, tiers[k].cur), dirty |-> lastCurT[k]]]]
  /\ UNCHANGED <<clock, tiers, lastT, lastCurT, histories, evicted, rrd, crashes>>

\* One tier of SaveStats: lapped rows go, rows that may have changed are replaced.
Upsert(old, ts) ==
  LET new == {r \in ts.rows : r.i >= ts.dirty} IN
  {r \in old : r.i >= ts.floor /\ r.i \notin {q.i : q \in new}} \cup new

\* SaveStats, in one transaction and without the lock.
SaveLands ==
  /\ saving # Nothing /\ ~saving.landed
  /\ rrd' = [rows   |-> [k \in Persisted |->
                IF k \in DOMAIN saving.tiers THEN Upsert(rrd.rows[k], saving.tiers[k])
                ELSE rrd.rows[k]],
             agents |-> (rrd.agents \ saving.delete) \cup saving.agents]
  /\ saving' = [saving EXCEPT !.landed = TRUE]
  /\ UNCHANGED <<clock, tiers, lastT, lastCurT, histories, evicted, crashes>>

SaveFails ==
  /\ saving # Nothing /\ ~saving.landed /\ saving' = Nothing
  /\ UNCHANGED <<clock, tiers, lastT, lastCurT, histories, evicted, rrd, crashes>>

FlushMarks_AtCurrent ==
  /\ saving # Nothing /\ saving.landed /\ saving' = Nothing
  /\ lastCurT' = [k \in Persisted |-> tiers[k].cur]
  /\ evicted' = evicted \ saving.delete
  /\ UNCHANGED <<clock, tiers, lastT, histories, rrd, crashes>>

FlushMarks_ClearsAll ==
  /\ saving # Nothing /\ saving.landed /\ saving' = Nothing
  /\ lastCurT' = [k \in Persisted |->
       IF k \in DOMAIN saving.tiers /\ saving.tiers[k].rows # {}
       THEN Max({r.i : r \in saving.tiers[k].rows}) ELSE lastCurT[k]]
  /\ evicted' = {}
  /\ UNCHANGED <<clock, tiers, lastT, histories, rrd, crashes>>

\* The lock again: what has been saved is clean, and what has been deleted is not
\* asked for again.
FlushMarks ==
  /\ saving # Nothing /\ saving.landed /\ saving' = Nothing
  /\ lastCurT' = [k \in Persisted |->
       IF k \in DOMAIN saving.tiers /\ saving.tiers[k].rows # {}
       THEN Max({r.i : r \in saving.tiers[k].rows}) ELSE lastCurT[k]]
  /\ evicted' = evicted \ saving.delete
  /\ UNCHANGED <<clock, tiers, lastT, histories, rrd, crashes>>

-----------------------------------------------------------------------------
restoreTier_Completed(k, rows) ==
  IF rows = {} THEN EmptyRing(k)
  ELSE LET newest == Max({r.i : r \in rows}) IN
    [cur |-> newest + 1,
     buf |-> [s \in 0..Slots[k] - 1 |->
       LET at == {r \in rows : pos(k, r.i) = s /\ r.i >= Floor(k, newest)} IN
       IF at = {} THEN IF s = pos(k, newest + 1) THEN [i |-> newest + 1, n |-> 0] ELSE Nothing
       ELSE CHOOSE r \in at : TRUE]]

\* restoreTier: the newest bucket is the current one again.
restoreTier(k, rows) ==
  IF rows = {} THEN EmptyRing(k)
  ELSE LET newest == Max({r.i : r \in rows}) IN
    [cur |-> newest,
     buf |-> [s \in 0..Slots[k] - 1 |->
       LET at == {r \in rows : pos(k, r.i) = s /\ r.i >= Floor(k, newest)} IN
       IF at = {} THEN Nothing ELSE CHOOSE r \in at : TRUE]]

\* The process ends, with a save under way or not, and Open loads what is on disk.
\* Meanwhile the machine's clock may have been corrected.
Reopen ==
  /\ crashes < MaxCrashes /\ crashes' = crashes + 1
  /\ clock' \in {clock, IF clock >= Dawn + MaxGap THEN clock - MaxGap ELSE clock}
  /\ tiers' = [k \in Levels |->
       IF k \in Persisted THEN restoreTier(k, rrd.rows[k]) ELSE EmptyRing(k)]
  /\ lastT' = Nothing /\ lastCurT' = NoMarks
  /\ histories' = [a \in Agents |->
       IF a \in rrd.agents THEN [touched |-> 0, rows |-> TRUE] ELSE Nothing]
  /\ evicted' = {} /\ saving' = Nothing
  /\ UNCHANGED rrd

StoreNext ==
  \/ (\E d \in 0..1 : Sample(d)) \/ (\E gap \in 1..MaxGap : Tick(gap))
  \/ (\E a \in Agents, deep \in BOOLEAN : SampleAgent(a, deep))
  \/ FlushTakes \/ SaveLands \/ SaveFails \/ FlushMarks \/ Reopen

StoreSpec == StoreInit /\ [][StoreNext]_storeVars

-----------------------------------------------------------------------------
\* The sum of the completed buckets of a tier that make up bucket i of the next.
SumBelow(k, i) ==
  LET ratio == Res[k] \div Res[k - 1]
      bytes == [j \in {j \in Held(k - 1) : j \div ratio = i /\ j < tiers[k - 1].cur} |->
                 BytesOf(k - 1, j)]
  IN FoldFunction(LAMBDA a, b : a + b, 0, bytes)

\* Across gaps, laps and restarts, every byte is counted once in every tier that is
\* saved: a bucket has what the completed ones below it have.
TiersAgree ==
  \A k \in Persisted \ {1} : k - 1 \in Persisted \/ crashes = 0 =>
    \A i \in Held(k) :
      i * (Res[k] \div Res[k - 1]) >= Floor(k - 1, tiers[k - 1].cur)
        => BytesOf(k, i) = SumBelow(k, i)

\* What the next save will pass over as unchanged is on disk as it is in memory,
\* though samples came in while the last one was written.
CleanIsSaved ==
  \A k \in Persisted :
    {r \in rrd.rows[k] : r.i >= Floor(k, tiers[k].cur) /\ r.i < lastCurT[k]}
      = {[i |-> i, n |-> BytesOf(k, i)] : i \in {j \in Held(k) : j < lastCurT[k]}}

\* An agent whose history is gone but not its rows is marked for the next save, though
\* it may return and go again while one is under way.
EvictedAreMarked == rrd.agents \ Live \subseteq evicted

\* And so the rows, and with them what a restart loads, keep to the cap.
AgentsBounded ==
  Cardinality(Live) <= MaxAgents /\ Cardinality(rrd.agents) <= MaxAgents

\* What else holds of the store in every state.
StoreSafe == StoreTypeOK /\ CleanIsSaved /\ EvictedAreMarked /\ AgentsBounded
=============================================================================
