----------------------------- MODULE WriteQueue ------------------------------
(***************************************************************************)
(* The queue of writes in front of the analytics database (db.go): the     *)
(* goroutines of the data path enqueue and must not wait for SQLite, one   *)
(* writer lands what is queued in batches, a barrier waits for what is     *)
(* before it, and Close drains.                                            *)
(*                                                                         *)
(* A write is the n-th of its producer, a barrier is known by its caller.  *)
(* What a write does, and whether the batch commits, is left out: a batch  *)
(* that fails is logged and treated as one that has run.                   *)
(*                                                                         *)
(* A definition named X_Y is not part of the model: it is X with the bug Y *)
(* put in, and some property must fail when it takes the place of X.       *)
(***************************************************************************)
EXTENDS Integers, FiniteSets, Sequences, SequencesExt

CONSTANTS
  Producers,   \* goroutines that call Enqueue or Barrier
  QueueCap,    \* writeQueueCap
  BatchMax,    \* batchMax
  Askers,      \* those that call Barrier
  MaxWrites,   \* bound: writes of a producer
  WritesOf     \* bound: [Producers -> 0..MaxWrites], how many each of them makes

ASSUME QueueAssumption ==
  /\ QueueCap \in Nat \ {0} /\ BatchMax \in Nat \ {0} /\ MaxWrites \in Nat
  /\ Askers \subseteq Producers /\ WritesOf \in [Producers -> 0..MaxWrites]

Writes == [by : Producers, nth : 1..MaxWrites]
ASSUME NamesAssumption == Producers \cap Writes = {}
Ops == Writes \cup Producers
IsBarrier(o) == o \in Producers

VARIABLES
  at,        \* at[p]: where the call of p is
  made,      \* made[p]: how many writes p has called Enqueue for
  victim,    \* the barrier that the holder of qmu has taken out of writeC, if any
  writeC,    \* the channel
  pending,   \* the writer's batch
  ran,       \* what the batches have run, in order (a barrier runs nothing)
  closed,    \* barriers whose done channel is closed
  covers,    \* covers[p]: the writes that were queued before p called Barrier
  dropped,   \* the counter
  writer,    \* "run", "drain" or "done" (doneC is closed)
  stopC,     \* Close has been called
  owed       \* the writes that were queued before

queueVars ==
  <<at, made, victim, writeC, pending, ran, closed, covers, dropped, writer, stopC, owed>>
stopVars == <<stopC, owed>>
callVars == <<made, ran, covers>>
writerVars == <<pending, closed, writer>>

\* Enqueue: "lock" waits for qmu, "send" and "pop" are the two selects of the loop,
\* "resend" puts a barrier back. Barrier: "barrier" and "waiting", its two selects.
Places == {"idle", "lock", "send", "pop", "resend", "barrier", "waiting"}
InLoop(p) == at[p] \in {"send", "pop", "resend"}
Full == Len(writeC) = QueueCap
Writing(p) == [by |-> p, nth |-> made[p]]

\* Writes whose Enqueue has returned, and all that is on its way to the file.
Accepted ==
  {w \in Writes : \/ w.nth < made[w.by]
                  \/ w.nth = made[w.by] /\ at[w.by] \in {"idle", "barrier", "waiting"}}
OnTheWay == Range(writeC) \cup Range(pending)

QueueTypeOK ==
  /\ at \in [Producers -> Places] /\ made \in [Producers -> 0..MaxWrites]
  /\ victim \in SUBSET Producers /\ Cardinality(victim) <= 1
  /\ writeC \in Seq(Ops) /\ Len(writeC) <= QueueCap
  /\ pending \in Seq(Ops) /\ ran \in Seq(Ops)
  /\ closed \subseteq Producers /\ covers \in [Producers -> SUBSET Writes]
  /\ dropped \in Nat
  /\ writer \in {"run", "drain", "done"} /\ stopC \in BOOLEAN /\ owed \subseteq Writes
  /\ Cardinality({p \in Producers : InLoop(p)}) <= 1

QueueInit ==
  /\ at = [p \in Producers |-> "idle"] /\ made = [p \in Producers |-> 0]
  /\ victim = {} /\ writeC = <<>> /\ pending = <<>> /\ ran = <<>> /\ closed = {}
  /\ covers = [p \in Producers |-> {}] /\ dropped = 0
  /\ writer = "run" /\ stopC = FALSE /\ owed = {}

Goto(p, step) == at' = [at EXCEPT ![p] = step]

-----------------------------------------------------------------------------
\* Enqueue.

\* The first select: the fast path, or on to qmu.
Enqueue(p) ==
  /\ at[p] = "idle" /\ made[p] < WritesOf[p]
  /\ made' = [made EXCEPT ![p] = @ + 1]
  /\ \/ ~Full /\ writeC' = Append(writeC, Writing(p)') /\ UNCHANGED at
     \/ Full /\ Goto(p, "lock") /\ UNCHANGED writeC
  /\ UNCHANGED <<victim, ran, covers, dropped, stopVars, writerVars>>

Lock(p) ==
  /\ at[p] = "lock" /\ \A q \in Producers : ~InLoop(q)
  /\ Goto(p, "send")
  /\ UNCHANGED <<writeC, victim, dropped, stopVars, callVars, writerVars>>

SlowSend(p) ==
  /\ at[p] = "send"
  /\ \/ ~Full /\ writeC' = Append(writeC, Writing(p)) /\ Goto(p, "idle")
     \/ Full /\ Goto(p, "pop") /\ UNCHANGED writeC
  /\ UNCHANGED <<victim, dropped, stopVars, callVars, writerVars>>

Evict_BarrierToo(p) ==
  /\ at[p] = "pop" /\ Goto(p, "send")
  /\ \/ writeC = <<>> /\ UNCHANGED <<writeC, dropped>>
     \/ writeC # <<>> /\ writeC' = Tail(writeC) /\ dropped' = dropped + 1
  /\ UNCHANGED <<victim, stopVars, callVars, writerVars>>

\* The oldest makes room: a write is gone, a barrier has to go back.
Evict(p) ==
  /\ at[p] = "pop"
  /\ \/ /\ writeC = <<>> /\ Goto(p, "send")
        /\ UNCHANGED <<writeC, victim, dropped>>
     \/ /\ writeC # <<>> /\ writeC' = Tail(writeC)
        /\ IF IsBarrier(Head(writeC))
           THEN victim' = {Head(writeC)} /\ Goto(p, "resend") /\ UNCHANGED dropped
           ELSE dropped' = dropped + 1 /\ Goto(p, "send") /\ UNCHANGED victim
  /\ UNCHANGED <<stopVars, callVars, writerVars>>

Resend_IfRoom(p) ==
  /\ at[p] = "resend" /\ victim' = {} /\ Goto(p, "send")
  /\ IF Full THEN UNCHANGED writeC ELSE \E b \in victim : writeC' = Append(writeC, b)
  /\ UNCHANGED <<dropped, stopVars, callVars, writerVars>>

\* A send that blocks while the channel is full, with qmu held.
Resend(p) ==
  /\ at[p] = "resend" /\ ~Full
  /\ \E b \in victim : writeC' = Append(writeC, b)
  /\ victim' = {} /\ Goto(p, "send")
  /\ UNCHANGED <<dropped, stopVars, callVars, writerVars>>

-----------------------------------------------------------------------------
\* Barrier, once for each producer.

Barrier(p) ==
  /\ at[p] = "idle" /\ p \in Askers \ (closed \cup OnTheWay \cup victim)
  /\ Goto(p, "barrier") /\ covers' = [covers EXCEPT ![p] = Accepted]
  /\ UNCHANGED <<made, ran, writeC, victim, dropped, stopVars, writerVars>>

BarrierSent(p) ==
  /\ at[p] = "barrier" /\ ~Full
  /\ writeC' = Append(writeC, p) /\ Goto(p, "waiting")
  /\ UNCHANGED <<victim, dropped, stopVars, callVars, writerVars>>

BarrierReturns(p) ==
  /\ at[p] \in {"barrier", "waiting"}
  /\ (at[p] = "waiting" /\ p \in closed) \/ writer = "done"
  /\ Goto(p, "idle")
  /\ UNCHANGED <<writeC, victim, dropped, stopVars, callVars, writerVars>>

-----------------------------------------------------------------------------
\* The writer.

\* runBatch: whoever waits for a barrier of the batch goes on.
RunBatch(batch) ==
  /\ ran' = ran \o batch
  /\ closed' = closed \cup {o \in Range(batch) : IsBarrier(o)}
  /\ pending' = <<>>

Take_AcksAtOnce ==
  /\ writer # "done" /\ writeC # <<>> /\ writeC' = Tail(writeC)
  /\ IF IsBarrier(Head(writeC))
     THEN closed' = closed \cup {Head(writeC)} /\ UNCHANGED <<ran, pending>>
     ELSE pending' = Append(pending, Head(writeC)) /\ UNCHANGED <<ran, closed>>
  /\ UNCHANGED <<at, victim, made, covers, dropped, writer, stopVars>>

\* A barrier, or a full batch, is run at once; a drain runs its batch at its end.
Take ==
  /\ writer # "done" /\ writeC # <<>> /\ writeC' = Tail(writeC)
  /\ LET batch == Append(pending, Head(writeC)) IN
     IF writer = "run" /\ (IsBarrier(Head(writeC)) \/ Len(batch) >= BatchMax)
     THEN RunBatch(batch)
     ELSE pending' = batch /\ UNCHANGED <<ran, closed>>
  /\ UNCHANGED <<at, victim, made, covers, dropped, writer, stopVars>>

\* The batch's timer, and the tickers of prune and rollup.
Flush ==
  /\ writer = "run" /\ pending # <<>> /\ RunBatch(pending)
  /\ UNCHANGED <<at, victim, made, covers, writeC, dropped, writer, stopVars>>

Close ==
  /\ ~stopC /\ stopC' = TRUE /\ owed' = Accepted
  /\ UNCHANGED <<at, victim, writeC, dropped, callVars, writerVars>>

SeesStop ==
  /\ stopC /\ writer = "run" /\ writer' = "drain"
  /\ UNCHANGED <<at, victim, writeC, dropped, callVars, pending, closed, stopVars>>

DrainEnds_OneBatch ==
  /\ writer = "drain" /\ (Len(pending) >= BatchMax \/ writeC = <<>>)
  /\ writer' = "done"
  /\ RunBatch(pending)
  /\ UNCHANGED <<at, victim, made, covers, writeC, dropped, stopVars>>

\* The channel was empty once: the last batch, the last rollup, and doneC is closed.
DrainEnds ==
  /\ writer = "drain" /\ writeC = <<>> /\ writer' = "done"
  /\ RunBatch(pending)
  /\ UNCHANGED <<at, victim, made, covers, writeC, dropped, stopVars>>

-----------------------------------------------------------------------------
CallStep(p) ==
  Lock(p) \/ SlowSend(p) \/ Evict(p) \/ Resend(p)
  \/ BarrierSent(p) \/ BarrierReturns(p)

QueueNext ==
  \/ \E p \in Producers : Enqueue(p) \/ Barrier(p) \/ CallStep(p)
  \/ Take \/ Flush \/ Close \/ SeesStop \/ DrainEnds

\* Goroutines run, a select that can go on does, and the batch's timer fires.
QueueFairness ==
  /\ \A p \in Producers : WF_queueVars(CallStep(p))
  /\ WF_queueVars(Take) /\ WF_queueVars(Flush)
  /\ WF_queueVars(SeesStop) /\ WF_queueVars(DrainEnds)

QueueSpec == QueueInit /\ [][QueueNext]_queueVars /\ QueueFairness

-----------------------------------------------------------------------------
\* Every write whose Enqueue has returned is on its way, was run, or is counted as
\* dropped, once, however many producers evict from the full queue.
DropsAreExact ==
  /\ Cardinality(Accepted \ (OnTheWay \cup Range(ran))) = dropped
  /\ Range(ran) \cap OnTheWay = {}

\* A barrier whose done channel is closed has nothing queued before it left to run,
\* though evictions move barriers about in the queue.
BarriersCover ==
  \A p \in closed : at[p] = "waiting" => covers[p] \cap OnTheWay = {}

\* No eviction loses a barrier that somebody waits for.
BarriersKept ==
  \A p \in Producers : at[p] = "waiting" => p \in closed \cup OnTheWay \cup victim

\* What one goroutine enqueues is run in its order: the row of a session is inserted
\* before it is updated, by whichever path each of the two came in.
InOrder ==
  LET all == ran \o pending \o writeC IN
  \A i, j \in DOMAIN all :
    i < j /\ ~IsBarrier(all[i]) /\ ~IsBarrier(all[j]) /\ all[i].by = all[j].by
      => all[i].nth < all[j].nth

\* Close drains: what was queued when it was called has been run when it returns.
CloseDrains ==
  writer = "done" => owed \cap OnTheWay = {}

\* What holds of the queue in every state.
QueueSafe == QueueTypeOK /\ DropsAreExact /\ BarriersCover /\ BarriersKept /\ InOrder
             /\ CloseDrains

\* While the writer lives no Enqueue and no Barrier is stuck: whoever calls comes back,
\* so that all of them, who have so many writes, are done again and again. And a Close
\* that has been called comes to its end.
QueueEnds ==
  /\ []<>(writer = "done" \/ \A p \in Producers : at[p] = "idle")
  /\ stopC ~> writer = "done"
=============================================================================
