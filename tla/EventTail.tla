------------------------------ MODULE EventTail ------------------------------
(***************************************************************************)
(* The tail of the gateway's events on the Agents screen (Agents.tsx): an  *)
(* interval asks for what came after a cursor, answers are appended to a   *)
(* list that keeps the newest, and cards show the newest event of each     *)
(* conflict until it is dismissed. The log of Activity.tsx pulls the same  *)
(* way. The ring that is asked is that of internal/gateway/conflict.go; it *)
(* starts again from sequence number 1 when the gateway restarts.          *)
(*                                                                         *)
(* Messages, ports and times are left out.                                 *)
(*                                                                         *)
(* A definition named X_Y is not part of the model: it is X with the bug Y *)
(* put in, and some property must fail when it takes the place of X.       *)
(***************************************************************************)
EXTENDS Naturals, FiniteSets, SequencesExt

CONSTANTS
  Conflicts,   \* identities: kind, agent, tunnel and requested port
  RingCap,     \* eventRingCap
  EventsCap,   \* EVENTS_CAP
  MaxEvents,   \* bound: events that one run of the gateway raises
  MaxRuns,     \* bound: runs of the gateway
  MaxPulls     \* bound: pulls under way

ASSUME TailAssumption ==
  /\ EventsCap \in Nat \ {0} /\ RingCap \in Nat \ {0}
  /\ MaxEvents \in Nat /\ MaxRuns \in Nat \ {0} /\ MaxPulls \in Nat

Event == [seq : 1..MaxEvents, of : Conflicts]

VARIABLES
  run,        \* which run of the gateway this is
  ring,       \* the events it retains, oldest first
  nextSeq,
  open,       \* is the Agents screen open?
  tail,       \* events: what the screen has of them
  cursor,     \* lastSeq
  pulls,      \* [since, got, alive, read]: calls under way; has the gateway read its ring?
  dismissed,  \* sequence numbers of the cards that were dismissed
  restarted   \* has the gateway restarted since the screen was opened?

tailVars == <<run, ring, nextSeq, open, tail, cursor, pulls, dismissed, restarted>>

TailTypeOK ==
  /\ run \in 1..MaxRuns /\ ring \in Seq(Event) /\ nextSeq \in 0..MaxEvents
  /\ open \in BOOLEAN /\ tail \in Seq(Event)
  /\ Len(ring) <= RingCap /\ Len(tail) <= EventsCap
  /\ cursor \in 0..MaxEvents
  /\ pulls \subseteq [since : 0..MaxEvents, got : Seq(Event), alive : BOOLEAN, read : BOOLEAN]
  /\ dismissed \subseteq 1..MaxEvents
  /\ restarted \in BOOLEAN

TailInit ==
  /\ run = 1 /\ ring = <<>> /\ nextSeq = 0
  /\ open = FALSE /\ tail = <<>> /\ cursor = 0 /\ pulls = {}
  /\ dismissed = {} /\ restarted = FALSE

\* The last n elements of s.
Newest(s, n) == SubSeq(s, (IF Len(s) > n THEN Len(s) - n ELSE 0) + 1, Len(s))

Pull(since) == [since |-> since, got |-> <<>>, alive |-> TRUE, read |-> FALSE]

-----------------------------------------------------------------------------
\* The gateway.

\* eventRing.push
Raise ==
  /\ nextSeq < MaxEvents /\ nextSeq' = nextSeq + 1
  /\ \E c \in Conflicts :
       ring' = Newest(Append(ring, [seq |-> nextSeq', of |-> c]), RingCap)
  /\ UNCHANGED <<run, open, tail, cursor, pulls, dismissed, restarted>>

\* eventRing.since
Since(n) ==
  LET out[i \in 0..Len(ring)] ==
        IF i = 0 THEN <<>>
        ELSE IF ring[i].seq > n THEN Append(out[i - 1], ring[i]) ELSE out[i - 1]
  IN  out[Len(ring)]

RestartGateway ==
  /\ run < MaxRuns /\ run' = run + 1
  /\ ring' = <<>> /\ nextSeq' = 0
  /\ restarted' = open
  /\ UNCHANGED <<open, tail, cursor, pulls, dismissed>>

GatewayReads ==
  /\ \E p \in pulls :
       /\ ~p.read
       /\ pulls' = (pulls \ {p}) \cup {[p EXCEPT !.got = Since(p.since), !.read = TRUE]}
  /\ UNCHANGED <<run, ring, nextSeq, open, tail, cursor, dismissed, restarted>>

-----------------------------------------------------------------------------
\* The screen.

\* useGatewayEvents starts over with every mount: the list, the cursor and what
\* was dismissed are the screen's.
OpenAgents ==
  /\ ~open /\ open' = TRUE
  /\ tail' = <<>> /\ cursor' = 0 /\ dismissed' = {} /\ restarted' = FALSE
  /\ pulls' = pulls \cup {Pull(0)}
  /\ UNCHANGED <<run, ring, nextSeq>>

CloseAgents ==
  /\ open /\ open' = FALSE
  /\ pulls' = {[p EXCEPT !.alive = FALSE] : p \in pulls}
  /\ UNCHANGED <<run, ring, nextSeq, tail, cursor, dismissed, restarted>>

\* The interval does not wait for the pull before it.
PullAgain ==
  /\ open /\ Cardinality(pulls) < MaxPulls
  /\ pulls' = pulls \cup {Pull(cursor)}
  /\ UNCHANGED <<run, ring, nextSeq, open, tail, cursor, dismissed, restarted>>

Take_CursorOfNewest(fresh) ==
  /\ cursor' = nextSeq
  /\ tail' = Newest(tail \o fresh, EventsCap)

\* An answer moves the cursor to its last event, and is appended.
Take(fresh) ==
  IF fresh = <<>> THEN UNCHANGED <<tail, cursor>>
  ELSE /\ cursor' = Last(fresh).seq
       /\ tail' = Newest(tail \o fresh, EventsCap)

PullEnds ==
  /\ \E p \in pulls :
       /\ p.read /\ pulls' = pulls \ {p}
       /\ IF p.alive THEN Take(p.got) ELSE UNCHANGED <<tail, cursor>>
  /\ UNCHANGED <<run, ring, nextSeq, open, dismissed, restarted>>

\* The engine is restarting, or the daemon is too old: the next interval asks again.
PullFails ==
  /\ \E p \in pulls : pulls' = pulls \ {p}
  /\ UNCHANGED <<run, ring, nextSeq, open, tail, cursor, dismissed, restarted>>

Latest_First ==
  {e \in ToSet(tail) : \A f \in ToSet(tail) : f.of = e.of => f.seq >= e.seq}

\* The newest event of each conflict in the list.
Latest ==
  {e \in ToSet(tail) : \A f \in ToSet(tail) : f.of = e.of => f.seq <= e.seq}

\* ConflictCards
Cards == {e \in Latest : e.seq \notin dismissed}

\* dismiss
Dismiss ==
  /\ open
  /\ \E e \in Cards : dismissed' = dismissed \cup {e.seq}
  /\ UNCHANGED <<run, ring, nextSeq, open, tail, cursor, pulls, restarted>>

TailNext ==
  \/ Raise \/ RestartGateway \/ GatewayReads
  \/ OpenAgents \/ CloseAgents \/ PullAgain \/ PullEnds \/ PullFails \/ Dismiss

-----------------------------------------------------------------------------
\* Nothing is skipped: as long as the gateway that was asked first still runs,
\* what the gateway retains between the oldest event on the screen and the cursor
\* is on the screen, though pulls overlap and a late answer moves the cursor back.
\* (In a list that is full, the copies that such answers append push others out.)
NothingSkipped ==
  (open /\ ~restarted /\ Len(tail) < EventsCap) =>
    \A e \in ToSet(ring), f \in ToSet(tail) :
      f.seq <= e.seq /\ e.seq <= cursor => e \in ToSet(tail)

\* A conflict that happens again after its card was dismissed gets a card again
\* once the event has arrived, as the comment on the cards has it.
ConflictResurfaces ==
  (open /\ ~restarted) =>
    \A e \in ToSet(tail) :
      (\A d \in dismissed : d < e.seq) => \E f \in Cards : f.of = e.of /\ f.seq >= e.seq
=============================================================================
