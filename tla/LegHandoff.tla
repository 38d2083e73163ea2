----------------------------- MODULE LegHandoff -----------------------------
(***************************************************************************)
(* What the per-conn data plane promises of a dialed-back connection (leg),*)
(* however the timeout, the eviction and the dial-back race: it is offered *)
(* once, goes to at most one player, whose wait is settled once, by a leg  *)
(* or by giving up, and whoever does not hand it on closes it.             *)
(***************************************************************************)
CONSTANTS Legs, Players

VARIABLES
  owner,    \* owner[l]: "unused", "offered", the player that has l, or "closed"
  settled   \* players whose wait is over

Init ==
  /\ owner = [l \in Legs |-> "unused"]
  /\ settled = {}

Offer(l) ==
  /\ owner[l] = "unused"
  /\ owner' = [owner EXCEPT ![l] = "offered"]
  /\ UNCHANGED settled

Take(l, c) ==
  /\ owner[l] = "offered" /\ c \notin settled
  /\ owner' = [owner EXCEPT ![l] = c]
  /\ settled' = settled \cup {c}

GiveUp(c) ==
  /\ c \notin settled
  /\ settled' = settled \cup {c}
  /\ UNCHANGED owner

\* An eviction closes the legs of many players at once.
Close(L) ==
  /\ \A l \in L : owner[l] \in {"offered"} \cup Players
  /\ owner' = [l \in Legs |-> IF l \in L THEN "closed" ELSE owner[l]]
  /\ UNCHANGED settled

Next ==
  \/ \E l \in Legs : Offer(l) \/ \E c \in Players : Take(l, c)
  \/ \E c \in Players : GiveUp(c)
  \/ \E L \in SUBSET Legs : Close(L)

Spec == Init /\ [][Next]_<<owner, settled>>

=============================================================================
