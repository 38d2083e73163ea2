----------------------------- MODULE PolledViews -----------------------------
(***************************************************************************)
(* The screens that page through rows fetched on an interval: the wall and *)
(* the dossiers of Players.tsx, the connection history of Analytics.tsx.   *)
(* Their hooks are usePolled of hooks.ts under the keys of players.ts and  *)
(* analytics.ts: a fetch for each key when it comes into use and at every  *)
(* interval, a cache that outlives the screen, no order among the answers. *)
(*                                                                         *)
(* A page holds one row, so an answer is the number of rows that a filter  *)
(* has. Names, sorting and drawing are left out, and so are the other      *)
(* usePolled cards of the two screens, whose keys change in fewer ways.    *)
(* Rows are only added, as many as MaxRows at once.                        *)
(*                                                                         *)
(* A definition named X_Y is not part of the model: it is X with the bug Y *)
(* put in, and some property must fail when it takes the place of X.       *)
(***************************************************************************)
EXTENDS Naturals, FiniteSets

CONSTANTS
  Filters,     \* what search, chip, sort order and country can ask for
  AnyFilter,   \* the filter that a screen opens with
  People,      \* players whose dossier may be opened
  MaxRows,     \* bound: rows, and pages, that a filter comes to have
  MaxMinute,   \* bound: minutes that a key can be stamped with
  MaxFlights,  \* bound: answers under way when the user acts or an interval fires
  MaxClicks,   \* bound: what the user does
  Nothing

ASSUME ViewsAssumption ==
  /\ AnyFilter \in Filters
  /\ MaxRows \in Nat /\ MaxMinute \in Nat /\ MaxFlights \in Nat /\ MaxClicks \in Nat
  /\ Nothing \notin People

Page == 0..MaxRows
Query == [filter : Filters, page : Page, minute : 0..MaxMinute]
Keys == Query \cup People

ASSUME KeysAssumption == People \cap Query = {} /\ Nothing \notin Keys

\* The rows of the filter; of a dossier, whether the store knows the player.
Answer == {0, MaxRows}

\* The wall of players and the connection history.
Lists == {"wall", "history"}

VARIABLES
  view,     \* "away", "dossier" or one of Lists
  typed,    \* the filter as it stands in the search field
  filter,   \* the filter as it is asked for, once the field has settled
  page,     \* offset / PAGE_SIZE
  minute,   \* the clock; nowMin, part of the key of the connection history
  person,   \* the player of the dossier
  queued,   \* pendingDossier
  data,     \* what the hook shows: [key, answer], or Nothing
  cache,    \* the module's cache: [Keys -> Answer \cup {Nothing}]
  flights,  \* answers under way: [key, answer, alive]
  rows,     \* rows[k]: what the store has, for a filter and for a person
  clicks,   \* what the user has done so far
  still     \* from here on nobody clicks or types and the store does not change

pollVars == <<view, typed, filter, page, minute, person, queued, data, cache, flights,
              rows, clicks, still>>

Shown == [key : Keys, answer : Answer]

PollTypeOK ==
  /\ view \in Lists \cup {"away", "dossier"}
  /\ typed \in Filters /\ filter \in Filters
  /\ page \in Page /\ minute \in 0..MaxMinute
  /\ person \in People \cup {Nothing} /\ queued \in People \cup {Nothing}
  /\ data \in Shown \cup {Nothing}
  /\ cache \in [Keys -> Answer \cup {Nothing}]
  /\ flights \subseteq [key : Keys, answer : Answer, alive : BOOLEAN]
  /\ rows \in [Filters \cup People -> Answer]
  /\ clicks \in 0..MaxClicks
  /\ still \in BOOLEAN

PollInit ==
  /\ view = "away" /\ typed = AnyFilter /\ filter = AnyFilter
  /\ page = 0 /\ minute = 0 /\ person = Nothing /\ queued = Nothing
  /\ data = Nothing /\ cache = [k \in Keys |-> Nothing] /\ flights = {}
  /\ rows = [k \in Filters \cup People |-> 0]
  /\ clicks = 0 /\ still = FALSE

-----------------------------------------------------------------------------
\* usePolled.

Key(v, f, p, m, who) ==
  CASE v \in Lists -> [filter |-> f, page |-> p, minute |-> IF v = "history" THEN m ELSE 0]
    [] v = "dossier" -> who
    [] v = "away" -> Nothing

Ask(f, p) == Key(view, f, p, minute, person)

CurrentKey == Key(view, filter, page, minute, person)

Flight(k, alive) ==
  [key |-> k, answer |-> rows[IF k \in People THEN k ELSE k.filter], alive |-> alive]

Send(k) == IF k = Nothing THEN {} ELSE {Flight(k, TRUE)}

Forget_Nothing(fs) == fs

\* The cleanup of the effect: what is under way is not listened to.
Forget(fs) == {[f EXCEPT !.alive = FALSE] : f \in fs}

\* The effect on [key]: the old key's answers are forgotten, the cache paints
\* at once, and a fetch goes out; extra is a key in use for one render only.
Rekey(k, extra) ==
  IF k = CurrentKey THEN UNCHANGED <<data, flights>>
  ELSE /\ data' = IF k = Nothing \/ cache[k] = Nothing THEN Nothing
                  ELSE [key |-> k, answer |-> cache[k]]
       /\ flights' = Forget(flights \cup UNION {Send(x) : x \in extra}) \cup Send(k)

PollAgain_UnlessCached ==
  /\ CurrentKey # Nothing /\ Cardinality(flights) < MaxFlights
  /\ cache[CurrentKey] = Nothing
  /\ flights' = flights \cup Send(CurrentKey)
  /\ UNCHANGED <<view, typed, filter, page, minute, person, queued, data, cache, rows, clicks, still>>

\* The interval of the hook.
PollAgain ==
  /\ CurrentKey # Nothing /\ Cardinality(flights) < MaxFlights
  /\ flights' = flights \cup Send(CurrentKey)
  /\ UNCHANGED <<view, typed, filter, page, minute, person, queued, data, cache, rows, clicks, still>>

\* An answer, in any order; a screen that has moved on drops it.
Arrive(n) ==
  /\ \E f \in flights :
       /\ f.answer = n /\ flights' = flights \ {f}
       /\ IF f.alive
          THEN /\ data' = [key |-> f.key, answer |-> f.answer]
               /\ cache' = [cache EXCEPT ![f.key] = f.answer]
          ELSE UNCHANGED <<data, cache>>
  /\ UNCHANGED <<view, typed, filter, page, minute, person, queued, rows, clicks, still>>

\* A call that fails is swallowed: the next interval tries again.
ArriveFails ==
  /\ ~still
  /\ \E f \in flights : flights' = flights \ {f}
  /\ UNCHANGED <<view, typed, filter, page, minute, person, queued, data, cache, rows, clicks, still>>

-----------------------------------------------------------------------------
\* The screens.

User ==
  /\ ~still /\ UNCHANGED <<cache, rows, still>>
  /\ Cardinality(flights) < MaxFlights
  /\ clicks < MaxClicks /\ clicks' = clicks + 1

\* Nav to Players takes a queued dossier, or starts a wall from its defaults.
Enter ==
  /\ User /\ view = "away" /\ UNCHANGED minute
  /\ queued' = Nothing /\ person' = queued
  /\ view' = IF queued = Nothing THEN "wall" ELSE "dossier"
  /\ typed' = AnyFilter /\ filter' = AnyFilter /\ page' = 0
  /\ Rekey(Key(view', AnyFilter, 0, minute, queued), {})

\* Nav to Analytics, which starts its history from the defaults.
EnterHistory ==
  /\ User /\ view = "away" /\ view' = "history"
  /\ typed' = AnyFilter /\ filter' = AnyFilter /\ page' = 0
  /\ Rekey(Key("history", AnyFilter, 0, minute, Nothing), {})
  /\ UNCHANGED <<minute, person, queued>>

Leave ==
  /\ User /\ view # "away"
  /\ view' = "away" /\ person' = Nothing
  /\ Rekey(Nothing, {})
  /\ UNCHANGED <<typed, filter, page, minute, queued>>

\* A player's name in Traffic: the dossier is queued for the mount that follows.
QueueDossier ==
  /\ User /\ view = "away"
  /\ queued' \in People
  /\ UNCHANGED <<view, typed, filter, page, minute, person, data, flights>>

\* A tile of the wall, and All players: the wall that comes back is a new one.
OpenDossier ==
  /\ User /\ view = "wall" /\ data # Nothing /\ page < data.answer
  /\ view' = "dossier"
  /\ \E who \in People : person' = who /\ Rekey(who, {})
  /\ UNCHANGED <<typed, filter, page, minute, queued>>

CloseDossier ==
  /\ User /\ view = "dossier"
  /\ view' = "wall" /\ person' = Nothing
  /\ typed' = AnyFilter /\ filter' = AnyFilter /\ page' = 0
  /\ Rekey(Key("wall", AnyFilter, 0, minute, Nothing), {})
  /\ UNCHANGED <<minute, queued>>

Type ==
  /\ User /\ view = "wall"
  /\ typed' \in Filters \ {typed}
  /\ UNCHANGED <<view, filter, page, minute, person, queued, data, flights>>

Restart_KeepsPage(f) ==
  /\ filter' = f /\ UNCHANGED page
  /\ Rekey(Ask(f, page), {})

\* The effect that restarts paging: a filter that has changed was asked for at
\* the old page by the render before.
Restart(f) ==
  /\ filter' = f /\ page' = 0
  /\ Rekey(Ask(f, 0), IF page = 0 THEN {} ELSE {Ask(f, page)})

\* useDebounced: the field has been left alone for 250 ms.
Settle ==
  /\ view = "wall" /\ typed # filter
  /\ Restart(typed)
  /\ UNCHANGED <<view, typed, minute, person, queued, cache, rows, clicks, still>>

\* A chip, a sort order, a country or a range takes effect at once.
ChooseFilter ==
  /\ User /\ view \in Lists
  /\ \E f \in Filters \ {filter} : typed' = f /\ Restart(f)
  /\ UNCHANGED <<view, minute, person, queued>>

Turn_PastEnd ==
  /\ User /\ view \in Lists /\ data # Nothing /\ data.answer > 1
  /\ view = "wall" => page < data.answer
  /\ \/ page > 0 /\ page' = page - 1
     \/ page + 1 <= data.answer /\ page' = page + 1
  /\ Rekey(Ask(filter, page'), {})
  /\ UNCHANGED <<view, typed, filter, minute, person, queued>>

\* Previous and Next, shown when the rows fill more than a page; the wall hides
\* them with its tiles.
Turn ==
  /\ User /\ view \in Lists /\ data # Nothing /\ data.answer > 1
  /\ view = "wall" => page < data.answer
  /\ \/ page > 0 /\ page' = page - 1
     \/ page + 1 < data.answer /\ page' = page + 1
  /\ Rekey(Ask(filter, page'), {})
  /\ UNCHANGED <<view, typed, filter, minute, person, queued>>

\* The clock: the connection history asks under a new key every minute.
NextMinute ==
  /\ ~still /\ minute < MaxMinute /\ minute' = minute + 1
  /\ Cardinality(flights) < MaxFlights
  /\ Rekey(Key(view, filter, page, minute', person), {})
  /\ UNCHANGED <<view, typed, filter, page, person, queued, cache, rows, clicks, still>>

StoreGrows ==
  /\ ~still
  /\ \E k \in DOMAIN rows : rows[k] = 0 /\ rows' = [rows EXCEPT ![k] = MaxRows]
  /\ UNCHANGED <<view, typed, filter, page, minute, person, queued, data, cache, flights, clicks, still>>

StandStill ==
  /\ still' = TRUE
  /\ UNCHANGED <<view, typed, filter, page, minute, person, queued, data, cache, flights, rows, clicks>>

PollNext ==
  \/ PollAgain \/ ArriveFails \/ (\E n \in Answer : Arrive(n))
  \/ Enter \/ EnterHistory \/ Leave \/ QueueDossier \/ OpenDossier \/ CloseDossier
  \/ Type \/ Settle \/ ChooseFilter \/ Turn \/ NextMinute \/ StoreGrows \/ StandStill

\* The intervals and the field's timer fire, and no answer is lost for ever.
PollFairness ==
  /\ WF_pollVars(PollAgain) /\ WF_pollVars(Settle)
  /\ \A n \in Answer : WF_pollVars(Arrive(n))

PollSpec == PollInit /\ [][PollNext]_pollVars /\ PollFairness

-----------------------------------------------------------------------------
\* What a screen shows was fetched for what it asks for now, whatever filters,
\* pages and screens the answers under way were sent from.
ShownIsAsked ==
  data # Nothing => data.key = CurrentKey

\* Paging never asks for a page that the filter does not have, though the
\* filter changes under it: an empty list means that there are no rows.
PageExists ==
  view \in Lists => page = 0 \/ page < rows[filter]

\* Once nobody clicks and the store stands still, the screen comes to show what
\* the store has and stays there, though answers may overtake each other.
ViewConverges ==
  <>[](still /\ CurrentKey # Nothing =>
         /\ filter = typed \/ view # "wall"
         /\ data # Nothing /\ data.answer = Flight(CurrentKey, TRUE).answer)
=============================================================================
