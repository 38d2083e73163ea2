----------------------------- MODULE AgentRoster -----------------------------
(***************************************************************************)
(* The roster of the Agents screen and the form that manages one agent     *)
(* (Agents.tsx): ListAgents is polled under a key with a nonce; a write    *)
(* that succeeds bumps the nonce, and carries the roster that its click    *)
(* saw to the new key. The fields of the form are seeded from the roster.  *)
(*                                                                         *)
(* One agent is managed; how rosters are sorted and drawn is left out.     *)
(* version counts the changes of the gateway's side, for the properties.   *)
(*                                                                         *)
(* A definition named X_Y is not part of the model: it is X with the bug Y *)
(* put in, and some property must fail when it takes the place of X.       *)
(***************************************************************************)
EXTENDS Naturals, FiniteSets

CONSTANTS
  Nicknames, AScope, OtherScope,
  MaxVersion,  \* bound: changes on the gateway's side
  MaxNonce,    \* bound: refreshes within one visit of the screen
  MaxFetches,  \* bound: rosters under way when an interval fires
  MaxWrites,    \* bound: writes under way
  MaxEdits,    \* bound: what the operator does
  Nobody

ASSUME RosterAssumption ==
  /\ Nicknames # {}
  /\ MaxVersion \in Nat /\ MaxNonce \in Nat /\ MaxFetches \in Nat /\ MaxWrites \in Nat
  /\ MaxEdits \in Nat

Scopes == {AScope, OtherScope}
Fields == [name : Nicknames, scope : Scopes]

\* What ListAgents says of the agent; an agent of the shared token that is not
\* connected is not listed.
AgentView == [name : Nicknames, scope : Scopes, revoked : BOOLEAN, listed : BOOLEAN]
Roster == [agent : AgentView, version : 0..MaxVersion]

ASSUME NobodyAssumption == Nobody \notin Roster

Call == [kind : {"name", "scope", "revoke"}, arg : Fields, nonce : 0..MaxNonce,
         roster : Roster, landed : BOOLEAN]

VARIABLES
  agent,     \* the gateway's side
  version,
  visible,   \* is the Agents screen open?
  nonce,
  roster,    \* what usePolled returns, or Nobody
  rosterCache,
  fetches,   \* [nonce, roster, alive]: ListAgents calls under way
  selected,
  fields,      \* the fields of AgentManagement
  writes,    \* calls under way, with what their closures hold
  base,      \* the version when the nonce was bumped last
  edits,     \* what the operator has done so far
  calm      \* from here on nobody acts and the gateway's side stands still

rosterVars == <<agent, version, visible, nonce, roster, rosterCache, fetches, selected,
                fields, writes, base, edits, calm>>

RosterTypeOK ==
  /\ agent \in AgentView /\ version \in 0..MaxVersion
  /\ visible \in BOOLEAN /\ nonce \in 0..MaxNonce
  /\ roster \in Roster \cup {Nobody}
  /\ rosterCache \in [0..(MaxNonce + 1) -> Roster \cup {Nobody}]
  /\ fetches \subseteq [nonce : 0..MaxNonce, roster : Roster, alive : BOOLEAN]
  /\ selected \in BOOLEAN /\ fields \in Fields
  /\ writes \subseteq Call
  /\ base \in 0..MaxVersion /\ edits \in 0..MaxEdits /\ calm \in BOOLEAN

FieldsOf(r) == [name |-> r.agent.name, scope |-> r.agent.scope]

RosterInit ==
  /\ agent \in [name : {CHOOSE n \in Nicknames : TRUE}, scope : {AScope},
                revoked : {FALSE}, listed : BOOLEAN]
  /\ version = 0
  /\ visible = FALSE /\ nonce = 0 /\ roster = Nobody
  /\ rosterCache = [n \in 0..(MaxNonce + 1) |-> Nobody]
  /\ fetches = {} /\ selected = FALSE
  /\ fields = [name |-> agent.name, scope |-> agent.scope]
  /\ writes = {} /\ base = 0 /\ edits = 0 /\ calm = FALSE

Listed(r) == r # Nobody /\ r.agent.listed

\* The detail is on screen: the agent was selected and the roster lists it.
Detail == visible /\ selected /\ Listed(roster)

-----------------------------------------------------------------------------
\* The screen.

Fetch(n) == [nonce |-> n, roster |-> [agent |-> agent, version |-> version], alive |-> TRUE]

Reseed_EveryPoll(r, sel) ==
  fields' = IF sel /\ Listed(r) THEN FieldsOf(r) ELSE fields

\* The form is seeded when the detail appears and when a value it was seeded
\* from has changed: all of its fields.
Reseed(r, sel) ==
  fields' = IF sel /\ Listed(r) /\ (~Detail \/ FieldsOf(r) # FieldsOf(roster))
          THEN FieldsOf(r) ELSE fields

\* A render with roster r and selection sel: an agent that is not listed any
\* more drops the operator back to the list.
Show(r, sel) ==
  /\ roster' = r
  /\ selected' = (sel /\ (r = Nobody \/ Listed(r)))
  /\ Reseed(r, sel)

Operator ==
  /\ ~calm /\ edits < MaxEdits /\ edits' = edits + 1
  /\ UNCHANGED <<agent, version, calm>>

\* usePolled under roster:0, which an earlier visit may have filled.
OpenRoster ==
  /\ Operator /\ ~visible /\ visible' = TRUE
  /\ nonce' = 0 /\ base' = 0
  /\ Show(rosterCache[0], FALSE)
  /\ fetches' = fetches \cup {Fetch(0)}
  /\ UNCHANGED <<rosterCache, writes>>

CloseRoster ==
  /\ Operator /\ visible /\ visible' = FALSE
  /\ fetches' = {[f EXCEPT !.alive = FALSE] : f \in fetches}
  /\ roster' = Nobody /\ selected' = FALSE
  /\ UNCHANGED <<nonce, rosterCache, fields, writes, base>>

FetchAgain_WhenBlank ==
  /\ visible /\ Cardinality(fetches) < MaxFetches
  /\ roster = Nobody
  /\ fetches' = fetches \cup {Fetch(nonce)}
  /\ UNCHANGED <<agent, version, visible, nonce, roster, rosterCache, selected, fields, writes,
                 base, edits, calm>>

FetchAgain ==
  /\ visible /\ Cardinality(fetches) < MaxFetches
  /\ fetches' = fetches \cup {Fetch(nonce)}
  /\ UNCHANGED <<agent, version, visible, nonce, roster, rosterCache, selected, fields, writes,
                 base, edits, calm>>

FetchEnds_StillListening(v) ==
  /\ \E f \in fetches :
       /\ f.roster.version = v /\ fetches' = fetches \ {f}
       /\ visible
       /\ rosterCache' = [rosterCache EXCEPT ![f.nonce] = f.roster]
       /\ Show(f.roster, selected)
  /\ UNCHANGED <<agent, version, visible, nonce, writes, base, edits, calm>>

\* The roster as of version v arrives, in any order.
FetchEnds(v) ==
  /\ \E f \in fetches :
       /\ f.roster.version = v /\ fetches' = fetches \ {f}
       /\ IF f.alive
          THEN /\ rosterCache' = [rosterCache EXCEPT ![f.nonce] = f.roster]
               /\ Show(f.roster, selected)
          ELSE UNCHANGED <<rosterCache, roster, selected, fields>>
  /\ UNCHANGED <<agent, version, visible, nonce, writes, base, edits, calm>>

FetchFails ==
  /\ ~calm
  /\ \E f \in fetches : fetches' = fetches \ {f}
  /\ UNCHANGED <<agent, version, visible, nonce, roster, rosterCache, selected, fields, writes,
                 base, edits, calm>>

\* A card, a row of the list, a conflict's View agent; All agents.
Select ==
  /\ Operator /\ visible /\ Listed(roster)
  /\ Show(roster, ~selected)
  /\ UNCHANGED <<visible, nonce, rosterCache, fetches, writes, base>>

EditField ==
  /\ Operator /\ Detail
  /\ \E v \in Fields : v # fields /\ fields' = v
  /\ UNCHANGED <<visible, nonce, roster, rosterCache, fetches, selected, writes, base>>

\* saveName, saveScope and doRevoke up to the await. Enter saves a field again
\* while it is being saved; a revoked agent cannot be revoked.
StartWrite ==
  /\ Operator /\ Detail /\ Cardinality(writes) < MaxWrites
  /\ \E k \in {"name", "scope", "revoke"} :
       /\ k = "revoke" => ~roster.agent.revoked
       /\ writes' = writes \cup {[kind |-> k, arg |-> fields, nonce |-> nonce, roster |-> roster,
                                  landed |-> FALSE]}
  /\ UNCHANGED <<visible, nonce, roster, rosterCache, fetches, selected, fields, base>>

\* The call itself.
Written(w) ==
  CASE w.kind = "name" -> [agent EXCEPT !.name = w.arg.name]
    [] w.kind = "scope" -> [agent EXCEPT !.scope = w.arg.scope]
    [] w.kind = "revoke" -> [agent EXCEPT !.revoked = TRUE]

WriteLands ==
  /\ ~calm /\ version < MaxVersion /\ version' = version + 1
  /\ \E w \in writes :
       /\ ~w.landed /\ agent' = Written(w)
       /\ writes' = (writes \ {w}) \cup {[w EXCEPT !.landed = TRUE]}
  /\ UNCHANGED <<visible, nonce, roster, rosterCache, fetches, selected, fields, base, edits, calm>>

Refresh_SameKey(w) ==
  /\ fetches' = fetches \cup {Fetch(nonce)}
  /\ UNCHANGED <<nonce, rosterCache, roster, selected, fields>>

Refresh_CarriesNothing(w) ==
  /\ nonce' = nonce + 1 /\ UNCHANGED rosterCache
  /\ fetches' = {[f EXCEPT !.alive = FALSE] : f \in fetches} \cup {Fetch(nonce + 1)}
  /\ Show(rosterCache[nonce + 1], selected)

\* refreshRoster of the render that was clicked, in a screen that is open still.
Refresh(w) ==
  LET carried == [rosterCache EXCEPT ![w.nonce + 1] = w.roster]
  IN /\ nonce' = nonce + 1 /\ rosterCache' = carried
     /\ fetches' = {[f EXCEPT !.alive = FALSE] : f \in fetches} \cup {Fetch(nonce + 1)}
     /\ Show(carried[nonce + 1], selected)

\* The screen hears of the write.
EndWrite ==
  /\ ~calm
  /\ \E w \in writes :
       /\ w.landed /\ writes' = writes \ {w}
       /\ IF visible
          THEN nonce < MaxNonce /\ Refresh(w) /\ base' = version
          ELSE /\ rosterCache' = [rosterCache EXCEPT ![w.nonce + 1] = w.roster]
               /\ UNCHANGED <<nonce, fetches, roster, selected, fields, base>>
  /\ UNCHANGED <<agent, version, visible, edits, calm>>

WriteFails ==
  /\ ~calm
  /\ \E w \in writes : ~w.landed /\ writes' = writes \ {w}
  /\ UNCHANGED <<agent, version, visible, nonce, roster, rosterCache, fetches, selected, fields,
                 base, edits, calm>>

\* The agent connects for the first time, or leaves.
Fleet ==
  /\ ~calm /\ version < MaxVersion /\ version' = version + 1
  /\ agent' = [agent EXCEPT !.listed = ~@]
  /\ UNCHANGED <<visible, nonce, roster, rosterCache, fetches, selected, fields, writes, base,
                 edits, calm>>

GoQuiet ==
  /\ ~calm /\ calm' = TRUE
  /\ UNCHANGED <<agent, version, visible, nonce, roster, rosterCache, fetches, selected, fields,
                 writes, base, edits>>

RosterNext ==
  \/ OpenRoster \/ CloseRoster \/ FetchAgain \/ FetchFails
  \/ (\E v \in 0..MaxVersion : FetchEnds(v))
  \/ Select \/ EditField \/ StartWrite \/ WriteLands \/ EndWrite \/ WriteFails \/ Fleet \/ GoQuiet

\* The interval fires, and no answer is lost for ever.
RosterFairness ==
  /\ WF_rosterVars(FetchAgain)
  /\ \A v \in 0..MaxVersion : WF_rosterVars(FetchEnds(v))

RosterSpec == RosterInit /\ [][RosterNext]_rosterVars /\ RosterFairness

-----------------------------------------------------------------------------
\* A roster that shows what a write has changed is never replaced by an older
\* one: the answers that were under way are those of another key.
SavedIsNotUndone ==
  [][(visible /\ visible' /\ nonce' = nonce /\ roster # Nobody /\ roster.version >= base)
       => roster' # Nobody /\ roster'.version >= base]_rosterVars

\* A field that is being edited survives the polls: it is only replaced while
\* the detail stays on screen when the values it was seeded from have changed.
EditSurvives ==
  [][(Detail /\ Detail' /\ fields' # fields /\ edits' = edits)
       => FieldsOf(roster') # FieldsOf(roster)]_rosterVars

\* Only writes that overlap, or outlive their visit, blank the roster: a write
\* whose click saw the key of now carries its roster over, and no skeleton
\* flashes.
OnlyOverlapBlanks ==
  [][(visible /\ visible' /\ roster # Nobody /\ roster' = Nobody)
       => \E w \in writes \ writes' : w.nonce # nonce]_rosterVars

\* Once nobody acts, the roster comes to be what the gateway has.
RosterConverges ==
  <>[](calm /\ visible => roster # Nobody /\ roster.agent = agent)
=============================================================================
