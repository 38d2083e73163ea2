------------------------------ MODULE StatusView ------------------------------
(***************************************************************************)
(* How the window shows the state of the link: the snapshots that useTick  *)
(* keeps (state.ts), the backdrop of App.tsx, which waits before it shifts, *)
(* the pill of the title bar (ConnectionPill.tsx) with its "Syncing", and  *)
(* the cascade of the pipeline (Overview.tsx). What a snapshot says of the *)
(* link is that of internal/engine/engine.go and gateway.go.               *)
(*                                                                         *)
(* Time passes in units; a timer fires before time passes the moment it is *)
(* due. Addresses, byte counts and the reading of one snapshot at several  *)
(* moments are left out; steady and flown are kept for the properties.     *)
(*                                                                         *)
(* A definition named X_Y is not part of the model: it is X with the bug Y *)
(* put in, and some property must fail when it takes the place of X.       *)
(***************************************************************************)
EXTENDS Naturals, FiniteSets

CONSTANTS
  Machines,    \* what a gateway may be linked with; an agent has one link
  Hold,        \* units that a verdict must last before the backdrop shifts
  StaleAfter,  \* units without a snapshot after which the pill gives up
  CheckEvery,  \* units between two looks of the pill
  CascadeFor,  \* units that the cascade lasts
  MaxChanges,  \* bound: what happens to the links and to the page
  Unread

ASSUME StatusAssumption ==
  /\ IsFiniteSet(Machines) /\ Machines # {}
  /\ Hold \in Nat \ {0} /\ StaleAfter \in Nat /\ CheckEvery \in Nat \ {0}
  /\ CascadeFor \in Nat \ {0} /\ MaxChanges \in Nat

\* A link: down, up for less than a minute, fine, or with jitter and loss.
Links == {"off", "new", "fine", "poor"}

World == [role : {"agent", "gateway"}, link : [Machines -> Links], fatal : BOOLEAN]

VARIABLES
  world,    \* the engine, as Status would tell it now
  early,    \* the answer to the Status call of the mount, under way, or Unread
  shown,    \* status: the snapshot on screen, or Unread
  quiet,    \* units since it came
  stale,    \* has the pill noticed?
  looked,   \* units since the pill looked
  applied,  \* data-ambient
  pending,  \* the verdict that is waiting to be applied, or Unread
  waited,   \* units that it has waited
  overview, \* is the Overview open?
  ignite,   \* is .pf-ignite on the pipeline?
  burning,  \* units since its timer was started, or Unread when there is none
  steady,   \* units since the verdict on screen changed
  flown,    \* units since the open page saw the link rise
  changes

statusVars == <<world, early, shown, quiet, stale, looked, applied, pending, waited,
                overview, ignite, burning, steady, flown, changes>>

AtMost(n, m) == IF n < m THEN n ELSE m

MaxQuiet == StaleAfter + CheckEvery + 2

-----------------------------------------------------------------------------
\* What a snapshot says.

Sessions(s) == {m \in Machines : s.link[m] # "off"}

\* healthScore of the engine, for one link.
Score(link) ==
  CASE link = "fine" -> "good" [] link = "new" -> "warn" [] OTHER -> "bad"

\* LinkUp and AgentConnected.
Linked(s) == Sessions(s) # {}

\* Status: Gateway.session is the one session, so a gateway with several has
\* neither quality nor a time of connection to score.
HealthScore(s) ==
  CASE Sessions(s) = {} -> "bad"
    [] Cardinality(Sessions(s)) = 1 -> Score(s.link[CHOOSE m \in Sessions(s) : TRUE])
    [] OTHER -> "warn"

AmbientOf_HealthFirst(s) ==
  CASE s = Unread -> "ok"
    [] s # Unread /\ (s.fatal \/ HealthScore(s) = "bad") -> "bad"
    [] OTHER -> IF HealthScore(s) = "warn" THEN "warn" ELSE "ok"

AmbientOf(s) ==
  IF s = Unread THEN "ok"
  ELSE CASE s.fatal -> "bad"
         [] ~s.fatal /\ ~Linked(s) -> IF s.role = "agent" THEN "bad" ELSE "warn"
         [] OTHER -> IF HealthScore(s) = "good" THEN "ok" ELSE HealthScore(s)

\* worstHealth
Worst(scores) ==
  CASE "bad" \in scores -> "bad"
    [] "bad" \notin scores /\ "warn" \in scores -> "warn"
    [] OTHER -> "good"

\* The dot of the pill.
Tone(s) ==
  CASE ~Linked(s) -> IF s.role = "agent" THEN "bad" ELSE "warn"
    [] Linked(s) /\ s.role = "agent" -> HealthScore(s)
    [] OTHER -> Worst({Score(s.link[m]) : m \in Sessions(s)})

\* linkState = 'good'
Flowing(s) == s # Unread /\ Linked(s)

Verdicts == {"ok", "warn", "bad"}

ASSUME UnreadAssumption == Unread \notin World /\ Unread \notin Verdicts /\ Unread \notin Nat

StatusTypeOK ==
  /\ world \in World /\ early \in World \cup {Unread} /\ shown \in World \cup {Unread}
  /\ quiet \in 0..MaxQuiet /\ stale \in BOOLEAN /\ looked \in 0..CheckEvery
  /\ applied \in Verdicts /\ pending \in Verdicts \cup {Unread} /\ waited \in 0..Hold
  /\ overview \in BOOLEAN /\ ignite \in BOOLEAN
  /\ burning \in 0..CascadeFor \cup {Unread}
  /\ steady \in 0..(Hold + 1) /\ flown \in 0..(CascadeFor + 1)
  /\ changes \in 0..MaxChanges

\* The mount has asked for a status and has applied the verdict on none.
StatusInit ==
  /\ world \in [role : {"agent", "gateway"}, link : [Machines -> {"off"}], fatal : {FALSE}]
  /\ early = world /\ shown = Unread
  /\ quiet = 0 /\ stale = FALSE /\ looked = 0
  /\ applied = "ok" /\ pending = Unread /\ waited = 0
  /\ overview = FALSE /\ ignite = FALSE /\ burning = Unread
  /\ steady = 0 /\ flown = 0 /\ changes = 0

-----------------------------------------------------------------------------
\* The engine.

Change == changes < MaxChanges /\ changes' = changes + 1

viewVars == <<early, shown, quiet, stale, looked, applied, pending, waited, overview,
              ignite, burning, steady, flown>>

TheLink == CHOOSE m \in Machines : TRUE

LinkChanges ==
  /\ Change /\ ~world.fatal
  /\ \E m \in IF world.role = "agent" THEN {TheLink} ELSE Machines, l \in Links :
       /\ l # world.link[m] /\ (world.link[m] = "off" => l = "new")
       /\ world' = [world EXCEPT !.link[m] = l]
  /\ UNCHANGED viewVars

EngineDies ==
  /\ Change /\ ~world.fatal
  /\ world' = [world EXCEPT !.fatal = TRUE, !.link = [m \in Machines |-> "off"]]
  /\ UNCHANGED viewVars

\* The banner's button.
RestartFailed ==
  /\ Change /\ overview /\ shown.fatal
  /\ world' = [world EXCEPT !.fatal = FALSE]
  /\ UNCHANGED viewVars

-----------------------------------------------------------------------------
\* What a snapshot does when it is set.

Debounce_LetRun(next) ==
  CASE next = applied -> UNCHANGED <<applied, pending, waited>>
    [] next # applied /\ pending = next -> UNCHANGED <<applied, pending, waited>>
    [] OTHER -> pending' = next /\ waited' = 0 /\ UNCHANGED applied

\* The effect on [status] of App.tsx.
Debounce(next) ==
  CASE next = applied -> pending' = Unread /\ waited' = 0 /\ UNCHANGED applied
    [] next # applied /\ pending = next -> UNCHANGED <<applied, pending, waited>>
    [] OTHER -> pending' = next /\ waited' = 0 /\ UNCHANGED applied

Cascade_OnceOnly(was, now) ==
  IF ~was /\ now /\ ~ignite THEN ignite' = TRUE /\ burning' = 0
  ELSE UNCHANGED ignite /\ burning' = Unread

\* The effect on [flowing]: its cleanup stops the timer that would end the
\* cascade and leaves the class.
Cascade(was, now) ==
  IF ~was /\ now THEN ignite' = TRUE /\ burning' = 0
  ELSE UNCHANGED ignite /\ burning' = Unread

See(s) ==
  /\ shown' = s /\ quiet' = 0 /\ stale' = FALSE
  /\ looked' = IF shown = Unread THEN 0 ELSE looked
  /\ Debounce(AmbientOf(s))
  /\ steady' = IF AmbientOf(s) = AmbientOf(shown) THEN steady ELSE 0
  /\ IF overview /\ Flowing(s) # Flowing(shown)
     THEN Cascade(Flowing(shown), Flowing(s)) /\ flown' = 0
     ELSE UNCHANGED <<ignite, burning, flown>>
  /\ UNCHANGED <<world, overview, changes>>

\* The tick of the application, when it comes.
Snapshot == See(world) /\ UNCHANGED early

\* The answer to the call of the mount, which a tick may have overtaken.
FirstAnswer == early # Unread /\ See(early) /\ early' = Unread

\* ... and that call may fail.
FirstFails ==
  /\ early # Unread /\ early' = Unread
  /\ UNCHANGED <<world, shown, quiet, stale, looked, applied, pending, waited, overview,
                 ignite, burning, steady, flown, changes>>

-----------------------------------------------------------------------------
\* Timers.

Look_EveryOther ==
  /\ looked = CheckEvery /\ looked' = 0
  /\ stale' = (quiet > StaleAfter /\ ~stale)
  /\ UNCHANGED <<world, early, shown, quiet, applied, pending, waited, overview, ignite,
                 burning, steady, flown, changes>>

\* The interval of useTickStale.
Look ==
  /\ looked = CheckEvery /\ looked' = 0
  /\ stale' = (quiet > StaleAfter)
  /\ UNCHANGED <<world, early, shown, quiet, applied, pending, waited, overview, ignite,
                 burning, steady, flown, changes>>

\* apply
Apply ==
  /\ pending # Unread /\ waited = Hold
  /\ applied' = pending /\ pending' = Unread /\ waited' = 0
  /\ UNCHANGED <<world, early, shown, quiet, stale, looked, overview, ignite, burning,
                 steady, flown, changes>>

CascadeEnds ==
  /\ burning = CascadeFor /\ burning' = Unread /\ ignite' = FALSE
  /\ UNCHANGED <<world, early, shown, quiet, stale, looked, applied, pending, waited,
                 overview, steady, flown, changes>>

\* Time passes; no timer is due.
Elapse ==
  /\ shown # Unread
  /\ looked < CheckEvery /\ (pending # Unread => waited < Hold) /\ burning # CascadeFor
  /\ quiet' = AtMost(quiet + 1, MaxQuiet) /\ looked' = looked + 1
  /\ waited' = IF pending = Unread THEN 0 ELSE waited + 1
  /\ burning' = IF burning = Unread THEN Unread ELSE burning + 1
  /\ steady' = AtMost(steady + 1, Hold + 1)
  /\ flown' = IF overview THEN AtMost(flown + 1, CascadeFor + 1) ELSE 0
  /\ UNCHANGED <<world, early, shown, stale, applied, pending, overview, ignite, changes>>

-----------------------------------------------------------------------------
\* The page. A mount with the link up plays nothing.

OpenOverview ==
  /\ Change /\ shown # Unread /\ ~overview /\ overview' = TRUE
  /\ ignite' = FALSE /\ burning' = Unread /\ flown' = 0
  /\ UNCHANGED <<world, early, shown, quiet, stale, looked, applied, pending, waited, steady>>

CloseOverview ==
  /\ Change /\ overview /\ overview' = FALSE
  /\ ignite' = FALSE /\ burning' = Unread /\ flown' = 0
  /\ UNCHANGED <<world, early, shown, quiet, stale, looked, applied, pending, waited, steady>>

StatusNext ==
  \/ LinkChanges \/ EngineDies \/ RestartFailed
  \/ Snapshot \/ FirstAnswer \/ FirstFails
  \/ Look \/ Apply \/ CascadeEnds \/ Elapse
  \/ OpenOverview \/ CloseOverview

-----------------------------------------------------------------------------
\* The backdrop shifts only to a verdict that every snapshot of the last Hold
\* units has given: a link that flaps faster never makes it flicker.
NeverStrobes == [][applied' # applied => applied' = AmbientOf(shown) /\ steady >= Hold]_statusVars

\* Once a verdict has lasted, backdrop and pill say the same of the link, for
\* an agent and for a gateway with at most one session; a dead engine is red.
RoomAgrees ==
  (shown # Unread /\ steady > Hold) =>
     IF shown.fatal THEN applied = "bad"
     ELSE Cardinality(Sessions(shown)) <= 1 =>
            applied = (IF Tone(shown) = "good" THEN "ok" ELSE Tone(shown))

\* The pill says "Syncing" only when the snapshots have been quiet for longer
\* than StaleAfter, and then no later than its next look.
PillTellsSilence ==
  /\ stale => quiet > StaleAfter
  /\ quiet = MaxQuiet => stale

\* A cascade that started is over CascadeFor units after the link rose, even if
\* one was cut off by a drop before; a page that opens on a live link plays none.
CascadeIsOver ==
  overview /\ Flowing(shown) /\ flown > CascadeFor => ~ignite

StatusTells == StatusTypeOK /\ RoomAgrees /\ PillTellsSilence /\ CascadeIsOver
=============================================================================
