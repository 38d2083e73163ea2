------------------------------ MODULE ConfigForms ------------------------------
(***************************************************************************)
(* The screens that edit the configuration: Settings.tsx stages edits of a *)
(* copy and writes the whole copy back, Tunnels.tsx writes the list that   *)
(* it loaded with one tunnel changed, and the theme (theme.ts) and the     *)
(* token are written on their own. The calls are those of app/app.go.      *)
(*                                                                         *)
(* The settings are one value; the sections of the form, its defaults and  *)
(* validation are left out. A call is two steps: it takes effect, and the  *)
(* screen hears of it.                                                     *)
(*                                                                         *)
(* A definition named X_Y is not part of the model: it is X with the bug Y *)
(* put in, and some property must fail when it takes the place of X.       *)
(***************************************************************************)
EXTENDS Naturals, FiniteSets

CONSTANTS
  Settings,    \* what the form can hold
  Tunnels,     \* tunnels; a list is the set of those that are enabled
  MaxToken,    \* bound: rotations of the token
  MaxCalls,    \* bound: calls of a kind under way
  MaxTouches,  \* bound: what the user does
  None

ASSUME FormsAssumption == MaxToken \in Nat /\ MaxCalls \in Nat /\ MaxTouches \in Nat

Themes == {"dark", "light"}
Config == [settings : Settings, tunnels : SUBSET Tunnels, theme : Themes, token : 0..MaxToken]

VARIABLES
  attached,  \* does another process run the engine?
  conf,      \* the configuration, in memory and in the file
  runs,      \* the configuration that the engine was started with, or None
  screen,    \* "away", "settings" or "tunnels"
  draft,     \* cfg of Settings, or None
  dirty,
  note,      \* is "Saved." shown?
  list,      \* tunnels of Tunnels, or None
  loads,     \* answers of GetConfig on their way to this screen
  saves,     \* [out, step, here]: saves under way; step is "called", "written" or "restarted"
  persists,  \* [next, landed, here]: SaveTunnels calls under way
  rotates,   \* [landed, here]: RegenerateToken calls under way
  raced,     \* was this screen opened, or touched, while a call was under way?
  touches    \* what the user has done so far

formVars == <<attached, conf, runs, screen, draft, dirty, note, list, loads, saves, persists,
              rotates, raced, touches>>

form == <<draft, dirty, note>>

FormsTypeOK ==
  /\ attached \in BOOLEAN /\ conf \in Config /\ runs \in Config \cup {None}
  /\ screen \in {"away", "settings", "tunnels"}
  /\ draft \in Config \cup {None} /\ dirty \in BOOLEAN /\ note \in BOOLEAN
  /\ list \in (SUBSET Tunnels) \cup {None}
  /\ loads \subseteq Config
  /\ saves \subseteq [out : Config, step : {"called", "written", "restarted"}, here : BOOLEAN]
  /\ persists \subseteq [next : SUBSET Tunnels, landed : BOOLEAN, here : BOOLEAN]
  /\ rotates \subseteq [landed : BOOLEAN, here : BOOLEAN]
  /\ raced \in BOOLEAN /\ touches \in 0..MaxTouches

FormsInit ==
  /\ attached \in BOOLEAN
  /\ \E s \in Settings : conf = [settings |-> s, tunnels |-> {}, theme |-> "dark", token |-> 0]
  /\ runs = IF attached THEN None ELSE conf
  /\ screen = "away" /\ draft = None /\ dirty = FALSE /\ note = FALSE /\ list = None
  /\ loads = {} /\ saves = {} /\ persists = {} /\ rotates = {}
  /\ raced = FALSE /\ touches = 0

-----------------------------------------------------------------------------
\* The user.

Calling == saves \cup persists \cup rotates # {}

Touch ==
  /\ touches < MaxTouches /\ touches' = touches + 1
  /\ UNCHANGED <<attached, runs>>

\* A touch of the screen that is open.
Here == Touch /\ raced' = (raced \/ Calling \/ loads # {}) /\ UNCHANGED screen

\* A screen starts by reading the configuration.
OpenForm ==
  /\ Touch /\ screen = "away"
  /\ screen' \in {"settings", "tunnels"}
  /\ loads' = {conf} /\ raced' = Calling
  /\ UNCHANGED <<conf, form, list, saves, persists, rotates>>

\* What is under way goes on, and finds nobody when it returns.
LeaveForm ==
  /\ Touch /\ screen # "away"
  /\ screen' = "away" /\ raced' = FALSE
  /\ draft' = None /\ dirty' = FALSE /\ note' = FALSE /\ list' = None /\ loads' = {}
  /\ saves' = {[c EXCEPT !.here = FALSE] : c \in saves}
  /\ persists' = {[c EXCEPT !.here = FALSE] : c \in persists}
  /\ rotates' = {[c EXCEPT !.here = FALSE] : c \in rotates}
  /\ UNCHANGED conf

\* A field is typed into or picked: the staged copy changes.
Patch ==
  /\ Here /\ screen = "settings" /\ draft # None
  /\ \E s \in Settings \ {draft.settings} : draft' = [draft EXCEPT !.settings = s]
  /\ dirty' = TRUE /\ note' = FALSE
  /\ UNCHANGED <<conf, list, loads, saves, persists, rotates>>

\* reload, of the Discard button.
Discard ==
  /\ Here /\ screen = "settings" /\ dirty
  /\ loads' = loads \cup {conf}
  /\ UNCHANGED <<conf, form, list, saves, persists, rotates>>

\* save: the staged copy, whatever has been written since it was read.
Save ==
  /\ Here /\ screen = "settings" /\ dirty
  /\ ~(\E c \in saves : c.here) /\ Cardinality(saves) < MaxCalls
  /\ saves' = saves \cup {[out |-> draft, step |-> "called", here |-> TRUE]}
  /\ note' = FALSE
  /\ UNCHANGED <<conf, draft, dirty, list, loads, persists, rotates>>

\* ThemeRow, the title bar and the palette: SetTheme writes the theme alone.
PickTheme ==
  /\ Touch
  /\ \E t \in Themes \ {conf.theme} : conf' = [conf EXCEPT !.theme = t]
  /\ UNCHANGED <<screen, form, list, loads, saves, persists, rotates, raced>>

\* TokenRotate, of a gateway that runs its own engine.
Rotate ==
  /\ Here /\ screen = "settings" /\ draft # None /\ ~attached
  /\ ~(\E c \in rotates : c.here) /\ Cardinality(rotates) < MaxCalls
  /\ rotates' = rotates \cup {[landed |-> FALSE, here |-> TRUE]}
  /\ UNCHANGED <<conf, form, list, loads, saves, persists>>

\* onSave, onDelete and onToggle: the list of this render with one tunnel changed.
ChangeTunnel ==
  /\ Here /\ screen = "tunnels" /\ list # None /\ Cardinality(persists) < MaxCalls
  /\ \E t \in Tunnels :
       LET next == IF t \in list THEN list \ {t} ELSE list \cup {t}
       IN persists' = persists \cup {[next |-> next, landed |-> FALSE, here |-> TRUE]}
  /\ UNCHANGED <<conf, form, list, loads, saves, rotates>>

-----------------------------------------------------------------------------
\* What comes back.

LoadArrives ==
  /\ \E c \in loads :
       /\ loads' = loads \ {c}
       /\ IF screen = "settings"
          THEN draft' = c /\ dirty' = FALSE /\ UNCHANGED <<note, list>>
          ELSE list' = c.tunnels /\ UNCHANGED form
  /\ UNCHANGED <<attached, conf, runs, screen, saves, persists, rotates, raced, touches>>

Reply(from, to) == (from \ {to[1]}) \cup {to[2]}

SaveWrites_RefusedIsClean ==
  /\ \E c \in saves :
       /\ c.step = "called"
       /\ \/ conf' = c.out /\ saves' = Reply(saves, <<c, [c EXCEPT !.step = "written"]>>)
             /\ draft' = (IF c.here THEN c.out ELSE draft) /\ UNCHANGED dirty
          \/ saves' = saves \ {c} /\ UNCHANGED <<conf, draft>> /\ dirty' = (dirty /\ ~c.here)
  /\ UNCHANGED <<attached, runs, screen, note, list, loads, persists, rotates, raced, touches>>

\* SaveSettings writes everything; a copy that does not validate is refused.
SaveWrites ==
  /\ \E c \in saves :
       /\ c.step = "called"
       /\ \/ conf' = c.out /\ saves' = Reply(saves, <<c, [c EXCEPT !.step = "written"]>>)
             /\ draft' = (IF c.here THEN c.out ELSE draft)
          \/ saves' = saves \ {c} /\ UNCHANGED <<conf, draft>>
  /\ UNCHANGED <<attached, runs, screen, dirty, note, list, loads, persists, rotates, raced, touches>>

SaveRestarts_IfStillHere ==
  /\ \E c \in saves :
       /\ c.step = "written"
       /\ saves' = IF c.here THEN Reply(saves, <<c, [c EXCEPT !.step = "restarted"]>>) ELSE saves \ {c}
       /\ runs' = IF attached \/ ~c.here THEN runs ELSE conf
  /\ UNCHANGED <<attached, conf, screen, form, list, loads, persists, rotates, raced, touches>>

\* RestartEngine follows also when the screen is gone; engine.New may fail.
SaveRestarts ==
  /\ \E c \in saves :
       /\ c.step = "written"
       /\ saves' = Reply(saves, <<c, [c EXCEPT !.step = "restarted"]>>)
       /\ IF attached THEN UNCHANGED runs ELSE runs' \in {conf, None}
  /\ UNCHANGED <<attached, conf, screen, form, list, loads, persists, rotates, raced, touches>>

\* The save ends: the bar goes, and the note comes whether or not the restart failed.
SaveEnds ==
  /\ \E c \in saves :
       /\ c.step = "restarted" /\ saves' = saves \ {c}
       /\ IF c.here THEN dirty' = FALSE /\ note' = TRUE ELSE UNCHANGED <<dirty, note>>
  /\ UNCHANGED <<attached, conf, runs, screen, draft, list, loads, persists, rotates, raced, touches>>

\* RegenerateToken stops the engine, writes and starts; onDone reads everything again.
RotateLands ==
  /\ conf.token < MaxToken
  /\ \E c \in rotates :
       /\ ~c.landed /\ rotates' = Reply(rotates, <<c, [c EXCEPT !.landed = TRUE]>>)
       /\ conf' = [conf EXCEPT !.token = @ + 1]
       /\ runs' \in {conf', None}
  /\ UNCHANGED <<attached, screen, form, list, loads, saves, persists, raced, touches>>

RotateEnds ==
  /\ \E c \in rotates :
       /\ c.landed /\ rotates' = rotates \ {c}
       /\ loads' = IF c.here THEN loads \cup {conf} ELSE loads
  /\ UNCHANGED <<attached, conf, runs, screen, form, list, saves, persists, raced, touches>>

\* SaveTunnels hot-applies the list to an agent's engine.
PersistLands ==
  /\ \E c \in persists :
       /\ ~c.landed /\ persists' = Reply(persists, <<c, [c EXCEPT !.landed = TRUE]>>)
       /\ conf' = [conf EXCEPT !.tunnels = c.next]
       /\ runs' = IF runs = None THEN None ELSE [runs EXCEPT !.tunnels = c.next]
  /\ UNCHANGED <<attached, screen, form, list, loads, saves, rotates, raced, touches>>

PersistEnds_KeepsList ==
  /\ \E c \in persists : c.landed /\ persists' = persists \ {c}
  /\ UNCHANGED <<attached, conf, runs, screen, form, list, loads, saves, rotates, raced, touches>>

\* The list on screen becomes what was written; a list that is refused changes nothing.
PersistEnds ==
  /\ \E c \in persists :
       /\ persists' = persists \ {c}
       /\ list' = IF c.landed /\ c.here THEN c.next ELSE list
  /\ UNCHANGED <<attached, conf, runs, screen, form, loads, saves, rotates, raced, touches>>

FormsNext ==
  \/ OpenForm \/ LeaveForm \/ Patch \/ Discard \/ Save \/ PickTheme \/ Rotate \/ ChangeTunnel
  \/ LoadArrives \/ SaveWrites \/ SaveRestarts \/ SaveEnds
  \/ RotateLands \/ RotateEnds \/ PersistLands \/ PersistEnds

-----------------------------------------------------------------------------
\* What is saved runs: an engine of this process that differs from the saved
\* configuration is about to be restarted, though the user may have left the
\* screen. (The theme is none of the engine's business.)
SavedRuns ==
  (~attached /\ runs # None) =>
    \/ [runs EXCEPT !.theme = conf.theme] = conf
    \/ \E c \in saves : c.step = "written"

\* Without the save bar the form shows what is saved, unless the user went on
\* typing while a call was under way. (Then a save that ends hides the bar of
\* an edit that it did not write.)
BarTells ==
  (screen = "settings" /\ draft # None /\ ~dirty /\ ~raced /\ ~Calling)
    => draft.settings = conf.settings

\* The list of tunnels on screen is the one that is saved, unless the user made
\* a change while another was under way.
ListIsSaved ==
  (screen = "tunnels" /\ list # None /\ ~raced /\ ~Calling)
    => list = conf.tunnels
=============================================================================
