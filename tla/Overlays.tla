------------------------------ MODULE Overlays ------------------------------
(***************************************************************************)
(* What floats over the Tunnels screen and the timers that take it away:   *)
(* the editor (TunnelEditor in a Modal, ui.tsx), the menu of its Select,   *)
(* the palette of commands (CommandPalette.tsx), the delete buttons that   *)
(* are clicked twice. An overlay that is told to close plays its exit and  *)
(* goes when a timer fires that nothing cancels: it closes what is open by *)
(* then, as a call that ends closes the editor that is open by then.       *)
(*                                                                         *)
(* Left out: where things are drawn, the fields of the editor, what the    *)
(* commands do other than leave the screen.                                *)
(*                                                                         *)
(* A definition named X_Y is not part of the model: it is X with the bug Y *)
(* put in, and some property must fail when it takes the place of X.       *)
(***************************************************************************)
EXTENDS Integers, SequencesExt, FiniteSets

CONSTANTS
  Rows,        \* tunnels there may be
  Commands,    \* the commands of the palette, in the order it ranks them
  Leaving,     \* those that go to another screen
  Hits,        \* [query -> commands that match it]
  MaxTimers,   \* bound: exits under way
  MaxPersists, \* bound: calls under way
  MaxActs,     \* bound: what the user does
  Shut

ASSUME OverlaysAssumption ==
  /\ Commands \in Seq(STRING) /\ Leaving \subseteq ToSet(Commands)
  /\ \A q \in DOMAIN Hits : Hits[q] \subseteq ToSet(Commands)
  /\ \E q \in DOMAIN Hits : Hits[q] = ToSet(Commands)
  /\ MaxTimers \in Nat /\ MaxPersists \in Nat /\ MaxActs \in Nat

VARIABLES
  tunnelRows,  \* the list on screen
  editor,      \* Shut or what is edited
  exits,       \* timers of the editor's exits
  persisting,  \* SaveTunnels calls under way
  armed,       \* the delete buttons that ask "Delete?"
  pal,         \* Shut or the palette
  palExits,    \* timers of the palette's exits
  offered,     \* the commands whose gate is open
  taps,        \* how often the delete button of each tunnel was clicked in time
  err,         \* is the error of a call shown?
  mixed,       \* was a change made while another was under way?
  acts         \* what the user has done so far

overlayVars == <<tunnelRows, editor, exits, persisting, armed, pal, palExits, offered, err,
                 taps, mixed, acts>>

Editor == [typed : BOOLEAN, menu : BOOLEAN, told : BOOLEAN, followed : BOOLEAN]
Palette == [q : DOMAIN Hits, idx : -1..Len(Commands), told : BOOLEAN, followed : BOOLEAN,
            shifted : BOOLEAN, inField : BOOLEAN]

ASSUME ShutAssumption ==
  /\ Shut \notin Editor
  /\ Shut \notin [q : DOMAIN Hits, idx : Int, told : BOOLEAN, followed : BOOLEAN,
                  shifted : BOOLEAN, inField : BOOLEAN]

OverlaysTypeOK ==
  /\ tunnelRows \subseteq Rows /\ armed \subseteq tunnelRows /\ taps \in [Rows -> 0..2]
  /\ editor \in Editor \cup {Shut} /\ exits \in 0..MaxTimers
  /\ persisting \in Seq([next : SUBSET Rows, own : BOOLEAN]) /\ err \in BOOLEAN
  /\ pal \in Palette \cup {Shut} /\ palExits \in 0..MaxTimers
  /\ offered \subseteq ToSet(Commands) /\ mixed \in BOOLEAN /\ acts \in 0..MaxActs

OverlaysInit ==
  /\ tunnelRows = Rows /\ editor = Shut /\ exits = 0 /\ persisting = <<>> /\ armed = {}
  /\ pal = Shut /\ palExits = 0 /\ offered = ToSet(Commands)
  /\ err = FALSE /\ taps = [t \in Rows |-> 0] /\ mixed = FALSE /\ acts = 0

Act == acts < MaxActs /\ acts' = acts + 1
paletteVars == <<pal, palExits>>
editorVars == <<editor, exits>>

-----------------------------------------------------------------------------
\* The editor and its menu.

\* A click on the screen: neither scrim is in the way.
Uncovered == editor = Shut /\ pal = Shut

OpenEditor ==
  /\ Act /\ Uncovered
  /\ editor' = [typed |-> FALSE, menu |-> FALSE, told |-> FALSE,
                followed |-> exits > 0 \/ persisting # <<>>]
  /\ UNCHANGED <<tunnelRows, exits, persisting, armed, paletteVars, offered, err, taps, mixed>>

\* A click elsewhere takes the focus from the field of the palette.
Blur == pal' = IF pal = Shut THEN Shut ELSE [pal EXCEPT !.inField = FALSE]

\* It also stays usable while its exit plays.
TypeInEditor ==
  /\ Act /\ editor # Shut
  /\ editor' = [editor EXCEPT !.typed = TRUE, !.menu = FALSE]
  /\ Blur
  /\ UNCHANGED <<tunnelRows, exits, persisting, armed, palExits, offered, err, taps, mixed>>

ToggleMenu ==
  /\ Act /\ editor # Shut
  /\ editor' = [editor EXCEPT !.menu = ~@]
  /\ Blur
  /\ UNCHANGED <<tunnelRows, exits, persisting, armed, palExits, offered, err, taps, mixed>>

\* begin: the exit plays, and a timer is set each time.
BeginExit ==
  /\ exits < MaxTimers /\ exits' = exits + 1
  /\ editor' = [editor EXCEPT !.told = TRUE, !.menu = FALSE]

\* The scrim, or the cross in the corner.
Backdrop ==
  /\ Act /\ editor # Shut /\ BeginExit
  /\ Blur
  /\ UNCHANGED <<tunnelRows, persisting, armed, palExits, offered, err, taps, mixed>>

\* A call that was this editor's own is nobody's once it is gone.
Orphans(calls) == [i \in DOMAIN calls |-> [calls[i] EXCEPT !.own = FALSE]]

\* Cancel closes at once; exits that were begun go on.
Cancel ==
  /\ Act /\ editor # Shut
  /\ editor' = Shut /\ persisting' = Orphans(persisting)
  /\ Blur
  /\ UNCHANGED <<tunnelRows, exits, armed, palExits, offered, err, taps, mixed>>

\* The timer fires: closeRef closes the editor of now.
ExitEnds ==
  /\ exits > 0 /\ exits' = exits - 1
  /\ editor' = Shut /\ persisting' = Orphans(persisting)
  /\ UNCHANGED <<tunnelRows, armed, paletteVars, offered, err, taps, mixed, acts>>

-----------------------------------------------------------------------------
\* Calls that change the list: each hands over all of it.

Persist(next, own) ==
  /\ Len(persisting) < MaxPersists
  /\ persisting' = Append(persisting, [next |-> next, own |-> own])
  /\ err' = FALSE
  /\ mixed' = (mixed \/ persisting # <<>>)

\* onSave: the button is dead while its own save is under way.
SaveEditor ==
  /\ Act /\ editor # Shut /\ ~(\E c \in ToSet(persisting) : c.own)
  /\ \E t \in Rows : Persist(tunnelRows \cup {t}, TRUE)
  /\ editor' = [editor EXCEPT !.menu = FALSE]
  /\ Blur
  /\ UNCHANGED <<tunnelRows, exits, armed, palExits, offered, taps>>

\* The first click arms, the second deletes.
ClickDelete ==
  /\ Act /\ Uncovered
  /\ \E t \in tunnelRows :
       /\ taps' = [taps EXCEPT ![t] = IF @ = 2 THEN 2 ELSE @ + 1]
       /\ IF t \in armed
          THEN Persist(tunnelRows \ {t}, FALSE) /\ UNCHANGED armed
          ELSE armed' = armed \cup {t} /\ UNCHANGED <<persisting, err, mixed>>
  /\ UNCHANGED <<tunnelRows, editorVars, paletteVars, offered>>

\* After 2.5 seconds, also when the delete is under way.
Disarm ==
  /\ \E t \in armed :
       armed' = armed \ {t} /\ taps' = [taps EXCEPT ![t] = IF @ = 2 THEN 2 ELSE 0]
  /\ UNCHANGED <<tunnelRows, editorVars, persisting, paletteVars, offered, err, mixed, acts>>

ArmedIn_ByPlace(list) ==
  IF armed \subseteq list \/ list = {} THEN armed \cap list ELSE list

\* The buttons are keyed by tunnel: a row that goes takes its state along.
ArmedIn(list) == armed \cap list

PersistAnswers_ClosesAnyway ==
  /\ \E i \in DOMAIN persisting :
       LET call == persisting[i]
           rest == RemoveAt(persisting, i)
       IN /\ \/ /\ persisting' = Orphans(rest)
                /\ tunnelRows' = call.next /\ armed' = ArmedIn(call.next) /\ editor' = Shut
                /\ taps' = [t \in Rows |-> IF t \in call.next THEN taps[t] ELSE 0]
                /\ UNCHANGED err
             \/ /\ persisting' = Orphans(rest) /\ editor' = Shut /\ err' = TRUE
                /\ UNCHANGED <<tunnelRows, armed, taps>>
          /\ mixed' = (mixed /\ rest # <<>>)
  /\ UNCHANGED <<exits, paletteVars, offered, acts>>

\* What was saved is the list, and the editor closes; what was refused
\* leaves both.
PersistAnswers ==
  /\ \E i \in DOMAIN persisting :
       LET call == persisting[i]
           rest == RemoveAt(persisting, i)
       IN /\ \/ /\ persisting' = Orphans(rest)
                /\ tunnelRows' = call.next /\ armed' = ArmedIn(call.next) /\ editor' = Shut
                /\ taps' = [t \in Rows |-> IF t \in call.next THEN taps[t] ELSE 0]
                /\ UNCHANGED err
             \/ persisting' = rest /\ err' = TRUE /\ UNCHANGED <<tunnelRows, armed, editor, taps>>
          /\ mixed' = (mixed /\ rest # <<>>)
  /\ UNCHANGED <<exits, paletteVars, offered, acts>>

-----------------------------------------------------------------------------
\* The palette.

Kept(S) == FoldLeft(LAMBDA s, c : IF c \in S THEN Append(s, c) ELSE s, <<>>, Commands)

Results(p) == Kept(offered \cap Hits[p.q])

Opened == [q |-> CHOOSE q \in DOMAIN Hits : Hits[q] = ToSet(Commands), idx |-> 0, told |-> FALSE,
           followed |-> palExits > 0, shifted |-> FALSE, inField |-> TRUE]

\* Ctrl+K opens and closes at once; exits that were begun go on.
CtrlK ==
  /\ Act
  /\ pal' = IF pal = Shut THEN Opened ELSE Shut
  /\ UNCHANGED <<tunnelRows, editorVars, persisting, armed, palExits, offered, err, taps, mixed>>

Requery_KeepsPlace(q) == pal' = [pal EXCEPT !.q = q, !.shifted = FALSE]

\* A query starts at its first result.
Requery(q) == pal' = [pal EXCEPT !.q = q, !.idx = 0, !.shifted = FALSE]

TypeQuery ==
  /\ Act /\ pal # Shut /\ pal.inField
  /\ \E q \in DOMAIN Hits \ {pal.q} : Requery(q)
  /\ UNCHANGED <<tunnelRows, editorVars, persisting, armed, palExits, offered, err, taps, mixed>>

\* The arrows stop at the ends: with no result, down goes before the first.
Arrow ==
  /\ Act /\ pal # Shut /\ pal.inField
  /\ LET last == Len(Results(pal)) - 1
     IN pal' \in {[pal EXCEPT !.idx = IF last < @ + 1 THEN last ELSE @ + 1],
                  [pal EXCEPT !.idx = IF @ - 1 < 0 THEN 0 ELSE @ - 1]}
  /\ UNCHANGED <<tunnelRows, editorVars, persisting, armed, palExits, offered, err, taps, mixed>>

\* beginClose: as begin of the editor.
BeginClose(p) == palExits < MaxTimers /\ palExits' = palExits + 1 /\ pal' = [p EXCEPT !.told = TRUE]

\* The screen goes, with the state of all that is on it; the next one reads
\* the list again.
LeaveScreen ==
  /\ editor' = Shut /\ exits' = 0 /\ persisting' = <<>> /\ armed' = {} /\ err' = FALSE
  /\ tunnelRows' \in {tunnelRows} \cup {c.next : c \in ToSet(persisting)}
  /\ taps' = [t \in Rows |-> 0] /\ mixed' = FALSE

Run(c) ==
  IF c \in Leaving THEN LeaveScreen
  ELSE UNCHANGED <<tunnelRows, editorVars, persisting, armed, err, taps, mixed>>

\* Enter runs what is highlighted, a click what is clicked; also again, while
\* the exit plays.
PressEnter ==
  /\ Act /\ pal # Shut /\ pal.inField /\ pal.idx + 1 \in DOMAIN Results(pal)
  /\ BeginClose(pal) /\ Run(Results(pal)[pal.idx + 1])
  /\ UNCHANGED offered

ClickCommand ==
  /\ Act /\ pal # Shut /\ editor = Shut
  /\ \E i \in 1..Len(Results(pal)) :
       BeginClose([pal EXCEPT !.idx = i - 1, !.inField = FALSE]) /\ Run(Results(pal)[i])
  /\ UNCHANGED offered

\* A click beside the commands takes the focus from the field, or gives it
\* back; one on the scrim closes.
ClickPalette ==
  /\ Act /\ pal # Shut /\ editor = Shut
  /\ \/ \E inField \in BOOLEAN : pal' = [pal EXCEPT !.inField = inField] /\ UNCHANGED palExits
     \/ BeginClose([pal EXCEPT !.inField = FALSE])
  /\ UNCHANGED <<tunnelRows, editorVars, persisting, armed, offered, err, taps, mixed>>

CloseEnds ==
  /\ palExits > 0 /\ palExits' = palExits - 1 /\ pal' = Shut
  /\ UNCHANGED <<tunnelRows, editorVars, persisting, armed, offered, err, taps, mixed, acts>>

\* The status polls: gates open and close while the palette is open.
GatesMove ==
  /\ \E c \in ToSet(Commands) \ Leaving :
       offered' = IF c \in offered THEN offered \ {c} ELSE offered \cup {c}
  /\ pal' = IF pal = Shut THEN Shut ELSE [pal EXCEPT !.shifted = TRUE]
  /\ Act
  /\ UNCHANGED <<tunnelRows, editorVars, persisting, armed, palExits, err, taps, mixed>>

-----------------------------------------------------------------------------
PressEscape_PastMenu ==
  /\ Act /\ (editor # Shut \/ pal # Shut)
  /\ IF pal # Shut /\ pal.inField THEN BeginClose(pal) ELSE UNCHANGED paletteVars
  /\ IF editor # Shut THEN BeginExit ELSE UNCHANGED editorVars
  /\ UNCHANGED <<tunnelRows, persisting, armed, offered, err, taps, mixed>>

\* Escape is heard by the field of the palette, then by an open menu, which
\* keeps it from the editor.
PressEscape ==
  /\ Act /\ (editor # Shut \/ pal # Shut)
  /\ IF pal # Shut /\ pal.inField THEN BeginClose(pal) ELSE UNCHANGED paletteVars
  /\ CASE editor = Shut -> UNCHANGED editorVars
       [] editor # Shut /\ editor.menu -> editor' = [editor EXCEPT !.menu = FALSE] /\ UNCHANGED exits
       [] OTHER -> BeginExit
  /\ UNCHANGED <<tunnelRows, persisting, armed, offered, err, taps, mixed>>

OverlaysNext ==
  \/ OpenEditor \/ TypeInEditor \/ ToggleMenu \/ Backdrop \/ Cancel \/ ExitEnds
  \/ SaveEditor \/ ClickDelete \/ Disarm \/ PersistAnswers
  \/ CtrlK \/ TypeQuery \/ Arrow \/ PressEnter \/ ClickCommand \/ ClickPalette \/ CloseEnds \/ GatesMove
  \/ PressEscape

-----------------------------------------------------------------------------
\* Nothing closes by itself. An editor goes because it was told to, because it
\* was saved, or because the user left the screen; the palette because it was
\* told to or by its shortcut. (The exception: one that was opened while the
\* exit of the one before, or a call, was under way may be taken along.)
ClosesAreMeant ==
  [][/\ (editor # Shut /\ editor' = Shut) =>
          \/ editor.told \/ editor.followed \/ Cancel \/ PressEnter \/ ClickCommand
          \/ ~err' /\ \E c \in ToSet(persisting) : c.own /\ tunnelRows' = c.next
     /\ (pal # Shut /\ pal' = Shut) => pal.told \/ pal.followed \/ CtrlK]_overlayVars

\* Escape closes the menu of an editor and not the editor with it.
MenuShieldsEditor ==
  [][(PressEscape /\ editor # Shut /\ editor.menu) => editor' = [editor EXCEPT !.menu = FALSE]]_overlayVars

\* A tunnel goes only when its own button was clicked twice. (The exception:
\* changes that were made while another was under way, each with the list of
\* its render.)
DeletesAreMeant == [][\A t \in tunnelRows \ tunnelRows' : taps[t] = 2 \/ mixed]_overlayVars

\* Something is highlighted and Enter runs it, unless commands came or went
\* since the query was typed.
EnterFindsSomething ==
  (pal # Shut /\ ~pal.shifted /\ Results(pal) # <<>>) => pal.idx + 1 \in DOMAIN Results(pal)

OverlaysSafe == OverlaysTypeOK /\ EnterFindsSomething

OverlaysKeep == ClosesAreMeant /\ MenuShieldsEditor /\ DeletesAreMeant
=============================================================================
