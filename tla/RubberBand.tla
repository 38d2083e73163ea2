------------------------------ MODULE RubberBand ------------------------------
(***************************************************************************)
(* The overscroll of rubberband.ts: a wheel, a finger and keys each take   *)
(* the band of a scroller that has no room left, share its record, and a   *)
(* loop of frames carries it home once nothing holds it.                   *)
(*                                                                         *)
(* The spring is its sign: the side to which the content is displaced. The *)
(* pull of a gesture is counted in units, and "idle" is IDLE_MS gone by.   *)
(* Pixels, the strength of a flick and horizontal wheels are left out;     *)
(* shared and lost are kept for the properties.                            *)
(*                                                                         *)
(* A definition named X_Y is not part of the model: it is X with the bug Y *)
(* put in, and some property must fail when it takes the place of X.       *)
(***************************************************************************)
EXTENDS Integers, FiniteSets

CONSTANTS
  Main,      \* the scroller of the page
  Wells,     \* scrollers within it
  MaxRaw,    \* bound: the pull of one gesture, in units
  Idle,      \* no scroller
  Orphan,    \* a record that the map of bands has dropped
  MaxInputs  \* bound: what the user does

ASSUME BandAssumption ==
  /\ Main \notin Wells /\ IsFiniteSet(Wells) /\ Idle \notin Wells \cup {Main}
  /\ Orphan \notin Wells \cup {Main, Idle}
  /\ MaxRaw \in Nat \ {0} /\ MaxInputs \in Nat

Scrollers == Wells \cup {Main}
Dirs == {-1, 1}

\* side is the edge past which the content stands, or 0.
Band == [edge : Dirs, raw : -MaxRaw..MaxRaw, side : {-1, 0, 1}, held : BOOLEAN,
         auto : BOOLEAN, leak : BOOLEAN, fresh : BOOLEAN]

ASSUME IdleAssumption == Idle \notin Band

VARIABLES
  bands,      \* the record of each scroller, or Idle
  frame,      \* is a frame requested?
  wheelBand, touchBand,
  finger,     \* the scroller under the finger that is followed, or Idle
  gone,       \* has the node under the finger left the page?
  guard,      \* the edge of the spent fling whose tail is swallowed, or 0
  roomTo,     \* roomTo[s][d]: can s scroll towards d?
  glow,       \* scrollers whose edge is lit
  reduced,    \* is motion reduced?
  shared,     \* has another instrument used the finger's band?
  lost,       \* has a finger been lost with its node, or a lit page been replaced?
  inputs

bandVars == <<bands, frame, wheelBand, touchBand, finger, gone, guard, roomTo, glow,
              reduced, shared, lost, inputs>>

Live == {s \in Scrollers : bands[s] # Idle}

BandTypeOK ==
  /\ bands \in [Scrollers -> Band \cup {Idle}] /\ frame \in BOOLEAN
  /\ wheelBand \in Scrollers \cup {Idle, Orphan}
  /\ touchBand \in Scrollers \cup {Idle, Orphan}
  /\ finger \in Scrollers \cup {Idle} /\ gone \in BOOLEAN
  /\ guard \in {-1, 0, 1} /\ roomTo \in [Scrollers -> [Dirs -> BOOLEAN]]
  /\ glow \subseteq Scrollers
  /\ reduced \in BOOLEAN /\ shared \in BOOLEAN /\ lost \in BOOLEAN
  /\ inputs \in 0..MaxInputs

\* Everything is scrolled to its top.
BandInit ==
  /\ bands = [s \in Scrollers |-> Idle] /\ frame = FALSE
  /\ wheelBand = Idle /\ touchBand = Idle /\ finger = Idle /\ gone = FALSE
  /\ guard = 0
  /\ roomTo \in [Scrollers -> {room \in [Dirs -> BOOLEAN] : ~room[-1]}]
  /\ glow = {} /\ reduced = FALSE /\ shared = FALSE /\ lost = FALSE /\ inputs = 0

-----------------------------------------------------------------------------
\* Whose band it is, and what a gesture does to it.

\* ownerFor: a well contains its overscroll, the page has the rest.
OwnerFor(from, dir) ==
  IF from \in Wells THEN IF roomTo[from][dir] THEN Idle ELSE from
  ELSE IF roomTo[Main][dir] THEN Idle ELSE Main

Fresh(dir) == [edge |-> dir, raw |-> 0, side |-> 0, held |-> TRUE, auto |-> TRUE,
               leak |-> FALSE, fresh |-> TRUE]

\* bandFor
BandOf(s, dir) == IF bands[s] = Idle THEN Fresh(dir) ELSE bands[s]

Claim_KeepsRelease(b, dir, auto) ==
  [b EXCEPT !.edge = dir, !.held = TRUE, !.leak = FALSE,
            !.raw = IF b.side = dir THEN dir ELSE 0]

\* claim: the pull begins where the content stands, if that is on this side.
Claim(b, dir, auto) ==
  [b EXCEPT !.edge = dir, !.auto = auto, !.held = TRUE, !.leak = FALSE,
            !.raw = IF b.side = dir THEN dir ELSE 0]

Clamp(n) == IF n > MaxRaw THEN MaxRaw ELSE IF n < -MaxRaw THEN -MaxRaw ELSE n

\* pull: TRUE in its result when the event is taken.
Through(b, dir) == (b.raw + dir) * b.edge <= 0

Pulled_BackStillHeld(b, dir) ==
  IF Through(b, dir) THEN [b EXCEPT !.raw = 0]
  ELSE [b EXCEPT !.raw = Clamp(b.raw + dir), !.held = TRUE, !.fresh = TRUE]

Pulled(b, dir) ==
  IF Through(b, dir) THEN [b EXCEPT !.raw = 0, !.held = FALSE, !.auto = TRUE]
  ELSE [b EXCEPT !.raw = Clamp(b.raw + dir), !.held = TRUE, !.fresh = TRUE]

Set(s, b) == bands' = [bands EXCEPT ![s] = b] /\ frame' = TRUE

\* The browser scrolls what has room, and then there may be less.
Native(from, dir) ==
  LET s == IF from \in Wells /\ roomTo[from][dir] THEN from ELSE Main
  IN /\ \/ UNCHANGED roomTo
        \/ /\ roomTo[s][dir]
           /\ roomTo' = [roomTo EXCEPT ![s] = [d \in Dirs |-> d # dir]]
     /\ UNCHANGED <<bands, frame>>

Input == inputs < MaxInputs /\ inputs' = inputs + 1 /\ ~reduced

Note(s) == shared' = (shared \/ s = touchBand)

Swallowed == UNCHANGED <<bands, frame, roomTo, shared>>

-----------------------------------------------------------------------------
\* Input.

\* A burst keeps its band, even one that was dropped when the map has another
\* for its scroller.
WheelAtOrphan ==
  /\ Input /\ wheelBand = Orphan /\ Live # {}
  /\ Swallowed /\ wheelBand' \in {Orphan, Idle}
  /\ UNCHANGED <<touchBand, finger, gone, guard, glow, reduced, lost>>

\* onWheel: the tail of a spent fling is swallowed before anyone is asked.
Wheel(from, dir, dense) ==
  /\ Input
  /\ IF guard = dir /\ dense
     THEN UNCHANGED <<bands, frame, wheelBand, guard, roomTo, shared>>
     ELSE LET latched == wheelBand \in Live /\ bands[wheelBand].fresh
              s == IF latched THEN wheelBand ELSE OwnerFor(from, dir)
          IN /\ guard' = guard
             /\ IF s = Idle
                THEN wheelBand' = Idle /\ Native(from, dir) /\ UNCHANGED shared
                ELSE LET b == IF latched THEN bands[s]
                              ELSE [Claim(BandOf(s, dir), dir, TRUE) EXCEPT !.leak = dense]
                     IN /\ Set(s, Pulled(b, dir)) /\ Note(s)
                        /\ wheelBand' = IF Through(b, dir) THEN Idle ELSE s
                        /\ UNCHANGED roomTo
  /\ UNCHANGED <<touchBand, finger, gone, glow, reduced, lost>>

\* onTouchEnd
Released(bs) ==
  IF touchBand \notin Live THEN bs
  ELSE [bs EXCEPT ![touchBand].held = FALSE, ![touchBand].auto = TRUE]

\* One finger comes down; the one before may have been lost with its node.
TouchStart(from) ==
  /\ Input /\ (finger = Idle \/ gone)
  /\ finger' = from /\ touchBand' = Idle /\ gone' = FALSE /\ shared' = FALSE
  /\ UNCHANGED <<bands, frame, wheelBand, guard, roomTo, glow, reduced, lost>>

TouchMove(dir) ==
  /\ Input /\ finger # Idle /\ ~gone
  /\ LET s == IF touchBand # Idle THEN touchBand ELSE OwnerFor(finger, dir)
     IN CASE s = Idle -> Native(finger, dir) /\ UNCHANGED <<touchBand, shared>>
          [] s = Orphan -> Swallowed /\ touchBand' \in {Orphan, Idle}
          [] OTHER ->
               LET b == IF touchBand # Idle THEN bands[s] ELSE Claim(BandOf(s, dir), dir, FALSE)
               IN /\ Set(s, Pulled(b, dir))
                  /\ touchBand' = IF Through(b, dir) THEN Idle ELSE s
                  /\ shared' = (shared /\ touchBand # Idle)
                  /\ UNCHANGED roomTo
  /\ UNCHANGED <<wheelBand, finger, gone, guard, glow, reduced, lost>>

TouchEnd_Forgets ==
  /\ finger # Idle /\ ~gone
  /\ finger' = Idle /\ touchBand' = Idle /\ shared' = FALSE
  /\ UNCHANGED <<bands, frame, wheelBand, gone, guard, roomTo, glow, reduced, lost, inputs>>

\* The finger leaves, is cancelled, or a second one comes down.
TouchEnd ==
  /\ finger # Idle /\ ~gone
  /\ bands' = Released(bands) /\ frame' = (Live # {})
  /\ finger' = Idle /\ touchBand' = Idle /\ shared' = FALSE
  /\ UNCHANGED <<wheelBand, gone, guard, roomTo, glow, reduced, lost, inputs>>

\* onKey: an impulse into the release.
PressKey(from, dir) ==
  /\ Input
  /\ LET s == OwnerFor(from, dir)
     IN IF s = Idle THEN Native(from, dir) /\ UNCHANGED shared
        ELSE /\ Set(s, [BandOf(s, dir) EXCEPT !.edge = dir, !.held = FALSE, !.auto = TRUE,
                                             !.raw = 0, !.fresh = TRUE])
             /\ Note(s) /\ UNCHANGED roomTo
  /\ UNCHANGED <<wheelBand, touchBand, finger, gone, guard, glow, reduced, lost>>

-----------------------------------------------------------------------------
\* Frames.

\* What one frame may make of the band: let go when idle, let go when its fling
\* is spent, moved by the spring.
Stepped_TouchTimesOut(b) ==
  LET c == IF b.held /\ ~b.fresh THEN [b EXCEPT !.held = FALSE] ELSE b
  IN (IF c.held /\ c.leak THEN {[c EXCEPT !.held = FALSE, !.side = c.edge]} ELSE {})
     \cup {[c EXCEPT !.side = d] : d \in IF c.held THEN {c.side, c.edge} ELSE {c.side, -c.side, 0}}

Stepped(b) ==
  LET c == IF b.held /\ b.auto /\ ~b.fresh THEN [b EXCEPT !.held = FALSE] ELSE b
  IN (IF c.held /\ c.leak THEN {[c EXCEPT !.held = FALSE, !.side = c.edge]} ELSE {})
     \cup {[c EXCEPT !.side = d] : d \in IF c.held THEN {c.side, c.edge} ELSE {c.side, -c.side, 0}}

AtRest(b) == ~b.held /\ b.side = 0

\* tick: bands that rest leave; the others are painted.
Frame ==
  /\ frame
  /\ \E step \in [Live -> UNION {Stepped(bands[s]) : s \in Live}] :
       /\ \A s \in Live : step[s] \in Stepped(bands[s])
       /\ LET home == {s \in Live : AtRest(step[s])}
          IN /\ bands' = [s \in Scrollers |->
                            IF s \in Live \ home THEN step[s] ELSE Idle]
             /\ glow' = (glow \cup Live) \ home
             /\ wheelBand' = IF wheelBand \in home THEN Idle ELSE wheelBand
             /\ touchBand' = IF touchBand \in home THEN Idle ELSE touchBand
             /\ frame' = (Live \ home # {})
             /\ shared' = (shared /\ touchBand \notin home)
       /\ guard' \in {guard} \cup {step[s].edge : s \in
                       {x \in Live : bands[x].held /\ bands[x].leak /\ ~step[x].held}}
  /\ UNCHANGED <<finger, gone, roomTo, reduced, lost, inputs>>

\* IDLE_MS without input for the band, or without a tail for the guard.
GoesIdle ==
  /\ \/ \E s \in Live : /\ bands[s].fresh /\ bands' = [bands EXCEPT ![s].fresh = FALSE]
                        /\ UNCHANGED guard
     \/ guard # 0 /\ guard' = 0 /\ UNCHANGED bands
  /\ UNCHANGED <<frame, wheelBand, touchBand, finger, gone, roomTo, glow, reduced, shared,
                 lost, inputs>>

-----------------------------------------------------------------------------
\* The page around it.

Reset_KeepsFinger ==
  /\ bands' = [s \in Scrollers |-> Idle] /\ glow' = glow \ Live
  /\ wheelBand' = Idle /\ frame' = FALSE /\ UNCHANGED <<touchBand, finger>>
  /\ shared' = FALSE

\* resetBands: the finger is followed no more.
Reset ==
  /\ bands' = [s \in Scrollers |-> Idle] /\ glow' = glow \ Live
  /\ wheelBand' = Idle /\ touchBand' = Idle /\ finger' = Idle /\ frame' = FALSE
  /\ shared' = FALSE

\* go, before the next screen is shown.
GoElsewhere ==
  /\ Input /\ Reset
  /\ roomTo' \in [Scrollers -> [Dirs -> BOOLEAN]] /\ gone' = FALSE
  /\ UNCHANGED <<guard, reduced, lost>>

\* useRubberBand, as the preference flips; the listeners go with the bands.
Reduce ==
  /\ inputs < MaxInputs /\ inputs' = inputs + 1 /\ reduced' = ~reduced
  /\ IF reduced THEN UNCHANGED <<bands, frame, wheelBand, touchBand, finger, glow, shared>>
                ELSE Reset
  /\ gone' = (gone /\ reduced) /\ UNCHANGED <<guard, roomTo, lost>>

\* A render takes the node under the finger away: its events reach nobody.
NodeGoes ==
  /\ finger # Idle /\ ~gone /\ gone' = TRUE /\ lost' = TRUE
  /\ UNCHANGED <<bands, frame, wheelBand, touchBand, finger, guard, roomTo, glow, reduced,
                 shared, inputs>>

\* A render replaces the content that moves: the next frame drops its band, and
\* the light of the edge stays.
ContentGoes ==
  /\ \E s \in Live :
       /\ bands' = [bands EXCEPT ![s] = Idle] /\ frame' = (Live # {s})
       /\ wheelBand' = IF wheelBand = s THEN Orphan ELSE wheelBand
       /\ touchBand' = IF touchBand = s THEN Orphan ELSE touchBand
       /\ lost' = (lost \/ s \in glow)
  /\ UNCHANGED <<finger, gone, guard, roomTo, glow, reduced, shared, inputs>>

BandNext ==
  \/ \E from \in Scrollers, dir \in Dirs, dense \in BOOLEAN : Wheel(from, dir, dense)
  \/ \E from \in Scrollers, dir \in Dirs : PressKey(from, dir)
  \/ \E from \in Scrollers : TouchStart(from)
  \/ \E dir \in Dirs : TouchMove(dir)
  \/ WheelAtOrphan \/ TouchEnd \/ Frame \/ GoesIdle \/ GoElsewhere \/ Reduce \/ NodeGoes \/ ContentGoes

-----------------------------------------------------------------------------
\* Whatever is stretched is let go of: a held band has an idle timer, or the
\* finger that holds it is down and its lifting will be heard.
HeldIsLetGo ==
  \A s \in Live : bands[s].held /\ ~lost => bands[s].auto \/ (touchBand = s /\ finger # Idle)

\* A band that exists has a frame coming, so that once let go it comes home;
\* where there is none nothing is lit; reduced motion leaves none.
FramesRun ==
  /\ Live # {} => frame
  /\ ~lost => glow \subseteq Live
  /\ reduced => Live = {} /\ touchBand = Idle /\ finger = Idle

\* A finger that holds a stretch keeps it, however long it is still, as long as
\* no wheel and no key has used the band meanwhile.
FingerKeeps ==
  touchBand \in Scrollers /\ ~shared /\ ~lost => bands[touchBand].held /\ ~bands[touchBand].auto

BandSafe == BandTypeOK /\ HeldIsLetGo /\ FramesRun /\ FingerKeeps

=============================================================================
