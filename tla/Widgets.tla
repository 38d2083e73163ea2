------------------------------- MODULE Widgets -------------------------------
(***************************************************************************)
(* Small machines of the interface that live on events in an order nobody  *)
(* chooses, one section each and independent of each other: the segmented  *)
(* control that is tapped or dragged (ui.tsx), the rail of sections that   *)
(* follows the scrolling (SectionRail, Settings.tsx), the numbers and      *)
(* lines that glide (NumberTicker.tsx, useTweenedPlots, useTweenedValues), *)
(* the system card with its badges (SystemSection, Settings.tsx) and the   *)
(* strip with the pairing code (GatewayPairingStrip, Overview.tsx).        *)
(*                                                                         *)
(* A definition named X_Y is not part of the model: it is X with the bug Y *)
(* put in, and some property must fail when it takes the place of X.       *)
(***************************************************************************)
EXTENDS Integers, FiniteSets

CONSTANTS
  Segments,   \* options of the control
  Seat,       \* the width of one
  Slop,       \* a pointer that moved less has not dragged
  Sections,   \* of the rail
  Numbers,    \* what a number or a point may be
  Between,    \* any number on the way between two
  MaxReads,   \* bound: reads of a badge under way
  MaxTries,   \* failures of PairingCode after which the strip shows the error
  Unset

ASSUME WidgetsAssumption ==
  /\ Segments \in Nat \ {0} /\ Seat \in Nat \ {0} /\ Slop \in Nat
  /\ MaxReads \in Nat \ {0} /\ MaxTries \in Nat

-----------------------------------------------------------------------------
\* The segmented control. Positions are offsets from the left of the track.

VARIABLES
  seg,     \* [value, held, from, origin, moved, px, drawn, suppress, click]: see SegTypeOK
  chosen   \* the segment that the last gesture came down on, or Unset

segVars == <<seg, chosen>>

Places == 0..(Segments * Seat - 1)

SegTypeOK ==
  /\ seg \in [value : 0..(Segments - 1),
              held : BOOLEAN,             \* is the pointer captured?
              from : Places,              \* startX
              origin : Nat,               \* where the thumb was then
              moved : BOOLEAN,
              px : Nat \cup {Unset},       \* dragPx, as it was set last
              drawn : Nat \cup {Unset},    \* dragPx, as it was rendered last
              suppress : BOOLEAN,
              timer : BOOLEAN,            \* will the timer of a release end suppress?
              click : 0..(Segments - 1) \cup {Unset}] \* the click that follows a release
  /\ chosen \in 0..(Segments - 1) \cup {Unset}

SegInit ==
  /\ seg = [value |-> 0, held |-> FALSE, from |-> 0, origin |-> 0, moved |-> FALSE, px |-> Unset,
            drawn |-> Unset, suppress |-> FALSE, timer |-> FALSE, click |-> Unset]
  /\ chosen = Unset

Within(n, top) == IF n < 0 THEN 0 ELSE IF n > top THEN top ELSE n

PointerDown ==
  /\ ~seg.held /\ seg.click = Unset
  /\ \E x \in Places :
       seg' = [seg EXCEPT !.held = TRUE, !.from = x, !.origin = seg.value * Seat,
                          !.moved = FALSE, !.suppress = FALSE]
  /\ chosen' = Unset

PointerMove ==
  /\ seg.held
  /\ \E x \in Places :
       LET dx == x - seg.from
       IN /\ seg.moved \/ dx >= Slop \/ -dx >= Slop
          /\ seg' = [seg EXCEPT !.moved = TRUE,
                                !.px = Within(seg.origin + dx, (Segments - 1) * Seat)]
  /\ UNCHANGED chosen

RenderThumb ==
  /\ seg.drawn # seg.px
  /\ seg' = [seg EXCEPT !.drawn = seg.px]
  /\ UNCHANGED chosen

\* Math.round of a thumb's place in seats.
Nearest(px) == Within((2 * px + Seat) \div (2 * Seat), Segments - 1)

\* The release commits: the seat nearest to the thumb as it was rendered, or
\* the one that was tapped. The click that the browser makes of it follows.
PointerUp ==
  /\ seg.held
  /\ \E x \in Places, click \in 0..(Segments - 1) \cup {Unset} :
       LET place == IF seg.drawn = Unset THEN seg.origin ELSE seg.drawn
           seat == IF seg.moved THEN Nearest(place) ELSE x \div Seat
       IN /\ click \in {Unset, x \div Seat}
          /\ ~seg.moved => (x - seg.from < Slop /\ seg.from - x < Slop)
          /\ seg' = [seg EXCEPT !.held = FALSE, !.px = Unset, !.drawn = Unset, !.suppress = TRUE,
                                !.timer = TRUE, !.value = seat, !.click = click]
          /\ chosen' = seat

PointerCancel ==
  /\ seg.held
  /\ seg' = [seg EXCEPT !.held = FALSE, !.px = Unset, !.drawn = Unset, !.moved = FALSE]
  /\ UNCHANGED chosen

Pick_Always ==
  /\ seg.click # Unset
  /\ seg' = [seg EXCEPT !.click = Unset, !.value = seg.click]
  /\ UNCHANGED chosen

\* The click of a release comes before its timer, and is dropped.
Pick ==
  /\ seg.click # Unset
  /\ seg' = [seg EXCEPT !.click = Unset, !.value = IF seg.suppress THEN @ ELSE seg.click]
  /\ UNCHANGED chosen

\* The keyboard clicks without a pointer.
PickByKey ==
  /\ ~seg.held /\ seg.click = Unset
  /\ \E v \in 0..(Segments - 1) :
       seg' = [seg EXCEPT !.value = IF seg.suppress THEN @ ELSE v]
  /\ chosen' = Unset

SuppressEnds ==
  /\ seg.timer /\ seg.click = Unset
  /\ seg' = [seg EXCEPT !.suppress = FALSE, !.timer = FALSE]
  /\ UNCHANGED chosen

SegNext ==
  \/ PointerDown \/ PointerMove \/ RenderThumb \/ PointerUp \/ PointerCancel
  \/ Pick \/ PickByKey \/ SuppressEnds

\* A gesture chooses once: whatever click the browser makes of it, what it
\* came down on stays chosen.
GestureChooses == chosen # Unset => seg.value = chosen

-----------------------------------------------------------------------------
\* The rail of sections.

VARIABLES
  rail   \* [active, pinned, timer, list]

RailTypeOK ==
  rail \in [active : Sections \cup {Unset}, pinned : BOOLEAN, timer : BOOLEAN, list : SUBSET Sections]

RailInit == \E s \in Sections : rail = [active |-> s, pinned |-> FALSE, timer |-> FALSE, list |-> Sections]

\* A click highlights its section and pins it while the scrolling plays out.
Jump ==
  \E s \in rail.list : rail' = [rail EXCEPT !.active = s, !.pinned = TRUE, !.timer = TRUE]

\* The section under the reading line, unless one is pinned: then the release
\* is put off.
Spied(r) ==
  IF r.pinned THEN {[r EXCEPT !.timer = TRUE]} ELSE {[r EXCEPT !.active = s] : s \in r.list}

Scroll == rail' \in Spied(rail)

Unpin == rail.timer /\ rail' = [rail EXCEPT !.pinned = FALSE, !.timer = FALSE]

SectionsChange_TimerOnly ==
  \E gone \in (SUBSET Sections) \ {Sections} :
    rail' = [rail EXCEPT !.list = Sections \ gone, !.timer = FALSE]

\* The role changes: the effect clears its timer, and starts again with a look.
SectionsChange ==
  \E gone \in (SUBSET Sections) \ {Sections} :
    rail' \in Spied([rail EXCEPT !.list = Sections \ gone, !.timer = FALSE])

RailNext == Jump \/ Scroll \/ Unpin \/ SectionsChange

\* A pin is always about to be released: the rail cannot stay frozen.
PinIsReleased == rail.pinned => rail.timer

-----------------------------------------------------------------------------
\* What glides. A ticker starts from the number it last came to rest at, a
\* line from what is drawn.

VARIABLES
  glide   \* [ticker, value, from, shown, moving]

GlideTypeOK ==
  glide \in [ticker : BOOLEAN, value : Numbers, from : Numbers, shown : Numbers \cup {Between},
             moving : BOOLEAN]

GlideInit ==
  \E n \in Numbers, ticker \in BOOLEAN :
    glide = [ticker |-> ticker, value |-> n, from |-> n, shown |-> n, moving |-> FALSE]

SetValue_WhenAtRest ==
  \E n \in Numbers \ {glide.value} :
    glide' = [glide EXCEPT !.value = n, !.moving = ~@ /\ (~glide.ticker \/ n # glide.from)]

\* The frames of the old value are cancelled. A ticker whose value is the one
\* it started from does not move.
SetValue ==
  \E n \in Numbers \ {glide.value} :
    glide' = [glide EXCEPT !.value = n, !.moving = ~glide.ticker \/ n # glide.from]

\* Reduced motion.
SnapValue ==
  \E n \in Numbers \ {glide.value} :
    glide' = [glide EXCEPT !.value = n, !.from = n, !.shown = n, !.moving = FALSE]

FrameOfGlide ==
  /\ glide.moving
  /\ \/ glide' = [glide EXCEPT !.shown = Between]
     \/ glide' = [glide EXCEPT !.shown = glide.value, !.from = glide.value, !.moving = FALSE]

GlideNext == SetValue \/ SnapValue \/ FrameOfGlide

\* What is at rest shows its value, but for a ticker that was sent back to
\* where it started before it arrived. (That one stays where it was.)
RestIsTrue == (~glide.moving /\ glide.shown # glide.value) => glide.ticker /\ glide.value = glide.from

-----------------------------------------------------------------------------
\* The system card: a badge (of the firewall rule, or of the service) and the
\* button that changes it. What else changes the system is left out.

VARIABLES
  sys   \* [real, badge, ops, reads, crossed]

States == {"present", "missing"}

SysTypeOK ==
  /\ sys.real \in States                    \* of the rule, or of the service
  /\ sys.badge \in States \cup {"unknown"}
  /\ sys.ops \in 0..2                       \* calls that change it, under way
  /\ sys.busy \in BOOLEAN
  /\ sys.reads \subseteq ({"asked"} \cup States) \X (1..MaxReads)
  /\ sys.crossed \in BOOLEAN                \* did it change while a read was under way?

SysInit ==
  \E real \in States :
    sys = [real |-> real, badge |-> "unknown", ops |-> 0, busy |-> FALSE, reads |-> {<<"asked", 1>>},
           crossed |-> FALSE]

\* refresh
WithRead(s) ==
  [s EXCEPT !.reads = @ \cup {<<"asked", CHOOSE n \in 1..MaxReads : \A r \in s.reads : r[2] # n>>},
            !.crossed = @ /\ s.reads # {}]

StartOp ==
  /\ sys.ops < 2 /\ ~sys.busy
  /\ sys' = [sys EXCEPT !.ops = @ + 1, !.busy = TRUE]

\* The other button's call begins or ends, and takes the key: this button is
\* live again.
OtherOp == sys.busy /\ sys' = [sys EXCEPT !.busy = FALSE]

OpLands ==
  /\ sys.ops > 0
  /\ sys' = [sys EXCEPT !.real = CHOOSE s \in States : s # @, !.crossed = @ \/ sys.reads # {}]

EndOp_RefreshIfDone ==
  /\ sys.ops > 0 /\ Cardinality(sys.reads) < MaxReads
  /\ LET after == [sys EXCEPT !.ops = @ - 1, !.busy = FALSE]
     IN sys' \in {after, WithRead(after)}

\* Done or failed, with its work done or not: the badge is read again.
EndOp ==
  /\ sys.ops > 0 /\ Cardinality(sys.reads) < MaxReads
  /\ sys' = WithRead([sys EXCEPT !.ops = @ - 1, !.busy = FALSE])

\* The system is looked at some time after the question.
LookAtSystem ==
  \E r \in sys.reads :
    r[1] = "asked" /\ sys' = [sys EXCEPT !.reads = (@ \ {r}) \cup {<<sys.real, r[2]>>}]

Badge ==
  \E r \in sys.reads :
    \/ r[1] # "asked" /\ sys' = [sys EXCEPT !.reads = @ \ {r}, !.badge = r[1]]
    \/ sys' = [sys EXCEPT !.reads = @ \ {r}, !.badge = "unknown"]

SysNext == StartOp \/ OtherOp \/ OpLands \/ EndOp \/ LookAtSystem \/ Badge

\* A badge that is known is true once everything came back, unless a change
\* landed while it was being read. (Answers are taken in the order they come.)
BadgeIsTrue ==
  (sys.ops = 0 /\ sys.reads = {} /\ ~sys.crossed /\ sys.badge # "unknown") => sys.badge = sys.real

-----------------------------------------------------------------------------
\* The strip with the pairing code asks until the engine has one.

VARIABLES
  strip   \* [here, ready, asked, waiting, tries, shown]; shown is Unset, "code" or "error"

StripTypeOK ==
  strip \in [here : BOOLEAN, ready : BOOLEAN, asked : BOOLEAN, waiting : BOOLEAN,
             tries : 0..MaxTries, shown : {Unset, "code", "error"}]

StripInit ==
  strip = [here |-> FALSE, ready |-> FALSE, asked |-> FALSE, waiting |-> FALSE, tries |-> 0,
           shown |-> Unset]

EngineStarts == strip' = [strip EXCEPT !.ready = ~@]

OpenStrip ==
  /\ ~strip.here /\ ~strip.asked /\ ~strip.waiting
  /\ strip' = [strip EXCEPT !.here = TRUE, !.asked = TRUE, !.tries = 0, !.shown = Unset]

CloseStrip == strip.here /\ strip' = [strip EXCEPT !.here = FALSE, !.shown = Unset]

StripAnswer_StopsAtLast ==
  /\ strip.asked
  /\ strip' = CASE ~strip.here -> [strip EXCEPT !.asked = FALSE]
                [] strip.here /\ strip.ready -> [strip EXCEPT !.asked = FALSE, !.shown = "code"]
                [] strip.here /\ ~strip.ready /\ strip.tries < MaxTries
                     -> [strip EXCEPT !.asked = FALSE, !.waiting = TRUE]
                [] OTHER -> [strip EXCEPT !.asked = FALSE]

\* An engine that is not up yet is asked again; after the last time the strip
\* says so. A strip that is gone takes no notice.
StripAnswer ==
  /\ strip.asked
  /\ strip' = CASE ~strip.here -> [strip EXCEPT !.asked = FALSE]
                [] strip.here /\ strip.ready -> [strip EXCEPT !.asked = FALSE, !.shown = "code"]
                [] strip.here /\ ~strip.ready /\ strip.tries < MaxTries
                     -> [strip EXCEPT !.asked = FALSE, !.waiting = TRUE]
                [] OTHER -> [strip EXCEPT !.asked = FALSE, !.shown = "error"]

\* The timer asks also for a strip that is gone.
AskAgain ==
  /\ strip.waiting
  /\ strip' = [strip EXCEPT !.waiting = FALSE, !.asked = TRUE, !.tries = @ + 1]

StripNext == EngineStarts \/ OpenStrip \/ CloseStrip \/ StripAnswer \/ AskAgain

\* Calls return and timers fire.
StripFairness == WF_strip(StripAnswer) /\ WF_strip(AskAgain)

\* A strip that stays says the code or that there is none: it does not go on
\* saying "Generating".
StripSettles == strip.here ~> (~strip.here \/ strip.shown # Unset)

WidgetsSafe ==
  /\ SegTypeOK /\ GestureChooses
  /\ RailTypeOK /\ PinIsReleased
  /\ GlideTypeOK /\ RestIsTrue
  /\ SysTypeOK /\ BadgeIsTrue
  /\ StripTypeOK
=============================================================================
