-------------------------------- MODULE Replay --------------------------------
(***************************************************************************)
(* The history on the Analytics screen (Analytics.tsx), one section each   *)
(* and independent of each other: the countries that flash on the map, the *)
(* bands of uptime, the line of packet loss with its cursor                *)
(* (LineChart.tsx), the replay of a session with its shared playhead.      *)
(* What the store answers is modelled as far as the screen sees it         *)
(* (summary.go, queries.go). Drawing and formatting are left out.          *)
(*                                                                         *)
(* A definition named X_Y is not part of the model: it is X with the bug Y *)
(* put in, and some property must fail when it takes the place of X.       *)
(***************************************************************************)
EXTENDS Integers, SequencesExt, FiniteSetsExt

CONSTANTS
  Countries,
  MaxCount,    \* bound: sessions of a country
  Freeze,      \* the right edge of the bands moves in steps of this
  Span,        \* the window of a range that is not everything
  SpansCap,    \* how many transitions an answer carries
  MaxEvent,    \* bound: how many there are
  Cadence,     \* the least width of a bucket of a session
  PointsCap,   \* how many buckets an answer has at most
  MaxMoment,   \* bound: time
  Blank        \* no value, no time

ASSUME ReplayAssumption ==
  /\ MaxCount \in Nat /\ Freeze \in Nat \ {0} /\ Span \in Nat \ {0} /\ SpansCap \in Nat \ {0}
  /\ MaxMoment \in Nat /\ Span + Freeze <= MaxMoment + 1 /\ MaxEvent \in Nat
  /\ Cadence \in Nat \ {0} /\ PointsCap \in Nat \ {0, 1}
  /\ Blank \notin Int

Lowest(a, b) == IF a < b THEN a ELSE b
Highest(a, b) == IF a < b THEN b ELSE a

-----------------------------------------------------------------------------
\* The map: a country flashes when its sessions grew between two snapshots.

Ranges == {"week", "all"}
GeoSnapshot == [Countries -> 0..MaxCount]

VARIABLE geo
  \* [real, cache: the snapshot of each range, range, snap: what is shown, prev:
  \* what it is compared with, flash, timer: is a setTimeout to end it pending?]

GeoTypeOK ==
  geo \in [real : [Ranges -> GeoSnapshot], cache : [Ranges -> GeoSnapshot \cup {Blank}], range : Ranges,
           snap : GeoSnapshot \cup {Blank}, prev : GeoSnapshot \cup {Blank},
           flash : SUBSET Countries, timer : BOOLEAN]

GeoInit ==
  geo = [real |-> [r \in Ranges |-> [c \in Countries |-> 0]], cache |-> [r \in Ranges |-> Blank],
         range |-> "week", snap |-> Blank, prev |-> Blank, flash |-> {}, timer |-> FALSE]

\* Sessions begin; those of a week grow old.
SessionsChange ==
  \E r \in Ranges, c \in Countries, n \in 0..MaxCount :
    /\ r = "all" => n > geo.real[r][c]
    /\ geo' = [geo EXCEPT !.real[r][c] = n]

Grown(s) == {c \in Countries : s[c] > geo.prev[c]}

\* The effect of a new snapshot. The one before cleans up: its timer goes, what
\* it lit stays.
Compared(s) ==
  [geo EXCEPT !.cache[geo.range] = s, !.snap = s, !.prev = s,
     !.flash = IF geo.prev # Blank /\ Grown(s) # {} THEN Grown(s) ELSE @,
     !.timer = geo.prev # Blank /\ Grown(s) # {}]

SnapshotArrives == geo' = Compared(geo.real[geo.range])

FlashEnds == geo.timer /\ geo' = [geo EXCEPT !.flash = {}, !.timer = FALSE]

PickRange_KeepsBaseline ==
  \E r \in Ranges \ {geo.range} :
    LET s == geo.cache[r]
        old == geo.prev
    IN geo' = [geo EXCEPT !.range = r, !.snap = s, !.prev = IF s = Blank THEN old ELSE s,
                          !.flash = IF s # Blank /\ old # Blank THEN Grown(s) ELSE {},
                          !.timer = s # Blank /\ old # Blank /\ Grown(s) # {}]

\* Another range remounts the section; what the cache has is its first snapshot.
PickRange ==
  \E r \in Ranges \ {geo.range} :
    geo' = [geo EXCEPT !.range = r, !.snap = geo.cache[r], !.prev = geo.cache[r], !.flash = {},
                       !.timer = FALSE]

GeoNext == SessionsChange \/ SnapshotArrives \/ FlashEnds \/ PickRange

\* A country begins to flash only if the snapshot that is shown now has more of
\* its sessions than the one before it, of the same range.
FlashIsGrowth ==
  [][\A c \in Countries :
       c \in geo'.flash \ geo.flash =>
         geo'.range = geo.range /\ geo.snap # Blank /\ geo'.snap[c] > geo.snap[c]]_geo

-----------------------------------------------------------------------------
\* The bands of uptime.

Transition == [t : 0..MaxMoment, up : BOOLEAN]

VARIABLE uptime
  \* [now, events: as recorded, report: [since, at, spans] or Blank, window: 0 is
  \* everything, edge: nowBucket in time, beat: until the interval fires]

BandsTypeOK ==
  /\ uptime.events \in Seq(Transition) /\ uptime.window \in {0, Span}
  /\ uptime.beat \in 0..Freeze /\ uptime.edge \in {Freeze * i : i \in 0..uptime.now}

FloorTo(n, step) == step * (n \div step)

BandsInit ==
  \E w \in {0, Span}, t \in 0..(Freeze - 1) :
    uptime = [now |-> Span + t, events |-> <<>>, report |-> Blank, window |-> w,
             edge |-> FloorTo(Span + t, Freeze), beat |-> Freeze]

\* What happens at the time of an answer happens before it.
StateChanges ==
  \E up \in BOOLEAN :
    /\ uptime.report # Blank => uptime.report.at < uptime.now
    /\ Len(uptime.events) < MaxEvent
    /\ uptime.events # <<>> => Last(uptime.events).t < uptime.now /\ Last(uptime.events).up # up
    /\ uptime' = [uptime EXCEPT !.events = Append(@, [t |-> uptime.now, up |-> up])]

\* The state at t, where it is known.
StateAt(t) ==
  LET before == {i \in DOMAIN uptime.events : uptime.events[i].t <= t}
  IN IF before = {} THEN Blank ELSE uptime.events[Max(before)].up

\* The elements of s after from, up to to.
Slice(s, from, to) ==
  FoldLeft(LAMBDA out, e : IF from < e.t /\ e.t <= to THEN Append(out, e) ELSE out, <<>>, s)

Capped(s) == IF Len(s) > SpansCap THEN SubSeq(s, Len(s) - SpansCap + 1, Len(s)) ELSE s

\* windowSpans: the state that enters the window, then its transitions.
WindowSpans(since, now) ==
  LET lead == IF since > 0 /\ StateAt(since) # Blank
              THEN <<[t |-> since, up |-> StateAt(since)]>> ELSE <<>>
  IN Capped(lead \o Slice(uptime.events, IF since > 0 THEN since ELSE -1, now))

UptimeArrives ==
  LET since == IF uptime.window = 0 THEN 0 ELSE uptime.now - uptime.window
  IN uptime' = [uptime EXCEPT !.report = [at |-> uptime.now, spans |-> WindowSpans(since, uptime.now)]]

\* Time passes, the interval fires when it is due.
BandsElapse ==
  /\ uptime.now < MaxMoment
  /\ uptime' = [uptime EXCEPT
       !.now = @ + 1,
       !.beat = IF @ = 1 THEN Freeze ELSE @ - 1,
       !.edge = IF uptime.beat = 1 THEN FloorTo(uptime.now + 1, Freeze) ELSE @]

BandsNext == StateChanges \/ UptimeArrives \/ BandsElapse

Left ==
  IF uptime.window > 0 THEN uptime.edge - uptime.window ELSE Head(uptime.report.spans).t

UptimeBand_WithinOnly(spans, t0, now) ==
  LET seen == SelectSeq(spans, LAMBDA e : t0 <= e.t /\ e.t < now)
      first == IF seen = <<>> THEN now ELSE Head(seen).t
      To(i) == IF i < Len(seen) THEN seen[i + 1].t ELSE now
  IN {[a |-> t0, b |-> first, up |-> Blank]} \cup
     {[a |-> seen[i].t, b |-> To(i), up |-> seen[i].up] : i \in DOMAIN seen}

\* The segments of a band, from t0 to the edge.
UptimeBand(spans, t0, now) ==
  LET seen == Slice(spans, -1, now - 1)
      first == IF seen = <<>> THEN now ELSE Head(seen).t
      To(i) == IF i < Len(seen) THEN seen[i + 1].t ELSE now
      From(i) == Highest(seen[i].t, t0)
  IN (IF first > t0 THEN {[a |-> t0, b |-> first, up |-> Blank]} ELSE {}) \cup
     {[a |-> From(i), b |-> To(i), up |-> seen[i].up] : i \in {i \in DOMAIN seen : To(i) > From(i)}}

\* Every moment up to the edge is drawn once, as what was so then: from the first
\* span on the state is known, before it it is not, and past the time of the
\* answer the last known state goes on. The edge is less than two steps behind.
BandsTell ==
  /\ uptime.now - uptime.edge < 2 * Freeze
  /\ uptime.report # Blank /\ uptime.report.spans # <<>> =>
       LET spans == uptime.report.spans
       IN \A m \in Left..(uptime.edge - 1) :
            \E s \in UptimeBand(spans, Left, uptime.edge) :
              /\ {r \in UptimeBand(spans, Left, uptime.edge) : r.a <= m /\ m < r.b} = {s}
              /\ s.up = IF m < Head(spans).t THEN Blank ELSE StateAt(Lowest(m, uptime.report.at))

-----------------------------------------------------------------------------
\* The line of packet loss: LineChart with one series, that has unknown values.

Point == [t : 0..MaxMoment, v : {Blank, 0, 1}]

VARIABLE loss   \* the points, oldest first

LossTypeOK == loss \in Seq(Point)

LossInit == loss = <<>>

LossGrows ==
  \E p \in Point :
    /\ loss # <<>> => p.t > Last(loss).t
    /\ p.t <= MaxEvent + 1
    /\ loss' = Append(loss, p)

\* The row under a cursor: the first of the nearest.
NearestRow(ts, cursor) ==
  LET Off(t) == IF cursor < t THEN t - cursor ELSE cursor - t
      near == {t \in ts : \A u \in ts : Off(t) <= Off(u)}
  IN Min(near)

IsKnown(i) == i \in DOMAIN loss /\ loss[i].v # Blank

PathFor_BridgesOne ==
  {r \in (DOMAIN loss) \X (DOMAIN loss) :
     /\ r[1] <= r[2] /\ IsKnown(r[1]) /\ IsKnown(r[2])
     /\ \A i \in r[1]..(r[2] - 1) : IsKnown(i) \/ IsKnown(i + 1)
     /\ ~IsKnown(r[1] - 1) /\ ~IsKnown(r[2] + 1)}

\* The strokes, from the first row to the last: an unknown value ends one.
PathFor ==
  {r \in (DOMAIN loss) \X (DOMAIN loss) :
     /\ r[1] <= r[2] /\ \A i \in r[1]..r[2] : IsKnown(i)
     /\ ~IsKnown(r[1] - 1) /\ ~IsKnown(r[2] + 1)}

\* The area is drawn under a line of one stroke only, from the first known row to
\* the last.
AreaFor ==
  LET known == {i \in DOMAIN loss : IsKnown(i)}
  IN IF Cardinality(PathFor) # 1 \/ Cardinality(known) < 2 THEN Blank ELSE <<Min(known), Max(known)>>

LastKnown ==
  LET known == {i \in DOMAIN loss : IsKnown(i)}
  IN IF known = {} THEN Blank ELSE loss[Max(known)]

\* No stroke crosses a moment whose loss is unknown, every known point is on one,
\* the area is that of the whole line or none, and the dot ends the last stroke.
LossTells ==
  /\ LossTypeOK
  /\ UNION {r[1]..r[2] : r \in PathFor} = {i \in DOMAIN loss : loss[i].v # Blank}
  /\ \A r, s \in PathFor : r # s => r[2] + 1 < s[1] \/ s[2] + 1 < r[1]
  /\ AreaFor # Blank => {AreaFor} = PathFor
  /\ LastKnown # Blank => LastKnown = loss[Max({r[2] : r \in PathFor})]

-----------------------------------------------------------------------------
\* The replay of a session.

VARIABLE play
  \* [now, traffic, rtt: the times that were sampled, asOf: of the answer that is
  \* shown, or Blank, cursor: the playhead, or Blank]

Moments == 0..(MaxEvent + 1)

PlayTypeOK ==
  play \in [now : Moments, traffic : SUBSET Moments, rtt : SUBSET Moments,
            asOf : Moments \cup {Blank}, cursor : Moments \cup {Blank}]

PlayInit == play = [now |-> 0, traffic |-> {}, rtt |-> {}, asOf |-> Blank, cursor |-> Blank]

\* A sample of the session, of its traffic, its round trip or both.
Sampled ==
  \E s \in SUBSET {"traffic", "rtt"} :
    /\ play.now < MaxEvent + 1
    /\ play' = [play EXCEPT !.now = @ + 1,
                !.traffic = IF "traffic" \in s THEN @ \cup {play.now} ELSE @,
                !.rtt = IF "rtt" \in s THEN @ \cup {play.now} ELSE @]

TimelineArrives == play' = [play EXCEPT !.asOf = play.now]

\* The width of the buckets: of each series on its own, so that they fit.
WidthOf(ts) ==
  LET span == Max(ts) - Min(ts)
      over == IF span > 0 THEN span ELSE play.asOf - Min(ts)
  IN Highest(Cadence, over \div (PointsCap - 1) + 1)

Seen(ts) == IF play.asOf = Blank THEN {} ELSE {t \in ts : t < play.asOf}

Buckets(ts) == {FloorTo(t, WidthOf(Seen(ts))) : t \in Seen(ts)}

Gaps(ts) == {t - u : t \in ts, u \in ts} \cap (Nat \ {0})

Domain_WithDuplicates ==
  LET a == Buckets(play.traffic)
      b == Buckets(play.rtt)
  IN IF Cardinality(a) + Cardinality(b) < 2 THEN Blank
     ELSE [min |-> Min(a \cup b), max |-> Max(a \cup b),
           step |-> IF a \cap b # {} THEN 0 ELSE Min(Gaps(a \cup b))]

\* The domain of the scrubber; its step is the smallest gap between two buckets
\* of either series.
Domain ==
  LET a == Buckets(play.traffic)
      b == Buckets(play.rtt)
      all == a \cup b
  IN IF Cardinality(a) + Cardinality(b) < 2 THEN Blank
     ELSE [min |-> Min(all), max |-> Max(all),
           step |-> IF Gaps(all) = {} THEN Cadence ELSE Min(Gaps(all))]

\* The playhead is put on a row of a chart, moved with the scrubber, or taken off.
HoverChart ==
  \E ts \in {Buckets(play.traffic), Buckets(play.rtt)}, m \in Moments :
    ts # {} /\ play' = [play EXCEPT !.cursor = NearestRow(ts, m)]

Positions(d) == {n \in d.min..d.max : (n - d.min) % d.step = 0}

Scrub ==
  /\ Domain # Blank
  /\ \E n \in Positions(Domain) : play' = [play EXCEPT !.cursor = n]

LeaveChart == play' = [play EXCEPT !.cursor = Blank]

PlayNext == Sampled \/ TimelineArrives \/ HoverChart \/ Scrub \/ LeaveChart

\* What the playhead reads: the traffic of a bucket over the step is its rate.
Readout ==
  LET a == Buckets(play.traffic)
      b == Buckets(play.rtt)
      Sum(t) == Cardinality({s \in Seen(play.traffic) : FloorTo(s, WidthOf(Seen(play.traffic))) = t})
      Near(ts) == IF ts = {} THEN Blank ELSE NearestRow(ts, play.cursor)
  IN [traffic |-> Near(a), bytes |-> IF a = {} THEN 0 ELSE Sum(Near(a)), rtt |-> Near(b),
      over |-> IF Domain = Blank THEN Cadence ELSE Domain.step]

\* As long as both series have buckets of one width, a rate is never more than
\* what its bucket holds over the bucket's width, exactly that once two buckets
\* are neighbours, and then the scrubber reaches every bucket. The playhead is
\* never a bucket or more away from the axis, whatever was answered since it was
\* put there.
ReplayTells ==
  /\ PlayTypeOK
  /\ Domain # Blank =>
       LET a == Seen(play.traffic)
           b == Seen(play.rtt)
           all == Buckets(play.traffic) \cup Buckets(play.rtt)
           width == WidthOf(IF a = {} THEN b ELSE a)
           alike == a = {} \/ b = {} \/ WidthOf(a) = WidthOf(b)
           widest == Max({WidthOf(s) : s \in {a, b} \ {{}}})
       IN /\ alike /\ Gaps(all) # {} => Domain.step >= width
          /\ alike /\ width \in Gaps(all) => Domain.step = width /\ all \subseteq Positions(Domain)
          /\ play.cursor # Blank =>
               /\ Domain.min - widest < play.cursor /\ play.cursor < Domain.max + widest
               /\ alike /\ width \in Gaps(all) => Readout.bytes <= Readout.over

ReplaySafe ==
  /\ GeoTypeOK /\ BandsTypeOK /\ BandsTell /\ LossTells /\ ReplayTells
=============================================================================
