-------------------------------- MODULE Charts --------------------------------
(***************************************************************************)
(* What the charts make of a history (BandwidthChart.tsx, charts/util.ts,  *)
(* LineChart.tsx): the buckets of a range, where the application was not   *)
(* running there are none; candles that merge them, the slot under the     *)
(* cursor, the strip of uptime, the lines of a gauge, the times that are   *)
(* labelled. The history grows as the application records.                 *)
(*                                                                         *)
(* A bucket is Width units of time long and starts at a multiple of it. Of *)
(* its values, one total, one rate and one gauge are kept; x is time, so   *)
(* that a cursor is a time too. Pixels and drawing are left out.           *)
(*                                                                         *)
(* A definition named X_Y is not part of the model: it is X with the bug Y *)
(* put in, and some property must fail when it takes the place of X.       *)
(***************************************************************************)
EXTENDS Integers, SequencesExt, FiniteSetsExt

CONSTANTS
  Width,      \* bucketMs
  Window,     \* windowMs
  MaxSlot,    \* bound: the last slot of the history
  MaxRate,    \* bound: what a bucket counts
  MaxBodies,  \* how many candles there is room for
  TickSteps,  \* the steps between labelled times, shortest first
  MaxTicks    \* how many of them a span is divided into at most

ASSUME ChartsAssumption ==
  /\ Width \in Nat \ {0} /\ Window \in Nat /\ MaxSlot \in Nat /\ MaxRate \in Nat
  /\ MaxBodies \in Nat \ {0} /\ MaxTicks \in Nat \ {0}
  /\ TickSteps \in Seq(Nat \ {0}) /\ TickSteps # <<>>

Modes == {"line", "candles", "bars"}

Unknown == -1

Bucket == [t : {Width * i : i \in 0..MaxSlot}, out : 0..MaxRate, conns : {Unknown, 1}]

VARIABLE history   \* the buckets of the range, oldest first

ChartsTypeOK == history \in Seq(Bucket)

ChartsInit == history = <<>>

\* The application records, perhaps after it was away.
Record ==
  \E b \in Bucket :
    /\ history # <<>> => b.t > Last(history).t
    /\ history' = Append(history, b)

ChartsNext == Record

-----------------------------------------------------------------------------
\* Candles.

CeilDiv(n, d) == (n + d - 1) \div d

PerCandle(bs, mode) ==
  IF mode = "candles" /\ Len(bs) > MaxBodies THEN CeilDiv(Len(bs), MaxBodies) ELSE 1

Candle(b) == [t |-> b.t, out |-> b.out, open |-> b.out, high |-> b.out, low |-> b.out,
              close |-> b.out, conns |-> b.conns]

MergeGaugeClose_OfLast(grp) == Last(grp).conns

\* The buckets whose gauge is known; what avgGauge counts.
Known(bs) == {i \in DOMAIN bs : bs[i].conns # Unknown}

\* The last one that is known.
MergeGaugeClose(grp) == IF Known(grp) = {} THEN Unknown ELSE grp[Max(Known(grp))].conns

SumOver(bs, I) == FoldFunctionOnSet(LAMBDA a, b : a + b, 0, [i \in DOMAIN bs |-> bs[i].out], I)

Merged(grp) ==
  [t |-> Head(grp).t,
   out |-> SumOver(grp, DOMAIN grp),
   open |-> Head(grp).open, close |-> Last(grp).close,
   high |-> Max({b.high : b \in ToSet(grp)}), low |-> Min({b.low : b \in ToSet(grp)}),
   conns |-> MergeGaugeClose(grp)]

Coalesced_DropsRest(bs, mode) ==
  LET cs == [i \in DOMAIN bs |-> Candle(bs[i])]
      k == PerCandle(bs, mode)
  IN [i \in 1..(Len(cs) \div k) |-> Merged(SubSeq(cs, k * (i - 1) + 1, k * i))]

\* The groups are of k buckets, whatever lies between them.
Coalesced(bs, mode) ==
  LET cs == [i \in DOMAIN bs |-> Candle(bs[i])]
      k == PerCandle(bs, mode)
  IN [i \in 1..CeilDiv(Len(cs), k) |->
        Merged(SubSeq(cs, k * (i - 1) + 1, IF k * i < Len(cs) THEN k * i ELSE Len(cs)))]

SlotOf(bs, mode) == Width * PerCandle(bs, mode)

-----------------------------------------------------------------------------
\* The time domain and the cursor.

Upper(bs, mode) == Last(Coalesced(bs, mode)).t + SlotOf(bs, mode)

\* Bars fit their data; a live range is anchored at its right edge.
Lower(bs, mode) ==
  LET first == Head(bs).t
      edge == Upper(bs, mode) - Window
  IN IF mode = "bars" \/ Window = 0 \/ first < edge THEN first ELSE edge

ZeroBucket(t) == [t |-> t, out |-> 0, open |-> 0, high |-> 0, low |-> 0, close |-> 0,
                  conns |-> Unknown]

Clamped(h, bs, mode) ==
  LET top == Upper(bs, mode) - 1
      bottom == Lower(bs, mode)
      atLeast == IF h < bottom THEN bottom ELSE h
  IN IF atLeast < top THEN atLeast ELSE top

ResolveHover_Nearest(h, bs, mode) ==
  LET cs == Coalesced(bs, mode)
      Off(b) == IF h < b.t THEN b.t - h ELSE h - b.t
  IN CHOOSE b \in ToSet(cs) : \A c \in ToSet(cs) : Off(b) <= Off(c)

\* The bucket whose slot the cursor is in, or a bucket of zeroes.
ResolveHover(h, bs, mode) ==
  LET width == SlotOf(bs, mode)
      hit == {b \in ToSet(Coalesced(bs, mode)) : b.t <= h /\ h < b.t + width}
  IN IF hit # {} THEN CHOOSE b \in hit : \A c \in hit : b.t <= c.t
     ELSE ZeroBucket((Clamped(h, bs, mode) \div width) * width)

-----------------------------------------------------------------------------
\* Uptime, gauges, ticks.

CoverageRuns_AcrossOneSlot(bs) ==
  FoldLeft(LAMBDA runs, b :
             IF runs # <<>> /\ b.t - Last(runs).b <= Width
             THEN [runs EXCEPT ![Len(runs)].b = b.t + Width]
             ELSE Append(runs, [a |-> b.t, b |-> b.t + Width]),
           <<>>, bs)

\* Spans that were recorded: a bucket that starts within half a slot of the
\* end of a run joins it.
CoverageRuns(bs) ==
  FoldLeft(LAMBDA runs, b :
             IF runs # <<>> /\ 2 * (b.t - Last(runs).b) <= Width
             THEN [runs EXCEPT ![Len(runs)] = [a |-> @.a, b |-> b.t + Width]]
             ELSE Append(runs, [a |-> b.t, b |-> b.t + Width]),
           <<>>, bs)

StepSegments_JoinsUnknown(bs) ==
  LET known == SelectSeq(bs, LAMBDA b : b.conns # Unknown)
  IN IF known = <<>> THEN <<>> ELSE <<known>>

\* One line for each run of known values (stepSegments, gappedSegments).
StepSegments(bs) ==
  LET end == FoldLeft(LAMBDA acc, b :
               IF b.conns = Unknown
               THEN [out |-> IF acc.cur = <<>> THEN acc.out ELSE Append(acc.out, acc.cur),
                     cur |-> <<>>]
               ELSE [acc EXCEPT !.cur = Append(@, b)],
               [out |-> <<>>, cur |-> <<>>], bs)
  IN IF end.cur = <<>> THEN end.out ELSE Append(end.out, end.cur)

TickStep(span) ==
  LET fits == {i \in DOMAIN TickSteps : span <= MaxTicks * TickSteps[i]}
  IN IF fits = {} THEN Last(TickSteps) ELSE TickSteps[Min(fits)]

TimeTicks_FromZero(t0, t1) == {n * TickStep(t1 - t0) : n \in 0..(t1 \div TickStep(t1 - t0))}

\* timeTicks, ticksFor: multiples of the step within the domain.
TimeTicks(t0, t1) ==
  LET step == TickStep(t1 - t0)
  IN {n * step : n \in CeilDiv(t0, step)..(t1 \div step)}

-----------------------------------------------------------------------------
\* The moments that were recorded.
Recorded(bs) == UNION {b.t..(b.t + Width - 1) : b \in ToSet(bs)}

NoGaps(bs) == \A i \in 1..(Len(bs) - 1) : bs[i + 1].t = bs[i].t + Width

\* Everywhere on the axis the cursor reads the slot that it is in: zero before
\* the first bucket, a gauge only where one was recorded, and in sum what was
\* recorded then; candles do so when the history that they merge has no gap.
HoverIsHonest ==
  \A mode \in Modes : history # <<>> =>
    \A h \in Lower(history, mode)..(Upper(history, mode) - 1) :
      LET b == ResolveHover(h, history, mode)
          span == b.t..(b.t + SlotOf(history, mode) - 1)
          one == PerCandle(history, mode) = 1
      IN /\ h \in span
         /\ h < Head(history).t => b = ZeroBucket(b.t)
         /\ b.conns # Unknown => h \in Recorded(history) \/ ~one
         /\ one \/ (NoGaps(history) /\ Head(history).t <= h) =>
              b.out = SumOver(history, {i \in DOMAIN history : history[i].t \in span})

\* The strip of uptime covers exactly the moments that were recorded, each run
\* as long as it can be.
RunsAreRecorded ==
  LET runs == CoverageRuns(history)
  IN /\ UNION {r.a..(r.b - 1) : r \in ToSet(runs)} = Recorded(history)
     /\ \A i \in 1..(Len(runs) - 1) : runs[i].b < runs[i + 1].a

\* Candles lose nothing: there are no more than fit, their totals add up to
\* the history's, their slots do not overlap, a body lies within its wick, and
\* the newest known value of the gauge is still shown.
CandlesAddUp ==
  LET cs == Coalesced(history, "candles")
  IN /\ Len(cs) <= MaxBodies
     /\ SumOver(cs, DOMAIN cs) = SumOver(history, DOMAIN history)
     /\ \A i \in 1..(Len(cs) - 1) : cs[i].t + SlotOf(history, "candles") <= cs[i + 1].t
     /\ \A c \in ToSet(cs) : {c.open, c.close} \subseteq c.low..c.high
     /\ Known(cs) = {} <=> Known(history) = {}
     /\ Known(cs) # {} => cs[Max(Known(cs))].conns = history[Max(Known(history))].conns

\* The lines of a gauge are the runs of known buckets, each as long as it can be,
\* in order.
SegmentsAreRuns ==
  LET segs == StepSegments(history)
      runs == {r \in (DOMAIN history) \X (DOMAIN history) :
                 /\ r[1] <= r[2] /\ \A i \in r[1]..r[2] : i \in Known(history)
                 /\ r[1] - 1 \notin Known(history) /\ r[2] + 1 \notin Known(history)}
  IN /\ ToSet(segs) = {SubSeq(history, r[1], r[2]) : r \in runs}
     /\ \A i \in 1..(Len(segs) - 1) : Last(segs[i]).t < Head(segs[i + 1]).t

\* The labelled times lie on the axis, are evenly spaced and few, and no longer
\* step is taken than needed.
TicksFit ==
  \A mode \in Modes : history # <<>> =>
    LET t0 == Lower(history, mode)
        t1 == Upper(history, mode)
        ticks == TimeTicks(t0, t1)
    IN /\ ticks \subseteq t0..t1
       /\ t1 - t0 <= MaxTicks * Last(TickSteps) => Cardinality(ticks) <= MaxTicks + 1
       /\ \A a \in ticks : a + TickStep(t1 - t0) <= t1 => a + TickStep(t1 - t0) \in ticks

ChartsTell ==
  ChartsTypeOK /\ HoverIsHonest /\ RunsAreRecorded /\ CandlesAddUp /\ SegmentsAreRuns /\ TicksFit

=============================================================================
