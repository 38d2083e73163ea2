-------------------------------- MODULE Plots --------------------------------
(***************************************************************************)
(* How the bandwidth panel paints a history (BandwidthChart.tsx): which    *)
(* series are there, on which axis and at which scale (charts/util.ts),    *)
(* what the crosshair reads, what the row of figures says, and the choices *)
(* that a panel remembers (history.ts). Charts.tla models which bucket is  *)
(* where; here the chart is one of two buckets at most, the last of which  *)
(* may still be filling.                                                   *)
(*                                                                         *)
(* Rates, totals and gauges are small numbers, heights are in the units of *)
(* an axis; colours and geometry other than the widths are left out.       *)
(*                                                                         *)
(* A definition named X_Y is not part of the model: it is X with the bug Y *)
(* put in, and some property must fail when it takes the place of X.       *)
(***************************************************************************)
EXTENDS Integers, SequencesExt, FiniteSetsExt

CONSTANTS
  Level,     \* what a bucket counts and closes with that is not idle
  ScaleTop,  \* bound: the values that the scales are checked for
  Digits,    \* bound: the exponents of a scale
  NoValue    \* an unknown gauge, a panel that is not there

ASSUME PlotsAssumption ==
  ScaleTop \in Nat \ {0} /\ Level \in 1..ScaleTop /\ Digits \in Nat /\ NoValue \notin Int

Renders == {"line", "candles", "bars"}
Series == {"dl", "ul", "conn", "rtt"}
Visibility == [Series -> BOOLEAN]

\* out and in: the average rates of the bucket, or its totals in a chart of bars;
\* close: the rate that both directions closed with. A bucket is one unit long.
PlotBucket ==
  [out : {0, Level}, in : {0, Level}, close : {0, Level}, conn : {NoValue, 1},
   rtt : {NoValue, Level}]

VARIABLE plot   \* [buckets, filling: is the last one still being counted?]

PlotInit == plot = [buckets |-> <<>>, filling |-> FALSE]

\* The newest bucket is counted on, or another begins.
PlotRecord ==
  \E b \in PlotBucket, f \in BOOLEAN :
    \/ /\ Len(plot.buckets) < 2
       /\ plot' = [buckets |-> Append(plot.buckets, b), filling |-> f]
    \/ /\ plot.filling
       /\ b.out >= Last(plot.buckets).out /\ b.in >= Last(plot.buckets).in
       /\ plot' = [buckets |-> Append(Front(plot.buckets), b), filling |-> f]

-----------------------------------------------------------------------------
\* The scales. A height of the linear one is in hundredths.

Power(b) == LET p[n \in 0..Digits] == IF n = 0 THEN 1 ELSE b * p[n - 1] IN p

ASSUME DigitsAssumption == ScaleTop <= 4 * Power(2)[Digits] /\ 5 * ScaleTop <= Power(10)[Digits]

\* niceScale: four divisions of a power of two.
NiceScale(top) == 4 * Min({p \in Range(Power(2)) : 4 * p >= top})

\* niceLinear: four divisions of 1, 2 or 5 times a power of ten.
NiceLinear(top) ==
  LET raw == 25 * Max({1, top})
      steps == {d * p : d \in {1, 2, 5}, p \in Range(Power(10))}
  IN 4 * Min({s \in steps : s >= raw})

\* Both scales hold the value that they are made for, and leave less than the
\* value itself, and half as much again, empty above it.
ScalesHold ==
  \A n \in 1..ScaleTop :
    /\ NiceScale(n) >= n /\ (n >= 4 => NiceScale(n) < 2 * n)
    /\ NiceLinear(n) >= 100 * n /\ NiceLinear(n) <= 250 * n

-----------------------------------------------------------------------------
\* What a chart shows, for a mode and a choice of series.

HasGauge(g) == \E i \in DOMAIN plot.buckets : plot.buckets[i][g] # NoValue

SeriesShown_ByChoiceOnly(mode, vis) == {s \in Series : vis[s]}

\* Candles are the download; bars have no gauges and no axis for the upload.
SeriesShown(mode, vis) ==
  {s \in Series :
     CASE s = "dl" -> mode = "candles" \/ vis.dl
       [] s = "ul" -> vis.ul
       [] OTHER -> mode # "bars" /\ vis[s] /\ HasGauge(s)}

Axes(mode, vis) == SeriesShown(mode, vis) \ (IF mode = "bars" THEN {"ul"} ELSE {})

\* The outboard axes, a column each: the width of the drawing and of its right
\* margin.
Outboard(mode, vis) == Cardinality(SeriesShown(mode, vis) \cap {"conn", "rtt"})
DrawingWidth(mode, vis) == 720 + 54 * Outboard(mode, vis)
RightMargin(mode, vis) == (IF mode = "bars" THEN 16 ELSE 68) + 54 * Outboard(mode, vis)
PlotWidth(mode, vis) == DrawingWidth(mode, vis) - 68 - RightMargin(mode, vis)

Highs(mode, s) ==
  {CASE s = "dl" -> IF mode = "candles" THEN Max({b.out, b.close}) ELSE b.out
     [] s = "ul" -> IF mode = "candles" THEN Max({b.in, b.close}) ELSE b.in
     [] OTHER -> IF b[s] = NoValue THEN 0 ELSE b[s] : b \in ToSet(plot.buckets)}

\* The bars of the upload stand on the axis of the download.
TopOf(mode, s) ==
  IF s \in {"conn", "rtt"} THEN NiceLinear(Max(Highs(mode, s) \cup {1})) \div 100
  ELSE NiceScale(Max(Highs(mode, IF mode = "bars" THEN "dl" ELSE s) \cup {1}))

Filling(i) == plot.filling /\ i = Len(plot.buckets)

ToPlots_AlwaysClose(mode, i) ==
  LET b == plot.buckets[i]
  IN [dl |-> b.close, ul |-> b.close, conn |-> b.conn, rtt |-> b.rtt]

\* The point of a bucket on the lines: a bucket that is still filling stands for
\* the rate it closed with last, and the upload beside candles always does.
ToPlots(mode, i) ==
  LET b == plot.buckets[i]
  IN [dl |-> IF Filling(i) THEN b.close ELSE b.out,
      ul |-> IF Filling(i) \/ mode = "candles" THEN b.close ELSE b.in,
      conn |-> b.conn, rtt |-> b.rtt]

\* The height at which a bucket is drawn: a point of a line, the body's end of a
\* candle, the top of a bar.
HeightOf(mode, s, i) ==
  LET b == plot.buckets[i]
  IN CASE mode = "bars" -> IF s = "dl" THEN b.out ELSE b.in
       [] mode = "candles" /\ s = "dl" -> b.close
       [] OTHER -> ToPlots(mode, i)[s]

\* A line that is zero throughout is left to the baseline.
Painted(mode, vis) ==
  {s \in SeriesShown(mode, vis) :
     \/ mode = "bars" \/ (mode = "candles" /\ s = "dl") \/ s \in {"conn", "rtt"}
     \/ \E i \in DOMAIN plot.buckets : ToPlots(mode, i)[s] > 0}

\* The lines of the readout at a bucket, and the dots of the crosshair.
ReadoutOf(mode, vis, i) ==
  LET b == plot.buckets[i]
      dl == IF mode = "candles" THEN b.close ELSE b.out
      ul == IF mode = "candles" THEN b.close ELSE b.in
  IN (IF mode = "candles" \/ vis.dl THEN {<<"dl", dl>>} ELSE {}) \cup
     (IF vis.ul THEN {<<"ul", ul>>} ELSE {}) \cup
     {<<g, b[g]>> : g \in {g \in SeriesShown(mode, vis) \cap {"conn", "rtt"} : b[g] # NoValue}}

\* The row of figures: of the download, and the mean of each gauge.
Figures(mode) ==
  LET out == [i \in DOMAIN plot.buckets |-> plot.buckets[i].out]
  IN [least |-> Min(ToSet(out)), most |-> Max(ToSet(out)), last |-> Last(out),
      sum |-> FoldFunction(LAMBDA a, b : a + b, 0, out)]

\* The chips that can be clicked.
Chips(mode) ==
  {s \in Series : s \in {"dl", "ul"} \/ (mode # "bars" /\ HasGauge(s))}

-----------------------------------------------------------------------------
\* The readout names what is shown and has a value there, and nothing that no
\* chip can hide; what is shown can be hidden; a series that is shown and not
\* painted is zero.
ReadoutTellsPainted ==
  \A mode \in Renders, vis \in Visibility :
    LET shown == SeriesShown(mode, vis)
        painted == Painted(mode, vis)
    IN /\ shown \subseteq Chips(mode)
       /\ \A i \in DOMAIN plot.buckets :
            LET read == ReadoutOf(mode, vis, i)
            IN /\ {l[1] : l \in read} =
                    {s \in shown : s \in {"conn", "rtt"} => plot.buckets[i][s] # NoValue}
               /\ \A l \in read : l[1] \notin painted => l[2] = 0 \/ plot.filling

\* A mark lies within its axis, and what is read is what is drawn, except in the
\* bucket that is still filling, which a line draws at its last rate and the
\* scale and the readout take at its average, and the uploads among bars, which
\* have no axis of their own.
MarksFit ==
  \A mode \in Renders :
    LET vis == [s \in Series |-> TRUE]
        axes == Axes(mode, vis)
    IN \A i \in DOMAIN plot.buckets : ~(Filling(i) /\ mode = "line") =>
         \A l \in ReadoutOf(mode, vis, i) :
           /\ l[2] = HeightOf(mode, l[1], i)
           /\ l[1] \in axes => HeightOf(mode, l[1], i) <= TopOf(mode, l[1])

\* Whatever is switched on, the plot is as wide as without it.
PlotKeepsItsWidth ==
  \A mode \in Renders, vis \in Visibility :
    PlotWidth(mode, vis) = PlotWidth(mode, [s \in Series |-> FALSE])

\* The figures are of what is drawn: the least is no more than the mean, the mean
\* than the most, and the bars add up to the total.
FiguresTell ==
  plot.buckets # <<>> =>
    LET f == Figures("line")
        n == Len(plot.buckets)
    IN f.least * n <= f.sum /\ f.sum <= f.most * n /\ f.last \in f.least..f.most

-----------------------------------------------------------------------------
\* The choices of a panel. Two ranges stand for those that can have candles and
\* those that cannot, the last for those that are drawn as bars.

RangeKeys == {"15s", "1h", "7d"}
CandlesOk == {"1h"}

Prefs == [range : RangeKeys, candles : BOOLEAN, vis : Visibility, uptime : BOOLEAN]

VARIABLE panel   \* [stored: the localStorage, shown: the panel's, or NoValue, compact]

Default == [range |-> "15s", candles |-> FALSE, uptime |-> FALSE,
            vis |-> [s \in Series |-> s \in {"dl", "ul"}]]

PanelInit == panel = [stored |-> Default, shown |-> NoValue, compact |-> FALSE]

\* A screen with a panel opens: the teaser of Overview, or a panel with controls.
OpenPanel ==
  /\ panel.shown = NoValue
  /\ \E c \in BOOLEAN : panel' = [panel EXCEPT !.shown = panel.stored, !.compact = c]

ClosePanel ==
  /\ panel.shown # NoValue
  /\ panel' = [panel EXCEPT !.shown = NoValue, !.compact = FALSE]

ModeFor(range, candles) ==
  IF range = "7d" THEN "bars" ELSE IF candles /\ range \in CandlesOk THEN "candles" ELSE "line"

RangeOf == IF panel.compact THEN "1h" ELSE panel.shown.range
ModeOf == ModeFor(RangeOf, panel.shown.candles)

Chosen_NotStored(p) == [panel EXCEPT !.shown = p]

Chosen(p) == [panel EXCEPT !.shown = p, !.stored = p]

Choose ==
  /\ panel.shown # NoValue /\ ~panel.compact
  /\ \/ \E r \in RangeKeys : panel' = Chosen([panel.shown EXCEPT !.range = r])
     \/ \E on \in BOOLEAN :
          /\ RangeOf # "7d" /\ (on => RangeOf \in CandlesOk)
          /\ panel' = Chosen([panel.shown EXCEPT !.candles = on])
     \/ panel' = Chosen([panel.shown EXCEPT !.uptime = ~@])
     \/ \E s \in Series :
          /\ s \in {"dl", "ul"} \/ ModeOf # "bars"
          /\ panel' = Chosen([panel.shown EXCEPT !.vis[s] = ~@])

PanelNext == OpenPanel \/ ClosePanel \/ Choose

\* A panel shows what is stored, so that the next one opens as this one was
\* left; candles are drawn only where they may be.
ChoicesStick ==
  /\ panel.shown # NoValue => panel.shown = panel.stored
  /\ panel.stored \in Prefs
  /\ panel.shown # NoValue /\ ModeOf = "candles" => RangeOf \in CandlesOk

PlotsSafe ==
  ScalesHold /\ ReadoutTellsPainted /\ MarksFit /\ PlotKeepsItsWidth /\ FiguresTell /\ ChoicesStick
=============================================================================
