--------------------------------- MODULE Chart ---------------------------------
(***************************************************************************)
(* The chart on an agent's page (src/ui/mod.rs:276-304, src/ui/chart.rs):  *)
(* the agent's confidence over time, with a marker for each strategy it    *)
(* reported, drawn from the events the page has read.  Coordinates are in  *)
(* tenths of a unit, as they are printed, rounded down.  Grid, axis labels *)
(* and tooltips, which say nothing of their own, are left out.             *)
(***************************************************************************)
EXTENDS Pages, FiniteSetsExt

\* The frame: W, H and the paddings.
PadLeft == 440
PadTop == 140
PlotWidth == 7200 - 440 - 560
PlotHeight == 2200 - 140 - 300

\* The inputs of the chart, in the order of the timeline.
IsRated(s) == s.event.type = "metacognition" /\ s.event.confidence # None
IsShift(s) == s.event.type = "metacognition" /\ s.event.strategy # None
Those(list, I) == Listed([i \in I |-> list[i]])
confidence_points(list) == Those(list, {i \in DOMAIN list : IsRated(list[i])})
strategy_shifts(list) == Those(list, {i \in DOMAIN list : IsShift(list[i])})

TimesOf(s) == {s[i].received_at_ms : i \in DOMAIN s}

\* Faulty variant: the axis spans the points alone.
AxisOfPoints(points, shifts) ==
  [min |-> Min(TimesOf(points)), max |-> Max(TimesOf(points)) + 1]

\* t_min and t_max: the axis spans points and markers, and is never empty.
Axis(points, shifts) ==
  LET all == TimesOf(points) \cup TimesOf(shifts)
      t_min == Min(all)
  IN  [min |-> t_min, max |-> Max(all \cup {t_min + 1})]

x(axis, t) == PadLeft + ((t - axis.min) * PlotWidth) \div (axis.max - axis.min)

Clamped(c) == IF c < 0 THEN 0 ELSE IF c > 100 THEN 100 ELSE c
y(c) == PadTop + ((100 - Clamped(c)) * PlotHeight) \div 100

\* The marks of the SVG.  The line joins the circles if there is more than one;
\* the label sits at the last.
marks(points, shifts) ==
  LET axis == Axis(points, shifts)
      circles == [i \in DOMAIN points |->
                    <<x(axis, points[i].received_at_ms), y(points[i].event.confidence)>>]
      n == Len(points)
  IN  [circles |-> circles,
       line |-> IF n > 1 THEN circles ELSE << >>,
       markers |-> [i \in DOMAIN shifts |-> x(axis, shifts[i].received_at_ms)],
       label |-> <<circles[n][1] + 80, circles[n][2] + 40, points[n].event.confidence>>]

\* No chart without points.
confidence_svg(points, shifts) ==
  IF points = << >> THEN {} ELSE {marks(points, shifts)}
-----------------------------------------------------------------------------
\* On the page of an agent the chart keeps to its frame, whatever the times of
\* reports and strategies, in whichever order they were stored; a strategy that was
\* received later than a report is not drawn to the left of it, and to its right if
\* the difference makes a tenth of a unit.  The page prints the confidence nowhere
\* else: the label, made from the second read, is the last_confidence of the agent
\* the first read gave, what its card shows (ui/mod.rs:233), unless the report it
\* stands for came in after that read (ui/mod.rs:266-304, chart.rs:45-60, 101-148).
InFrame(at) == at \in PadLeft .. PadLeft + PlotWidth

ChartFitsTheAgent ==
  \A b \in Browsers : page[b] = "agent" =>
    LET points == confidence_points(events[b])
        shifts == strategy_shifts(events[b])
        span == Axis(points, shifts).max - Axis(points, shifts).min
    IN  \A chart \in confidence_svg(points, shifts) :
          /\ \A i \in DOMAIN points :
               LET at == chart.circles[i]
               IN  /\ InFrame(at[1]) /\ at[2] \in PadTop .. PadTop + PlotHeight
                   /\ \A j \in DOMAIN shifts :
                        LET later == shifts[j].received_at_ms - points[i].received_at_ms
                        IN  /\ later >= 0 => at[1] <= chart.markers[j]
                            /\ later * PlotWidth >= span => at[1] < chart.markers[j]
          /\ \A j \in DOMAIN shifts : InFrame(chart.markers[j])
          /\ points[Len(points)].seq <= readAt[b] =>
               chart.label[3] = Header(b).snapshot.last_confidence
=============================================================================
