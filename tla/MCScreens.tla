------------------------------ MODULE MCScreens ------------------------------
(***************************************************************************)
(* The parts of the window, checked one at a time: a behaviour has a focus *)
(* and takes the steps of that part only, the others stay as they began.   *)
(* The parts share no state in the program either: what one screen does to *)
(* another goes through the backend, which each part models as far as its  *)
(* screen sees it.                                                         *)
(***************************************************************************)
EXTENDS PolledViews, EventTail, AgentRoster, ConfigForms, StatusView, RubberBand, Charts,
        Overlays, Widgets, Traffic, Replay, Plots

VARIABLE focus

vars == <<pollVars, tailVars, rosterVars, formVars, statusVars, bandVars, history, overlayVars,
          segVars, rail, glide, sys, strip, trafficVars, wire, geo, uptime, loss, play, plot, panel,
          focus>>

-----------------------------------------------------------------------------
\* Values of the constants that a cfg cannot spell.

Steps == <<1, 2, 5>>
Ranked == <<"go", "restart">>
GoHits == [all |-> {"go", "restart"}, some |-> {"restart"}, none |-> {}]

-----------------------------------------------------------------------------
Parts ==
  {"poll", "tail", "roster", "forms", "status", "band", "charts", "overlays",
   "segments", "rail", "glide", "system", "strip", "traffic", "wire", "geo", "bands", "loss",
   "replay", "plots", "panel"}

OneOf(S) == CHOOSE x \in S : TRUE

\* What is not in focus begins in one way only.
MCInit ==
  /\ focus \in Parts
  /\ PollInit /\ TailInit
  /\ RosterInit /\ (focus # "roster" => agent.listed)
  /\ FormsInit /\ (focus # "forms" => attached /\ conf.settings = OneOf(Settings))
  /\ StatusInit /\ (focus # "status" => world.role = "agent")
  /\ BandInit /\ (focus # "band" => roomTo = [s \in Scrollers |-> [d \in Dirs |-> d = 1]])
  /\ ChartsInit /\ OverlaysInit /\ SegInit
  /\ RailInit /\ (focus # "rail" => rail.active = OneOf(Sections))
  /\ GlideInit /\ (focus # "glide" => glide.ticker /\ glide.value = OneOf(Numbers))
  /\ SysInit /\ (focus # "system" => sys.real = "missing")
  /\ StripInit
  /\ TrafficInit /\ WireInit
  /\ GeoInit /\ LossInit /\ PlayInit
  /\ BandsInit /\ (focus # "bands" => uptime.now = Span /\ uptime.window = 0)
  /\ PlotInit /\ PanelInit

\* What is not in focus stays as it is.
Rest ==
  /\ UNCHANGED focus
  /\ focus # "poll" => UNCHANGED pollVars
  /\ focus # "tail" => UNCHANGED tailVars
  /\ focus # "roster" => UNCHANGED rosterVars
  /\ focus # "forms" => UNCHANGED formVars
  /\ focus # "status" => UNCHANGED statusVars
  /\ focus # "band" => UNCHANGED bandVars
  /\ focus # "charts" => UNCHANGED history
  /\ focus # "overlays" => UNCHANGED overlayVars
  /\ focus # "segments" => UNCHANGED segVars
  /\ focus # "rail" => UNCHANGED rail
  /\ focus # "glide" => UNCHANGED glide
  /\ focus # "system" => UNCHANGED sys
  /\ focus # "strip" => UNCHANGED strip
  /\ focus # "traffic" => UNCHANGED trafficVars
  /\ focus # "wire" => UNCHANGED wire
  /\ focus # "geo" => UNCHANGED geo
  /\ focus # "bands" => UNCHANGED uptime
  /\ focus # "loss" => UNCHANGED loss
  /\ focus # "replay" => UNCHANGED play
  /\ focus # "plots" => UNCHANGED plot
  /\ focus # "panel" => UNCHANGED panel

MCNext ==
  \/ focus = "poll" /\ PollNext /\ Rest
  \/ focus = "tail" /\ TailNext /\ Rest
  \/ focus = "roster" /\ RosterNext /\ Rest
  \/ focus = "forms" /\ FormsNext /\ Rest
  \/ focus = "status" /\ StatusNext /\ Rest
  \/ focus = "band" /\ BandNext /\ Rest
  \/ focus = "charts" /\ ChartsNext /\ Rest
  \/ focus = "overlays" /\ OverlaysNext /\ Rest
  \/ focus = "segments" /\ SegNext /\ Rest
  \/ focus = "rail" /\ RailNext /\ Rest
  \/ focus = "glide" /\ GlideNext /\ Rest
  \/ focus = "system" /\ SysNext /\ Rest
  \/ focus = "strip" /\ StripNext /\ Rest
  \/ focus = "traffic" /\ TrafficNext /\ Rest
  \/ focus = "wire" /\ WireNext /\ Rest
  \/ focus = "geo" /\ GeoNext /\ Rest
  \/ focus = "bands" /\ BandsNext /\ Rest
  \/ focus = "loss" /\ LossGrows /\ Rest
  \/ focus = "replay" /\ PlayNext /\ Rest
  \/ focus = "plots" /\ PlotRecord /\ Rest
  \/ focus = "panel" /\ PanelNext /\ Rest

\* The fairness of each part, while it is in focus.
MCFairness ==
  /\ WF_pollVars(focus = "poll" /\ PollAgain)
  /\ WF_pollVars(focus = "poll" /\ Settle)
  /\ \A n \in Answer : WF_pollVars(focus = "poll" /\ Arrive(n))
  /\ WF_rosterVars(focus = "roster" /\ FetchAgain)
  /\ \A v \in 0..MaxVersion : WF_rosterVars(focus = "roster" /\ FetchEnds(v))
  /\ WF_strip(focus = "strip" /\ StripAnswer)
  /\ WF_strip(focus = "strip" /\ AskAgain)

MCSpec == MCInit /\ [][MCNext]_vars /\ MCFairness

-----------------------------------------------------------------------------
\* Each screen's promises, as far as it is in focus.

\* What the polled screens show is what they ask for, and what they ask for
\* exists: PolledViews.
PollSafe == focus = "poll" => PollTypeOK /\ ShownIsAsked /\ PageExists

\* The event log and the conflict cards: EventTail.
TailSafe == focus = "tail" => TailTypeOK /\ NothingSkipped /\ ConflictResurfaces

\* The settings form, the list of tunnels and the roster's cache: ConfigForms and
\* AgentRoster.
FormsSafe ==
  /\ focus = "forms" => FormsTypeOK /\ SavedRuns /\ BarTells /\ ListIsSaved
  /\ focus = "roster" => RosterTypeOK

\* The pill, the pipeline and the backdrop of the status, the rubber bands, what the
\* windows at the two ends of a wire show, the small machines: StatusView, RubberBand,
\* Traffic, Widgets.
ControlsSafe ==
  /\ focus = "status" => StatusTells
  /\ focus = "band" => BandSafe
  /\ focus = "wire" => WindowsAgree
  /\ focus \in {"segments", "rail", "glide", "system", "strip"} => WidgetsSafe

\* The charts and their readouts, the tables of the traffic and the history, the
\* dialogs: Charts, Plots, Traffic, Replay, Overlays.
FiguresSafe ==
  /\ focus = "charts" => ChartsTell
  /\ focus \in {"plots", "panel"} => PlotsSafe
  /\ focus = "traffic" => TrafficSafe
  /\ focus \in {"geo", "bands", "loss", "replay"} => ReplaySafe
  /\ focus = "overlays" => OverlaysSafe

\* The roster and the form that manages an agent, the dialogs, the bands of light
\* and the map: what their steps may never do (AgentRoster, Overlays, StatusView,
\* Replay).
StepsKeep ==
  /\ SavedIsNotUndone /\ EditSurvives /\ OnlyOverlapBlanks
  /\ OverlaysKeep
  /\ NeverStrobes
  /\ FlashIsGrowth

\* What comes to be shown: PolledViews, AgentRoster, Widgets.
Converges == ViewConverges /\ RosterConverges /\ StripSettles
=============================================================================
