------------------------------- MODULE Console -------------------------------
(***************************************************************************)
(* The desktop window around the engine: the app object that owns the      *)
(* engine of this process (app/app.go, app/setup.go) and the React shell   *)
(* that decides between the setup wizard and the console (App.tsx,         *)
(* Wizard.tsx, RoleSwitcher.tsx, SetupBackup.tsx, nav.tsx).                *)
(*                                                                         *)
(* The app's mutex makes each bound call one action. A handler of the      *)
(* frontend that awaits a call is two actions, so ticks, links and clicks  *)
(* fall in between. A render and the effects it runs are one step: Render. *)
(* The contents of forms, the tunnels and the look are left out.           *)
(*                                                                         *)
(* A definition named X_Y is not part of the model: it is X with the bug Y *)
(* put in, and some property must fail when it takes the place of X.       *)
(***************************************************************************)
EXTENDS Naturals

CONSTANTS
  TokenCodes,   \* pairing codes that carry the shared token
  TicketCodes,  \* pairing codes that carry an enrollment ticket
  Links,        \* those that arrive as a pairing link
  Backups,      \* setups that a .pfsetup file, or an earlier run, may have left
  MayNotStart,  \* may engine.New fail?
  MaxLinks,     \* bound: pairing links that the system hands over
  None

Codes == TokenCodes \cup TicketCodes
Roles == {"unset", "agent", "gateway"}

\* The parts of the configuration that decide whether an engine may run.
\* (The gateway's own token is minted with its role, and no part of it.)
Setup == [role : Roles, agent : Codes \cup {None}]

\* Config.Validate: an agent needs a token.
Valid(c) == c.role = "agent" => c.agent \in TokenCodes

ASSUME ConsoleAssumption ==
  /\ TokenCodes \cap TicketCodes = {}
  /\ None \notin Codes \cup {"agent", "gateway", "saved"} /\ Links \subseteq Codes
  /\ Backups \subseteq {c \in Setup : c.role # "unset" /\ Valid(c)}
  /\ MayNotStart \in BOOLEAN
  /\ MaxLinks \in Nat

\* The rails: Agents is the gateway's; Overview stands for the screens that
\* both roles have.
Screens == {"overview", "agents"}
Rail(role) == IF role = "gateway" THEN Screens ELSE Screens \ {"agents"}

VARIABLES
  \* the app object
  phase,    \* "cold", "started" (Startup has run), "mounted" (App is on screen)
  mode,     \* "wizard", "engine" or "attached"
  cfg,      \* the configuration in memory
  disk,     \* and in the file
  engine,   \* the engine of this process: "none", "up" or "dead"
  runs,     \* the role that engine was started in
  link,     \* is the link of an agent to its gateway up?
  daemon,   \* the daemon the app is attached to: "none", "up", or "lost" and not noticed
  stash,    \* pendingDeepLink
  links,    \* links handed over so far
  \* the shell
  status,   \* the last tick, or None
  nav,      \* the screen of the console
  morph,    \* the screen a view transition is about to set, or None
  hold,     \* wizardHold
  deepLink,
  wiz,      \* the wizard's state
  call,     \* the wizard's call under way, or None
  ask,      \* the live step's request of a code: "none" or the code's kind
  late,     \* a request that another one cancelled, not answered yet (the last one)
  sw        \* the role switcher's state

app == <<phase, mode, cfg, disk, engine, runs, link, daemon, stash, links>>
vars == <<app, status, nav, morph, hold, deepLink, wiz, call, ask, late, sw>>

Snapshot == [mode : {"wizard", "engine", "attached"}, role : Roles, up : BOOLEAN,
             fatal : BOOLEAN]

Wizard == [act : {"role", "gateway", "agent", "import", "live"},
           kind : {"gateway", "agent"}, busy : BOOLEAN, reusable : BOOLEAN,
           code : {"none", "single", "reusable"}]

FreshWizard ==
  [act |-> "role", kind |-> "gateway", busy |-> FALSE, reusable |-> FALSE, code |-> "none"]

IdleSwitcher == [paired |-> FALSE, target |-> None, read |-> None]

CodeKind(reusable) == IF reusable THEN "reusable" ELSE "single"

TypeOK ==
  /\ phase \in {"cold", "started", "mounted"}
  /\ mode \in {"wizard", "engine", "attached"}
  /\ cfg \in Setup /\ disk \in Setup
  /\ engine \in {"none", "up", "dead"} /\ runs \in Roles
  /\ link \in BOOLEAN /\ daemon \in {"none", "up", "lost"}
  /\ stash \in Codes \cup {None} /\ links \in 0..MaxLinks
  /\ status \in Snapshot \cup {None}
  /\ nav \in Screens /\ morph \in Screens \cup {None}
  /\ hold \in BOOLEAN /\ deepLink \in Codes \cup {None}
  /\ wiz \in Wizard
  /\ call \in {None, "gateway"} \cup Codes
  /\ ask \in {"none", "single", "reusable"} /\ late \in {"none", "single", "reusable"}
  /\ sw \in [paired : BOOLEAN, target : {None, "agent", "gateway", "saved"},
             read : Setup \cup {None}]

Init ==
  /\ phase = "cold" /\ mode = "wizard"
  /\ cfg \in Backups \cup {[role |-> "unset", agent |-> None]}
  /\ disk = cfg
  /\ engine = "none" /\ runs = "unset" /\ link = FALSE
  /\ daemon \in {"none", "up"}
  /\ stash = None /\ links = 0
  /\ status = None /\ nav = "overview" /\ morph = None
  /\ hold = FALSE /\ deepLink = None
  /\ wiz = FreshWizard /\ call = None /\ ask = "none" /\ late = "none" /\ sw = IdleSwitcher

-----------------------------------------------------------------------------
\* The app object. These operators set mode, cfg, disk, engine, runs and link.

\* startEngineLocked after stopEngineLocked: m is the mode that a failing
\* engine.New leaves behind.
Start(c, m) ==
  \E ok \in {TRUE} \cup (IF MayNotStart THEN {FALSE} ELSE {}) :
    /\ engine' = IF ok THEN "up" ELSE "none"
    /\ runs' = IF ok THEN c.role ELSE "unset"
    /\ mode' = IF ok THEN "engine" ELSE m
    /\ link' = FALSE

Stop ==
  /\ engine' = "none" /\ runs' = "unset" /\ link' = FALSE
  /\ mode' = IF mode = "engine" THEN "wizard" ELSE mode

NoChange == UNCHANGED <<mode, cfg, disk, engine, runs, link>>

Adopt_StartsRegardless(c) ==
  IF mode = "attached" THEN NoChange
  ELSE /\ cfg' = c
       /\ disk' = IF Valid(c) THEN c ELSE disk
       /\ Start(c, "wizard")

\* Stop, change the configuration, save it, start: the file and the engine are
\* left alone by a configuration that does not validate.
Adopt(c) ==
  IF mode = "attached" THEN NoChange
  ELSE /\ cfg' = c
       /\ IF Valid(c) THEN disk' = c /\ Start(c, "wizard")
                      ELSE disk' = disk /\ Stop

SetupGateway == Adopt([cfg EXCEPT !.role = "gateway"])

SetupAgent(code) == Adopt([cfg EXCEPT !.role = "agent", !.agent = code])

\* importSetupFromPath: a file that does not decode changes nothing; one that
\* cannot be written, its configuration last, leaves the engine stopped.
ImportSetup(file) ==
  IF mode = "attached" THEN NoChange
  ELSE \/ NoChange
       \/ Stop /\ UNCHANGED <<cfg, disk>>
       \/ cfg' = file /\ disk' = file /\ Start(file, "wizard")

SaveSettings(c) ==
  IF Valid(c) THEN cfg' = c /\ disk' = c /\ UNCHANGED <<mode, engine, runs, link>>
              ELSE NoChange

RestartEngine ==
  IF mode = "attached" THEN NoChange
  ELSE /\ UNCHANGED <<cfg, disk>>
       /\ IF cfg.role # "unset" /\ Valid(cfg) THEN Start(cfg, "wizard") ELSE Stop

\* statusLocked: an attached daemon that is gone is replaced by an engine of
\* this process, or by the wizard; the snapshot is what was seen before that.
Poll ==
  /\ UNCHANGED <<cfg, disk>>
  /\ IF mode = "attached" /\ daemon = "lost"
     THEN /\ daemon' = "none"
          /\ IF cfg.role # "unset" /\ Valid(cfg) THEN Start(cfg, "attached")
             ELSE mode' = "wizard" /\ UNCHANGED <<engine, runs, link>>
     ELSE UNCHANGED <<daemon, mode, engine, runs, link>>

Seen == [mode |-> mode, role |-> cfg.role, up |-> link,
         fatal |-> mode = "engine" /\ engine = "dead"]

-----------------------------------------------------------------------------
\* The shell.

Unconfigured(st) == st # None /\ (st.mode = "wizard" \/ st.role = "unset")
ShowsWizard(st, h) == st # None /\ (Unconfigured(st) \/ h)
ShowsConsole(st, h) == st # None /\ ~ShowsWizard(st, h)
LiveGateway(st, h, w) == ShowsWizard(st, h) /\ w.act = "live" /\ w.kind = "gateway"

\* The effect on [deepLink]: a pairing link drops the user onto the paste step.
FollowLink(w, url) ==
  IF url = None THEN w
  ELSE [w EXCEPT !.act = "agent", !.kind = "agent"]

Reachable_OnRoleOnly(st, n) ==
  IF st # None /\ (status = None \/ st.role # status.role) /\ n \notin Rail(st.role)
  THEN "overview" ELSE n

\* The effect on [status.role, nav].
Reachable(st, n) ==
  LET role == IF st = None THEN "unset" ELSE st.role
  IN IF n \in Rail(role) THEN n ELSE "overview"

\* A render with status st, hold h, link url, screen n and wizard w, and the
\* effects it runs: the wizard is mounted and unmounted by what is shown, the
\* live step asks for a code when it appears or restarts its request (again).
Render(st, h, url, n, w, again) ==
  LET held == h \/ (Unconfigured(st) /\ ~Unconfigured(status))
      shown == ShowsWizard(st, held)
      fresh == shown /\ ~ShowsWizard(status, hold)
      next == IF ~shown THEN FreshWizard
              ELSE IF fresh THEN FollowLink(FreshWizard, url)
              ELSE IF url # deepLink THEN FollowLink(w, url) ELSE w
      was == LiveGateway(status, hold, wiz)
      is == LiveGateway(st, held, next)
      enters == is /\ (again \/ ~was)
  IN /\ status' = st /\ hold' = held /\ deepLink' = url
     /\ nav' = Reachable(st, n)
     /\ wiz' = IF enters THEN [next EXCEPT !.code = "none", !.reusable = w.reusable /\ was]
               ELSE [next EXCEPT !.code = IF is THEN @ ELSE "none", !.reusable = @ /\ is]
     /\ sw' = IF ShowsConsole(st, held) /\ (~ShowsConsole(status, hold) \/ st.role # status.role)
              THEN [sw EXCEPT !.paired = cfg'.agent \in TokenCodes]
              ELSE [sw EXCEPT !.paired = @ /\ ShowsConsole(st, held)]
     /\ ask' = IF enters THEN CodeKind(w.reusable /\ was) ELSE IF is THEN ask ELSE "none"
     /\ late' = IF ~is \/ ~was THEN "none" ELSE IF again /\ ask # "none" THEN ask ELSE late

\* A step of the wizard alone.
InWizard(w) == Render(status, hold, deepLink, nav, w, FALSE)
Idle == UNCHANGED <<mode, cfg, disk, engine, runs, link>>
Keeps == UNCHANGED <<phase, daemon, stash, links, morph>>

\* Startup, then App's first effects: the link of a cold launch is taken once.
Boot ==
  /\ phase = "cold" /\ phase' = "started"
  /\ UNCHANGED <<cfg, disk, daemon, stash, links, status, nav, morph, hold, deepLink,
                 wiz, call, ask, late, sw>>
  /\ IF daemon = "up" THEN mode' = "attached" /\ UNCHANGED <<engine, runs, link>>
     ELSE IF cfg.role # "unset" /\ Valid(cfg) THEN Start(cfg, "wizard")
     ELSE UNCHANGED <<mode, engine, runs, link>>

Mount ==
  /\ phase = "started" /\ phase' = "mounted"
  /\ stash' = None
  /\ Render(status, stash # None, stash, nav, wiz, FALSE)
  /\ Idle /\ UNCHANGED <<daemon, links, morph, call>>

\* HandleDeepLink: stashed before Startup, an event after; the event finds
\* nobody between Startup and the mount.
OpenLink ==
  /\ links < MaxLinks /\ links' = links + 1
  /\ \E url \in Links :
       \/ /\ phase = "cold" /\ stash' = url
          /\ UNCHANGED <<status, nav, hold, deepLink, wiz, ask, late, sw>>
       \/ /\ phase = "started"
          /\ UNCHANGED <<stash, status, nav, hold, deepLink, wiz, ask, late, sw>>
       \/ /\ phase = "mounted" /\ Render(status, TRUE, url, nav, wiz, FALSE)
          /\ UNCHANGED stash
  /\ Idle /\ UNCHANGED <<phase, daemon, morph, call>>

\* The ticker's 2 Hz snapshot, and the first Status call.
Tick ==
  /\ phase = "mounted"
  /\ Poll
  /\ Render(Seen, hold, deepLink, nav, wiz, FALSE)
  /\ UNCHANGED <<phase, stash, links, morph, call>>

\* go: at once, or from within a view transition's callback (Overview cannot
\* become unreachable meanwhile: late or at once is the same). Called by the
\* rail, the palette and Ctrl with a digit, which works over the wizard too.
Navigate ==
  /\ phase = "mounted" /\ morph = None
  /\ \E n \in Rail(IF status = None THEN "unset" ELSE status.role) \ {nav} :
       \/ nav' = Reachable(status, n) /\ UNCHANGED morph
       \/ n = "agents" /\ morph' = n /\ UNCHANGED nav
  /\ Idle
  /\ UNCHANGED <<phase, daemon, stash, links, status, hold, deepLink, wiz, call, ask, late, sw>>

TransitionRuns ==
  /\ morph # None /\ morph' = None
  /\ nav' = Reachable(status, morph)
  /\ Idle
  /\ UNCHANGED <<phase, daemon, stash, links, status, hold, deepLink, wiz, call, ask, late, sw>>

-----------------------------------------------------------------------------
\* The wizard.

WizardStep == ShowsWizard(status, hold) /\ Keeps

\* Moves between the acts that need no call: the cards and Back.
ChooseAct ==
  /\ WizardStep /\ Idle /\ UNCHANGED call
  /\ \/ /\ wiz.act = "role"
        /\ \E a \in {"agent", "gateway", "import"} : InWizard([wiz EXCEPT !.act = a])
     \/ wiz.act \in {"agent", "gateway", "import"} /\ InWizard([wiz EXCEPT !.act = "role"])
     \/ wiz.act = "live" /\ wiz.kind = "agent" /\ InWizard([wiz EXCEPT !.act = "agent"])

\* doGateway, and doAgent with whatever code is in the field, up to the await.
StartSetup ==
  /\ WizardStep /\ Idle
  /\ call = None /\ ~wiz.busy
  /\ \/ wiz.act = "gateway" /\ call' = "gateway"
     \/ wiz.act = "agent" /\ call' \in Codes
  /\ InWizard([wiz EXCEPT !.busy = TRUE])

\* The bound call and what follows it. The act is set whatever it is by then.
EndSetup ==
  /\ call # None /\ call' = None
  /\ IF call = "gateway" THEN SetupGateway ELSE SetupAgent(call)
  /\ LET done == mode # "attached" /\ Valid(cfg')
         w == IF ~wiz.busy THEN wiz
              ELSE IF done THEN [wiz EXCEPT !.busy = FALSE, !.act = "live",
                                 !.kind = IF call = "gateway" THEN "gateway" ELSE "agent"]
              ELSE [wiz EXCEPT !.busy = FALSE]
     IN InWizard(w)
  /\ Keeps

\* ImportSetupFlow: in the wizard, which passes no onDone, and in Settings.
Import ==
  /\ Keeps /\ UNCHANGED call
  /\ status # None
  /\ IF ShowsWizard(status, hold) THEN wiz.act = "import" ELSE nav = "overview"
  /\ \E file \in Backups : ImportSetup(file)
  /\ InWizard(wiz)

\* finishWizard: the buttons of the live step, and the agent's timer once it is up.
Finish == Render(status, FALSE, None, nav, wiz, FALSE)

OpenConsole ==
  /\ WizardStep /\ Idle /\ UNCHANGED call
  /\ wiz.act = "live"
  /\ wiz.kind = "agent" => ~status.fatal
  /\ Finish

HandOver_RestartedByTicks ==
  /\ WizardStep /\ Idle /\ UNCHANGED call
  /\ wiz.act = "live" /\ wiz.kind = "agent" /\ status.up /\ phase # "mounted"
  /\ Finish

HandOver ==
  /\ WizardStep /\ Idle /\ UNCHANGED call
  /\ wiz.act = "live" /\ wiz.kind = "agent" /\ status.up
  /\ Finish

\* The gateway's live step: the toggle and New code each start another request.
RequestCode ==
  /\ WizardStep /\ Idle /\ UNCHANGED call
  /\ LiveGateway(status, hold, wiz)
  /\ \/ Render(status, hold, deepLink, nav, [wiz EXCEPT !.reusable = ~@], TRUE)
     \/ ask = "none" /\ Render(status, hold, deepLink, nav, wiz, TRUE)

CodeArrives_NeverCancelled ==
  /\ \/ /\ ask # "none" /\ ask' = "none" /\ UNCHANGED late
        /\ wiz' = [wiz EXCEPT !.code = ask]
     \/ /\ late # "none" /\ late' = "none" /\ UNCHANGED ask
        /\ LiveGateway(status, hold, wiz) /\ wiz' = [wiz EXCEPT !.code = late]
  /\ engine = "up" /\ cfg.role = "gateway"
  /\ Idle /\ Keeps /\ UNCHANGED <<status, nav, hold, deepLink, call, sw>>

\* IssuePairingCode answers a gateway's engine; a request that was cancelled is
\* dropped, one that fails is tried again for five seconds and then given up.
CodeArrives ==
  /\ \/ /\ ask # "none" /\ ask' = "none"
        /\ IF engine = "up" /\ cfg.role = "gateway" THEN wiz' = [wiz EXCEPT !.code = ask]
           ELSE UNCHANGED wiz
        /\ UNCHANGED late
     \/ late # "none" /\ late' = "none" /\ UNCHANGED <<wiz, ask>>
  /\ Idle /\ Keeps /\ UNCHANGED <<status, nav, hold, deepLink, call, sw>>

-----------------------------------------------------------------------------
\* The console: the role switcher, and the buttons that restart the engine.

\* pick: becoming the agent without a token leads to the wizard's pairing step.
PickRole ==
  /\ status # None /\ ShowsConsole(status, hold) /\ Idle /\ Keeps /\ UNCHANGED call
  /\ status.mode # "attached" /\ sw.target = None
  /\ \E target \in {"agent", "gateway"} \ {status.role} :
       IF target = "agent" /\ ~sw.paired
       THEN Render(status, TRUE, deepLink, nav, wiz, FALSE)
       ELSE /\ sw' = [sw EXCEPT !.target = target, !.read = IF target = "agent" THEN cfg ELSE None]
            /\ UNCHANGED <<status, nav, hold, deepLink, wiz, ask, late>>

Switch_KeepsEngine ==
  /\ sw.target \in {"agent", "gateway"}
  /\ IF sw.target = "gateway" THEN SetupGateway
     ELSE SaveSettings([sw.read EXCEPT !.role = "agent"])
  /\ sw' = [sw EXCEPT !.target = None, !.read = None]
  /\ Keeps /\ UNCHANGED <<status, nav, hold, deepLink, wiz, call, ask, late>>

\* The call after doSwitch has read the configuration: the gateway's setup, or
\* the configuration as it was read, with the other role.
Switch ==
  /\ sw.target \in {"agent", "gateway"}
  /\ IF sw.target = "gateway"
     THEN SetupGateway /\ sw' = [sw EXCEPT !.target = None, !.read = None]
     ELSE LET c == [sw.read EXCEPT !.role = "agent"]
          IN /\ SaveSettings(c)
             /\ sw' = [sw EXCEPT !.target = IF Valid(c) THEN "saved" ELSE None, !.read = None]
  /\ Keeps /\ UNCHANGED <<status, nav, hold, deepLink, wiz, call, ask, late>>

SwitchRestarts ==
  /\ sw.target = "saved" /\ sw' = [sw EXCEPT !.target = None]
  /\ RestartEngine
  /\ Keeps /\ UNCHANGED <<status, nav, hold, deepLink, wiz, call, ask, late>>

\* Restart engine, in the palette and on Overview.
Restart ==
  /\ ShowsConsole(status, hold) /\ status.mode = "engine"
  /\ RestartEngine
  /\ Keeps /\ UNCHANGED <<status, nav, hold, deepLink, wiz, call, ask, late, sw>>

-----------------------------------------------------------------------------
\* The engine, the daemon and the other machine.

World ==
  /\ \/ /\ cfg.role = "agent" /\ (engine = "up" \/ (mode = "attached" /\ daemon = "up"))
        /\ link' = ~link /\ UNCHANGED <<engine, daemon>>
     \/ engine = "up" /\ engine' = "dead" /\ link' = FALSE /\ UNCHANGED daemon
     \/ daemon = "up" /\ mode = "attached" /\ daemon' = "lost" /\ link' = FALSE
        /\ UNCHANGED engine
  /\ UNCHANGED <<phase, mode, cfg, disk, runs, stash, links, status, nav, morph, hold,
                 deepLink, wiz, call, ask, late, sw>>

Next == \/ Boot \/ Mount \/ OpenLink \/ Tick \/ Navigate \/ TransitionRuns
        \/ ChooseAct \/ StartSetup \/ EndSetup \/ Import \/ OpenConsole \/ HandOver
        \/ RequestCode \/ CodeArrives
        \/ PickRole \/ Switch \/ SwitchRestarts \/ Restart \/ World

\* The ticker and the timers fire, calls return; nothing is asked of the user
\* or of the other machine.
Fairness == WF_vars(Boot) /\ WF_vars(Mount) /\ WF_vars(Tick) /\ WF_vars(HandOver)
            /\ WF_vars(EndSetup)

Spec == Init /\ [][Next]_vars /\ Fairness

-----------------------------------------------------------------------------
\* The console never renders a screen that the role cannot reach, whatever role
\* switch, setup or import falls between the click and the view transition.
ScreenFitsRole ==
  ShowsConsole(status, hold) => nav \in Rail(status.role)

\* An engine of this process runs the setup that a restart of the app would
\* load: the configuration in memory is the one in the file, it is valid, and
\* the engine was started in its role, unless a switch is about to restart it.
EngineIsSetup ==
  engine # "none" => /\ cfg = disk /\ Valid(cfg)
                     /\ runs = cfg.role \/ sw.target = "saved"

\* The pairing code on display is of the kind that the toggle asks for, however
\* late the codes of earlier requests arrive.
CodeFitsToggle ==
  LiveGateway(status, hold, wiz) => wiz.code \in {"none", CodeKind(wiz.reusable)}

\* What the window and the process behind it keep to in every state.
ConsoleSafe == TypeOK /\ ScreenFitsRole /\ EngineIsSetup /\ CodeFitsToggle

\* An agent whose link is up leaves the wizard for the console, unless the link
\* goes down again, a new link opens the paste step or the user goes back.
LinkOpensConsole ==
  (ShowsWizard(status, hold) /\ wiz.act = "live" /\ wiz.kind = "agent" /\ status.up)
    ~> (\/ ShowsConsole(status, hold) \/ wiz.act # "live" \/ wiz.kind # "agent"
        \/ ~status.up)

\* A pairing code that is confirmed on a machine whose engine is its own makes
\* it the agent: app.go says of tickets that they enroll it "by default".
PairingStartsAgent ==
  [][(call \in Codes /\ call' = None /\ mode # "attached") => Valid(cfg')]_vars
=============================================================================
