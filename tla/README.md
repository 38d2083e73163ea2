# proxyforward: a verification project

proxyforward publishes services behind NAT. An *agent* beside the service dials
a *gateway* with a public address; the gateway opens a public TCP listener for
each of the agent's tunnels and carries every player that connects to it over
the agent's link. A desktop window sets both up and shows what they do. This
directory holds TLA+ modules of the gateway's core, the agent's link, what is kept
on disk and the window, the TLC configurations that check them, and TLAPS proofs
about them. Paths of Go files are relative to `internal/` of the repository unless
they start with `app/`; `.ts` and `.tsx` files are those of `frontend/src/`.

Contents: [inventory](#inventory), [modules](#modules), [runs](#runs),
[bounds](#bounds), [fairness](#fairness), [proofs](#proofs),
[disagreements with the code's own words](#disagreements-with-the-codes-own-words),
[what is left out](#what-is-left-out), [plan](#plan).

## Inventory

Modelled parts first. *State* is what the part keeps, *hard* what a test
reaches badly, *correct when* the properties that matter.

| component | state | operations | hard | correct when |
|---|---|---|---|---|
| gateway actor (`gateway/actor.go`) | the live session, the listeners and the anti-flap record of every agent; a generation counter | admit, disconnected, bindTunnel, unbindTunnel, reconcile, evict, shutdown: commands on one goroutine | sessions of one agent overlapping, late disconnects, sockets other processes take, long mixes of syncs | a listener belongs to the live session, map and sockets agree, policy is kept, an isolated reconnect is admitted |
| port conflicts (`gateway/conflict.go`) | a ring of operator events | reassignCandidates, portInAllowlist, record | the alternative port against scope and allowlist | a moved tunnel stays in its policy |
| data plane (`gateway/dataplane.go`, `perconn.go`) | the table of players waiting for a dial-back, a one-place slot for each, the session's legs | openFlow, take, deliver, openDataConn, handleDataConn, closeAll | time-out against delivery, two dial-backs for one player, eviction against both | a leg has exactly one closer; it is the player's own agent's |
| limits (`gateway/limits.go`) | two connection counters; a window of failed handshakes | admit, release; allow, fail | many ways out of one handler | counters equal what is served |
| gateway server (`gateway/gateway.go`) | one goroutine per link and per player | hello to disconnect, RevokeAgent, SetAgentScope, Shutdown, handleClient; config and tunnel sync, health | operator calls between two steps of a handler, QUIC's order of publishing | evictions reach every session, handlers return, nothing stays open |
| identity (`gateway/agentstore.go`, `auth.go`) | the allowlist and the pairing tickets, in memory and in a file | Lookup, Enroll, Revoke, AdoptConfig, IssueEnrollment, load, save | Lookup and Enroll apart, failed writes, restarts | tickets and labels are unique, a record is never taken back |
| relay (`relay/relay.go`) | two copying goroutines for each player | Splice, copyHalf | who ends whom | an evicted player's goroutines end |
| agent link (`agent/agent.go`, `link/backoff.go`) | the current session, transport cooldowns, backoff | Run, runSessionAuto, serve, handleDataStream | cooldowns against network changes | it reconnects as long as one transport works, and goes back to the preferred one |
| agent hot apply, health (`agent/hotapply.go`, `health.go`) | tunnels, remembered ports, backend states, limiters | ApplyTunnels, applyPushedConfig, probe | edit against push; replay against transition | agent and gateway converge on one set |
| connection tracking (`conntrack/`) | live connections, totals | Open, close, Snapshot | reads while a connection moves from the live to the closed | a rate is that of bytes that flowed |
| statistics (`stats/`) | rings of buckets in tiers, one history for the gateway and one for each agent, dirty marks | Sample, SampleAgent, Flush, load | saving outside the lock, gaps, laps, a clock set back | a byte is counted once in every tier; what counts as clean is on disk |
| analytics (`analytics/`) | a bounded queue of writes, an SQLite file | Enqueue, Barrier, writer, Close; SaveStats, LoadStats; queries, rollups | eviction at the limit, closing against enqueuing | a write is run in order or counted as dropped; a barrier covers what was before it |
| desktop application (`app/app.go`, `app/setup.go`, `app/agents.go`), engine (`engine/`), configuration (`config/`, `setup/`) | the configuration in memory and on disk, the engine or the attached daemon | Startup, setup, import, role switch, save, restart, Status | a start that fails, a daemon that is lost, calls between two steps | the engine that runs is the setup on disk |
| shell and wizard (`App.tsx`, `Wizard.tsx`, `RoleSwitcher.tsx`, `SetupBackup.tsx`, `nav.ts`) | role, screen, wizard step, pairing code, link to open | navigation, setup, switches, hand-over | answers, ticks and links between a click and its effect | a screen fits the role, the code fits the toggle, the wizard hands over |
| polled screens (`hooks.ts`, `players.ts`, `history.ts`, `analytics.ts`, `Players.tsx`) | a cache, the question of each view, answers under way | filter, page, open, close, poll | answers in any order, a screen that is left | what is shown answers what is asked |
| events (`Activity.tsx`, the cards of `Agents.tsx`) | a cursor, the newest events, what was dismissed | pull, dismiss, restart of the gateway | a ring that drops, a cursor that outlives it | no event that is held is skipped; a new conflict resurfaces |
| roster (`Agents.tsx`) | the polled roster, a nonce, drafts | fetch, edit, save, revoke | a poll between a save and its answer | no answer undoes a save, no poll an edit |
| forms (`Settings.tsx`, `Tunnels.tsx`, `theme.ts`) | a staged copy of the configuration, a list | edit, save, restart, toggle, rotate | edits while a save is under way | what runs is what was saved, and the bar says so |
| status (`state.ts`, `ConnectionPill.tsx`, `Overview.tsx`) | the last snapshot, a debounced backdrop | tick, timers | a link that flaps faster than a timer | the room shifts after a state that lasts, the pill tells silence |
| rubber bands (`rubberband.ts`) | a band for each scroller, a loop of frames | wheel, touch, keys, timers, elements that go | inputs against each other | a band that nothing holds comes home |
| charts (`BandwidthChart.tsx`, `charts/`) | buckets, a view, a crosshair | record, hover, choose | gaps, merging, unequal slots | the readout tells what is painted |
| overlays (`Tunnels.tsx`, `CommandPalette.tsx`, `ui.tsx`) | editor, menu, palette, armed buttons, timers | open, close, Escape, Enter | timers that nothing cancels | Escape takes the top, a delete is meant |
| small controls (`ui.tsx`, `NumberTicker.tsx`, parts of `Settings.tsx` and `Overview.tsx`) | a drag, a pin, a glide, badges, a code | pointer, scroll, frames, answers | events in any order | they rest at the truth |
| traffic (`Traffic.tsx`) | the last reading of each address | tick, poll, render | two answers of different times | a host has one row, totals add up |
| analytics screen (`Analytics.tsx`, `LineChart.tsx`) | range, baseline, bands, playhead | pick, answer, scrub | answers after a change of range | a flash is growth, a band is what was recorded |

Not modelled, and listed with the reason under [what is left out](#what-is-left-out):
bandwidth caps, link quality, the lookup of players, logging, ipc, credentials and
pairing codes, the control protocol's framing, the transport adapters, the
Minecraft parsers, small helpers, the Windows service, the generated bindings, the
mock of the backend, layout and drawing.

How the parts meet: a link's handler (gateway server) validates a hello with
the identity store, then posts `admit` to the actor; the actor supersedes the
agent's previous session by evicting it, which closes its listeners and, through
the data plane, its links and legs. Tunnel syncs of a session are actor commands
as well. The accept loop of a listener starts one handler per player, which
passes the caps, gets a leg from the data plane and splices the two. An
operator's change of an agent writes the store and then posts an eviction. The
store also holds an enrolled agent's tunnels: a session's hello reports what the
agent runs, the handler binds and pushes the stored set, and an edit at the agent
is a proposal, which the handler refuses, or binds, stores and pushes. What flows is
sampled into the bandwidth history and enqueued as rows; both end in one SQLite
file. The window asks for all of it by polling, through calls of the app that may
fail, and writes configurations back through the same calls; every screen is alone
with the backend, and two screens meet only there.

## Modules

| module | models | built on |
|---|---|---|
| `PortLease` | the abstract promise about ports: a lease is acquired by a live session, given back, or lost with the session, and a session that is gone never returns | |
| `GatewayActor` | `actor.go`, the port policies of `conflict.go`, `validateSpec` | implements `PortLease` |
| `MCGatewayActor` | instances | `GatewayActor` |
| `GatewayActorProofs` | the theorems about `GatewayActor`: ownership, penalties, the refinement, and from those admissions, ports and syncs | `GatewayActor`, TLAPS |
| `LegHandoff` | the abstract promise about a dialed-back leg: it is offered once, and closed, or taken by one player and then closed | |
| `DataPlane` | `dataplane.go`, `perconn.go`, `connGate`, the accept loop, `handleClient`, `Splice`, and eviction and shutdown as far as they touch players | implements `LegHandoff` |
| `MCDataPlane` | instances | `DataPlane` |
| `DataPlaneProofs` | the theorems about `DataPlane` | `DataPlane`, TLAPS |
| `Admission` | a link's handler from hello to disconnect over TCP and QUIC, RevokeAgent, SetAgentScope, Shutdown | |
| `MCAdmission` | instances | `Admission` |
| `AgentStore` | the allowlist, the tickets, their file, the validator | |
| `MCAgentStore` | instances | `AgentStore` |
| `ConfigSync` | the tunnels of an enrolled agent: `pushConfigOnConnect` and `adoptProposal` of the gateway, `registerTunnels`, `ApplyTunnels` and `applyPushedConfig` of the agent, over sessions that may overlap | |
| `MCConfigSync` | instances | `ConfigSync` |
| `AgentLink` | `Run` of the agent, the transport ladder with its cooldowns, the backoff | |
| `WriteQueue` | the queue of writes of `analytics/db.go`: producers, barriers, the writer, Close | |
| `MCRoutines` | an instance of the actor that syncs, of the agent's link and of the queue | `MCGatewayActor`, `AgentLink`, `WriteQueue` |
| `RoutinesProofs` | the theorems about the gateway's handlers of links, the agent's link and the queue | `Admission`, `AgentLink`, `WriteQueue`, TLAPS |
| `SumProofs` | lemmas about sums, maxima and folds that the figures rest on | community modules, TLAPS |
| `BandwidthStore` | the tiers and histories of `stats/stats.go`, its Flush, and SaveStats and LoadStats of `analytics/statspersist.go` | |
| `MCPersistence` | the agents' store, and the bandwidth history | `MCAgentStore`, `BandwidthStore` |
| `PersistenceProofs` | the theorems about the agents' store and the bandwidth history | `AgentStore`, `BandwidthStore`, `SumProofs` |
| `Console` | `app/app.go`, `app/setup.go`, and the shell and wizard of the window | |
| `MCConsole` | instances | `Console` |
| `ConfigProofs` | the theorems about the configuration: its way between agent and gateway, and between window, process and file | `ConfigSync`, `Console`, TLAPS |
| `PolledViews` | `usePolled` and the screens that page through what it fetches | |
| `EventTail` | the ring of operator events and the tail that polls it | |
| `AgentRoster` | the roster of agents, its cache and the form over it | |
| `ConfigForms` | the settings form, the list of tunnels, theme and token | |
| `StatusView` | snapshots of the link and how pill, backdrop and pipeline show them | |
| `RubberBand` | `rubberband.ts` | |
| `Charts`, `Plots` | buckets, candles, runs and crosshair; series, scales and figures of the bandwidth panel | |
| `Overlays` | what floats over the Tunnels screen | |
| `Widgets` | five small controls | |
| `Traffic` | live and stored clients, rates; the wire as its two ends count it | |
| `Replay` | map, uptime, packet loss and replay of the Analytics screen | |
| `MCScreens` | the parts of the window | the twelve modules from `PolledViews` on |
| `FigureProofs` | the invariants of what the window counts and draws, and that they imply its figures | `Charts`, `Plots`, `Replay`, `Traffic`, `SumProofs` |
| `WindowProofs` | the theorems about the window, each part of it | `MCScreens`, `FigureProofs` |

A definition named `X_Y` is `X` with a plausible bug `Y`; it is not part of the
model, but some property has to fail when it takes the place of `X`.

**GatewayActor.** A command of the actor is one action, named as the method is:
`AdmitFresh`, `AdmitDampened` and `AdmitSupersede` are the three ways out of
`admit`; `Disconnected`, `EvictAgent`, `bindTunnel`, `unbindTunnel`, `reconcile`
and `Shutdown` are the others. `bindTunnel` and `reconcile` close and open
sockets one by one while other processes of the host take and release ports
(`ForeignBind`, `ForeignRelease`), so they only start a command (`cmd`), which
`KeepListener`, `CloseOld`, `BindRequested`, `BindReassigned` and `BindFails`
carry on, one tunnel at a time. `listeners` is the union of the sessions'
listener maps; `sock` is what the host knows of a port; a listener carries the
spec it was bound with (`pl.spec`) and, apart, the cap its limiter enforces.
`damp` is `admitDamp`, over a clock of whole base penalties. `DoStopped` is a
command that is posted after the actor has returned.

**DataPlane.** `pc[c]` walks player `c` through `acceptClients`, `handleClient`,
`openFlow`, `take` and `Splice`; `slot[c]` is the `pendingConn` (its done flag
and its one-place channel) and `pendingData` the table it is looked up in.
`handler[l]` is the goroutine that accepted leg `l`: it looks up the player
(`Match`, `NoMatch`) and then, in another critical section, delivers (`deliver`,
`DeliverLoses`). `take`'s select and its second look under the lock are
`TakeReady`, `TakeWakes`, `TakeLate` and `GiveUp`. `EvictBegins` and `EvictEnds`
are the parts of `evict` before and after its wait for the accept loop. The
transport of a session (`perConn`) is settled when the session is made, so it is
chosen in `Init`.

**Admission.** `pc[c]` walks link `c` through `handleControlConn` or
`handleQUICSession`; `grant[c]` is the scope read from the record at the hello,
`published` is what `setSession` stored, `late` remembers the handlers that a
change of the grant found between reading and entering the map.

**AgentStore.** Each call holds the store's mutex and is one action; a hello is
two of them. `disk` is the file; `Restart` drops memory and the handlers. A
`Record` keeps the revocation, the configuration's generation and the ticket
that enrolled it, which stands for the scope. Keys, labels and tickets are model
values; `LabelOf` is the digest by which a key derives its label, and may
collide.

**ConfigSync.** Sessions are numbered in the order in which the agent dials them.
`hp[s]` is where the gateway's handler of `s` is and `ap[s]` where the agent's
`runSessionWith` is; `toGateway[s]` and `toAgent[s]` are the two directions of the
control stream, which keep their order and end with the link (`down`). A proposal
is taken by `TakeProposal` and, in another critical section, stored by
`AdoptConfig`; an edit is `EditSwap`, `EditForget` and `EditPropose`, a push
`PushSwap` and `PushApply`: the code holds its lock for the first part only. A
tunnel set is the set of its enabled tunnels, so the hash of a hello is the set.
`offline` and `stray` are history: `offline` says that the last edit found no
session, `stray` that a superseded session's handler stored a proposal beside the
session that replaced it, or that an old session's reader applied a push after the
next session had said hello.

**AgentLink.** `runAt` walks `Run`; `rungs` is what is left of `ladderOrder`, as places on
the ladder; the lowest is the transport being tried or served. A transport in `blocked` fails to connect. A
cooldown is the time it has left. The configured transport is chosen in `Init`:
the ladder, or one transport without it.

**WriteQueue.** `at[p]` walks producer `p` through the selects of `Enqueue` and
`Barrier`; who is in `send`, `pop` or `resend` holds `qmu`. Evicting takes two
steps, so the fast path of another producer may take the place that an evicted
barrier is to go back to. A batch runs as one step, and `ran` is the order in which writes and
barriers were.

**BandwidthStore.** `tiers[k]` is a ring with its newest bucket's index; `add` is the
cascade as one function from the finest tier up. `Flush` is `FlushTakes`,
`SaveLands` or `SaveFails`, and `FlushMarks`: the lock is held for the first and the
last only. `Reopen` ends the process anywhere and loads what is in the table.

**Console.** A call of the app holds its mutex and is one action; a handler of the
window that awaits a call is two. `cfg`, `disk`, `engine`, `runs`, `mode` and
`daemon` are the app's and the machine's, the rest is the window's. `late` holds
requests for a pairing code whose answer is still to come.

**PolledViews.** A *flight* is a fetch under way: its key and whether the effect that
sent it is still listening. `Forget` is the cleanup of the effect, `Arrive` an
answer, which goes to the cache and the view only if it is listened to.

**The other parts of the window** each have their state in variables of their own; an
action is an event handler, a timer, a render with its effects or an answer. `Widgets`
and `Replay` hold several machines that share nothing, one section each.

## Runs

Twelve runs, of which ten pass; the states are those TLC reports as distinct.

| run | question | states |
|---|---|---|
| `actor_ownership` | do listeners belong to live sessions, do map and sockets agree, is policy kept, and is the whole an implementation of `PortLease`? | 482 000 |
| `routines` | three loops, each by itself. The actor: does a sync leave exactly the desired tunnels, keep the sockets of unchanged ones and retune their limiters, and does every command and the shutdown end? The agent's Run: is one working transport enough to be served again and again, does the preferred one come back, is the last one never cooled? The history's writer: is every write run in order or counted, does a barrier cover what was before it, does Close drain, and is no call stuck while the writer lives? | 115 000 |
| `dampening` | does the latest of many contesting admissions win, and is an isolated reconnect admitted? | 489 000 |
| `data_safety` | is a leg closed by exactly one, the player's own, are the caps exact, is eviction isolated, is a stopped actor quiet, and is the handoff an implementation of `LegHandoff`? | 641 000 |
| `data_liveness` | does a wait for a dial-back end, do evicted players and the shutdown end? | 12 000 |
| `admission` | does a change of grant reach every session but the one that races it, does a returned handler leave nothing open, does an evicted TCP session's handler return, does the shutdown end all? | 286 000 |
| `store` | are tickets, labels and records kept over restarts and races; is every byte of the bandwidth history counted once in every tier, is what counts as clean on disk, do the rows of evicted agents go? | 1 196 000 |
| `config_sync` | once a session is at rest, do the agent, the session and the record agree, and is what listens what is stored; and does every session that lasts come to rest? | 439 000 |
| `console` | does a screen fit the role, is the engine that runs the setup on disk, is the code on display of the kind asked for, and does an agent whose link is up reach the console? | 170 000 |
| `screens` | each part of the window by itself: is what is shown what is asked, recorded and chosen, whatever the order of answers, timers and inputs? | 418 000 |
| `revocation_lost`, `console_ticket` | each shows one disagreement, below | |

A group such as `AllAgree`, `LegsSafe`, `QueueSafe`, `StoreSafe`, `ConsoleSafe`,
`FormsSafe`, `ControlsSafe` (the status, the rubber bands, the small machines, the wire) or
`FiguresSafe` (charts, readouts, tables, dialogs) is a conjunction of named parts, each with
its comment where it is defined.

`MCRoutines`, `MCPersistence` and `MCScreens` put parts that share no
state into one run. A variable `focus` is chosen in the first state and a behaviour
takes the steps of that part only, so that the states add up instead of multiplying;
a safety property of the window is stated for the part in focus. The parts of such a
run do not act on each other in the program either: what the data path needs of the
queue is a call that must come back (`QueueEnds`), and screens meet in the
backend only, which each models as far as it sees it.

Some properties of passing runs name the exception the code leaves. In
`LimiterStaleOnlyAtBoundCap` a limiter may lag where a cap was changed and changed
back to the one its listener was bound with. In
`StaleGrantOnlyByRace` only a handler between reading its record and entering
the map may live with an old grant. In `DrainsEnd`
a *holdout* may stay: a player that neither sends nor hangs up (nothing closes
its connection, so one half of its splice is parked in a read), or one whose leg
was taken but not yet noted in `dataConns` when the drain passed. A holdout keeps
the shutdown waiting. In `RecordSurvives` only the `Enroll` of a hello that missed
a record being made may replace that record. `AllAgree`
excepts the `stray` steps, after which nothing brings the two sides together until
the next session; it also excepts an edit made `offline`, and lets the agent
show the whole stored set where a refused proposal was answered with it, which
`adoptProposal` does not cut to the scope (`gateway.go:1437`).

## Bounds

* `actor_ownership`: two sessions of one agent and one of another, which is
  confined to ports 1 and 2; three ports, one of them ephemeral; one tunnel ID for
  each agent. Two sessions are enough for a supersede and a late disconnect, two
  agents for a clash over a port, three ports for a move within and out of a scope.
* `routines`, the actor: one session, two tunnels, two ports, two caps: every ordered
  set of desired tunnels, so every mix of kept, changed, dropped and exchanged.
* `dampening`: five sessions from two addresses, five ticks. The penalties
  are 1, 2 and 4 for the code's 1 s, 2 s and 30 s: what counts is that the base
  is half the flap window and the cap lies beyond it. `MaxTime` bounds the clock.
* `data_safety`: two agents, two players, two legs of the first agent, which race
  each other for its player and are strays to the other's.
* `data_liveness`: one session of either transport, two players of one address
  with a cap of one per address, so that a player is refused, one leg.
* `routines`, the queue: two places and batches of two; one producer has two writes, one has one, and a third asks
  for barriers, so that a full queue meets every mix of slow path, fast path, barrier and
  Close (`MaxWrites`, `WritesOf`).
* `admission`: three links of one agent (one is QUIC) and one change of the
  grant; `MaxChanges` bounds the operator.
* `store`: three keys, two with one label; four connections, two of one key; a
  single-use and a reusable ticket; `MaxGen` bounds the adopted configurations. The file
  can always be written here; `revocation_lost` is about the other case. The bandwidth
  history has three tiers, each of twice the one below, with two or three buckets, of which
  two are saved: nine units of time are gaps longer than a ring, laps and cascades through
  all tiers. Two histories for three agents; one end of the process (`MaxCrashes`), after
  which the clock may have been set back by a gap. Either the tiers or the agents'
  histories change in a behaviour, for `Flush` treats them one after the other. The
  clock starts past bucket 0 of every tier (`Dawn`), as any clock since 1970 does.
* `config_sync`: two sessions, so one supersedes the other; two tunnels, one of which
  may find its port taken; an edit or a scope is both tunnels or the second; one edit,
  change of scope or restart (`MaxEvents`). With the seed and a refused or adopted
  proposal these reach three generations.
* `routines`, the link: three transports; a cooldown of 3, a wait of at most 2 and stability
  after 2 units, for the code's 300, 60 and 60 seconds: a cooldown outlasts a wait. The
  backoff stops counting at 2, where its ceiling is reached. Nothing else is bounded.
* `console`: a code of either kind, one link (`MaxLinks`) that carries a token, a backup of
  an agent, an engine that may fail to start.
* `screens`: two filters, one player and two rows, so two pages; two answers under way at
  once; a ring and a tail shorter than the events that arrive; two agents' names, two scopes
  and two writes; two tunnels; the sequence of wheel, touch and key inputs, of edits, of
  clicks and of timers bounded by the constants whose names begin with `Max`. Times are in
  units that keep the order of the code's: a hold of 3 for 3 s, stale after 2, a slot of two
  units. Charts have slots up to 4, a window of 10, so that candles may begin before their axis, and candles of at most two bodies;
  scales have exponents up to 5 (`Digits`), enough for their largest value. Each bound is as
  small as it can be with every action of the part taken and every bug `X_Y` caught.

Symmetry is used in runs without liveness, over values the model treats alike. `CHECK_DEADLOCK FALSE`
stands where everything may have ended: all players served, all links gone. The
actor has no such state, for other processes always may take or release a port,
and a store can always be restarted.

## Fairness

* `GatewayActor`: `WF(ActorStep)`, for the actor's goroutine runs whenever it can;
  `SF(Shutdown)`, because the loop's select chooses at random between a cancelled
  context and a waiting command, so it takes the former in the end.
* `DataPlane`: weak fairness of every goroutine of the gateway (players' handlers
  with their timers, leg handlers, accept loops, the actor's eviction and
  shutdown), and of a player that is not stuck hanging up when its stream ends.
* `Admission`: weak fairness of the handlers and of the operator's call that has
  written the store. In its prologue a handler has a deadline.
* `ConfigSync`: weak fairness of each session's handler, of the agent's dialling and
  serving, of its reader and of an edit in progress, all goroutines that only wait for
  messages.
* `AgentLink`: weak fairness of `Run` (its dials and hellos have deadlines) and of time.
* `WriteQueue`: weak fairness of a producer's next step, of the writer and of its timer:
  goroutines run, and a send on a channel with room goes through.
* `Console`: weak fairness of the app's start, of the window's mount, tick and hand-over,
  and of the call that ends a setup. `PolledViews` and `AgentRoster`: of the interval that
  asks again, of every answer and of the debounce; `Widgets`: of the strip's answer and retry.
  A JavaScript timer fires and a call over the bridge returns or fails.
* The other modules state no liveness and assume none.

Nothing is assumed of agents, links, operators or users: an agent may stay for ever,
never dial back, or vanish.

## Proofs

What TLC checks on small instances, TLAPS proves here for every value of the constants
that meets the assumptions: any number of agents, sessions, players, keys, writes or
transports, any caps and durations. In every module the argument is the same: an invariant
that is inductive (true at first, kept by each action, one step of the proof for each) and
implies what is wanted. The assumptions, next to the constants they are about, say that an agent, an
address or a label goes with each session, player or key, that bounds are numbers, and that
placeholders are distinct from what they stand for; what goes beyond that is named
below. What is said there otherwise is why the wanted property is not inductive by
itself, and what is added. TLC has checked each invariant on the instance of its run first.

**`GatewayActorProofs`**, about `GatewayActor`:

| theorem | statement |
|---|---|
| `TypeCorrect` | `Spec => []TypeOK` |
| `NoGhostListener` | `Spec => []OwnerIsLive` |
| `NoLeakedSocket` | `Spec => []SocketsMatchListeners` |
| `PenaltyNeverExceedsWindow` | `Spec => []PenaltyBounded` |
| `IsolatedNeverRefused` | `Spec => IsolatedReconnectAdmitted` |
| `ActorImplementsLeases` | `Spec => LeaseSpec` |
| `LastAdmissionWins` | `Spec => []LatestGenerationWins` |
| `ReassignmentWithinPolicy` | `Spec => []PolicyRespected` |
| `ListenersInSync` | `Spec => []ListenersMatchDesired` |
| `LimiterInSync` | `Spec => []LimiterStaleOnlyAtBoundCap` |
| `ResyncKeepsSockets` | `Spec => ResyncKeepsListener` |

Assumed: `SetsAssumption` and `NoneAssumption` (ports are positive numbers, the placeholders
are no sessions), `NoListenerAssumption`, and `PenaltyAssumption`: the flap window is twice
the base penalty and not beyond the cap, as the three constants in `actor.go` have it.

Ownership and sockets are not inductive alone. A bind in progress must belong to
a session that is still live (`CmdLive`), a session in the map is serving and not
evicted (`LiveFacts`), and an evicted one was admitted (`EvictedFacts`):
`Ownership` is the conjunction, and each action is one step of its proof. The
closing actions meet in one lemma about `CloseKeys`: closing a set of keys closes
their ports and no others, which rests on no two keys sharing a port. The penalty
is bounded because it doubles only if the last supersede is less than a flap
window ago, which the previous penalty has to be shorter than (`PenaltyInv`); an
isolated reconnect is admitted because the penalty is bounded so. For the
refinement every action is a step of `PortLease` or leaves live sessions, evicted
sessions and leases as they are; `Ownership` supplies that a port closed by the
actor was held by the session in question.

What holds between commands only, such as `ListenersMatchDesired`, is broken while a sync
is under way. `SyncInv` says what is true meanwhile: every listener but those the command
still has to handle is in step with the desired set (`OthersInSync`), and the specs ahead of
it are the desired ones, each tunnel once (`TodoIsDesired`). With nothing ahead it is the
two properties, and it also shows that the listener a sync closes is none that it should
keep. `PolicyRespected` is inductive with the types, for a port is chosen among those
`validateSpec` lets through; `LatestGenerationWins` with `Ownership`.

**`PersistenceProofs`**, about `AgentStore` and `BandwidthStore`:

| theorem | statement |
|---|---|
| `LabelsAreKeys` | `Spec => []StoreIsKeyed` |
| `TicketUsedOnce` | `ASSUME ~MaySaveFail PROVE Spec => []SingleUse` |
| `RecordsAreForever` | `ASSUME ~MaySaveFail PROVE Spec => RecordSurvives` |
| `HistoryIsSafe` | `StoreSpec => []StoreSafe` |
| `HistoryIsCountedOnce` | `StoreSpec => []TiersAgree` |

`TicketUsedOnce` and `RecordsAreForever` suppose that `agents.json` can be written, as the run `store` does;
`revocation_lost` shows what a failed write costs, and a ticket whose consumption was not
written admits another key after a restart in the same way. `LabelsAreKeys` supposes nothing of it: both the
memory and the file are keyed (`KeyedInv`), whatever a restart then loads. With the file equal
to the memory (`FileIsMemory`) a restart changes no record, `TicketInv` says of a single-use
ticket that it is consumed once it has let in or enrolled a key, and that there is one such
key; `RacedInv` that a handler that misses a record which is there is known to have raced.

`CleanIsSaved`, a part of `StoreSafe`, is not inductive, for a save replaces rows on disk while samples come
in. `SavedInv` follows the snapshot: below its newest bucket the rows in it are still those of the
ring, as far as the ring has not lapped them, because a point only ever changes the current bucket and the
slot that it laps (`Grows`; two indices less than a ring apart have different slots, `SlotsDiffer`).
What makes the merge into the table right (`UpsertIs`) is that a row on disk which has not been lapped is
of a bucket in memory (`Covers`): no row that the save does not replace can be left over. After a restart
the same holds with nothing marked clean. For the agents, `AgentsInv` says of the rows that there *will*
be, once the save under way has landed, what is wanted of those that there are.

`TiersAgree` compares a bucket with the sum of the buckets below it. `AgreeInv` says of two neighbouring
tiers (`PairOK`) what keeps them in step: the finer one is not behind, what it has completed was handed
up, and a coarse bucket of which it still has every part holds their sum. This has to hold three times: for the
rings in memory, for those that a restart would restore from the rows on disk, and, while a save
is under way, for those that it would restore once the save has landed (`SavedRows`, `Landing`),
as the process may end at any of these points. No ring is ahead of the clock (`NoneAhead`), so a sample
never goes back in a ring; `GivenIs` follows the cascade of `add` up to the tier where it ends. What is
needed of sums, of a group of buckets that grows by one, is lapped or is restored under other places, are lemmas
of `SumProofs`. The finest tier starts again empty where it is not saved, so the pair above it is claimed of the
first run of the process only, as the property does. Assumed:
`LadderAssumption`, that the clock's bound is after its start, and that the placeholder is
neither a bucket nor a history.

**`DataPlaneProofs`**, about `DataPlane`:

| theorem | statement |
|---|---|
| `CountsExact` | `Spec => []CountsAreExact` |
| `LegsStaySafe` | `Spec => []LegsSafe` |
| `EvictionsAreIsolated` | `Spec => EvictionIsolated` |
| `HandoffRefines` | `Spec => HandoffSpec` |

That the gate counts exactly whom it let in needs the set of those to be finite (`CountInv`):
the players that have started are, though there may be infinitely many to come. `LoopsInv`
orders an eviction: the accept loop has exited before the legs are closed, a player that is
accepted is held by the loop of its session, and a stopped actor has no loop. `LegInv` is the
heart: for each leg what its acceptor has done with it (`AcceptorOf`: an open leg handed over is
in the hands of the player it names), and for each player what its goroutine
knows of its slot (`WaiterOf`: a slot holds one leg at most, which named this player, and is
settled once the goroutine has stopped waiting). So the two sides of the race between `deliver` and the
timeout agree on who closes the leg. For the refinement, `Owner` is said without the players'
goroutines (`Owns`), and every action either moves one leg as `LegHandoff` allows, or none.

**`ConfigProofs`**, about `ConfigSync` and `Console`:

| theorem | statement |
|---|---|
| `SettledAgree` | `SyncSpec => []AllAgree` |
| `ConsoleStaysSafe` | `Spec => []ConsoleSafe` |

`AllAgree` speaks of a system at rest, so the invariant has to say what the messages that are
still under way will bring about. `OrderInv` puts the sessions in order: all before the one that
is up are over (`Sequenced`), the session in the actor's map is the one admitted that is not down
(`LiveIsAdmitted`), nothing is pushed before a handler has read the record (`NothingEarly`) or before
there is a generation (`Unseeded`). `SessionInv` is about the session that is up. While it
connects, what its agent has reported is what the agent runs, unless an edit is
under way (`ConnectingOf`). Once it serves, the *last* push under way is of the stored set and
generation, whatever the ones before it are; with none under way the reader or the agent
itself is at that generation, and the acks still to be read take the session to it (`AcksReach`);
and what listens is bound by what is stored, or about to be (`ServingOf`). Nothing is claimed once a
handler or a reader of an old session has changed something beside its successor (`stray`), as
nothing in the code prevents that. The step of another session is harmless because it belongs to
one that is over, whose handler is not the live one.

Two of the parts of `ConsoleSafe` are kept by any render (`RenderKeeps`): the screen is one that the role
has, and the code on display is of the kind that the toggle asks for. The second needs `CodeInv`: a code
still asked for was asked for by the step on display, in its kind. That an engine runs in the role of
the configuration it was started from needs `EngineInv`: a configuration in memory that
validates is the one in the file, and an app that is attached, or has not begun, has no engine. The
switch of roles takes several calls, and between them the engine may run in the old role: what
it will save has been read (`SwitcherHasRead`), and nothing is asked of the app before the window is
mounted (`ShellInv`). Assumed: `ConsoleAssumption`, by which the placeholder is neither a pairing code
nor a target of the switch.

**`RoutinesProofs`**, about `Admission`, `AgentLink` and `WriteQueue`:

| theorem | statement |
|---|---|
| `TypeCorrect` | `Spec => []TypeOK` |
| `OpenOnlyWhileLive` | `Spec => []OpenIsLive` |
| `StaleOnlyByRace` | `Spec => []StaleGrantOnlyByRace` |
| `LadderNeverRunsOut` | `LinkSpec => []LinkSafe` |
| `QueueStaysSafe` | `QueueSpec => []QueueSafe` |

`MapInv` says what the actor's map knows of a handler: who is in it is of that agent, has been
admitted, has not left and was not evicted (`MapNamesLive`); who was evicted had been admitted
(`EvictedWereAdmitted`); after the shutdown nobody is in it. `GrantInv` adds the
handler between its two critical sections: it holds the scope of the record, or a change has
marked it (`HandlerHoldsRecord`), so that the mark is there when it enters the map.

The last rung is never cooled because a walk in the mode auto has it ahead or under its feet
and never among those that failed (`WalkHasLast`); this uses that the ladder is walked in its order. The
queue is seen as one line, `Line`: what has run, the batch in the writer's hands, and the channel.
In it nothing is twice (`OnceEach`), the writes of a goroutine are in their order
(`Ordered`), and a barrier stands behind all that it covers (`Behind`); what was accepted
and is not in it is what `dropped` counts (`Counted`). The writer only moves the places where the line
is cut, and a caller appends to it or takes out its first waiting write. `Locked` says that one caller
has `qmu` and that only that one has a barrier in its hands; `BarrierPlaces` where a barrier is. Assumed:
`LinkAssumption`, `QueueAssumption`, and `NamesAssumption`, that a barrier is no write.

**`WindowProofs`** and **`FigureProofs`**, about the modules from `PolledViews` on:

| theorem | statement |
|---|---|
| `PollTypeCorrect` | `PollSpec => []PollTypeOK` |
| `NoStaleListener` | `PollSpec => []AliveIsAsked` |
| `ShownWasAsked` | `PollSpec => []ShownIsAsked` |
| `PollStaysSafe` | `MCSpec => []PollSafe` |
| `TailStaysSafe` | `MCSpec => []TailSafe` |
| `FormsStaySafe` | `MCSpec => []FormsSafe` |
| `ControlsStaySafe` | `MCSpec => []ControlsSafe` |
| `FiguresStaySafe` | `MCSpec => []FiguresSafe` |
| `StepsAreKept` | `MCSpec => StepsKeep` |

The parts of the window share no variable, so a step of one leaves the others' alone
(`PartSteps`), and each part has an invariant of its own.

*Polled screens.* `ShownIsAsked`, that a view shows the answer to the question it
asks now, is not inductive: an answer that arrives is shown without a second look at the
question. It is kept because the effect of a changed question cleans up the old one first
(`Forget`), so that every fetch still listened to was made for the present question
(`AliveIsAsked`). `PollInv` joins the two with the type invariant and with what makes the
question of an open dossier well defined. The steps of hooks, of users and of the screen
meet in one lemma about `Rekey`, the effect of a question that changes. That a page exists
needs that what is shown is the answer for the filter of now, and that no answer, shown,
cached or under way, has more rows than there are (`AnswersExist`): a pager looks at the
answer, not at the rows.

*Events.* That nothing is skipped needs more than it says (`NoGap`): a list that is not full has
all that is retained up to its newest event; the cursor and the beginning of each pull are at
an event of the list; and a pull got all that is retained between its beginning and its newest
event. So an answer that is late, or begins before others, leaves no hole. It stays
true as the ring moves on because what is raised later has a greater number than all that was
read (`NothingLater`), which a restart of the gateway ends. `Since`, the loop over the ring, is a
recursive function; that it has a result, and gets what is later and nothing
else, is proved from the least round at which it would not (`SinceRounds`, `SinceIs`).

*Forms.* While no two calls overlapped and nothing was touched under a call (`~raced`), a
screen knows what its answers will say: the settings (`SettingsAlone`), the list of tunnels
(`TunnelsAlone`). A screen that was left has nothing on it, and the calls it made find nobody
when they answer (`AwayIsBlank`).

*Roster.* What is still listened to is not older than the last write that was heard of
(`AliveIsFresh`), as the key changes when a write is answered; and a write carries the roster
that its click saw (`WritesCarry`), which is what makes the next key start with it. An
attempt to prove `OnlyOverlapBlanks` found its first form too strong: it said that the
write that blanks the roster was clicked under an *older* key, but keys are counted from
the visit on, so a write that outlives its visit may have a larger one. TLC finds that with three
writes under way, one more than the run has; the property now says a *different* key.

*What floats.* An exit that plays while a palette or an editor is open was told to it, or
was playing when it opened (`PaletteTold`, `EditorTold`); an editor that opened with nothing under way
has made the only call there is (`CallIsOwn`); and a call that nothing overlapped takes away
only what was clicked twice (`CallsDelete`). *Backdrop and map.* A verdict that waits is that of
the snapshot on screen, and has not waited longer than the snapshot has been like this
(`WaitsItsTurn`); what the next answer of the map is compared with is the one on screen
(`GeoInv`). That Enter finds something needs `PlaceInv`: an offer that was not shifted under the
palette has a command where the highlight is.

*Status.* What the backdrop shows is the verdict of the snapshot on screen, or another one waits, as
long as the snapshot has been like this (`VerdictInv`): that is why the two agree once it has
lasted. The pill has looked since the snapshots went quiet or will soon (`SilenceInv`), and
a cascade on a live link burns since the link rose (`CascadeInv`). *Rubber bands.* `HoldInv`: a band
without an idle timer is held, is no fling's, and is the finger's; so the lifting that lets it
go finds it, and no frame in between lets go of it. *Wire.* No end has read
what the other has not written (`WireInv`). *Small machines.* A click that is still to come after
a drag is one to be dropped (`SegInv`); while nothing landed under a read of the system, what was
read is what there is (`SysInv`); the others are inductive as they stand.

The invariants of the figures, and that they imply what `FiguresSafe` says of them, are in `FigureProofs`;
`FiguresStaySafe` puts them together with those of what floats and of the map.

*Traffic.* A rate never exceeds what its host moved. A number is given to a connection once and is in one
place: in the registry, on its way out of it, or in the record of its host (`NumberedInv`). What an
ended connection moved is settled then, so there is a ledger, the function `fin` of `LedgerInv`, of which
every record and every sum on the screen is a part. An answer may be old but is never ahead
(`BehindInv`), and neither is the sample that the next rate is measured against (`RatesInv`). Both say so of a
host as a whole *and* of what is left of it beside a row (`Aside`): only so does a connection that moves from the
row to the record leave both in order. That rows add up to keys is a sum by groups (`SumByGroups`).

*Charts.* Buckets start at multiples of their width, in order, so between two of them there is room for
those that lie between (`Spaced`). All else is a property of the functions, for each history: the strip of
uptime and the lines of a gauge are folds, followed bucket by bucket (`RunsOf` and `LinesTo` say what they
hold after the first n, `RunsGrow` and `LinesGrow` that one more keeps it); candles are cut into
groups of k (`Groups`), their totals summed by group; the tick step is the least that fits; and the slot under the cursor is
found by the division that `DivIs` bounds. Where the history has gaps,
the cursor over candles may read another slot's bytes, so the property speaks of histories without. *Scales.* Both are a least element of a finite set of steps, and the value is
within it because powers up to `Digits` reach far enough (`DigitsAssumption`).

*Uptime, loss and replay.* `BandsInv` ties the band to its interval: the right edge is the last firing, rounded
down; transitions are in order and past; the answer on screen told what was so then, as far as its cap lets it. A line of packet loss has a
stroke for each run of known points, a fold again. The playhead is never past what was seen, nor a
bucket before all of it (`CursorInv`); this is kept when an answer changes the buckets under
it because a series only grows, and its bucket width with it.

*Sums and folds.* The library's induction theorems take an operator, which the provers cannot instantiate.
`SumProofs` states what is needed with the *set* of what a lemma holds of: if it were not all, it would lack a least
number (`ByNumbers`) or a smallest set (`BySubsets`). From these come, once for all modules, that the folds of the
community modules have a result whatever order `CHOOSE` takes (`SumRounds`, `FoldRounds`), and that sums split, add up by groups, are
unchanged by renaming and bounded.

Assumed: `TailAssumption`, `ViewsAssumption` and `KeysAssumption` (a filter for "everything", natural bounds, a
person is no query, and the placeholder neither), `FormsAssumption`, `RosterAssumption`,
`NobodyAssumption`, `OverlaysAssumption`, `ShutAssumption`, `StatusAssumption`,
`UnreadAssumption`, `BandAssumption`, `IdleAssumption`, `WidgetsAssumption`, `TrafficAssumption`,
`ChartsAssumption`, `PlotsAssumption`, `DigitsAssumption` and `ReplayAssumption`: sets that are not empty, natural bounds, commands of which the palette
finds some and its empty query all, placeholders that are nothing else, tick steps that are not
zero, exponents enough for the largest value that a scale is made for, and a clock that is not out before
the first window and interval are over.

Every state invariant and every action property of a passing run is a theorem. Only model-checked: all
liveness, for the prover has neither fairness nor ENABLED (`CommandsEnd`, `LinkLives`, `QueueEnds`,
`WaiterResolves`, `DrainsEnd`, `HandlersEnd`, `Settles`, `LinkOpensConsole`, `Converges`); and what the two runs
refute. `PenaltyBounded` and `AliveIsAsked` are only proved.

## Disagreements with the code's own words

Two have a run that TLC refutes.

* `revocation_lost`: "every mutation persists the whole (small) store atomically
  before returning" (`agentstore.go:9`). A failed write is not reported.
* `console_ticket`: "a tkt_ ticket enrolls a per-agent identity (the default)"
  (`app/app.go:551`). `SetupAgent` moves such a code into `EnrollTicket` and leaves
  `Token` empty, and a configuration of an agent without a token does not validate
  (`config.go:353`): pairing with the default code ends in an error, after the engine was
  stopped and the role changed in memory.

Without a run of their own, but met on the way and contained in the models.

*Gateway and agent.* "A sustained contest backs off exponentially to a cap"
(`actor.go:345`): a penalty as long as the flap window makes the next supersede isolated,
which resets it, so the sequence is 0, 1 s, 2 s, 0, and the cap of 30 s is never reached
(`PenaltyNeverExceedsWindow`). "With no live session it only swaps the config; the next
session registers the new set anyway" (`hotapply.go:14`): with gateway-config the next
hello differs, and the gateway pushes the stored set over the edit. "The limiter
set is the live cap" (`actor.go:573`), but a cap changed by one sync and changed back
by the next stays changed, because a kept listener's `spec` is never updated
(`LimiterStaleOnlyAtBoundCap`); "revocation takes effect at once" (`gateway.go:285`), but
a handler that has read its record and is not yet in the map is missed
(`StaleGrantOnlyByRace`); closing the session "is itself the whole drain boundary"
(`actor.go:145`), but a QUIC session can be evicted before it is published, and is
then served on (`HandlersEnd` excepts it); a transport is parked when the session
that outdid it ends, not when it failed, so after a long session the first reconnect
skips it (`agent.go:430`); the `stray` steps above (`gateway.go:1444`, `hotapply.go:97`); a sync
that exchanges the ports of two tunnels moves the first one to a third port
(`actor.go:567`); a leg taken just before a drain outlives its session
(`dataplane.go:64`, one kind of holdout); a failed write leaves a single-use ticket
spent in memory only (`agentstore.go:214`); two overlapping hellos of one new key
make the record twice (`agentstore.go:209`); a revoked agent is told to re-pair with
a fresh code, but its key is judged before its ticket (`gateway.go:831`,
`auth.go:92`).

*What is kept.* A barrier is "closed after that transaction commits" (`db.go:45`), but also
when its batch could not be committed; the send that puts an evicted barrier back blocks
"briefly — acceptable: the writer drains continuously" (`db.go:222`), but for good when the
writer has ended meanwhile. An agent whose history is evicted and made again before the
next save keeps its old rows, where new ones replace them only bucket by bucket
(`stats.go:578`); more agents than histories evict each other at every tick, each new
history recording nothing but its baseline.

*App and window.* `SetupGateway` reports success though the engine did not start
(`app/app.go:205`). The default that the fleet is healthy turns amber with a second agent
(`App.tsx:26`, while the gateway's `session()` is nil with more than one session). A
restart of the gateway starts its sequence of events again, so a cursor hides new events
and a dismissed card stays away, contrary to `Agents.tsx:159`. An edit typed while a save is
under way ends unsaved with its bar hidden, contrary to "stage into a dirty state"
(`Settings.tsx:48`). Two quick toggles of two tunnels lose the first. Saving one field of an
agent wipes what is being typed in the others. "The first reading applies immediately"
(`App.tsx:51`), but the null reading at the mount is the first. A finger's target that is
removed leaves its band held; a wheel on a finger's band lets it time out. A palette or an
editor that opens within 150 or 170 ms of another's closing is closed by the other's timer;
Enter twice in that time runs a command twice. IPv6 clients keep their port in the key that
joins live connections to stored hosts (`Traffic.tsx:307`), so they never join. A map's flash
is stuck when the next answer arrives within 1.4 s without growth (`Analytics.tsx:211`). A
number that is set back to its old value in mid-glide stops where it is
(`NumberTicker.tsx:25`). A page of players whose rows are pruned stays on an empty page.
Where a property would fail for one of these, its statement names the exception.

## What is left out

* Bytes: payloads, taps and encodings. Counts of bytes are small numbers in
  `BandwidthStore`, `Charts`, `Plots` and `Traffic`, and absent elsewhere.
* Cryptography: a hello authenticates the key or agent it names.
* Of the actor: the snapshots for the user interface, which only read. Of the
  store: the shared-token and composite validators. Of the
  gateway server: tunnel sync's reply, backend health, the answer to a player whose
  backend is down. Of the agent: what it does with a gateway that lacks gateway-config,
  the goroutines and data streams of a session, health checks.
* In `DataPlane` the actor handles evictions and shutdown only; its other commands
  are in `GatewayActor`. In `Admission` an eviction is one action; its parts are in
  `DataPlane`. Binds are not in `Admission`: a session that is evicted binds nothing
  (`OwnerIsLive`).
* Of the bandwidth history: the open-high-low-close figures and gauges, the query, the
  eviction of peers, lifetime counters. Of the analytics: the rows that the recorder makes,
  rollups, retention, and all queries but the two that `Replay` reads: their meaning is
  that of SQL.
* Of the window: markup, drawing and formatting, the axes of charts beyond their scale, and
  controls without a state of their own. The generated bindings (`wailsjs/`) repeat the Go
  types, the mock (`devmock.ts`) is invented data; neither has behaviour to model.
* Bandwidth caps (`bwcap/`): arithmetic on the clock. Link quality, logging and the lookup of
  players: parts by themselves, in the plan. Credentials, pairing codes, framing, parsers
  (`link/`, `control/`, `mc/`, `proxyproto/`): pure functions of bytes. Transport adapters,
  ipc, the Windows service, helpers of the platform: what they do is that of a library or of
  the system, and they appear as links, daemons and ports that are there or not.

## Plan

What is worth adding next, in this order:

1. `AgentSession`: `serve`, its reader and acceptor, `handleDataStream` and `dialBackData`,
   with the health sink and its replay against a transition (`health.go`), to the
   gateway's stored states and the answer of `backendDown`. Wanted: every goroutine of a
   session ends, no local connection is left open, the gateway ends up with the last
   state probed.
2. The lookup of players: cache, lookups in flight and limiter. Wanted: one request for one
   name, and none lost. Then link quality: each ping counted once.
3. Proofs: of those two parts, by the same pattern. What is in place now has its safety proved; the lemmas of
   `SumProofs` and the following of a fold round by round serve new ones.

Runs stay within a dozen: a new part joins a run through a `focus`, or takes the place of
a run that it makes redundant.
