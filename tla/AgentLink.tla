----------------------------- MODULE AgentLink -----------------------------
(***************************************************************************)
(* How an agent keeps its link to the gateway: agent.go Run, the transport *)
(* ladder of runSessionAuto with its cooldowns, and the backoff between    *)
(* two cycles (link/backoff.go).                                           *)
(*                                                                         *)
(* One goroutine walks the ladder; around it transports become blocked and *)
(* open again, the gateway refuses or drops the agent, the system reports  *)
(* network changes, time passes and the agent may be told to stop. Time    *)
(* runs in whole backoff units: what counts is that every wait takes some, *)
(* that a cooldown outlasts a wait, and which sessions are stable.         *)
(*                                                                         *)
(* A definition named X_Y is not part of the model: it is X with the bug Y *)
(* put in, and some property must fail when it takes the place of X.       *)
(***************************************************************************)
EXTENDS Naturals, Sequences, FiniteSets, SequencesExt

CONSTANTS
  transportPreference,    \* a sequence of transports: the ladder of auto
  TransportAuto,                   \* the configured transport that stands for all
  transportReprobeAfter,  \* how long a transport is cooled
  StableAfter,            \* a cycle that lasted so long resets the backoff
  MaxDelay,               \* the longest wait
  MaxAttempt              \* where the backoff stops counting

Transports == ToSet(transportPreference)

ASSUME LinkAssumption ==
  /\ transportPreference \in Seq(Transports) \ {<<>>} /\ IsInjective(transportPreference)
  /\ TransportAuto \notin Transports
  /\ transportReprobeAfter \in Nat /\ StableAfter \in Nat
  /\ MaxDelay \in Nat \ {0} /\ MaxAttempt \in Nat

VARIABLES
  transport,   \* the configured transport
  runAt,          \* where Run is
  rungs,       \* the places on the ladder that the cycle has still to try
  failed,      \* failedBefore
  err,         \* why the cycle ended
  cooldown,    \* transportCooldown: the time left
  attempt,     \* the backoff's count
  delay,       \* the time left to wait
  age,         \* the time since the cycle started, up to StableAfter
  netChanged,  \* a tick is pending in the channel of netnotify
  blocked,     \* the transports over which an attempt fails
  cancelled    \* the context is cancelled

runVars == <<runAt, rungs, failed, err>>
clocks == <<cooldown, delay, age>>
world == <<netChanged, blocked, cancelled>>
linkVars == <<transport, runVars, attempt, clocks, world>>

LinkTypeOK ==
  /\ transport \in Transports \cup {TransportAuto}
  /\ runAt \in {"starting", "connecting", "serving", "ended", "waiting", "done"}
  /\ rungs \subseteq DOMAIN transportPreference
  /\ runAt \in {"connecting", "serving"} => rungs # {}
  /\ failed \subseteq Transports
  /\ err \in {"none", "down", "fatal"}
  /\ cooldown \in [Transports -> 0..transportReprobeAfter]
  /\ attempt \in 0..MaxAttempt
  /\ delay \in 0..MaxDelay
  /\ age \in 0..StableAfter
  /\ netChanged \in BOOLEAN /\ cancelled \in BOOLEAN
  /\ blocked \subseteq Transports

LinkInit ==
  /\ transport \in Transports \cup {TransportAuto}
  /\ runAt = "starting" /\ rungs = {} /\ failed = {} /\ err = "none"
  /\ cooldown = [t \in Transports |-> 0]
  /\ attempt = 0 /\ delay = 0 /\ age = 0
  /\ netChanged = FALSE /\ cancelled = FALSE
  /\ blocked \in SUBSET Transports

-----------------------------------------------------------------------------
(* A cycle: runSession.                                                    *)

RungsOf(T) == {i \in DOMAIN transportPreference : transportPreference[i] \in T}
Uncooled == RungsOf({t \in Transports : cooldown[t] = 0})
\* The rungs that are not cooled, or all if there is none.
ladderOrder == IF Uncooled = {} THEN RungsOf(Transports) ELSE Uncooled

StartCycle ==
  /\ runAt = "starting"
  /\ runAt' = "connecting"
  /\ rungs' = IF transport = TransportAuto THEN ladderOrder ELSE RungsOf({transport})
  /\ failed' = {} /\ err' = "none"
  /\ age' = 0
  /\ UNCHANGED <<transport, attempt, cooldown, delay, world>>

Rung_LastFirst == Max(rungs)
\* The ladder is walked in the order of preference.
Rung == Min(rungs)
Current == transportPreference[Rung]

\* connectMux or connectQUIC gets past the hello, and the session is served.
Connected ==
  /\ runAt = "connecting" /\ Current \notin blocked
  /\ runAt' = "serving"
  /\ UNCHANGED <<transport, rungs, failed, err, attempt, clocks, world>>

\* The gateway refuses the agent for good: isFatal.
Refused ==
  /\ runAt = "connecting" /\ Current \notin blocked
  /\ runAt' = "ended" /\ err' = "fatal"
  /\ UNCHANGED <<transport, rungs, failed, attempt, clocks, world>>

Rest_None == {}
Rest == rungs \ {Rung}
\* The attempt fails, and the next rung is tried unless the agent is to stop.
ConnectFails ==
  /\ runAt = "connecting" /\ (Current \in blocked \/ cancelled)
  /\ failed' = failed \cup {Current}
  /\ rungs' = Rest
  /\ IF cancelled \/ Rest = {} THEN runAt' = "ended" /\ err' = "down"
     ELSE UNCHANGED <<runAt, err>>
  /\ UNCHANGED <<transport, attempt, clocks, world>>

\* serve returns, for the link is lost or the context cancelled; only now
\* coolTransports parks the rungs that failed before.
SessionEnds ==
  /\ runAt = "serving"
  /\ runAt' = "ended" /\ err' = "down"
  /\ cooldown' = [t \in Transports |->
                    IF transport # TransportAuto THEN cooldown[t]
                    ELSE IF t = Current THEN 0
                    ELSE IF t \in failed THEN transportReprobeAfter
                    ELSE cooldown[t]]
  /\ UNCHANGED <<transport, rungs, failed, attempt, delay, age, world>>

-----------------------------------------------------------------------------
(* Between two cycles: Run.                                                *)

\* Run returns, after its workers.
Return ==
  /\ runAt' = "done"
  /\ rungs' = {} /\ failed' = {}
  /\ UNCHANGED <<transport, err, attempt, clocks, world>>

Waits_Uncapped(n) == 1..2^n
\* Up to a ceiling that doubles, with jitter, so any shorter wait will do.
Waits(n) == {d \in 1..MaxDelay : d <= 2^n}

GiveUp == runAt = "ended" /\ (cancelled \/ err = "fatal") /\ Return

\* ConnectionEnded and LinkNext.
BackOff ==
  LET n == IF age >= StableAfter THEN 0 ELSE attempt IN
  /\ runAt = "ended" /\ ~cancelled /\ err # "fatal"
  /\ runAt' = "waiting"
  /\ rungs' = {} /\ failed' = {}
  /\ attempt' = IF n < MaxAttempt THEN n + 1 ELSE n
  /\ delay' \in Waits(n)
  /\ UNCHANGED <<transport, err, cooldown, age, world>>

TimerFires ==
  /\ runAt = "waiting" /\ delay = 0
  /\ runAt' = "starting"
  /\ UNCHANGED <<transport, rungs, failed, err, attempt, clocks, world>>

\* Reset and clearAllCooldowns.
TickTaken ==
  /\ runAt = "waiting" /\ netChanged
  /\ netChanged' = FALSE
  /\ runAt' = "starting"
  /\ attempt' = 0 /\ delay' = 0
  /\ cooldown' = [t \in Transports |-> 0]
  /\ UNCHANGED <<transport, rungs, failed, err, age, blocked, cancelled>>

StopWaiting == runAt = "waiting" /\ cancelled /\ Return

-----------------------------------------------------------------------------
(* The world.                                                              *)

Weather(B) ==
  /\ B # blocked
  /\ blocked' = B
  /\ UNCHANGED <<transport, runVars, attempt, clocks, netChanged, cancelled>>

\* tick: a notice that is pending already swallows the next.
NetworkChange ==
  /\ ~netChanged
  /\ netChanged' = TRUE
  /\ UNCHANGED <<transport, runVars, attempt, clocks, blocked, cancelled>>

StopAgent ==
  /\ ~cancelled
  /\ cancelled' = TRUE
  /\ UNCHANGED <<transport, runVars, attempt, clocks, netChanged, blocked>>

Less(n) == IF n = 0 THEN 0 ELSE n - 1
CoolingLeft_Forever(n) == n
CoolingLeft(n) == Less(n)
TimePasses ==
  /\ runAt # "done"
  /\ cooldown' = [t \in Transports |-> CoolingLeft(cooldown[t])]
  /\ delay' = Less(delay)
  /\ age' = IF age < StableAfter THEN age + 1 ELSE age
  /\ UNCHANGED <<transport, runVars, attempt, world>>

-----------------------------------------------------------------------------
RunStep ==
  \/ StartCycle \/ Connected \/ Refused \/ ConnectFails
  \/ (cancelled /\ SessionEnds)
  \/ GiveUp \/ BackOff \/ TimerFires \/ TickTaken \/ StopWaiting

LinkNext ==
  \/ RunStep
  \/ SessionEnds
  \/ \E B \in SUBSET Transports : Weather(B)
  \/ NetworkChange \/ StopAgent \/ TimePasses

LinkFairness == WF_linkVars(RunStep) /\ WF_linkVars(TimePasses)

LinkSpec == LinkInit /\ [][LinkNext]_linkVars /\ LinkFairness

-----------------------------------------------------------------------------
(* Properties.                                                             *)

\* "Mux is never cooled": the ladder never runs out of rungs, since the last one
\* has no later rung to be outdone by.
LastRungNeverCooled == cooldown[Last(transportPreference)] = 0

\* The ladder keeps a rung that no failure parks: transportCooldown and
\* ladderOrder of agent.go.
LinkSafe == LinkTypeOK /\ LastRungNeverCooled

\* An agent is not locked out: as long as some transport it may use stays open
\* and nobody stops or refuses it, it is served again and again.
Reconnects ==
  \A t \in Transports :
    (<>[](t \notin blocked) /\ transport \in {t, TransportAuto}) => []<>(runAt \in {"serving", "done"})

\* A blocked transport is not given up: once the preferred one stays open, it
\* carries the agent again, if the agent goes on reconnecting.
PreferredReturns ==
  (transport = TransportAuto /\ <>[](transportPreference[1] \notin blocked) /\ []<>(runAt = "starting"))
    => []<>(runAt = "serving" /\ Current = transportPreference[1])
=============================================================================
