SPECIFICATION RoutinesSpec
CONSTANTS
  a1 = a1  a2 = a2  s1 = s1  s2 = s2  s3 = s3  s4 = s4  s5 = s5  s6 = s6
  AgentIDs = {a1}
  Sessions = {s1}
  Tunnels = {t1, t2}
  Ports = {1, 2}
  Ephemeral = {2}
  Forbidden = {}
  Names = {n1}
  Limits = {u, v}
  AgentOf <- OneAgent
  IPOf <- OneAgentIP
  ScopeOf <- OneAgentScope
  Allowlist = {}
  BasePenalty = 1
  FlapWindow = 2
  CapPenalty = 4
  MaxTunnels = 2
  MaxTime = 0
  NoSession = NoSession
  NoListener = NoListener
  Free = Free
  Foreign = Foreign
  quic = quic  perConn = perConn  mux = mux
  transportPreference <- QUICFirst
  TransportAuto = auto
  transportReprobeAfter = 3
  StableAfter = 2
  MaxDelay = 2
  MaxAttempt = 2
  p1 = p1  p2 = p2  p3 = p3
  Producers = {p1, p2, p3}
  Askers = {p3}
  MaxWrites = 2
  WritesOf <- TwoAndOne
  QueueCap = 2
  BatchMax = 2
CHECK_DEADLOCK FALSE
INVARIANTS
  ListenersMatchDesired
  LimiterStaleOnlyAtBoundCap
  LinkSafe
  QueueSafe
PROPERTIES
  ResyncKeepsListener
  CommandsEnd
  LinkLives
  QueueEnds
