SPECIFICATION Spec
CONSTANTS
  a1 = a1  a2 = a2  s1 = s1  s2 = s2  s3 = s3  s4 = s4  s5 = s5  s6 = s6
  AgentIDs = {a1, a2}
  Sessions = {s1, s2, s3}
  Tunnels = {t1}
  Ports = {1, 2, 3}
  Ephemeral = {3}
  Forbidden = {}
  Names = {n1}
  Limits = {u}
  AgentOf <- TwoAgents
  IPOf <- TwoAgentsIP
  ScopeOf <- TwoAgentsScope
  Allowlist = {}
  BasePenalty = 1
  FlapWindow = 2
  CapPenalty = 4
  MaxTunnels = 1
  MaxTime = 0
  NoSession = NoSession
  NoListener = NoListener
  Free = Free
  Foreign = Foreign
INVARIANTS
  TypeOK
  OwnerIsLive
  SocketsMatchListeners
  PolicyRespected
PROPERTIES
  LeaseSpec
