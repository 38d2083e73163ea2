SPECIFICATION Spec
CONSTANTS
  a1 = a1  a2 = a2  s1 = s1  s2 = s2  s3 = s3  s4 = s4  s5 = s5  s6 = s6
  AgentIDs = {a1}
  Sessions = {s1, s2, s3, s4, s5}
  Tunnels = {t1}
  Ports = {1}
  Ephemeral = {1}
  Forbidden = {}
  Names = {}
  Limits = {u}
  AgentOf <- OneAgent
  IPOf <- OneAgentIP
  ScopeOf <- OneAgentScope
  Allowlist = {}
  BasePenalty = 1
  FlapWindow = 2
  CapPenalty = 4
  MaxTunnels = 1
  MaxTime = 5
  NoSession = NoSession
  NoListener = NoListener
  Free = Free
  Foreign = Foreign
SYMMETRY SameAddress
INVARIANTS
  LatestGenerationWins
PROPERTIES
  IsolatedReconnectAdmitted
