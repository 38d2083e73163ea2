SPECIFICATION Spec
CONSTANTS
  a1 = a1  a2 = a2  c1 = c1  c2 = c2  c3 = c3
  Conns = {c1, c2, c3}
  AgentIDs = {a1}
  AgentOf <- OneAgent
  QUIC = {c1}
  Grants = {narrow, wide}
  Revoked = Revoked
  Nobody = Nobody
  MaxChanges = 1
CHECK_DEADLOCK FALSE
INVARIANTS
  OpenIsLive
  StaleGrantOnlyByRace
PROPERTIES
  HandlersEnd
