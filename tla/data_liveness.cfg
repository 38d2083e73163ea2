SPECIFICATION Spec
CONSTANTS
  a1 = a1  a2 = a2  s1 = s1  s2 = s2  c1 = c1  c2 = c2  l1 = l1  l2 = l2  i1 = i1
  Clients = {c1, c2}
  Sessions = {s1}
  Legs = {l1}
  AgentIDs = {a1, a2}
  AgentOf <- OneSession
  LegAgent <- OneLeg
  IPs = {i1}
  IPOf <- OneIP
  Modes = {{}, {s1}}
  MaxGlobal = 2
  MaxPerIP = 1
  Stuck = {c2}
  None = None
CHECK_DEADLOCK FALSE
PROPERTIES
  WaiterResolves
  DrainsEnd
