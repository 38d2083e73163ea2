SPECIFICATION SyncSpec
CONSTANTS
  t1 = t1  t2 = t2
  Tunnels = {t1, t2}
  Fragile = {t2}
  Sets <- BothOrSecond
  Scopes <- BothOrSecond
  MaxSessions = 2
  MaxEvents = 1
CHECK_DEADLOCK FALSE
INVARIANTS
  AllAgree
PROPERTIES
  Settles
