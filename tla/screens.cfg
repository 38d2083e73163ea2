SPECIFICATION MCSpec
CONSTANTS
  Filters = {f1, f2}
  AnyFilter = f1
  People = {p1}
  MaxRows = 2
  MaxMinute = 1
  MaxFlights = 2
  MaxClicks = 3
  Nothing = Nothing
  Conflicts = {c1}
  RingCap = 1
  EventsCap = 2
  MaxEvents = 2
  MaxRuns = 2
  MaxPulls = 2
  Nicknames = {n1, n2}
  AScope = s1
  OtherScope = s2
  MaxVersion = 2
  MaxNonce = 2
  MaxFetches = 1
  MaxWrites = 2
  MaxEdits = 4
  Nobody = Nobody
  Settings = {s1, s2}
  Tunnels = {t1, t2}
  MaxToken = 1
  MaxCalls = 2
  MaxTouches = 6
  None = None
  Machines = {m1, m2}
  Hold = 3
  StaleAfter = 2
  CheckEvery = 2
  CascadeFor = 2
  MaxChanges = 3
  Unread = Unread
  Main = main
  Wells = {w1}
  MaxRaw = 1
  Idle = Idle
  Orphan = Orphan
  MaxInputs = 3
  Width = 2
  Window = 10
  MaxSlot = 4
  MaxRate = 1
  MaxBodies = 2
  TickSteps <- Steps
  MaxTicks = 2
  Rows = {t1, t2}
  Commands <- Ranked
  Leaving = {"go"}
  Hits <- GoHits
  MaxTimers = 2
  MaxPersists = 2
  MaxActs = 6
  Shut = Shut
  Segments = 3
  Seat = 4
  Slop = 2
  Sections = {a1, a2}
  Numbers = {n1, n2, n3}
  Between = Between
  MaxReads = 2
  MaxTries = 2
  Unset = Unset
  V4 = {h1}
  V6 = {h2}
  MinGap = 2
  MaxClients = 2
  MaxBytes = 1
  MaxClock = 2
  Countries = {a1}
  MaxCount = 2
  Freeze = 2
  Span = 3
  SpansCap = 2
  MaxEvent = 3
  Cadence = 1
  PointsCap = 3
  MaxMoment = 8
  Blank = Blank
  Level = 5
  ScaleTop = 40
  Digits = 5
  NoValue = NoValue
CHECK_DEADLOCK FALSE
INVARIANTS
  
  TailSafe
  
  ControlsSafe
  
PROPERTIES
  StepsKeep
  Converges
