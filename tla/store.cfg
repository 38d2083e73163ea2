SPECIFICATION KeptSpec
CONSTANTS
  k1 = k1  k2 = k2  k3 = k3  a1 = a1  a2 = a2  c1 = c1  c2 = c2  c3 = c3  c4 = c4
  Keys = {k1, k2, k3}
  LabelOf <- Colliding
  Labels = {a1, a2}
  Tickets = {t1, t2}
  Reusable = {t2}
  Conns = {c1, c2, c3, c4}
  KeyOf <- TwoOfFirst
  MaySaveFail = FALSE
  MaxGen = 1
  None = None
  Res <- Doubling
  Slots <- ShortRings
  Persisted = {2, 3}
  h1 = h1  h2 = h2  h3 = h3
  Agents = {h1, h2, h3}
  MaxAgents = 2
  MaxGap = 3
  MaxTime = 13
  Few = 7
  MaxCrashes = 1
  Nothing = Nothing
SYMMETRY Alike
INVARIANTS
  StoreIsKeyed
  SingleUse
  
  
PROPERTIES
  RecordSurvives
