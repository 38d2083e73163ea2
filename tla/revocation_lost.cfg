SPECIFICATION Spec
CONSTANTS
  k1 = k1  k2 = k2  k3 = k3  a1 = a1  a2 = a2  c1 = c1  c2 = c2  c3 = c3  c4 = c4
  Keys = {k1}
  LabelOf <- OneKey
  Labels = {a1}
  Tickets = {t1}
  Reusable = {t1}
  Conns = {c1}
  KeyOf <- OneConn
  MaySaveFail = TRUE
  MaxGen = 1
  None = None
PROPERTIES
  RevocationSticks
