SPECIFICATION MCSpec
CONSTANTS
  g1 = g1  g2 = g2  n1 = n1  n2 = n2  n3 = n3  c1 = c1  c2 = c2
  Gateways = {g1, g2}
  Nets = {n1, n2, n3}
  Configs = {c1, c2}
  Channel <- MCChannel
  Start <- MCStart
  None = None
  Task = Task
  MaxOps = 2
INVARIANT RecordsAreTrue
PROPERTIES NetworksStayApart LockIsFreed
CHECK_DEADLOCK FALSE
