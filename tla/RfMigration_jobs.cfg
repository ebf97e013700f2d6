SPECIFICATION MCSpec
CONSTANTS
  d1 = d1  d2 = d2  n1 = n1  n2 = n2  e1 = e1  g1 = g1  c1 = c1  c2 = c2  c3 = c3
  Devs = {d1, d2}
  Nets = {n1, n2}
  EthNets = {e1}
  Groups = {g1}
  Configs = {c1, c2, c3}
  None = None
  Primary = n1
  Targets <- MCTargets
  MaxOps = 1
  MaxJobs = 1
INVARIANT RecordsLead
PROPERTIES JobsTellTheTruth RecordsSettle
CHECK_DEADLOCK FALSE
