SPECIFICATION FairSpec
CONSTANTS
  n1 = n1  n2 = n2  n3 = n3
  Nodes = {n1, n2, n3}
  None = None
  Predictable = {n1}
  Locked = {n1}
  Options <- MCOptions
  ApTries = 2
  Retries = 2
  MaxFaults = 1
INVARIANTS ReportIsTrue CleansUp
PROPERTIES RightNode TaskEnds
CHECK_DEADLOCK FALSE
