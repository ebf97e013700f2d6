SPECIFICATION MCSpec
CONSTANTS
  n0 = n0  n1 = n1  n2 = n2  n3 = n3  n4 = n4  m0 = m0  A = A  B = B  Gone = Gone  r1 = r1  r2 = r2
  Nodes = {n0, n1, n2, n3, n4}
  Groups = {0, 1, 2, 3, 4, 5}
  Nets = {A, B}
  GroupOf <- MCGroupOf
  NetworkOf <- MCNetworkOf
  Ghost = Ghost
  None = None
  Normal = Normal
  OffsetMax = 5
  MaxActions = 3
  MaxChildren = 2
  MaxEntries = 3
  Runs = {r1, r2}
  Scenes <- MCScenes
  MaxRuns = 2
  MaxEvents = 1
INVARIANTS ScopeIsOwn ContainerSelects ResultsAreTrue
SYMMETRY Symmetry
CHECK_DEADLOCK FALSE
