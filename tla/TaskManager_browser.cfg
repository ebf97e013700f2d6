SPECIFICATION FairSpec
CONSTANTS
  r1 = r1  b1 = b1
  Readers = {r1}
  Clients = {b1}
  None = None
  Http = Http
  Canceller = Canceller
  MaxTasks = 2
  MaxEvents = 1
INVARIANT TasksApart
PROPERTY BrowserFollows
CHECK_DEADLOCK FALSE
