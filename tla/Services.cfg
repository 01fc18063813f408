SPECIFICATION ServicesSpec
CONSTANTS
  w1 = w1
  w2 = w2
  r1 = r1
  r2 = r2
  a = a
  b = b
  p1 = p1
  p2 = p2
  k1 = k1
  k2 = k2
  u = u
  x = "x"
  y = "y"
  Worktrees = {w1, w2}
  Requests = {r1, r2}
  Clients = {a}
  Buffer = 1
  Room = 1
  MaxPosts = 3
  MaxDrops = 1
  Tabs = {a, b}
  Paths = {p1, p2}
  Saves = {k1}
  Cap = 1
  MaxWatchers = 2
  MaxWrites = 2
  Calls = {k1, k2}
  Others = {u}
  MaxCalls = 3
  MaxEdits = 1
  MaxCrashes = 1
  Lines = {x, y}
  MaxGitCalls = 4
  MaxGitEdits = 2
  Servers = {a, b}
  Rows = {w1}
  Held = {p2}
  Asks = {r1, r2}
  Ages = {0, 6, 17}
  Unwanted = {"In review"}
  MaxStarts = 2
  MaxAsks = 2
  Daemons = {1, 2, 3}
  Callers = {a, b}
INVARIANTS BadgesSound WatcherSound NothingLost HooksSound ScriptSound StartsRecover Reachable StartSucceeds RestoresOnNew
PROPERTIES OpensFresh RootsThere ToldInTheEnd
CHECK_DEADLOCK FALSE
