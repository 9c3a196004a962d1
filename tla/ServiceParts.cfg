CONSTANTS
  MaxSeries = 5
  Fails = TRUE
  root = root
  home = home
  Fstab <- MCFstab
  Nothing = Nothing
  FreeLevels = {0, 2, 3}
  LowFree = 2
  MinPeriod = 1
  Name = {n1, n2, n3}
  Sizes = {1, 3}
  MaxDays = 2
  Limit <- MCLimit
  Megabyte = 2
  Width = 16
  Lease = 4
  Renew = 3
  Test = 2
  MaxIds = 3
  MaxTimers = 2
  Scenarios <- MCScenarios
  Player = {p1, p2, p3}
  Nobody = Nobody
  MaxWaiting = 2
  ProxyFails = TRUE
  Application = {x, y}
  Client = {c1, c2}
  NoOne = NoOne
  Wrap = 100
  MaxWatches = 4
  MaxNews = 2
  Shares = FALSE
  App = {a, b}
  Target = {text, image}
  Long = {image}
  Manager = Manager
  MaxTime = 2
  MaxEvents = 4
  Refusing = {}
  Overlaps = FALSE
SPECIFICATION AllSpec
INVARIANTS PartsTypeOK KnowsCard RemovalsPaired StaysSubscribed
INVARIANTS MediaKeysArrive ClipboardKept
PROPERTIES HousekeepingKeeps
\* A worker may have ended, clients have left, and the bounds be used up.
CHECK_DEADLOCK FALSE
