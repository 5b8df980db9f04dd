SPECIFICATION PowerSpec
CONSTANTS
  Ups = {u1, u2}
  Downs = {d1}
  Adopting = {u2}
  Pairs = {1, 2}
  MaxPid = 4
  MayDie = {"hub", "notifier", "watcher"}
  WatcherOn = TRUE
  Bounds <- MCBounds
INVARIANTS DownHonest UpsInTurn
PROPERTY FactsKept
CHECK_DEADLOCK FALSE
