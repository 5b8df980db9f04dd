SPECIFICATION MCSpec
CONSTANTS
  Calls = {k1, k2}
  Ports = {p1, p2}
  Home = p1
  MaxClients = 2
  MaxHubEvents = 3
  MaxDelays = 2
  None = None
  Tasks = {t1}
  MaxVersion = 2
  MaxRuns = 2
  MaxLog = 1
  MaxSwaps = 1
  MaxActs = 1
  NoTask = NoTask
INVARIANTS DoorSound ScreenTruthful
PROPERTIES CallSettles PanelCatchesUp
CHECK_DEADLOCK FALSE
