SPECIFICATION ProcessesSpec
CONSTANTS
  s1 = s1
  s2 = s2
  p1 = p1
  p2 = p2
  p3 = p3
  None = None
  Steps <- TwoSteps
  Procs <- ThreeProcs
  RamLevels <- Thresholds
  MaxRounds = 2
  MaxCrashes = 1
  plugin = plugin
  Plugins <- OnePlugin
  Interpreters <- JustNode
  MaxRequests = 5
  Shadow = 0
  GhostCount = 2
  MaxToggles = 4
  MaxTroubles = 1
  main = main
  Lanes <- OneLane
  CommandCount = 3
  MaxConcurrency = 2
  MaxStarts = 3
INVARIANTS ProcessesTypeOK PressureSafe NoOrphans PageReady PluginsTracked
INVARIANTS GhostsControlled ServesProperly RestartLoses
PROPERTY LaneDiscipline
SYMMETRY Symmetric
CHECK_DEADLOCK FALSE
