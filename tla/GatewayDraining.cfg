SPECIFICATION LiveSpec
CONSTANTS
  a = a
  b = b
  Handshake = Handshake
  Calls <- TwoCalls
  ClientIds <- AmendedClientIds
  MaxDrops = 2
  k1 = k1
  k2 = k2
  k3 = k3
  ks = ks
  kt = kt
  test1 = test1
  blank = blank
  NoKey = NoKey
  Keys <- MCKeys
  UsableKeys <- MCUsable
  BlankKeys <- MCBlank
  Starts <- OneProvider
  Tests <- NoTests
  TestKeys <- JustTested
  SavedKeys <- JustSaved
  MaxSaves = 0
  FileCount = 3
  MaxScanFiles = 2
  main = main
  cron = cron
  Lanes <- TwoLanes
  CommandCount = 2
  MaxConcurrency = 2
  MaxStarts = 2
  w1 = w1
  w2 = w2
  w3 = w3
  gw = gw
  agent = agent
  LockTasks <- TwoTasks
  LockProcs <- JustGateway
  ProcOf <- OfGateway
  Reentrants <- TwoTasks
  NoLock = NoLock
  MaxSweeps = 1
INVARIANTS DrainingEnds
CHECK_DEADLOCK FALSE
