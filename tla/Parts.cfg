SPECIFICATION PartsSpec
CONSTANTS
  k1 = k1
  k2 = k2
  k3 = k3
  ks = ks
  kt = kt
  test1 = test1
  blank = blank
  NoKey = NoKey
  Keys <- MCKeys
  UsableKeys <- MCUsable
  BlankKeys <- MCBlank
  Starts <- Distinct
  Tests <- OneTest
  TestKeys <- JustTested
  SavedKeys <- JustSaved
  MaxSaves = 1
  t1 = t1
  t2 = t2
  Terms <- TwoTerms
  MaxScanned = 2
  ResultLimit = 1
  MaxEntries = 3
  MaxFaults = 2
  m1 = m1
  m2 = m2
  page1 = page1
  Records <- TwoRecords
  Pages <- OnePage
  CloudProfile = CloudProfile
  NoProfile = NoProfile
  MaxHistory = 1
  MaxCrashes = 1
  DeliveryCount = 1
  PayloadCount = 2
  MaxRetries = 2
  MaxFailures = 2
  r1 = r1
  r2 = r2
  Recoveries <- TwoRecoveries
INVARIANTS PartsTypeOK RotationActivates SettingsKept
INVARIANTS StatsSound DistinctiveTermFound MemoryKept
INVARIANTS NoMessageLost SendsBounded
PROPERTY ImplementsOutbox
CHECK_DEADLOCK FALSE
