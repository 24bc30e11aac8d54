SPECIFICATION FaultsSpec
CONSTANTS
  r1 = r1
  r2 = r2
  k1 = k1
  k2 = k2
  k3 = k3
  short = short
  NoKey = NoKey
  Keys <- MCKeys
  UsableKeys <- MCUsable
  BlankKeys <- MCBlank
  ShellEnv <- Shell
  EnvFile <- File
  Runs <- BothRuns
  Modes <- AllModes
  StepErrors <- AllErrors
  MaxRevisions = 1
  MaxSteps = 1
  LtmReadFails = TRUE
  LtmWriteFails = TRUE
  w1 = w1
  w2 = w2
  w3 = w3
  gw = gw
  agent = agent
  LockTasks <- ThreeTasks
  LockProcs <- TwoProcs
  ProcOf <- TwoOfGateway
  Reentrants <- Joining
  NoLock = NoLock
  MaxSweeps = 1
INVARIANTS VerdictBudget LockExclusive CountExact
PROPERTIES FailureIsFinal EventuallyReturns ImplementsWriteLock
CHECK_DEADLOCK FALSE
