SPECIFICATION Spec
CONSTANTS
  r1 = r1
  r2 = r2
  k1 = k1
  k2 = k2
  k3 = k3
  short = short
  NoKey = NoKey
  Keys <- MCKeys
  UsableKeys <- MCUsable
  BlankKeys <- MCBlank
  ShellEnv <- Shell
  EnvFile <- File
  Runs <- OneRun
  Modes <- Direct
  StepErrors <- AllErrors
  MaxRevisions = 3
  MaxSteps = 1
  LtmReadFails = FALSE
  LtmWriteFails = TRUE
INVARIANTS DirectAnnouncedOnce
CHECK_DEADLOCK FALSE
