SPECIFICATION KeySpec
CONSTANTS
  k1 = k1
  k2 = k2
  k3 = k3
  ks = ks
  kt = kt
  test1 = test1
  blank = blank
  NoKey = NoKey
  Keys <- MCKeys
  UsableKeys <- MCUsable
  BlankKeys <- MCBlank
  Starts <- OpenRouterFiles
  Tests <- OneTest
  TestKeys <- JustTested
  SavedKeys <- JustSaved
  MaxSaves = 0
INVARIANTS KeyTestUsesIt
