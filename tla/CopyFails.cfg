\* Programs and copies on a chip whose programs may fail.
SPECIFICATION Spec
CONSTANTS
  d1 = d1
  d2 = d2
  blank = blank
  garbled = garbled
  onfi = onfi
  Blank = blank
  Garbled = garbled
  ParamData = onfi
  NumBlocks = 1
  PagesPerBlock = 2
  Payloads <- MCPayloads1
  EccCodes <- MCEccCodes
  Functions <- MCCopyFunctions
  PollLimit = 2
  BusFaults = FALSE
  MayOverrun = FALSE
  Restarts = FALSE
INVARIANTS
  CopySaidDone
