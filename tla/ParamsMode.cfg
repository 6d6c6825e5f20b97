\* Parameter page reads on a chip that may take longer than its times.
SPECIFICATION Spec
CONSTANTS
  d1 = d1
  d2 = d2
  blank = blank
  garbled = garbled
  onfi = onfi
  Blank = blank
  Garbled = garbled
  ParamData = onfi
  NumBlocks = 1
  PagesPerBlock = 2
  Payloads <- MCPayloads1
  EccCodes <- MCEccCodes
  Functions <- MCParamsFunctions
  PollLimit = 2
  BusFaults = FALSE
  MayOverrun = TRUE
  Restarts = FALSE
INVARIANTS
  ParamsModeLeft
