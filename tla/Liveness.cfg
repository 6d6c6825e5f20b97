\* Copies, marks and parameter page reads on a chip that may need longer than a wait
\* allows, or never end.
SPECIFICATION DriverFairSpec
CONSTANTS
  d1 = d1
  d2 = d2
  blank = blank
  garbled = garbled
  onfi = onfi
  Blank = blank
  Garbled = garbled
  ParamData = onfi
  NumBlocks = 1
  PagesPerBlock = 2
  Payloads <- MCPayloads1
  EccCodes <- MCNoEccCodes
  Functions <- MCLiveFunctions
  PollLimit = 2
  BusFaults = FALSE
  MayOverrun = TRUE
  Restarts = FALSE
PROPERTIES CallsReturn BoundedCallsReturn
