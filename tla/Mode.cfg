\* The mode calls and the private functions between reads and erases, with failing
\* transfers, every ECC code and restarts.
SPECIFICATION Spec
CONSTANTS
  d1 = d1
  d2 = d2
  blank = blank
  garbled = garbled
  onfi = onfi
  Blank = blank
  Garbled = garbled
  ParamData = onfi
  NumBlocks = 1
  PagesPerBlock = 2
  Payloads <- MCPayloads1
  EccCodes <- MCAllEccCodes
  Functions <- MCModeFunctions
  PollLimit = 1
  BusFaults = TRUE
  MayOverrun = FALSE
  Restarts = TRUE
INVARIANTS ParamsDone QuietAfterSuccess InitRecovers
