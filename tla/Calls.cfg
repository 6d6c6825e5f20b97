\* Erases, programs, copies, marks and reads in any order, with failing transfers,
\* failing programs and erases and ECC errors.
SPECIFICATION Spec
CONSTANTS
  d1 = d1
  d2 = d2
  blank = blank
  garbled = garbled
  onfi = onfi
  Blank = blank
  Garbled = garbled
  ParamData = onfi
  NumBlocks = 1
  PagesPerBlock = 2
  Payloads <- MCPayloads1
  EccCodes <- MCEccCodes
  Functions <- MCCalls
  PollLimit = 1
  BusFaults = TRUE
  MayOverrun = FALSE
  Restarts = FALSE
INVARIANTS TypeOK ProgramDone ReadTrue CopyDone
PROPERTIES MarkedOnPurpose
