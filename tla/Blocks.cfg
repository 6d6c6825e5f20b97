\* Erases, marks, checks and scans of two blocks, with failing transfers, failing
\* programs and erases and ECC errors.
SPECIFICATION ScanSpec
CONSTANTS
  d1 = d1
  d2 = d2
  blank = blank
  garbled = garbled
  onfi = onfi
  Blank = blank
  Garbled = garbled
  ParamData = onfi
  NumBlocks = 2
  PagesPerBlock = 2
  Payloads <- MCPayloads1
  EccCodes <- MCEccCodes
  Functions <- MCBlockCalls
  PollLimit = 1
  BusFaults = TRUE
  MayOverrun = FALSE
  Restarts = FALSE
INVARIANTS EraseDone AnswersTrue MarkDone
PROPERTIES OutsideUntouched AllPrinted
