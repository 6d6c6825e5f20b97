\* Dhara's writes, reads and bad block checks in any order, with failing transfers,
\* failing programs and erases, ECC errors, resets and power cuts.
SPECIFICATION AdaptorSpec
CONSTANTS
  d1 = d1
  d2 = d2
  blank = blank
  garbled = garbled
  onfi = onfi
  Blank = blank
  Garbled = garbled
  ParamData = onfi
  NumBlocks = 1
  PagesPerBlock = 2
  Payloads <- MCPayloads1
  EccCodes <- MCEccCodes
  Functions <- Everything
  PollLimit = 1
  BusFaults = TRUE
  MayOverrun = FALSE
  Restarts = TRUE
INVARIANTS ReadyForNext WritesHold ReadsHold SpoilsOneCall GoodIsUnmarked
