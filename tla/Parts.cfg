\* The MSPI, the down-buffer, the set-up of the buffers, the overwritten up-buffer, the
\* wait by the clock, main and the ONFI printer, one of them at a time.
SPECIFICATION PartsSpec
CONSTANTS
  Functions <- MCFunctions
  PollLimit = 2
  QuadReads = 1
  HalFails = TRUE
  SizeOfBuffer = 3
  Byte = {"a", "b"}
  Messages <- MCMessages
  Sizes = {0, 1, 2}
  Ops = {"Read", "GetKey", "WaitKey", "HasKey", "HasData"}
  Word = 16
  MaxNum <- MCMaxNum
  ByIndex <- MCByIndex
  Flags = {1}
  Letters = {"a", "b"}
  Texts <- MCTexts
  POLL_DELAY_US = 10
  Timeouts = {30, 80}
  Transfers = {4, 6}
  Late = {0, 1}
  Longest = 90
  test_sectors = 3
  Old = {7}
  ByteValues = 4
  MB = 4
  PageLen = 4
  Fields4 <- MCFields4
  Fields1 <- MCFields1
INVARIANTS FramesRight QuadTrue OneOwner KeepsNewest NoEarlyTimeout InTime SuccessIsDurable CapacityTrue
PROPERTIES IsChannel PromiseKept KeyTaken QuadReadEnds
