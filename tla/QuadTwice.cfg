\* Quad reads one after the other.
SPECIFICATION MspiSpec
CONSTANTS
  Functions = {"init", "read_quadio"}
  PollLimit = 2
  QuadReads = 2
  HalFails = FALSE
INVARIANTS QuadAlwaysTrue
