\* Switches between two terminals in every mode, in a ring that a framed string fills.
SPECIFICATION TargetFairSpec
CONSTANTS
  SizeOfBuffer = 6
  Modes = {"skip", "trim", "block"}
  Terminals = {0, 1}
  Calls <- MCTerminals
  Values = 1
  Faults = FALSE
PROPERTIES RightTerminal NonBlockingEnds
