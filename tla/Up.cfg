\* Strings and characters in every mode, while a probe reads and a hard fault may strike.
\* After the fault the target stops.
SPECIFICATION TargetFairSpec
CONSTANTS
  SizeOfBuffer = 4
  Modes = {"skip", "trim", "block", "other"}
  Terminals = {0}
  Calls <- MCStrings
  Values = 3
  Faults = TRUE
CHECK_DEADLOCK FALSE
INVARIANTS ReturnTrue IdLast
PROPERTIES IsChannel WholeStrings WritesEnd
