SPECIFICATION Spec
CONSTANTS
  Savers = {act}
  Patchers = {}
  MaxMsgs = 2
  MaxLines = 2
  MaxFaults = 1
  act = act
INVARIANT WrittenOnce
CHECK_DEADLOCK FALSE
