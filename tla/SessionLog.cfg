SPECIFICATION Spec
CONSTANTS
  Savers = {act, shell}
  Patchers = {loops}
  MaxMsgs = 3
  MaxLines = 3
  MaxFaults = 2
  act = act
  shell = shell
  loops = loops
INVARIANTS
  TypeOK CountWithinFile ConfirmedOnDisk ConfirmedInMemory SequentialLogExact
CHECK_DEADLOCK FALSE
