SPECIFICATION Spec
CONSTANTS
  Id = {i1}
  NoId = i0
  Active = {i1}
  MaxLoops = 1
  Req = {1, 2}
INVARIANTS
  CancelIsFinal
CHECK_DEADLOCK FALSE
