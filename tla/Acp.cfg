SPECIFICATION Spec
CONSTANTS
  Id = {i1, i2}
  NoId = i0
  Active = {i1}
  MaxLoops = 2
  Req = {1, 2}
INVARIANTS
  OneWorkerPerSession ClosedIsQuiet CallbackFollowsMode TerminalsOwned
CHECK_DEADLOCK FALSE
PROPERTIES
  CancelAnswered StrayToolsEnd
