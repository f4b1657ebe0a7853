SPECIFICATION Spec
CONSTANTS
  Path = {"a"}
  Tool = {w1, w2}
  MaxMessages = 4
  MaxSubmits = 2
  MaxEdits = 2
  MaxFaults = 1
  w1 = w1
  w2 = w2
SYMMETRY ToolSymmetry
INVARIANTS
  CheckpointsAtTheirMessages EditsUndoable WidgetRestoresItsOwn
CHECK_DEADLOCK FALSE
