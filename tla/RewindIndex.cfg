SPECIFICATION Spec
CONSTANTS
  Path = {"a"}
  Tool = {w1}
  MaxMessages = 5
  MaxSubmits = 2
  MaxEdits = 0
  MaxFaults = 1
  w1 = w1
INVARIANT WidgetIndexIsWhereItLanded
CHECK_DEADLOCK FALSE
