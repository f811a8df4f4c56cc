SPECIFICATION Spec
CONSTANTS
  Models = {m1}
  Keys = {trainer, auditor}
  NoAnchor = NoAnchor
  Operators = {o1, o2}
  MaxEntries = 5
SYMMETRY MCSymmetry
INVARIANTS StatusReplays AnchorsFormPath ApprovedIsComplete
PROPERTIES TerminalStands
CHECK_DEADLOCK FALSE
