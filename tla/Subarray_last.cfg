CONSTANTS
  VLA_ANTENNA_COUNT = 4
  DatasetId = {A, B, C}
  NoId = NoId
SYMMETRY Symmetry
SPECIFICATION Spec
INVARIANTS ConflictsRemoved
CHECK_DEADLOCK FALSE
