SPECIFICATION Spec
CONSTANTS
  a = a
  b = b
  k1 = k1
  k2 = k2
  None = None
  Path = {a}
  Ino = {1, 2, 3}
  Doc = {11, 12, 13, 14}
  Permit = {k1, k2}
  MaxWrites = 8
  MaxEdits = 4
  Calls = {"write", "unlink", "recreate"}
  Faults = {"fail", "lost", "stall"}
  Hazards = {"poison"}
  Binary = {}
SYMMETRY Sym
CHECK_DEADLOCK FALSE
INVARIANTS NothingForgotten DrainedIsSaved BoundIsAlive
PROPERTIES NoReplay PatchOnlyDone
