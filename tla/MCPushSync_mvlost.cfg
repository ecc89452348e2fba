SPECIFICATION Spec
CONSTANTS
  a = a
  b = b
  k1 = k1
  k2 = k2
  None = None
  Path = {a, b}
  Ino = {1}
  Doc = {11, 12}
  Permit = {k1, k2}
  MaxWrites = 6
  MaxEdits = 3
  Calls = {"write", "rename", "recreate"}
  Faults = {}
  Hazards = {}
  Binary = {}
SYMMETRY Sym
CHECK_DEADLOCK FALSE
INVARIANTS DrainedIsSaved
