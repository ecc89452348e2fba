SPECIFICATION FairSpec
CONSTANTS
  a = a
  b = b
  k1 = k1
  k2 = k2
  None = None
  Path = {a}
  Ino = {1, 2, 3}
  Doc = {11, 12, 13, 14, 15, 16}
  Permit = {k1, k2}
  MaxWrites = 12
  MaxEdits = 6
  Calls = {"write", "unlink"}
  Faults = {"fail"}
  Hazards = {}
  Binary = {}
CHECK_DEADLOCK FALSE
INVARIANTS RemovedIsGone
PROPERTIES Converges QueueDrains
