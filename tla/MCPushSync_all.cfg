SPECIFICATION Spec
CONSTANTS
  a = a
  b = b
  k1 = k1
  k2 = k2
  None = None
  Path = {a, b}
  Ino = {1, 2}
  Doc = {11, 12}
  Permit = {k1, k2}
  MaxWrites = 6
  MaxEdits = 3
  Calls = {"write", "unlink", "rename", "recreate"}
  Faults = {"fail", "timeout"}
  Hazards = {"crash", "poison", "latefail"}
  Binary = {2}
SYMMETRY Sym
CHECK_DEADLOCK FALSE
INVARIANTS SyncTypeOK OnePushPerPath NewestKept
PROPERTIES QSpec StuckOnlyByCrash
