SPECIFICATION Spec
CONSTANTS
  Path <- MCSmall
  Doc = {k1, k2, k3}
  Line = {l1}
  Blurb = l0
  Slot = {s1, s2, s3}
  None = None
  MaxCalls = 2
  MaxEvents = 1
  DirPath <- MCDirPath
  Hazards = {"others", "partial"}
SYMMETRY Symmetry
CHECK_DEADLOCK FALSE
INVARIANTS FindPathAgrees ActsOnItsPath SelfReads TreeShape
PROPERTIES MovedWhole
