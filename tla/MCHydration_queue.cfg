SPECIFICATION FairSpec
CONSTANTS
  f = f
  g = g
  kf = kf
  kg = kg
  kd = kd
  t1 = t1
  t2 = t2
  NoKey = NoKey
  File = {f, g}
  Key = {kf, kg, kd}
  Covers <- MCCovers
  Permit = {t1, t2}
INVARIANTS OnePlace
PROPERTIES PulledOnce LookupsSucceed
CHECK_DEADLOCK FALSE
