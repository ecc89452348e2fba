SPECIFICATION Spec
CONSTANTS
  Name = {a, b, sa, sb}
  Sibling <- SiblingNames
  a = a
  b = b
  sa = sa
  sb = sb
  MaxIno = 4
  MaxLinks = 2
  CacheMax = 2
  Caller = {c1}
  Puller = {p1}
  Hazards = {}
SYMMETRY Swap
INVARIANTS SameAnswers TreeSound
PROPERTIES BehavesLikeMem SiblingsFollow
CHECK_DEADLOCK FALSE
