SPECIFICATION FairSpec
CONSTANTS
  None = None
  Path = {a, b}
  File = {1, 2}
  Doc = {11, 12}
  Puller = {}
  PageSize = 1
  MaxEdits = 2
  Edits = {"write", "post", "patch", "move", "delete"}
  Hazards = {}
CHECK_DEADLOCK FALSE
INVARIANTS PullTypeOK MirroredIsShown WatermarkSound
PROPERTIES Converges
