SPECIFICATION Spec
CONSTANTS
  None = None
  Path = {a, b}
  File = {1, 2}
  Doc = {11}
  Puller = {}
  PageSize = 1
  MaxEdits = 2
  Edits = {"write", "post", "patch", "delete"}
  Hazards = {"scan"}
CHECK_DEADLOCK FALSE
PROPERTIES ScanSpares
