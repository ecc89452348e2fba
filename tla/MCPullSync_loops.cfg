SPECIFICATION FairSpec
CONSTANTS
  None = None
  Path = {a}
  File = {1, 2}
  Doc = {11}
  Puller = {p1}
  PageSize = 1
  MaxEdits = 2
  Edits = {"write", "post", "patch", "move", "delete"}
  Hazards = {"scan", "poller"}
CHECK_DEADLOCK FALSE
PROPERTIES LocalWins GoneIsUnbound
