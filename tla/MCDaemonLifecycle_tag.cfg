SPECIFICATION FairSpec
CONSTANTS
  Daemon = {d1, d2}
  Command = {c1, c2, c3}
  None = None
  Hazards = {"kill", "nobind", "busy"}
CHECK_DEADLOCK FALSE
INVARIANTS OneOwner WaitingIsReachable NothingLeft
PROPERTIES UnmountedIsGone MountedIsLive CommandsEnd
