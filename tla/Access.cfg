SPECIFICATION AccessSpec
CONSTANTS
  Screens = {tui, top}
  NoScreen = NoScreen
  Runs = 2
  SshCallers = {"uart", "ssh"}
  Caller <- BothCallers
  AuthTries = 2
  AuthPolls = 4
  DeniedPolls = 1
  Keys = 2
  Chunks = 2
  IdleMax = 2
  Uploads = 3
  Rollbacks = 2
  Cuts = 2
INVARIANTS  FrontIsPainted HostKeyKept BadGivesWay BrokenUploadChangesNothing
PROPERTIES NobodyWaits Recovers
CHECK_DEADLOCK FALSE
