SPECIFICATION Spec
CONSTANTS
  MaxSessions = 2
  Modes = {casual}
  Others = {ann}
  NO_MODE = NO_MODE
  MaxClicks = 2
  MaxSent = 1
INVARIANTS
  
  ListsFollowServer
  ButtonFollowsServer
  PopupsAreShown
  ExitCompletes
CHECK_DEADLOCK FALSE
