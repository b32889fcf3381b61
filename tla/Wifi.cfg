SPECIFICATION FairSpec
CONSTANTS
  Users = {"console"}
  Networks = {1}
  Retry = 1
  Quiet = 2
  Shifts = 1
  MaxClients = 1
  Eth = FALSE
  Early = FALSE
  Commands = 2
  Disturbances = 2
  Backlog = 1
INVARIANTS StateTellsLink   
PROPERTY JoinsInTheEnd
CHECK_DEADLOCK FALSE
