SPECIFICATION FairSpec
CONSTANTS
  Models = {a, b}
  Remotes = {r}
  None = none
  Manners = {"patient"}
  MaxClicks = 2
  MaxHasty = 0
  MaxFaults = 0
PROPERTIES QuitTerminates
CHECK_DEADLOCK FALSE
