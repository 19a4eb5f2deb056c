SPECIFICATION FairSpec
CONSTANTS
  Models = {a, b}
  Remotes = {r}
  None = none
  Manners = {"patient", "hasty"}
  MaxClicks = 4
  MaxHasty = 2
  MaxFaults = 1
INVARIANTS NoStrayServer ServerFollowsCommands ServerFollowsSettings PageShowsSettings OrphanProtection
PROPERTIES SettingsTakeEffect
CHECK_DEADLOCK FALSE
