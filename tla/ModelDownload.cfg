SPECIFICATION Spec
CONSTANTS
  Models = {m1, m2}
  Remotes = {r1, r2}
  None = none
  Chunks = 3
  Slots = {1, 2}
INVARIANTS TypeOK InstalledIsWhole DownloadShown
PROPERTIES DownloadKeepsModels PullHonest PageSettles
