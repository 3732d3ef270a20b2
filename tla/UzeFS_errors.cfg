\* Tier 0: two files, two handles, card errors and power cuts.
SPECIFICATION RepairedSpec
CONSTANTS
  a = a
  b = b
  Names = {a, b}
  MaxClust = 4
  FatEps = 2
  SPC = 2
  UPS = 2
  NEntries = 2
  DirEps = 1
  MaxFiles = 2
  MaxSize = 5
  MaxXfer = 2
  Modes <- ModesCreate
  Calls = {"truncate"}
  Lendings = {"plain"}
  Volumes <- Blank
  Faults = TRUE
  Crashes = TRUE
SYMMETRY NameSymmetry
INVARIANTS
  CardSound
  NoStaleBytes
  PositionsAgree
  LagInLastCluster
  WriterExcludes
PROPERTIES
  SyncedIsOnCard
