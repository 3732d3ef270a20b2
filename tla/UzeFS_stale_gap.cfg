\* Tier 0: a file written again after an error or a power cut, with no repair.
SPECIFICATION Spec
CONSTANTS
  a = a
  b = b
  Names = {a}
  MaxClust = 5
  FatEps = 2
  SPC = 1
  UPS = 2
  NEntries = 1
  DirEps = 1
  MaxFiles = 1
  MaxSize = 4
  MaxXfer = 2
  Modes <- ModesCreate
  Calls = {"truncate"}
  Lendings = {"plain"}
  Volumes <- Blank
  Faults = TRUE
  Crashes = TRUE
INVARIANTS
  NoStaleBytes
