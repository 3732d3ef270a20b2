\* Tier 2 with card errors: a creation the kept sector held is dropped.
SPECIFICATION Spec
CONSTANTS
  a = a
  b = b
  Names = {a, b}
  MaxClust = 4
  FatEps = 2
  SPC = 1
  UPS = 1
  NEntries = 2
  DirEps = 1
  MaxFiles = 2
  MaxSize = 1
  MaxXfer = 1
  Modes <- ModesCreate
  Calls = {"sync"}
  Lendings = {"kept"}
  Volumes <- Blank
  Faults = TRUE
  Crashes = FALSE
INVARIANTS
  WriterExcludes
