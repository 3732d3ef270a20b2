\* Every call and every error, on an empty card and on one with a loop in a chain.
SPECIFICATION FairSpec
CONSTANTS
  a = a
  b = b
  Names = {a}
  MaxClust = 4
  FatEps = 2
  SPC = 1
  UPS = 2
  NEntries = 1
  DirEps = 1
  MaxFiles = 1
  MaxSize = 3
  MaxXfer = 2
  Modes <- ModesAll
  Calls = {"read", "seek", "truncate", "fragments", "delete", "rename", "sync", "unmount", "lend"}
  Lendings = {"none", "kept"}
  Volumes <- BlankOrLooped
  Faults = TRUE
  Crashes = TRUE
INVARIANTS
  TypeOK
PROPERTIES
  SizeCoversChain
  CallsReturn
