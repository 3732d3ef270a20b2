\* Every call, the buffer lent, kept and taken back at any time: two files, two
\* handles, nothing fails.
SPECIFICATION Spec
CONSTANTS
  a = a
  b = b
  Names = {a, b}
  MaxClust = 5
  FatEps = 2
  SPC = 1
  UPS = 1
  NEntries = 2
  DirEps = 1
  MaxFiles = 2
  MaxSize = 2
  MaxXfer = 2
  Modes <- ModesCreate
  Calls = {"read", "seek", "truncate", "fragments", "delete", "rename", "sync", "unmount", "lend"}
  Lendings = {"none", "plain", "kept"}
  Volumes <- Blank
  Faults = FALSE
  Crashes = FALSE
SYMMETRY NameSymmetry
INVARIANTS
  NoLostCluster
  NoStaleBytes
  ContigIsInOnePiece
PROPERTIES
  SyncedIsOnCard
