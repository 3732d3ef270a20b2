\* A full root directory whose chain comes back to its start.
SPECIFICATION MCFairSpec
CONSTANTS
  Names = {"a", "d"}
  MaxClust = 5
  SPC = 2
  DirEps = 2
  MaxFiles = 1
  Ops = {"stat"}
  Volumes <- Looped
  Lendings = {"plain"}
PROPERTY
  DirCallsReturn
