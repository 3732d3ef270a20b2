\* The root directory at tiers 0 and 2: changes with card errors and power cuts,
\* or every call between the steps of a listing while nothing fails.
SPECIFICATION MCSpec
CONSTANTS
  Names = {"a", "b"}
  MaxClust = 5
  SPC = 2
  DirEps = 2
  MaxFiles = 1
  Ops = {"stat", "open", "create", "delete", "rename", "readdir"}
  Volumes <- MCVolumes
  Lendings = {"plain", "kept"}
INVARIANTS
  DirSound
  ListingSound
PROPERTIES
  DirIsFolder
  OkIsDone
