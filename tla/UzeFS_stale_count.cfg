\* A card error while the free count is marked unknown, at tier 0.
SPECIFICATION MCSpec
CONSTANTS
  Names = {"a", "b"}
  MaxClust = 5
  SPC = 2
  DirEps = 2
  MaxFiles = 1
  Ops = {"create", "delete", "rename"}
  Volumes <- MCVolumes
  Lendings = {"plain"}
INVARIANT
  FreeCountRight
