----------------------------- MODULE UzeFSVolume -----------------------------
(***************************************************************************)
(* The FAT volume UzeFS works on (src/kernel/uzefs/uzefs.c): its sectors,  *)
(* the FAT entries and directory entries in them, and what it means for    *)
(* the contents of a card to be sound.  Everything here is a function of   *)
(* the contents k of a card, so that the same predicate speaks of the card *)
(* itself and of the card as the library sees it through its kept sector.  *)
(*                                                                         *)
(* Data is abstracted to what the properties tell apart: a file position   *)
(* counts units, UPS of them to a sector (the 512 bytes of the code), and  *)
(* a data sector is the set of its offsets that hold bytes written since   *)
(* its cluster was last taken.  The second FAT copy, attributes, dates and *)
(* long names are left out.                                                *)
(***************************************************************************)
EXTENDS Integers, FiniteSets

CONSTANTS MaxClust,   \* vol.max_clust: clusters are 2 .. MaxClust-1
          FatEps,     \* FAT entries per FAT sector
          SPC,        \* sectors per cluster
          UPS,        \* units (of bytes) per sector
          NEntries,   \* entries of the root directory
          DirEps,     \* directory entries per directory sector
          Names       \* file names

ASSUME GeometryAssumption ==
  /\ MaxClust \in Nat /\ MaxClust > 2
  /\ FatEps \in Nat \ {0}
  /\ SPC \in Nat \ {0}
  /\ UPS \in Nat \ {0}
  /\ NEntries \in Nat \ {0}
  /\ DirEps \in Nat \ {0}

Cluster == 2 .. MaxClust - 1
Entry == 0 .. NEntries - 1

(* FAT entry values besides a cluster number.  0 marks a free cluster, and *)
(* 1 stands for every value that may not occur inside a chain.             *)
EOC == MaxClust
Bad == 1
FatValue == {0, Bad, EOC} \cup Cluster

(* First byte 0xE5: removed, the scan goes on.  0x00: never used, the scan *)
(* ends there.                                                             *)
Removed == "removed"
NeverUsed == "never"

(* Neither marker is a name. *)
ASSUME NamesAssumption == Names \cap {Removed, NeverUsed} = {}

(***************************************************************************)
(* Sectors.                                                                *)
(***************************************************************************)
FatSect(cl) == <<"fat", cl \div FatEps>>
DirSect(e) == <<"dir", e \div DirEps>>
DataSect(n) == <<"data", n>>

NDataSects == (MaxClust - 2) * SPC
ClustSect(cl) == (cl - 2) * SPC          \* clust_sect, from the data area on

FatSectors == {FatSect(cl) : cl \in Cluster}
DirSectors == {DirSect(e) : e \in Entry}
DataSectors == {DataSect(n) : n \in 0 .. NDataSects - 1}
Sector == FatSectors \cup DirSectors \cup DataSectors

Offsets == 0 .. UPS - 1
DirEnt == [name : Names \cup {Removed, NeverUsed},
           sclust : 0 .. MaxClust, size : Nat]

(* What a sector may hold. *)
IsContent(s, v) ==
  /\ s \in FatSectors =>
       v \in [{cl \in Cluster : FatSect(cl) = s} -> FatValue]
  /\ s \in DirSectors =>
       v \in [{e \in Entry : DirSect(e) = s} -> DirEnt]
  /\ s \in DataSectors => v \in SUBSET Offsets

IsCard(k) == /\ k = [s \in Sector |-> k[s]]
             /\ \A s \in Sector : IsContent(s, k[s])

(***************************************************************************)
(* Reading and changing one entry of the contents k.                       *)
(***************************************************************************)
Fat(k, cl) == k[FatSect(cl)][cl]
Ent(k, e) == k[DirSect(e)][e]
Used(k, e) == Ent(k, e).name \in Names

SetFat(k, cl, v) == [k EXCEPT ![FatSect(cl)][cl] = v]
SetEnt(k, e, r) == [k EXCEPT ![DirSect(e)][e] = r]
SetData(k, n, v) == [k EXCEPT ![DataSect(n)] = v]

(* fat_next: the next cluster of the chain, 0 at its end, Bad for a value  *)
(* that cannot follow cl in a chain, or a cl that is not a cluster.        *)
FatNext(k, cl) ==
  IF cl \notin Cluster THEN Bad
  ELSE CASE Fat(k, cl) = EOC -> 0
         [] Fat(k, cl) \in Cluster \ {cl} -> Fat(k, cl)
         [] OTHER -> Bad

(* The cluster n steps down the chain from cl, as uzefs_seek walks it.     *)
Walk(k, cl, n) ==
  LET at[i \in 0 .. n] == IF i = 0 THEN cl ELSE FatNext(k, at[i - 1])
  IN  at[n]

(***************************************************************************)
(* Sound contents.                                                         *)
(***************************************************************************)
(* A pointer is a directory entry's first cluster or a FAT link.           *)
Points(k, cl) ==
  \/ \E e \in Entry : Used(k, e) /\ Ent(k, e).sclust = cl
  \/ \E c \in Cluster : Fat(k, c) = cl

LinkInjective(k) ==
  \A c, d \in Cluster :
    Fat(k, c) = Fat(k, d) /\ Fat(k, c) \in Cluster => c = d

StartInjective(k) ==
  \A e, g \in Entry :
    /\ Used(k, e) /\ Used(k, g)
    /\ Ent(k, e).sclust = Ent(k, g).sclust
    /\ Ent(k, e).sclust \in Cluster
    => e = g

StartUnlinked(k) ==
  \A e \in Entry, c \in Cluster :
    Used(k, e) /\ Ent(k, e).sclust \in Cluster => Fat(k, c) # Ent(k, e).sclust

PointedInUse(k) == \A cl \in Cluster : Points(k, cl) => Fat(k, cl) # 0

(* No cluster is in two chains, and none is in a chain and marked free.    *)
SoundChains(k) ==
  /\ LinkInjective(k)
  /\ StartInjective(k)
  /\ StartUnlinked(k)
  /\ PointedInUse(k)

(* How many clusters the chain that starts at cl has, before it ends or    *)
(* turns bad (a loop counts MaxClust).                                     *)
ChainLen(k, cl) ==
  Cardinality({i \in 0 .. MaxClust - 1 : Walk(k, cl, i) \in Cluster})

Chain(k, cl) == {Walk(k, cl, i) : i \in 0 .. ChainLen(k, cl) - 1}

UPC == SPC * UPS                                   \* units per cluster
ClustersFor(size) == (size + UPC - 1) \div UPC

=============================================================================
