------------------------------- MODULE MCUzeFS -------------------------------
(***************************************************************************)
(* Values of the constants of UzeFS for TLC: the modes hosts open with and *)
(* the volumes they mount.                                                 *)
(***************************************************************************)
EXTENDS UzeFS, TLC

CONSTANTS a, b    \* file names

RW == {"READ", "WRITE"}
ModesCreate == {RW \cup {"CREATE"}}
ModesAll == {{"READ"}, RW \cup {"CREATE", "APPEND"}, {"WRITE", "CREATE", "TRUNC"}}

(* The contents with FAT fat, directory dir and every data sector as data. *)
Contents(fat, dir, data) ==
  [s \in Sector |->
     IF s \in FatSectors THEN [cl \in {c \in Cluster : FatSect(c) = s} |-> fat[cl]]
     ELSE IF s \in DirSectors THEN [e \in {g \in Entry : DirSect(g) = s} |-> dir[e]]
     ELSE data]

NoFile == [name |-> NeverUsed, sclust |-> 0, size |-> 0]
NoFiles == [e \in Entry |-> NoFile]
FreeFat == [cl \in Cluster |-> 0]
EmptyVolume == Contents(FreeFat, NoFiles, {})

(* One file, a, whose chain comes back to its start. *)
LoopedVolume ==
  Contents([FreeFat EXCEPT ![2] = 3, ![3] = 2],
           [NoFiles EXCEPT ![0] = [name |-> a, sclust |-> 2, size |-> UPC + 1]],
           Offsets)

(* Names are only ever compared. *)
NameSymmetry == Permutations(Names)

Blank == {EmptyVolume}
BlankOrLooped == {EmptyVolume, LoopedVolume}

=============================================================================
