----------------------------- MODULE MCUzeFSDir -----------------------------
(***************************************************************************)
(* A root directory of one cluster of two sectors of two entries, a file's *)
(* cluster and a free one, both full of what looks like entries.           *)
(***************************************************************************)
EXTENDS UzeFSDir

VARIABLE part   \* whether something "fails", or the directory is listed

File(name, cl) == [is |-> "file", name |-> name, cl |-> cl]
Long(name) == [is |-> "long", name |-> name, cl |-> 0]
Dir(name) == [is |-> "dir", name |-> name, cl |-> 0]
Label == [is |-> "label", name |-> "", cl |-> 0]
Junk == [i \in 0 .. 1 |-> File("junk", 0)]

Volume(fat, first, second) ==
    [s \in {FatS, FsiS} \cup {DataS(n) : n \in 0 .. 5} |->
        CASE s = FatS -> fat
          [] s = FsiS -> Cardinality({cl \in Cluster : fat[cl] = 0})
          [] s = DataS(0) -> [i \in 0 .. 1 |-> first[i + 1]]
          [] s = DataS(1) -> [i \in 0 .. 1 |-> second[i + 1]]
          [] OTHER -> Junk]

OneFile == [cl \in Cluster |-> IF cl = 4 THEN 0 ELSE EOC]

\* A long name over two sectors with room behind it; a full directory with a
\* label and a long name; and one full of directories.
Roomy == Volume(OneFile, <<Long("a"), Long("a")>>, <<File("a", 3), NeverUsed>>)
Full == Volume(OneFile, <<Label, Long("a")>>, <<Long("a"), File("a", 3)>>)
FullOfDirs == Volume(OneFile, <<Dir("c"), Dir("d")>>, <<Dir("e"), Label>>)
MCVolumes == {Roomy, Full, FullOfDirs}

\* A damaged one: the root's chain comes back to its first cluster.
Looped == {Volume([cl \in Cluster |-> IF cl = 2 THEN 3 ELSE 2],
                  <<File("a", 0), File("b", 0)>>, <<File("c", 0), Label>>)}

(***************************************************************************)
(* The specification.                                                      *)
(***************************************************************************)
MCInit == /\ DirInit
          /\ part \in {"fails", "lists"}
          /\ part = "lists" => card # Full

MCNext ==
    /\ \/ part = "fails" /\ DirNext /\ call'.op \in {"none", "create", "delete", "rename"}
                           /\ UNCHANGED listing
       \/ part = "lists" /\ Works
    /\ UNCHANGED part

MCSpec == MCInit /\ [][MCNext]_<<dirVars, part>>

\* A call goes on once it was begun.
MCFairSpec == MCSpec /\ WF_<<dirVars, part>>(Step /\ Stays /\ UNCHANGED part)

\* What holds while nothing fails.
ListingSound == part = "lists" => ListsAll /\ HandlesStay /\ FreeCountRight
=============================================================================
