------------------------------ MODULE UzeFSDir ------------------------------
(***************************************************************************)
(* The FAT32 root directory of UzeFS (uzefs.c): a chain of clusters that   *)
(* grows, with the long names a PC gave files in runs of entries before    *)
(* them.  The calls that look names up, create, delete, rename and list,   *)
(* in steps that write the card at most once; the power may go between any *)
(* two, and the card may fail in any of them.                              *)
(*                                                                         *)
(* UzeFS has the files' data, sizes and chains; here a file is its entry   *)
(* and the chain it starts.  A long name's entry carries the 8.3 name      *)
(* whose checksum it holds.  All FAT entries are in one sector.            *)
(***************************************************************************)
EXTENDS Integers, FiniteSetsExt, SequencesExt, TLC

CONSTANTS Names,     \* the names hosts use
          MaxClust,  \* vol.max_clust
          SPC,       \* sectors per cluster
          DirEps,    \* directory entries per sector (16)
          MaxFiles,  \* UZEFS_MAX_FILES
          Ops,       \* the calls hosts make
          Volumes,   \* the contents a card may have at first
          Lendings   \* "plain" (tier 0) or "kept" (tier 2)

RootClus == 2
Cluster == 2 .. MaxClust - 1
EOC == MaxClust

ASSUME DirAssumption == /\ MaxClust \in Nat /\ RootClus \in Cluster
                        /\ SPC \in Nat \ {0} /\ DirEps \in Nat \ {0}

VARIABLES card,      \* the card's sectors
          kept, dirty,  \* the kept sector and WS_DIRTY
          lent,      \* how the buffer is lent
          hint,      \* vol.free_hint
          told,      \* VF_FSI
          pc, call,  \* the step of the call in progress, and its locals
          opened,    \* the slots: the entry, and by which name and how it was opened
          listing,   \* a uzefs_dir
          stay, seen, again  \* history of the listing: the entries that were there all the
                             \* time, those it gave, and whether it gave one twice

disk == <<card, kept, dirty>>
dirVars == <<disk, lent, hint, told, pc, call, opened, listing, stay, seen, again>>

(***************************************************************************)
(* Sectors.                                                                *)
(***************************************************************************)
FatS == <<"fat", 0>>
FsiS == <<"fsi", 0>>
DataS(n) == <<"data", n>>

Unknown == -1
ClustSect(cl) == (cl - 2) * SPC
SectClust(s) == s \div SPC + 2

\* Entry p of all there are, counted through the data sectors.
SectOf(p) == p \div DirEps
IdxOf(p) == p % DirEps
NoPos == -1
Ent(k, p) == k[DataS(SectOf(p))][IdxOf(p)]

\* fat_next: 0 at the end of the chain, or a value that cannot follow in one.
FatNext(k, cl) == IF k[FatS][cl] = EOC THEN 0
                  ELSE IF k[FatS][cl] \in Cluster \ {cl} THEN k[FatS][cl] ELSE 1

NeverUsed == [is |-> "never", name |-> "", cl |-> 0]
Gone == [is |-> "removed", name |-> "", cl |-> 0]
Zeros == [i \in 0 .. DirEps - 1 |-> NeverUsed]

View == kept @@ card
Empty == [s \in {} |-> {}]

\* win_load of the sectors S in turn, s the last.
CardAfterLoad(S) == IF lent = "kept" /\ ~(S \subseteq DOMAIN kept) THEN View ELSE card
Load(S, s) ==
    IF lent = "kept" /\ S # {}
    THEN /\ card' = CardAfterLoad(S)
         /\ kept' = [x \in {s} |-> View[s]]
         /\ dirty' = (dirty /\ S \subseteq DOMAIN kept)
    ELSE UNCHANGED disk

\* win_load, a change to v, and win_put.
Put(s, v) ==
    IF lent = "kept"
    THEN card' = CardAfterLoad({s}) /\ kept' = [x \in {s} |-> v] /\ dirty' = TRUE
    ELSE card' = [card EXCEPT ![s] = v] /\ UNCHANGED <<kept, dirty>>

\* A command fails; a sector that was to be written may have been.
Drop == kept' = Empty /\ dirty' = FALSE
LoadFails(S) ==
    /\ S # {} /\ ~(S \subseteq DOMAIN kept)
    /\ card' \in {card, CardAfterLoad(S)} /\ Drop
PutFails(s, v) ==
    /\ s \notin DOMAIN kept
    /\ card' \in {card, IF lent = "kept" THEN View ELSE [card EXCEPT ![s] = v]} /\ Drop

(***************************************************************************)
(* The directory as a PC finds it in the contents k.                       *)
(***************************************************************************)
PerClust == SPC * DirEps
After(k, p) ==
    LET link == FatNext(k, SectClust(SectOf(p)))
    IN  IF (p + 1) % PerClust # 0 THEN p + 1
        ELSE IF link \in Cluster THEN ClustSect(link) * DirEps ELSE NoPos

\* The entries of a scan, up to the one that ends it.
Places(k) ==
    LET most == (MaxClust - 2) * PerClust
        from[p \in NoPos .. most - 1, n \in 0 .. most] ==
            IF p = NoPos \/ n = 0 THEN {}
            ELSE IF Ent(k, p).is = "never" THEN {}
            ELSE {p} \cup from[After(k, p), n - 1]
    IN  from[ClustSect(RootClus) * DirEps, most]

Shown(k) == {p \in Places(k) : Ent(k, p).is \in {"file", "dir"}}

(***************************************************************************)
(* Calls.                                                                  *)
(***************************************************************************)
Start(s, i) == [sect |-> s, idx |-> i, free |-> NoPos, lfn |-> NoPos, hit |-> NoPos, ended |-> FALSE]
Lookup == Start(ClustSect(RootClus), 0)

NoCall == [op |-> "none", name |-> "", to |-> "", sought |-> "", scan |-> Lookup,
           second |-> FALSE, cl |-> 0, n |-> 0, ok |-> FALSE]
Over == -1
NoListing == [sect |-> Over, idx |-> 0]
Slot == 1 .. MaxFiles
Closed == [at |-> NoPos, name |-> "", wr |-> FALSE]

DirInit ==
    /\ card \in Volumes
    /\ kept = Empty /\ dirty = FALSE
    /\ lent \in Lendings
    /\ hint = 2 /\ told = FALSE
    /\ pc = "idle" /\ call = NoCall
    /\ opened = [f \in Slot |-> Closed] /\ listing = NoListing
    /\ stay = {} /\ seen = {} /\ again = FALSE

listed == <<listing, seen, again>>
Still == UNCHANGED <<hint, told, opened, listed>>

\* The names of "op"; a rename looks its new name up first.
Calls(op, name, to, sought, scan) ==
    /\ pc = "idle"
    /\ pc' = "scan"
    /\ call' = [NoCall EXCEPT !.op = op, !.name = name, !.to = to, !.sought = sought, !.scan = scan]
    /\ UNCHANGED <<disk, lent>> /\ Still

Goes(step, r) == pc' = step /\ call' = r
Ends(ok) == Goes("idle", [NoCall EXCEPT !.ok = ok])

\* SC_LIST: uzefs_readdir takes every name.
Every == "any"

(***************************************************************************)
(* dir_scan, one sector at a time.                                         *)
(***************************************************************************)
\* Mutant of EntryEnd: another file's long name still counts.
EntryEndKeepsRun(c, e, p) ==
    CASE e.is \in {"never", "removed"} ->
            [c EXCEPT !.free = IF @ = NoPos THEN p ELSE @, !.lfn = NoPos, !.ended = e.is = "never"]
      [] e.is = "long" -> [c EXCEPT !.lfn = IF @ = NoPos THEN p ELSE @]
      [] e.is \in {"file", "dir"} /\ call.sought \in {Every, e.name} -> [c EXCEPT !.hit = p]
      [] OTHER -> c

\* dir_entry_end: what the entry e at p adds to what the scan c knows.
EntryEnd(c, e, p) ==
    CASE e.is \in {"never", "removed"} ->
            [c EXCEPT !.free = IF @ = NoPos THEN p ELSE @, !.lfn = NoPos, !.ended = e.is = "never"]
      [] e.is = "long" -> [c EXCEPT !.lfn = IF @ = NoPos THEN p ELSE @]
      [] e.is \in {"file", "dir"} /\ call.sought \in {Every, e.name} -> [c EXCEPT !.hit = p]
      [] OTHER -> [c EXCEPT !.lfn = NoPos]

Through(c) == c.hit # NoPos \/ c.ended

\* The scan after the sector it is at, from its index on.
AfterSector(c) ==
    LET first == c.sect * DirEps + c.idx
        last == c.sect * DirEps + DirEps - 1
        after[p \in first - 1 .. last] ==
            IF p < first \/ Through(after[p - 1]) THEN IF p < first THEN c ELSE after[p - 1]
            ELSE EntryEnd(after[p - 1], Ent(View, p), p)
    IN  after[last]

\* dir_next after sector s: the sector, 0 past the end, or 1 for a bad link ...
AtClusterEnd(s) == (s + 1) % SPC = 0
NextLink(s) == FatNext(View, SectClust(s))
NextSect(s) == IF AtClusterEnd(s) THEN ClustSect(NextLink(s)) ELSE s + 1

\* ... and the FAT sector it may read for that.
LinkSect(s) == IF AtClusterEnd(s) THEN {FatS} ELSE {}

ScanReads == LET c == call.scan
                 own == IF c.idx < DirEps THEN {DataS(c.sect)} ELSE {}
             IN  IF Through(AfterSector(c)) THEN own ELSE own \cup LinkSect(c.sect)

Scan ==
    LET c == call.scan
        after == AfterSector(c)
        link == IF AtClusterEnd(c.sect) THEN NextLink(c.sect) ELSE 2
        ends == Through(after) \/ link = 0
    IN  /\ pc = "scan"
        /\ Load(ScanReads, IF ~Through(after) /\ AtClusterEnd(c.sect) THEN FatS ELSE DataS(c.sect))
        /\ IF ends THEN Goes("looked", [call EXCEPT !.scan = after])
           ELSE IF link = 1 THEN Ends(FALSE)
           ELSE Goes("scan", [call EXCEPT !.scan = [after EXCEPT !.sect = NextSect(c.sect), !.idx = 0]])
        /\ Still /\ UNCHANGED lent

Hit == call.scan.hit
Found == Hit # NoPos
IsFile == Found /\ Ent(View, Hit).is = "file"

\* busy, of any handle and of writers.
Busy(p) == \E f \in Slot : opened[f].at = p
Written(p) == \E f \in Slot : opened[f].at = p /\ opened[f].wr

Looked(op) == pc = "looked" /\ call.op \in op /\ UNCHANGED lent

(***************************************************************************)
(* uzefs_stat and uzefs_open.                                              *)
(***************************************************************************)
Stat == /\ Looked({"stat"})
        /\ Ends(Found)
        /\ Still /\ UNCHANGED disk

Conflicts == IF call.op = "create" THEN Busy(Hit) ELSE Written(Hit)
FreeSlots == {f \in Slot : opened[f] = Closed}
Opens(p, name) == opened' = [opened EXCEPT ![Min(FreeSlots)] =
                                [at |-> p, name |-> name, wr |-> call.op = "create"]]

Openable == IsFile /\ ~Conflicts /\ FreeSlots # {}
Creatable == call.op = "create" /\ ~Found /\ FreeSlots # {}

OpenRefused ==
    /\ Looked({"open", "create"})
    /\ ~Openable /\ ~Creatable
    /\ Ends(FALSE)
    /\ Still /\ UNCHANGED disk

OpenFound ==
    /\ Looked({"open", "create"})
    /\ Openable
    /\ Opens(Hit, call.name)
    /\ Ends(TRUE)
    /\ UNCHANGED <<disk, hint, told, listed>>

Missing == Looked({"create"}) /\ Creatable

OpenNew ==
    /\ Missing
    /\ call.scan.free # NoPos
    /\ Goes("entry", [call EXCEPT !.n = call.scan.free])
    /\ Still /\ UNCHANGED disk

\* alloc_cluster up to fat_put, for dir_grow.
Alloc ==
    LET free == {cl \in Cluster : View[FatS][cl] = 0}
        ahead == {cl \in free : cl >= hint}
        cl == Min(IF ahead # {} THEN ahead ELSE free)
    IN  /\ Missing
        /\ call.scan.free = NoPos
        /\ Load({FatS}, FatS)
        /\ IF free = {} THEN Ends(FALSE) /\ UNCHANGED hint
           ELSE Goes("take", [call EXCEPT !.cl = cl]) /\ hint' = cl + 1
        /\ UNCHANGED <<told, opened, listed>>

\* fat_put's first part: the free count of FSInfo, once in a mount.
PutsFat == /\ pc \in {"take", "join", "free"}
           /\ pc = "free" => call.cl # 0 /\ FatNext(View, call.cl) # 1

MarkCount ==
    /\ PutsFat /\ ~told
    /\ Put(FsiS, Unknown)
    /\ told' = TRUE
    /\ UNCHANGED <<lent, hint, pc, call, opened, listed>>

\* fat_put
FatWith(cl, v) == [View[FatS] EXCEPT ![cl] = v]
FatPut(from, cl, v) ==
    /\ pc = from /\ told
    /\ Put(FatS, FatWith(cl, v))
    /\ UNCHANGED <<lent, told, opened, listed>>

Take == /\ FatPut("take", call.cl, EOC)
        /\ Goes("zero", [call EXCEPT !.n = 0])
        /\ UNCHANGED hint

\* A sector of the new cluster: it goes past the buffer.
Zero ==
    LET s == DataS(ClustSect(call.cl) + call.n)
    IN  /\ pc = "zero"
        /\ card' = [card EXCEPT ![s] = Zeros]
        /\ IF s \in DOMAIN kept THEN Drop ELSE UNCHANGED <<kept, dirty>>
        /\ Goes(IF call.n = SPC - 1 THEN "join" ELSE "zero", [call EXCEPT !.n = @ + 1])
        /\ Still /\ UNCHANGED lent

Join == /\ FatPut("join", SectClust(call.scan.sect), call.cl)
        /\ Goes("entry", [call EXCEPT !.n = ClustSect(call.cl) * DirEps])
        /\ UNCHANGED hint

\* dir_write of the new entry at call.n.
WithEnt(p, e) == [View[DataS(SectOf(p))] EXCEPT ![IdxOf(p)] = e]
NewEnt == [is |-> "file", name |-> call.name, cl |-> 0]

WriteEntry ==
    /\ pc = "entry"
    /\ Put(DataS(SectOf(call.n)), WithEnt(call.n, NewEnt))
    /\ Opens(call.n, call.name)
    /\ Ends(TRUE)
    /\ UNCHANGED <<lent, hint, told, listed>>

\* uzefs_close, with uzefs_sync's flush.
Close(f) ==
    /\ pc = "idle" /\ opened[f] # Closed
    /\ opened' = [opened EXCEPT ![f] = Closed]
    /\ UNCHANGED <<lent, hint, told, pc, call, listed>>

CloseWell(f) == Close(f) /\ card' = View /\ dirty' = FALSE /\ UNCHANGED kept
CloseFails(f) == Close(f) /\ dirty /\ card' \in {card, View} /\ Drop

(***************************************************************************)
(* uzefs_delete and uzefs_rename.                                          *)
(***************************************************************************)
\* Mutant of TargetFree: the new name is not looked at.
TargetFreeAlways == TRUE
TargetFree == ~Found

RenameTarget ==
    /\ Looked({"rename"}) /\ ~call.second
    /\ IF TargetFree
       THEN Goes("scan", [call EXCEPT !.sought = call.name, !.scan = Lookup, !.second = TRUE])
       ELSE Ends(FALSE)
    /\ Still /\ UNCHANGED disk

\* find_closed
Closing == Looked({"delete", "rename"}) /\ (call.op = "rename" => call.second)

Closable == IsFile /\ ~Busy(Hit)

NotClosed ==
    /\ Closing
    /\ ~Closable
    /\ Ends(FALSE)
    /\ Still /\ UNCHANGED disk

\* Mutant of FindClosed: it starts at the entry, and leaves its long name.
FindClosedShort ==
    /\ Closing
    /\ Closable
    /\ Goes("remove", [call EXCEPT !.n = Hit, !.cl = Ent(View, Hit).cl])
    /\ Still /\ UNCHANGED disk

\* dir_remove starts where the long name does.
FindClosed ==
    /\ Closing
    /\ Closable
    /\ Goes("remove", [call EXCEPT !.n = IF call.scan.lfn # NoPos THEN call.scan.lfn ELSE Hit,
                                   !.cl = Ent(View, Hit).cl])
    /\ Still /\ UNCHANGED disk

\* What dir_remove makes of the sector of p, from p up to the entry found.
Removed(p) ==
    [i \in 0 .. DirEps - 1 |->
        LET q == SectOf(p) * DirEps + i
            e == Ent(View, q)
        IN  IF q = Hit THEN IF call.op = "rename" THEN [e EXCEPT !.name = call.to] ELSE Gone
            ELSE IF q >= p /\ (SectOf(p) = SectOf(Hit) => q < Hit) THEN Gone ELSE e]

RemoveSector ==
    /\ pc = "remove"
    /\ Put(DataS(SectOf(call.n)), Removed(call.n))
    /\ IF SectOf(call.n) # SectOf(Hit) THEN Goes("past", call)
       ELSE IF call.op = "rename" THEN Ends(TRUE)
       ELSE Goes("free", call)
    /\ Still /\ UNCHANGED lent

\* dir_next, which has a sector to go to: the entry found is ahead.
RemoveNext ==
    LET s == SectOf(call.n)
    IN  /\ pc = "past"
        /\ Load(LinkSect(s), FatS)
        /\ Goes("remove", [call EXCEPT !.n = NextSect(s) * DirEps])
        /\ Still /\ UNCHANGED lent

\* free_chain
Free ==
    /\ FatPut("free", call.cl, 0)
    /\ PutsFat
    /\ hint' = IF call.cl < hint THEN call.cl ELSE hint
    /\ Goes("free", [call EXCEPT !.cl = FatNext(View, call.cl)])

Freed ==
    /\ pc = "free" /\ ~PutsFat
    /\ Ends(call.cl = 0)
    /\ Still /\ UNCHANGED <<disk, lent>>

(***************************************************************************)
(* uzefs_opendir and uzefs_readdir.                                        *)
(***************************************************************************)
OpenDir ==
    /\ pc = "idle" /\ "readdir" \in Ops
    /\ listing' = [sect |-> ClustSect(RootClus), idx |-> 0]
    /\ stay' = Shown(View) /\ seen' = {} /\ again' = FALSE
    /\ UNCHANGED <<disk, lent, hint, told, pc, call, opened>>

\* Mutant of Resume: it goes on with the next sector.
ResumeSector == [sect |-> SectOf(Hit), idx |-> DirEps]

\* Where the listing goes on after the entry it found.
Resume == [sect |-> SectOf(Hit), idx |-> IdxOf(Hit) + 1]

ReadDir ==
    /\ Looked({"readdir"})
    /\ IF Found THEN listing' = Resume /\ seen' = seen \cup {Hit} /\ again' = (again \/ Hit \in seen)
       ELSE listing' = NoListing /\ UNCHANGED <<seen, again>>
    /\ Ends(TRUE)
    /\ UNCHANGED <<disk, hint, told, opened>>

(***************************************************************************)
(* Failures and power cuts.                                                *)
(***************************************************************************)
\* The sectors read before a step is through, and the one it writes, if any.
Fails ==
    /\ \/ pc = "scan" /\ LoadFails(ScanReads) /\ UNCHANGED <<told, hint>>
       \/ Missing /\ call.scan.free = NoPos /\ LoadFails({FatS}) /\ UNCHANGED <<told, hint>>
       \/ pc = "past" /\ LoadFails(LinkSect(SectOf(call.n))) /\ UNCHANGED <<told, hint>>
       \/ PutsFat /\ ~told /\ PutFails(FsiS, Unknown) /\ told' = TRUE /\ UNCHANGED hint
       \/ /\ PutsFat /\ told
          /\ PutFails(FatS, CASE pc = "take" -> FatWith(call.cl, EOC)
                             [] pc = "join" -> FatWith(SectClust(call.scan.sect), call.cl)
                             [] OTHER -> FatWith(call.cl, 0))
          /\ UNCHANGED <<told, hint>>
       \/ /\ pc = "zero"
          /\ card' \in {card, [card EXCEPT ![DataS(ClustSect(call.cl) + call.n)] = Zeros]}
          /\ IF DataS(ClustSect(call.cl) + call.n) \in DOMAIN kept THEN Drop
             ELSE UNCHANGED <<kept, dirty>>
          /\ UNCHANGED <<told, hint>>
       \/ /\ pc = "entry" /\ PutFails(DataS(SectOf(call.n)), WithEnt(call.n, NewEnt))
          /\ UNCHANGED <<told, hint>>
       \/ /\ pc = "remove" /\ PutFails(DataS(SectOf(call.n)), Removed(call.n))
          /\ UNCHANGED <<told, hint>>
    /\ Ends(FALSE)
    /\ UNCHANGED <<lent, opened, listed>>

\* The power goes; the card is mounted again, and a host lends as before.
Crash ==
    /\ Drop
    /\ hint' = 2 /\ told' = FALSE
    /\ pc' = "idle" /\ call' = NoCall
    /\ opened' = [f \in Slot |-> Closed] /\ listing' = NoListing
    /\ stay' = {} /\ seen' = {} /\ again' = FALSE
    /\ UNCHANGED <<card, lent>>

(***************************************************************************)
(* The specification.                                                      *)
(***************************************************************************)
Host ==
    \/ \E op \in Ops \ {"rename", "readdir"}, name \in Names : Calls(op, name, "", name, Lookup)
    \/ "rename" \in Ops /\ \E name, to \in Names : Calls("rename", name, to, to, Lookup)
    \/ listing.sect # Over /\ Calls("readdir", "", "", Every, Start(listing.sect, listing.idx))
    \/ \E f \in Slot : CloseWell(f)

Step == \/ Scan \/ Stat \/ OpenRefused \/ OpenFound \/ OpenNew
        \/ Alloc \/ MarkCount \/ Take \/ Zero \/ Join \/ WriteEntry
        \/ RenameTarget \/ NotClosed \/ FindClosed \/ RemoveSector \/ RemoveNext
        \/ Free \/ Freed \/ ReadDir

\* Of the entries there were at uzefs_opendir those that are still as they were.
Stays == stay' = {p \in stay : Ent(View, p)' = Ent(View, p)}

Works == OpenDir \/ ((Host \/ Step) /\ Stays)

\* The card fails a command, or the power goes.
Breaks == Crash \/ ((Fails \/ \E f \in Slot : CloseFails(f)) /\ Stays)

DirNext == Works \/ Breaks

DirSpec == DirInit /\ [][DirNext]_dirVars

(***************************************************************************)
(* Properties.                                                             *)
(***************************************************************************)
\* A long name stands before its own file or before nothing: each of its entries
\* is followed by the next, the last by the file.
LongNamesBelong(k) ==
    \A p \in {p \in Places(k) : Ent(k, p).is = "long"} :
        /\ After(k, p) # NoPos
        /\ Ent(k, After(k, p)).is \in {"long", "file"}
        /\ Ent(k, After(k, p)).name = Ent(k, p).name

NamesDiffer(k) == \A p, q \in Shown(k) : Ent(k, p).name = Ent(k, q).name => p = q

\* No cluster is in the root and in a file, or in one of them and free.
Pointers(k) == {<<"file", p>> : p \in {p \in Shown(k) : Ent(k, p).cl # 0}}
               \cup {<<"link", cl>> : cl \in {cl \in Cluster : k[FatS][cl] \in Cluster}}
               \cup {<<"root", 0>>}
Target(k, x) == CASE x[1] = "file" -> Ent(k, x[2]).cl
                  [] x[1] = "link" -> k[FatS][x[2]]
                  [] OTHER -> RootClus

RootIsItsOwn(k) == \A x \in Pointers(k) :
    /\ k[FatS][Target(k, x)] # 0
    /\ \A y \in Pointers(k) : Target(k, x) = Target(k, y) => x = y

\* Whatever the card fails and wherever the power goes in a creation, a deletion,
\* a renaming or the growth of the root, a PC finds the directory sound: long
\* names, short names and clusters belong to one file each.
DirSound == \A k \in {card, View} : LongNamesBelong(k) /\ NamesDiffer(k) /\ RootIsItsOwn(k)

\* FSInfo's free count is never stale: it is right, or marked unknown before the
\* first change of the FAT reaches the card.
FreeCountRight ==
    card[FsiS] # Unknown => card[FsiS] = Cardinality({cl \in Cluster : card[FatS][cl] = 0})

\* The entry of an open handle stays the file it was opened as.
HandlesStay == \A f \in Slot : opened[f] # Closed =>
    opened[f].at \in Shown(View) /\ Ent(View, opened[f].at).name = opened[f].name

\* A listing gives every file that is there all the time once, whatever calls
\* create, delete or rename others between its steps, and however the root grows.
ListsAll == ~again /\ (listing = NoListing => stay \subseteq seen)

ShownNames(k) == {Ent(k, p).name : p \in Shown(k)}

\* Creating, deleting and renaming change the folder's names at one moment and
\* as they were asked to, on the card too, wherever the power goes.
FolderOf == INSTANCE Folder WITH names <- ShownNames(View), durable <- ShownNames(card),
                                 asked <- [op |-> call.op, name |-> call.name, to |-> call.to]
DirIsFolder == FolderOf!Spec

\* A call that succeeds has done what it was asked to.
Done == CASE call.op = "create" -> call.name \in ShownNames(View)'
          [] call.op = "delete" -> call.name \notin ShownNames(View)'
          [] call.op = "rename" -> call.to \in ShownNames(View)' /\ call.name \notin ShownNames(View)'
          [] OTHER -> TRUE
OkIsDone == [][pc # "idle" /\ call'.ok => Done]_dirVars

\* Every call returns.
DirCallsReturn == []<>(pc = "idle")
=============================================================================
