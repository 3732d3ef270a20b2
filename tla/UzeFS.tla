-------------------------------- MODULE UzeFS --------------------------------
(***************************************************************************)
(* UzeFS, the FAT file library of src/kernel/uzefs/uzefs.c: the calls of   *)
(* its interface, taken apart into steps that each write the card at most  *)
(* once.  Between two steps the power may go, and any step that uses the   *)
(* card may meet a disk error, so every state of the model is a state a    *)
(* card can be pulled in.                                                  *)
(*                                                                         *)
(* The library is not re-entrant and a call runs to its end before the     *)
(* next one: pc is "idle" between calls, and otherwise names the step of   *)
(* the call in progress, whose locals are in call.                         *)
(*                                                                         *)
(* A definition marked "Mutant of" is a plausible wrong version of one     *)
(* that follows it.  The specification does not use it: it shows which     *)
(* property catches that mistake.                                          *)
(***************************************************************************)
EXTENDS UzeFSVolume

CONSTANTS MaxFiles,   \* UZEFS_MAX_FILES
          MaxSize,    \* bound of the model: no file grows past MaxSize units
          MaxXfer,    \* bound of the model: units asked of one read or write
          Modes,      \* the mode arguments hosts pass to uzefs_open
          Calls,      \* the calls hosts make, of HostCalls; all others they may
          Lendings,   \* how hosts lend the buffer: "none", "plain", "kept"
          Volumes,    \* the contents a card may have at first
          Faults,     \* whether the card may fail a command
          Crashes     \* whether the power may go, and hosts mount again

ModeFlags == {"READ", "WRITE", "CREATE", "EXCL", "TRUNC", "APPEND"}
LegalMode(m) == /\ m \cap {"READ", "WRITE"} # {}
                /\ m \subseteq {"READ"} \/ "WRITE" \in m

HostCalls == {"read", "seek", "truncate", "fragments", "delete",
              "rename", "sync", "unmount", "lend"}

ASSUME FilesAssumption ==
  /\ MaxFiles \in Nat \ {0}
  /\ MaxSize \in Nat
  /\ MaxXfer \in Nat \ {0}
  /\ Modes \subseteq {m \in SUBSET ModeFlags : LegalMode(m)}
  /\ Calls \subseteq HostCalls
  /\ Lendings \subseteq {"none", "plain", "kept"}
  /\ Faults \in BOOLEAN
  /\ Crashes \in BOOLEAN

ASSUME VolumesAssumption == \A k \in Volumes : IsCard(k)

(* The volumes are sound; without this they may be damaged ones. *)
SoundVolumes == \A k \in Volumes : SoundChains(k)

Handle == 0 .. MaxFiles - 1

VARIABLES
  card,     \* what is on the card
  kept,     \* the sector in the lent buffer, as a function on at most one sector
  dirty,    \* WS_DIRTY: kept has changes not yet on the card
  lent,     \* how the host's buffer is lent
  mounted,  \* VF_MOUNTED
  hint,     \* vol.free_hint
  files,    \* the slots
  pc,       \* the step of the call in progress
  call      \* its locals

disk == <<card, kept, dirty>>
vars == <<card, kept, dirty, lent, mounted, hint, files, pc, call>>

Flag == {"OPEN", "RD", "WR", "DIRTY", "FAILED", "CONTIG", "NEWCL"}
Slot == [flags : SUBSET Flag, ent : Entry, sclust : Cluster \cup {0},
         cclust : Cluster \cup {0}, csect : 0 .. NDataSects - 1,
         fptr : Nat, fsize : Nat]
(* A closed slot: only its flags are ever read, uzefs_open clears the rest. *)
FreeSlot == [flags |-> {}, ent |-> 0, sclust |-> 0, cclust |-> 0,
             csect |-> 0, fptr |-> 0, fsize |-> 0]

Op == {"none", "open", "read", "write", "truncate", "delete",
       "sync", "close", "unmount"}
(* fh: the slot worked on; left: units still to move; cl: the cluster to   *)
(* free next; append: uzefs_open still has to go to the end.               *)
NoCall == [op |-> "none", fh |-> 0, left |-> 0, cl |-> 0, append |-> FALSE]

Empty == [s \in {} |-> {}]

(***************************************************************************)
(* The sector layer: win_load, win_put, win_flush and sect_put.            *)
(***************************************************************************)
(* The card as the library reads it, the kept sector in place of its copy. *)
View == [s \in Sector |-> IF s \in DOMAIN kept THEN kept[s] ELSE card[s]]

(* win_load of the sectors S writes the kept one out unless it is all of S. *)
(* Mutant of CardAfterLoad: the changes of the sector it replaces are lost. *)
LoadForgets(S) == card
CardAfterLoad(S) ==
  IF lent = "kept" /\ ~(S \subseteq DOMAIN kept) THEN View ELSE card

(* The sectors S are read through the buffer, the sector s last. *)
Load(S, s) ==
  IF lent = "kept" /\ S # {}
  THEN /\ card' = CardAfterLoad(S)
       /\ kept' = [x \in {s} |-> View[s]]
       /\ dirty' = (dirty /\ S \subseteq DOMAIN kept)
  ELSE UNCHANGED disk

(* Of the sectors S read on the way, s is changed: it becomes what it is   *)
(* in k.  A kept buffer holds the change back, a plain one sends it.       *)
CardAfterPut(S, k) == IF lent = "kept" THEN CardAfterLoad(S) ELSE k
HoldPut(s, k) ==
  IF lent = "kept"
  THEN kept' = [x \in {s} |-> k[s]] /\ dirty' = TRUE
  ELSE kept' = Empty /\ dirty' = FALSE
Put(S, s, k) == card' = CardAfterPut(S, k) /\ HoldPut(s, k)

(* win_flush *)
(* Mutant of Flush: the sector is marked clean and not written. *)
FlushForgets == dirty' = FALSE /\ UNCHANGED <<card, kept>>
Flush == /\ card' = (IF dirty THEN View ELSE card)
         /\ dirty' = FALSE
         /\ UNCHANGED kept

(* A command of the card fails.  The sector being written may have reached *)
(* the card all the same; changes waiting in the kept sector are dropped.  *)
Drop == kept' = Empty /\ dirty' = FALSE
LoadFails(S) ==
  /\ Faults
  /\ IF lent = "kept"
     THEN ~(S \subseteq DOMAIN kept) /\ card' \in {card, View} /\ Drop
     ELSE S # {} /\ UNCHANGED disk
PutFails(S, k) ==
  /\ Faults
  /\ IF lent = "kept"
     THEN ~(S \subseteq DOMAIN kept) /\ card' \in {card, View} /\ Drop
     ELSE card' \in {card, k} /\ Drop
FlushFails == Faults /\ dirty /\ card' \in {card, View} /\ Drop

(***************************************************************************)
(* Slots and the call in progress.                                         *)
(***************************************************************************)
Has(f, flag) == flag \in files[f].flags
Cur == files[call.fh]
SetSlot(f, r) == files' = [files EXCEPT ![f] = r]
With(r, on, off) == [r EXCEPT !.flags = (@ \ off) \cup on]

Goto(step) == pc' = step /\ UNCHANGED call
(* The call returns; a close made by uzefs_unmount returns to its loop. *)
Return == IF call.op = "unmount"
          THEN pc' = "unmount" /\ UNCHANGED call
          ELSE pc' = "idle" /\ call' = NoCall

(* The call returns UZEFS_ERR_DISK, and what its error path does to the slot. *)
FailSlot ==
  CASE call.op \in {"read", "write", "truncate"} ->
         SetSlot(call.fh, With(Cur, {"FAILED"}, {}))
    [] call.op = "sync" -> SetSlot(call.fh, With(Cur, {"FAILED"}, {"DIRTY"}))
    [] call.op \in {"open", "close", "unmount"} -> SetSlot(call.fh, FreeSlot)
    [] OTHER -> UNCHANGED files
DiskError == FailSlot /\ Return

(* It returns UZEFS_ERR_CORRUPT: only uzefs_open lets go of the slot. *)
Corrupt == /\ IF call.op = "open" THEN SetSlot(call.fh, FreeSlot)
                                  ELSE UNCHANGED files
           /\ Return

(***************************************************************************)
(* Scanning the directory (dir_scan, lookup).                              *)
(***************************************************************************)
(* The scan for nm stops at e: it has the name, was never used, or is last. *)
Stops(k, nm, e) ==
  /\ Ent(k, e).name \in {nm, NeverUsed} \/ e = NEntries - 1
  /\ \A g \in Entry : g < e => Ent(k, g).name \notin {nm, NeverUsed}
Scanned(e) == {DirSect(g) : g \in 0 .. e}

IsHit(k, nm, e) == Stops(k, nm, e) /\ Ent(k, e).name = nm
NotThere(k, nm, e) == Stops(k, nm, e) /\ Ent(k, e).name # nm
IsFree(k, e) == /\ ~Used(k, e)
                /\ \A g \in Entry : g < e => Used(k, g)

(* Mutant of Busy: a failed handle is open no more. *)
BusyUnlessFailed(e, onlyWr) ==
  \E f \in Handle : Has(f, "OPEN") /\ ~Has(f, "FAILED") /\ files[f].ent = e

(* busy: an open slot, for writing if onlyWr, holds the entry e. *)
Busy(e, onlyWr) ==
  \E f \in Handle : /\ Has(f, IF onlyWr THEN "WR" ELSE "OPEN")
                    /\ files[f].ent = e

(* dir_write: the slot's size and first cluster go into its entry. *)
WithEntry(k, r) ==
  SetEnt(k, r.ent, [Ent(k, r.ent) EXCEPT !.sclust = r.sclust, !.size = r.fsize])
DirWrite(r) == Put({DirSect(r.ent)}, DirSect(r.ent), WithEntry(View, r))
DirWriteFails(r) == PutFails({DirSect(r.ent)}, WithEntry(View, r))

FatPut(cl, v) == Put({FatSect(cl)}, FatSect(cl), SetFat(View, cl, v))
FatPutFails(cl, v) == PutFails({FatSect(cl)}, SetFat(View, cl, v))

(***************************************************************************)
(* The volume: uzefs_mount, uzefs_unmount, uzefs_lend and uzefs_unlend.    *)
(***************************************************************************)
(* Mounting forgets every slot and whatever the buffer held.  A host that  *)
(* mounts twice loses what a restart loses, so it does where Crashes is.   *)
Mount ==
  /\ pc = "idle" /\ (mounted => Crashes)
  /\ mounted' = TRUE
  /\ hint' = 2
  /\ files' = [f \in Handle |-> FreeSlot]
  /\ kept' = Empty /\ dirty' = FALSE
  /\ UNCHANGED <<card, lent, pc, call>>

(* The card does not answer: what was forgotten stays forgotten. *)
MountFails ==
  /\ pc = "idle" /\ (mounted => Crashes) /\ Faults
  /\ mounted' = FALSE
  /\ files' = [f \in Handle |-> FreeSlot]
  /\ kept' = Empty /\ dirty' = FALSE
  /\ UNCHANGED <<card, lent, hint, pc, call>>

(* The power goes, in any step of any call. *)
Crash ==
  /\ Crashes
  /\ mounted' = FALSE /\ lent' = "none"
  /\ files' = [f \in Handle |-> FreeSlot]
  /\ kept' = Empty /\ dirty' = FALSE
  /\ pc' = "idle" /\ call' = NoCall
  /\ hint' = 2
  /\ UNCHANGED card

(* uzefs_lend first does what uzefs_unlend does. *)
(* Mutant of Lend: without it. *)
LendForgets(how) ==
  /\ pc = "idle" /\ how # lent
  /\ UNCHANGED card /\ Drop
  /\ lent' = how
  /\ UNCHANGED <<mounted, hint, files, pc, call>>

Lend(how) ==
  /\ pc = "idle" /\ how # lent
  /\ card' = (IF dirty THEN View ELSE card) /\ Drop
  /\ lent' = how
  /\ UNCHANGED <<mounted, hint, files, pc, call>>

LendFails(how) ==
  /\ pc = "idle" /\ how # lent
  /\ FlushFails
  /\ lent' = how
  /\ UNCHANGED <<mounted, hint, files, pc, call>>

Unmount ==
  /\ pc = "idle" /\ mounted
  /\ lent = "none" => \A f \in Handle : ~Has(f, "DIRTY")
  /\ pc' = "unmount"
  /\ call' = [NoCall EXCEPT !.op = "unmount"]
  /\ UNCHANGED <<disk, lent, mounted, hint, files>>

(* Its loop closes the slots in order, then the kept sector is written. *)
UnmountClose(f) ==
  /\ pc = "unmount"
  /\ Has(f, "OPEN") /\ \A g \in Handle : g < f => ~Has(g, "OPEN")
  /\ call' = [call EXCEPT !.fh = f]
  /\ IF Has(f, "FAILED")
     THEN SetSlot(f, FreeSlot) /\ UNCHANGED pc
     ELSE UNCHANGED files /\ pc' = IF Has(f, "DIRTY") THEN "entry" ELSE "flush"
  /\ UNCHANGED <<disk, lent, mounted, hint>>

UnmountEnd ==
  /\ pc = "unmount" /\ \A f \in Handle : ~Has(f, "OPEN")
  /\ Flush \/ FlushFails
  /\ mounted' = FALSE
  /\ pc' = "idle" /\ call' = NoCall
  /\ UNCHANGED <<lent, hint, files>>

(***************************************************************************)
(* uzefs_open.                                                             *)
(***************************************************************************)
NewSlot(e, mode, k) ==
  [FreeSlot EXCEPT
     !.flags = {"OPEN"} \cup (IF "READ" \in mode THEN {"RD"} ELSE {})
                        \cup (IF "WRITE" \in mode THEN {"WR"} ELSE {}),
     !.ent = e, !.sclust = Ent(k, e).sclust, !.fsize = Ent(k, e).size]

(* The first slot that is not open. *)
Takes(f) == ~Has(f, "OPEN") /\ \A g \in Handle : g < f => Has(g, "OPEN")

OpenChecks(mode) == /\ pc = "idle" /\ mounted
                    /\ "WRITE" \in mode => lent # "none"

OpenExisting(nm, mode, f, e) ==
  /\ OpenChecks(mode) /\ IsHit(View, nm, e)
  /\ "EXCL" \notin mode
  /\ ~Busy(e, "WRITE" \notin mode)
  /\ Takes(f)
  /\ Ent(View, e).sclust \in Cluster \cup {0}
  /\ Ent(View, e).size > 0 => Ent(View, e).sclust # 0
  /\ Load(Scanned(e), DirSect(e))
  /\ LET r == NewSlot(e, mode, View)
         cut == "TRUNC" \in mode /\ r.sclust # 0
         append == "APPEND" \in mode
     IN  /\ SetSlot(f, IF cut THEN [r EXCEPT !.sclust = 0, !.fsize = 0] ELSE r)
         /\ pc' = IF cut THEN "size" ELSE IF append THEN "append" ELSE "idle"
         /\ call' = IF cut \/ append
                    THEN [NoCall EXCEPT !.op = "open", !.fh = f,
                            !.cl = IF cut THEN r.sclust ELSE 0,
                            !.append = append]
                    ELSE NoCall
  /\ UNCHANGED <<lent, mounted, hint>>

(* A missing file is created in the first free entry the scan passed. *)
Created(k, e, nm) == SetEnt(k, e, [name |-> nm, sclust |-> 0, size |-> 0])
CreateChecks(nm, mode, f, e, last) ==
  /\ OpenChecks(mode) /\ NotThere(View, nm, last)
  /\ "CREATE" \in mode
  /\ Takes(f)
  /\ IsFree(View, e) /\ e <= last

OpenNew(nm, mode, f, e, last) ==
  /\ CreateChecks(nm, mode, f, e, last)
  /\ LET k == Created(View, e, nm)
     IN  /\ Put(Scanned(last) \cup {DirSect(e)}, DirSect(e), k)
         /\ SetSlot(f, NewSlot(e, mode, k))
  /\ UNCHANGED <<lent, mounted, hint, pc, call>>

OpenNewFails(nm, mode, f, e, last) ==
  /\ CreateChecks(nm, mode, f, e, last)
  /\ PutFails(Scanned(last) \cup {DirSect(e)}, Created(View, e, nm))
  /\ UNCHANGED <<lent, mounted, hint, files, pc, call>>

(* A lookup that leads to nothing more: uzefs_stat, and every uzefs_open,  *)
(* uzefs_delete and uzefs_rename that is refused, or that the card fails.  *)
Stat(nm, e) ==
  /\ pc = "idle" /\ mounted
  /\ Stops(View, nm, e)
  /\ Load(Scanned(e), DirSect(e)) \/ LoadFails(Scanned(e))
  /\ UNCHANGED <<lent, mounted, hint, files, pc, call>>

(***************************************************************************)
(* Positions: uzefs_seek walks the chain to the cluster of byte p - 1.     *)
(***************************************************************************)
Steps(p) == IF p = 0 THEN 0 ELSE (p - 1) \div UPC
WalkedTo(k, cl, n) == {i \in 0 .. n - 1 : Walk(k, cl, i) \in Cluster}
WalkLoads(k, cl, n) == {FatSect(Walk(k, cl, i)) : i \in WalkedTo(k, cl, n)}
LoadWalk(cl, n) ==
  IF WalkedTo(View, cl, n) = {} THEN UNCHANGED disk
  ELSE \E i \in WalkedTo(View, cl, n) :
         /\ \A j \in WalkedTo(View, cl, n) : j <= i
         /\ Load(WalkLoads(View, cl, n), FatSect(Walk(View, cl, i)))

CanReach(r, p) == p > 0 => Walk(View, r.sclust, Steps(p)) \in Cluster
At(r, p) ==
  IF p = 0 THEN [r EXCEPT !.cclust = 0, !.csect = 0, !.fptr = 0]
  ELSE LET cl == Walk(View, r.sclust, Steps(p))
       IN  [r EXCEPT !.cclust = cl, !.fptr = p,
              !.csect = ClustSect(cl) + (((p - 1) \div UPS) % SPC)]

(* uzefs_open with UZEFS_O_APPEND goes to the end. *)
Append ==
  /\ pc = "append"
  /\ \/ /\ LoadWalk(Cur.sclust, Steps(Cur.fsize))
        /\ IF CanReach(Cur, Cur.fsize)
           THEN SetSlot(call.fh, At(Cur, Cur.fsize)) /\ Return
           ELSE Corrupt
     \/ LoadFails(WalkLoads(View, Cur.sclust, Steps(Cur.fsize))) /\ DiskError
  /\ UNCHANGED <<lent, mounted, hint>>

Ready(f) == pc = "idle" /\ Has(f, "OPEN") /\ ~Has(f, "FAILED")
CanWrite(f) == Ready(f) /\ Has(f, "WR") /\ lent # "none"

Zeros(f, r, n) ==
  /\ SetSlot(f, r)
  /\ pc' = "chunk"
  /\ call' = [NoCall EXCEPT !.op = "write", !.fh = f, !.left = n]

(* Seeking past the end goes to the end, and then writes zeros up to pos. *)
Seek(f, pos) ==
  /\ Ready(f)
  /\ LET past == pos > files[f].fsize
         to == IF past THEN files[f].fsize ELSE pos
         r == IF past THEN With(files[f], {}, {"CONTIG"}) ELSE files[f]
     IN  /\ past => CanWrite(f)
         /\ \/ /\ LoadWalk(r.sclust, Steps(to))
               /\ IF CanReach(r, to)
                  THEN IF past THEN Zeros(f, At(r, to), pos - to)
                       ELSE SetSlot(f, At(r, to)) /\ UNCHANGED <<pc, call>>
                  ELSE SetSlot(f, r) /\ UNCHANGED <<pc, call>>
            \/ /\ LoadFails(WalkLoads(View, r.sclust, Steps(to)))
               /\ SetSlot(f, With(r, {"FAILED"}, {}))
               /\ UNCHANGED <<pc, call>>
  /\ UNCHANGED <<lent, mounted, hint>>

(***************************************************************************)
(* xfer: uzefs_read, uzefs_write and the zeros of a seek past the end.     *)
(* Its loop moves one chunk, at most a sector, at a time: "chunk" finds    *)
(* the sector, taking a cluster in "alloc" if the chain ends, "move" moves *)
(* the data, and a new cluster joins the file in "link" and "join".        *)
(***************************************************************************)
BeginXfer(f, op, n) ==
  /\ pc' = "chunk"
  /\ call' = [NoCall EXCEPT !.op = op, !.fh = f, !.left = n]
  /\ UNCHANGED <<disk, lent, mounted, hint>>

(* Mutant of Write: the mark of uzefs_fragments stays. *)
WriteKeepsMark(f, n) ==
  CanWrite(f) /\ BeginXfer(f, "write", n) /\ UNCHANGED files
Write(f, n) ==
  /\ CanWrite(f)
  /\ SetSlot(f, With(files[f], {}, {"CONTIG"}))
  /\ BeginXfer(f, "write", n)

Read(f, n) ==
  /\ Ready(f) /\ Has(f, "RD")
  /\ files[f].fptr < files[f].fsize
  /\ LET rest == files[f].fsize - files[f].fptr
     IN  BeginXfer(f, "read", IF n > rest THEN rest ELSE n)
  /\ UNCHANGED files

Offset == Cur.fptr % UPS
AtBoundary == Offset = 0
InCluster == Cur.cclust # 0 /\ (Cur.csect + 1) % SPC # 0

(* locate, where it needs no card: the sector of the last byte, or the     *)
(* next one of its cluster.                                                *)
SameCluster ==
  /\ pc = "chunk" /\ (AtBoundary => InCluster)
  /\ SetSlot(call.fh, IF AtBoundary THEN [Cur EXCEPT !.csect = @ + 1] ELSE Cur)
  /\ Goto("move")
  /\ UNCHANGED <<disk, lent, mounted, hint>>

(* locate, into the next cluster of the chain. *)
NextCluster ==
  /\ pc = "chunk" /\ AtBoundary /\ ~InCluster
  /\ LET nx == IF Cur.cclust # 0 THEN FatNext(View, Cur.cclust) ELSE Cur.sclust
         S == IF Cur.cclust # 0 THEN {FatSect(Cur.cclust)} ELSE {}
     IN  \/ /\ Load(S, FatSect(Cur.cclust))
            /\ CASE nx \in Cluster ->
                      /\ SetSlot(call.fh, [Cur EXCEPT !.cclust = nx,
                                             !.csect = ClustSect(nx)])
                      /\ Goto("move")
                 [] nx = 0 /\ call.op = "write" -> UNCHANGED files /\ Goto("alloc")
                 [] OTHER -> Corrupt
         \/ LoadFails(S) /\ DiskError
  /\ UNCHANGED <<lent, mounted, hint>>

(* alloc_cluster: the first free cluster from the hint on, then from 2. *)
FreeFrom(k, cl, from) ==
  /\ from <= cl /\ Fat(k, cl) = 0
  /\ \A d \in Cluster : from <= d /\ d < cl => Fat(k, d) # 0
NoneFrom(k, from) == \A d \in Cluster : from <= d => Fat(k, d) # 0
Takable(cl) == \/ FreeFrom(View, cl, hint)
               \/ NoneFrom(View, hint) /\ FreeFrom(View, cl, 2)

LastFat == (MaxClust - 1) \div FatEps
FatRange(from, to) == {<<"fat", i>> : i \in from \div FatEps .. to}
AllocLoads(cl) ==
  IF cl >= hint THEN FatRange(hint, cl \div FatEps)
  ELSE FatRange(hint, LastFat) \cup FatRange(2, cl \div FatEps)

(* Whatever the sectors of a cluster held before it was taken is foreign. *)
Wiped(k, cl) ==
  [s \in Sector |->
     IF \E i \in 0 .. SPC - 1 : s = DataSect(ClustSect(cl) + i) THEN {} ELSE k[s]]

Alloc(cl) ==
  /\ pc = "alloc" /\ Takable(cl)
  /\ LET k == SetFat(View, cl, EOC)
     IN  \/ /\ card' = Wiped(CardAfterPut(AllocLoads(cl), k), cl)
            /\ HoldPut(FatSect(cl), k)
            /\ hint' = cl + 1
            /\ SetSlot(call.fh, [With(Cur, {"NEWCL"}, {}) EXCEPT
                                   !.csect = ClustSect(cl)])
            /\ Goto("move")
         \/ LoadFails(AllocLoads(cl)) /\ UNCHANGED hint /\ DiskError
         \/ lent = "plain" /\ PutFails({}, k) /\ hint' = cl + 1 /\ DiskError
  /\ UNCHANGED <<lent, mounted>>

(* UZEFS_ERR_FULL leaves the handle as it was. *)
AllocFull ==
  /\ pc = "alloc" /\ NoneFrom(View, 2)
  /\ LET S == FatRange(2, LastFat)
     IN  \/ Load(S, <<"fat", LastFat>>) /\ Return /\ UNCHANGED files
         \/ LoadFails(S) /\ DiskError
  /\ UNCHANGED <<lent, mounted, hint>>

Chunk == IF call.left < UPS - Offset THEN call.left ELSE UPS - Offset
Moved(r) ==
  LET end == r.fptr + Chunk
  IN  [r EXCEPT !.fptr = end, !.fsize = IF end > @ THEN end ELSE @]
(* Another chunk, or the end of the call. *)
Continue(left) ==
  IF left = 0 THEN Return
  ELSE pc' = "chunk" /\ call' = [call EXCEPT !.left = left]

ReadChunk ==
  /\ pc = "move" /\ call.op = "read"
  /\ LET s == DataSect(Cur.csect)
         S == IF Chunk = UPS /\ s \notin DOMAIN kept THEN {} ELSE {s}
     IN  \/ /\ Load(S, s)
            /\ SetSlot(call.fh, Moved(Cur))
            /\ Continue(call.left - Chunk)
         \/ /\ IF S = {} THEN Faults /\ UNCHANGED disk ELSE LoadFails(S)
            /\ DiskError
  /\ UNCHANGED <<lent, mounted, hint>>

(* put_data: a whole sector goes straight to the card, past the buffer,    *)
(* whose copy of it is dropped first.  Part of a sector is merged into it, *)
(* unless nothing in the sector is worth keeping: then the rest is zeros.  *)
WholeSector(n) ==
  /\ card' = SetData(card, n, Offsets)
  /\ IF DataSect(n) \in DOMAIN kept THEN Drop ELSE UNCHANGED <<kept, dirty>>
WholeSectorFails(n) ==
  /\ Faults
  /\ card' \in {card, SetData(card, n, Offsets)}
  /\ IF DataSect(n) \in DOMAIN kept THEN Drop ELSE UNCHANGED <<kept, dirty>>

Fresh == Offset = 0 /\ Cur.fptr + Chunk >= Cur.fsize
Merged(n) ==
  SetData(View, n, IF Fresh THEN Offsets
                   ELSE View[DataSect(n)] \cup Offset .. Offset + Chunk - 1)

(* Mutant of Written: the entry is not known to be behind. *)
WrittenClean == SetSlot(call.fh, Moved(Cur))
Written == SetSlot(call.fh, With(Moved(Cur), {"DIRTY"}, {}))
LinkNext == IF Has(call.fh, "NEWCL")
            THEN pc' = "link" /\ call' = [call EXCEPT !.left = @ - Chunk]
            ELSE Continue(call.left - Chunk)

WriteChunk ==
  /\ pc = "move" /\ call.op = "write"
  /\ IF Chunk = UPS THEN WholeSector(Cur.csect)
     ELSE Put({DataSect(Cur.csect)}, DataSect(Cur.csect), Merged(Cur.csect))
  /\ Written /\ LinkNext
  /\ UNCHANGED <<lent, mounted, hint>>

(* Mutant of WriteChunkFails: the error goes unseen. *)
WriteChunkUnseen ==
  /\ pc = "move" /\ call.op = "write"
  /\ IF Chunk = UPS THEN WholeSectorFails(Cur.csect)
     ELSE PutFails({DataSect(Cur.csect)}, Merged(Cur.csect))
  /\ Written /\ LinkNext
  /\ UNCHANGED <<lent, mounted, hint>>

WriteChunkFails ==
  /\ pc = "move" /\ call.op = "write"
  /\ IF Chunk = UPS THEN WholeSectorFails(Cur.csect)
     ELSE /\ lent = "kept" /\ Fresh => dirty     \* else the card is not used
          /\ PutFails({DataSect(Cur.csect)}, Merged(Cur.csect))
  /\ DiskError
  /\ UNCHANGED <<lent, mounted, hint>>

(* link_new: the size, and for a first cluster its number, go into the     *)
(* entry; then the cluster is linked after the last one.  The new cluster  *)
(* is the one before the hint.                                             *)
NewClust == hint - 1
Linking == [With(Cur, {}, {"NEWCL"}) EXCEPT
              !.sclust = IF Cur.cclust = 0 THEN NewClust ELSE @]
(* Mutant of Linked: the position stays in the last cluster but one. *)
LinkedBehind(r) == r
Linked(r) == [r EXCEPT !.cclust = NewClust]
LinkFails(r) == SetSlot(call.fh, With(Linked(r), {"FAILED"}, {})) /\ Return

(* Mutant of Link: a cluster is linked before the size covers it. *)
LinkBeforeSize ==
  /\ pc = "link"
  /\ IF Cur.cclust = 0 THEN DirWrite(Linking) ELSE FatPut(Cur.cclust, NewClust)
  /\ SetSlot(call.fh, Linked(Linking))
  /\ Continue(call.left)
  /\ UNCHANGED <<lent, mounted, hint>>
Link ==
  /\ pc = "link"
  /\ \/ /\ DirWrite(Linking)
        /\ IF Cur.cclust = 0
           THEN /\ SetSlot(call.fh, Linked(Linking))
                /\ Continue(call.left)
           ELSE SetSlot(call.fh, Linking) /\ Goto("join")
     \/ DirWriteFails(Linking) /\ LinkFails(Linking)
  /\ UNCHANGED <<lent, mounted, hint>>

Join ==
  /\ pc = "join"
  /\ \/ /\ FatPut(Cur.cclust, NewClust)
        /\ SetSlot(call.fh, Linked(Cur))
        /\ Continue(call.left)
     \/ FatPutFails(Cur.cclust, NewClust) /\ LinkFails(Cur)
  /\ UNCHANGED <<lent, mounted, hint>>

(***************************************************************************)
(* uzefs_truncate: cut the chain ("cut"), write the size ("size"), free    *)
(* what was cut ("free").  cut_all, at position 0, has no chain to cut.    *)
(***************************************************************************)
BeginCut(f, r, cl, step) ==
  /\ SetSlot(f, r)
  /\ pc' = step
  /\ call' = [NoCall EXCEPT !.op = "truncate", !.fh = f, !.cl = cl]

Truncate(f) ==
  /\ CanWrite(f)
  /\ LET r == With(files[f], {}, {"CONTIG"})
         nx == FatNext(View, r.cclust)
         cutAt == [r EXCEPT !.fsize = r.fptr]
     IN  IF r.cclust = 0
         THEN /\ BeginCut(f, [r EXCEPT !.sclust = 0, !.fsize = 0], r.sclust, "size")
              /\ UNCHANGED disk
         ELSE \/ /\ Load({FatSect(r.cclust)}, FatSect(r.cclust))
                 /\ CASE nx \in Cluster -> BeginCut(f, cutAt, nx, "cut")
                      [] nx = 0 -> BeginCut(f, cutAt, 0, "size")
                      [] OTHER -> SetSlot(f, cutAt) /\ UNCHANGED <<pc, call>>
              \/ /\ LoadFails({FatSect(r.cclust)})
                 /\ SetSlot(f, With(cutAt, {"FAILED"}, {}))
                 /\ UNCHANGED <<pc, call>>
  /\ UNCHANGED <<lent, mounted, hint>>

Cut ==
  /\ pc = "cut"
  /\ \/ FatPut(Cur.cclust, EOC) /\ Goto("size") /\ UNCHANGED files
     \/ FatPutFails(Cur.cclust, EOC) /\ DiskError
  /\ UNCHANGED <<lent, mounted, hint>>

(* After the end of a truncate, uzefs_open may still have to go to the end. *)
Done == IF call.append THEN Goto("append") ELSE Return

(* cut_chain *)
(* Mutant of CutSize: the chain is freed and the entry left for later. *)
CutSizeLater ==
  /\ pc = "size"
  /\ IF call.cl # 0 THEN Goto("free") ELSE Done
  /\ UNCHANGED <<disk, files, lent, mounted, hint>>
CutSize ==
  /\ pc = "size"
  /\ LET r == With(Cur, {}, {"DIRTY"})
     IN  \/ /\ DirWrite(r)
            /\ SetSlot(call.fh, r)
            /\ IF call.cl # 0 THEN Goto("free") ELSE Done
         \/ /\ DirWriteFails(r)
            /\ SetSlot(call.fh, IF call.op = "open" THEN FreeSlot
                                ELSE With(r, {"FAILED"}, {}))
            /\ Return
  /\ UNCHANGED <<lent, mounted, hint>>

(* free_chain: one cluster a step. *)
(* Mutants of Free: only the first cluster is freed; or all of them are,   *)
(* after a walk to the end of the chain.                                   *)
FreeFirst ==
  /\ pc = "free" /\ call.cl \in Cluster
  /\ FatPut(call.cl, 0) /\ Done
  /\ hint' = (IF call.cl < hint THEN call.cl ELSE hint)
  /\ UNCHANGED <<files, lent, mounted>>
FreeAfterWalk ==
  /\ pc = "free"
  /\ LET nx == FatNext(View, call.cl)
     IN  IF nx \in {0, Bad} THEN Return
                            ELSE pc' = pc /\ call' = [call EXCEPT !.cl = nx]
  /\ UNCHANGED <<disk, lent, mounted, hint, files>>
Free ==
  /\ pc = "free"
  /\ LET cl == call.cl
         nx == FatNext(View, cl)
     IN  \/ /\ nx # Bad
            /\ FatPut(cl, 0)
            /\ hint' = (IF cl < hint THEN cl ELSE hint)
            /\ IF nx # 0 THEN pc' = pc /\ call' = [call EXCEPT !.cl = nx] ELSE Done
            /\ UNCHANGED files
         \/ /\ nx = Bad
            /\ IF cl \in Cluster THEN Load({FatSect(cl)}, FatSect(cl))
                                 ELSE UNCHANGED disk
            /\ Corrupt /\ UNCHANGED hint
         \/ /\ cl \in Cluster
            /\ IF nx # Bad THEN FatPutFails(cl, 0) ELSE LoadFails({FatSect(cl)})
            /\ DiskError /\ UNCHANGED hint
  /\ UNCHANGED <<lent, mounted>>

(***************************************************************************)
(* uzefs_sync and uzefs_close: the entry ("entry"), then the kept sector   *)
(* ("flush").                                                              *)
(***************************************************************************)
Sync(f, op) ==
  /\ pc = "idle" /\ Has(f, "OPEN")
  /\ IF Has(f, "FAILED")
     THEN /\ op = "close" /\ SetSlot(f, FreeSlot)
          /\ UNCHANGED <<pc, call>>
     ELSE /\ Has(f, "DIRTY") => lent # "none"
          /\ pc' = IF Has(f, "DIRTY") THEN "entry" ELSE "flush"
          /\ call' = [NoCall EXCEPT !.op = op, !.fh = f]
          /\ UNCHANGED files
  /\ UNCHANGED <<disk, lent, mounted, hint>>

SyncEntry ==
  /\ pc = "entry"
  /\ \/ DirWrite(Cur) /\ Goto("flush") /\ UNCHANGED files
     \/ DirWriteFails(Cur) /\ DiskError
  /\ UNCHANGED <<lent, mounted, hint>>

SyncDone ==
  /\ pc = "flush"
  /\ Flush
  /\ SetSlot(call.fh, IF call.op = "sync" THEN With(Cur, {}, {"DIRTY"})
                                          ELSE FreeSlot)
  /\ Return
  /\ UNCHANGED <<lent, mounted, hint>>

SyncFlushFails ==
  /\ pc = "flush"
  /\ FlushFails
  /\ DiskError
  /\ UNCHANGED <<lent, mounted, hint>>

(***************************************************************************)
(* uzefs_delete, uzefs_rename, uzefs_fragments.                            *)
(***************************************************************************)
(* find_closed *)
Closed(nm, e) == /\ pc = "idle" /\ mounted /\ lent # "none"
                 /\ IsHit(View, nm, e) /\ ~Busy(e, FALSE)

(* The entry goes first, its chain is freed after. *)
Delete(nm, e) ==
  /\ Closed(nm, e)
  /\ LET k == SetEnt(View, e, [Ent(View, e) EXCEPT !.name = Removed])
         cl == Ent(View, e).sclust
     IN  \/ /\ Put(Scanned(e), DirSect(e), k)
            /\ IF cl # 0
               THEN pc' = "free" /\ call' = [NoCall EXCEPT !.op = "delete", !.cl = cl]
               ELSE UNCHANGED <<pc, call>>
         \/ PutFails(Scanned(e), k) /\ UNCHANGED <<pc, call>>
  /\ UNCHANGED <<lent, mounted, hint, files>>

Rename(from, to, e, last) ==
  /\ Closed(from, e) /\ NotThere(View, to, last)
  /\ LET k == SetEnt(View, e, [Ent(View, e) EXCEPT !.name = to])
         S == Scanned(e) \cup Scanned(last)
     IN  Put(S, DirSect(e), k) \/ PutFails(S, k)
  /\ UNCHANGED <<lent, mounted, hint, files, pc, call>>

(* uzefs_sd_count reads the FAT of the card itself, not the kept sector:   *)
(* how many of the next n entries count up from cl.                        *)
CountsUp(k, cl, n) == \A i \in 0 .. n - 1 : Fat(k, cl + i) = cl + i + 1
IsCount(cl, left, n) ==
  IF cl \in Cluster /\ cl + left < MaxClust
  THEN CountsUp(card, cl, n) /\ (n < left => ~CountsUp(card, cl, n + 1))
  ELSE n = 0

Fragments(f) ==
  /\ Ready(f) /\ files[f].fsize > 0
  /\ LET r == files[f]
         left == Steps(r.fsize)
     IN  \E n \in 0 .. left :
           /\ IsCount(r.sclust, left, n)
           /\ \/ /\ LoadWalk(r.sclust + n, left - n)
                 /\ LET onePiece == \A i \in n .. left - 1 :
                          FatNext(View, r.sclust + i) = r.sclust + i + 1
                    IN  SetSlot(f, With(r, IF onePiece THEN {"CONTIG"} ELSE {}, {}))
              \/ /\ \/ LoadFails(WalkLoads(View, r.sclust + n, left - n))
                    \/ Faults /\ left > 0 /\ UNCHANGED disk
                 /\ SetSlot(f, With(r, {"FAILED"}, {}))
  /\ UNCHANGED <<lent, mounted, hint, pc, call>>

-----------------------------------------------------------------------------
Init ==
  /\ card \in Volumes
  /\ kept = Empty /\ dirty = FALSE
  /\ lent = "none"
  /\ mounted = FALSE
  /\ hint = 2
  /\ files = [f \in Handle |-> FreeSlot]
  /\ pc = "idle" /\ call = NoCall

(* What the host may call. *)
VolumeCall ==
  \/ Mount
  \/ MountFails
  \/ "unmount" \in Calls /\ Unmount
  \/ /\ "lend" \in Calls \/ lent = "none"
     /\ \E how \in Lendings : Lend(how) \/ LendFails(how)
NameCall ==
  \E nm \in Names, e \in Entry :
    \/ Stat(nm, e)
    \/ "delete" \in Calls /\ Delete(nm, e)
    \/ "rename" \in Calls /\ \E to \in Names, last \in Entry :
         Rename(nm, to, e, last)
    \/ \E m \in Modes, f \in Handle :
         \/ OpenExisting(nm, m, f, e)
         \/ \E last \in Entry : OpenNew(nm, m, f, e, last)
                                \/ OpenNewFails(nm, m, f, e, last)
HandleCall ==
  \E f \in Handle :
    \/ "read" \in Calls /\ \E n \in 1 .. MaxXfer : Read(f, n)
    \/ \E n \in 1 .. MaxXfer : files[f].fptr + n <= MaxSize /\ Write(f, n)
    \/ "seek" \in Calls /\ \E pos \in 0 .. MaxSize : Seek(f, pos)
    \/ "truncate" \in Calls /\ Truncate(f)
    \/ "sync" \in Calls /\ Sync(f, "sync")
    \/ Sync(f, "close")
    \/ "fragments" \in Calls /\ Fragments(f)

(* The call in progress goes on. *)
Step ==
  \/ Append \/ SameCluster \/ NextCluster
  \/ \E cl \in Cluster : Alloc(cl)
  \/ AllocFull \/ ReadChunk \/ WriteChunk \/ WriteChunkFails
  \/ Link \/ Join
  \/ Cut \/ CutSize \/ Free
  \/ SyncEntry \/ SyncDone \/ SyncFlushFails
  \/ \E f \in Handle : UnmountClose(f)
  \/ UnmountEnd

Next == VolumeCall \/ NameCall \/ HandleCall \/ Step \/ Crash

Spec == Init /\ [][Next]_vars
(* The processor runs a call that was begun. *)
FairSpec == Spec /\ WF_vars(Step)

(* spec-uzefs.md 12.2, "Repair": hosts have a card on which a file's size  *)
(* runs past its chain repaired before they write that file again.         *)
RepairedFirst ==
  \A f \in Handle : ~Has(f, "WR") /\ Has(f, "WR")' =>
    ClustersFor(files'[f].fsize) <= ChainLen(View, files'[f].sclust)
RepairedSpec == Init /\ [][Next /\ RepairedFirst]_vars

-----------------------------------------------------------------------------
(***************************************************************************)
(* What must hold.                                                         *)
(***************************************************************************)
StepName == {"idle", "unmount", "append", "chunk", "move", "alloc", "link",
             "join", "cut", "size", "free", "entry", "flush"}

(* The type invariant, with what the kept sector's two variables mean: one *)
(* sector at most, only while the buffer is lent to be kept, and the same  *)
(* as the card's copy unless it has changes waiting.                       *)
TypeOK ==
  /\ IsCard(card)
  /\ \/ kept = Empty /\ ~dirty
     \/ /\ lent = "kept"
        /\ \E s \in Sector : /\ DOMAIN kept = {s}
                             /\ kept = [x \in {s} |-> kept[s]]
                             /\ IsContent(s, kept[s])
                             /\ ~dirty => kept[s] = card[s]
  /\ dirty \in BOOLEAN
  /\ lent \in {"none", "plain", "kept"}
  /\ mounted \in BOOLEAN
  /\ hint \in 2 .. MaxClust
  /\ files \in [Handle -> Slot]
  /\ pc \in StepName
  /\ call \in [op : Op, fh : Handle, left : Nat, cl : 0 .. MaxClust,
               append : BOOLEAN]

(* spec-uzefs.md 12.2: whenever the power goes, no cluster of the card is  *)
(* in two chains, and none is in a chain and marked free.                  *)
CardSound == SoundChains(card)

SizesCover(k) ==
  \A e \in Entry : Used(k, e) =>
    ChainLen(k, Ent(k, e).sclust) <= ClustersFor(Ent(k, e).size)
(* spec-uzefs.md 12.1: on a card that came sound, whenever the power goes  *)
(* no file's size falls short of its chain, which a repair would hand it   *)
(* stale bytes for.                                                        *)
SizeCoversChain == SoundChains(card) => []SizesCover(card)

(* Byte p of the chain from cl holds what was written there since its      *)
(* cluster was taken.                                                      *)
HoldsOwn(k, cl, p) ==
  LET n == ClustSect(Walk(k, cl, p \div UPC)) + ((p % UPC) \div UPS)
  IN  p % UPS \in k[DataSect(n)]
(* spec-uzefs.md 12: whenever the power goes, every byte that a file's     *)
(* size and chain give it is one that was written to it.  RepairedSpec has *)
(* it; under Spec, after a power cut or an error has left a size past its  *)
(* chain, a file written again shows what its new cluster held before.     *)
NoStaleBytes ==
  \A e \in Entry : Used(card, e) =>
    LET r == Ent(card, e)
        chain == ChainLen(card, r.sclust) * UPC
    IN  \A p \in 0 .. r.size - 1 : p < chain => HoldsOwn(card, r.sclust, p)

Live(f) == Has(f, "OPEN") /\ ~Has(f, "FAILED")

(* Between calls a slot's position is where a walk down the chain its      *)
(* entry names would put it (locate and link_new go on from there).        *)
PositionsAgree ==
  pc = "idle" => \A f \in Handle : Live(f) =>
    LET r == files[f]
    IN  /\ Used(View, r.ent) /\ Ent(View, r.ent).sclust = r.sclust
        /\ r.fptr <= r.fsize
        /\ CanReach(r, r.fptr)
        /\ At(r, r.fptr).cclust = r.cclust
        /\ At(r, r.fptr).csect = r.csect

(* spec-uzefs.md 12.2: between calls the card lacks, of an open file, only *)
(* how far it has grown inside its last cluster since its last sync.       *)
LagInLastCluster ==
  pc = "idle" => \A f \in Handle : Live(f) =>
    LET r == files[f]
        size == Ent(View, r.ent).size
    IN  /\ size <= r.fsize
        /\ ClustersFor(size) = ClustersFor(r.fsize)
        /\ size # r.fsize => Has(f, "DIRTY")

(* With no error and no power cut, a cluster in use between calls belongs  *)
(* to a file: none is lost.                                                *)
NoLostCluster ==
  pc = "idle" => \A cl \in Cluster : Fat(View, cl) # 0 =>
    \E e \in Entry : Used(View, e) /\ cl \in Chain(View, Ent(View, e).sclust)

(* spec-uzefs.md 7.3: a file open for writing has no other handle.         *)
WriterExcludes ==
  \A f, g \in Handle :
    /\ f # g /\ Has(f, "WR") /\ Has(g, "OPEN")
    => files[f].ent # files[g].ent

(* A slot that uzefs_fragments marked contiguous still is: uzefs_extent    *)
(* answers from the mark without reading the FAT.                          *)
ContigIsInOnePiece ==
  \A f \in Handle : Has(f, "CONTIG") =>
    \A i \in 0 .. Steps(files[f].fsize) - 1 :
      FatNext(View, files[f].sclust + i) = files[f].sclust + i + 1

(* The card holds all of the file of slot r.  One that is only read may    *)
(* have come with a size past its chain; then all there is of it.          *)
OnCard(k, r) ==
  LET chain == ChainLen(k, r.sclust)
  IN  /\ Used(k, r.ent)
      /\ Ent(k, r.ent).sclust = r.sclust /\ Ent(k, r.ent).size = r.fsize
      /\ chain <= ClustersFor(r.fsize)
      /\ "WR" \in r.flags => chain = ClustersFor(r.fsize)
      /\ \A p \in 0 .. r.fsize - 1 : p < chain * UPC => HoldsOwn(k, r.sclust, p)
(* spec-uzefs.md 5.3: after a uzefs_sync or uzefs_close that succeeded the *)
(* card holds everything, whatever waited in the kept sector and whatever  *)
(* failed before, as long as hosts repair first (RepairedSpec).            *)
SyncedIsOnCard == [][SyncDone => OnCard(card', Cur)]_vars

(* Every call returns, on a damaged volume too: a loop in a chain ends it. *)
CallsReturn == (pc # "idle") ~> (pc = "idle")

=============================================================================
