----------------------------- MODULE UzeFSProofs -----------------------------
(***************************************************************************)
(* Proofs about UzeFS, for every geometry of the volume, number of files,  *)
(* mode and way to lend the buffer, with card errors and power cuts.       *)
(***************************************************************************)
EXTENDS UzeFS, TLAPS

-----------------------------------------------------------------------------
(* Sectors of the three kinds are different, and each entry has one. *)
LEMMA Sectors ==
  /\ \A cl \in Cluster : FatSect(cl) \in FatSectors /\ FatSect(cl) \in Sector
  /\ \A e \in Entry : DirSect(e) \in DirSectors /\ DirSect(e) \in Sector
  /\ \A n \in 0 .. NDataSects - 1 :
       DataSect(n) \in DataSectors /\ DataSect(n) \in Sector
  /\ FatSectors \cap DirSectors = {}
  /\ FatSectors \cap DataSectors = {}
  /\ DirSectors \cap DataSectors = {}
<1>1. \A cl, e : FatSect(cl) # DirSect(e)
  BY DEF FatSect, DirSect
<1>2. \A cl, n : FatSect(cl) # DataSect(n)
  BY DEF FatSect, DataSect
<1>3. \A e, n : DirSect(e) # DataSect(n)
  BY DEF DirSect, DataSect
<1>4. QED
  BY <1>1, <1>2, <1>3 DEF Sector, FatSectors, DirSectors, DataSectors

(* The values of a FAT entry are told apart. *)
LEMMA FatValues ==
  /\ 0 \notin Cluster /\ Bad \notin Cluster /\ EOC \notin Cluster
  /\ EOC # 0 /\ EOC # Bad /\ Bad # 0
  /\ EOC \in FatValue /\ 0 \in FatValue /\ Bad \in FatValue
  /\ Cluster \subseteq FatValue
  /\ FatValue \subseteq 0 .. MaxClust
  /\ Cluster \subseteq 2 .. MaxClust
BY GeometryAssumption DEF Cluster, Bad, EOC, FatValue

(* What an entry of a card is. *)
LEMMA Entries ==
  ASSUME NEW k, IsCard(k)
  PROVE  /\ \A cl \in Cluster : Fat(k, cl) \in FatValue
         /\ \A e \in Entry : Ent(k, e) \in DirEnt
<1>1. ASSUME NEW cl \in Cluster PROVE Fat(k, cl) \in FatValue
  <2>1. k[FatSect(cl)] \in [{c \in Cluster : FatSect(c) = FatSect(cl)} -> FatValue]
    BY Sectors DEF IsCard, IsContent
  <2>2. QED
    BY <2>1 DEF Fat
<1>2. ASSUME NEW e \in Entry PROVE Ent(k, e) \in DirEnt
  <2>1. k[DirSect(e)] \in [{g \in Entry : DirSect(g) = DirSect(e)} -> DirEnt]
    BY Sectors DEF IsCard, IsContent
  <2>2. QED
    BY <2>1 DEF Ent
<1>3. QED
  BY <1>1, <1>2

(* Changing one FAT entry of a card gives a card. *)
LEMMA SetFatCard ==
  ASSUME NEW k, IsCard(k), NEW cl \in Cluster, NEW v \in FatValue
  PROVE  /\ IsCard(SetFat(k, cl, v))
         /\ \A c \in Cluster : Fat(SetFat(k, cl, v), c) = IF c = cl THEN v ELSE Fat(k, c)
         /\ \A e \in Entry : Ent(SetFat(k, cl, v), e) = Ent(k, e)
<1> DEFINE j == SetFat(k, cl, v)
<1>1. k = [s \in Sector |-> k[s]]
  BY DEF IsCard
<1>2. j = [s \in Sector |-> IF s = FatSect(cl) THEN [k[s] EXCEPT ![cl] = v] ELSE k[s]]
  BY <1>1, Sectors DEF SetFat
<1>3. k[FatSect(cl)] \in [{c \in Cluster : FatSect(c) = FatSect(cl)} -> FatValue]
  BY Sectors DEF IsCard, IsContent
<1>4. ASSUME NEW s \in Sector PROVE IsContent(s, j[s])
  <2>1. CASE s = FatSect(cl)
    BY <2>1, <1>2, <1>3, Sectors DEF IsContent
  <2>2. CASE s # FatSect(cl)
    BY <2>2, <1>2 DEF IsCard
  <2>3. QED
    BY <2>1, <2>2
<1>5. IsCard(j)
  BY <1>2, <1>4 DEF IsCard
<1>6. ASSUME NEW c \in Cluster
      PROVE  Fat(j, c) = IF c = cl THEN v ELSE Fat(k, c)
  <2>1. CASE FatSect(c) = FatSect(cl)
    BY <2>1, <1>2, <1>3, Sectors DEF Fat
  <2>2. CASE FatSect(c) # FatSect(cl)
    BY <2>2, <1>2, Sectors DEF Fat
  <2>3. QED
    BY <2>1, <2>2
<1>7. ASSUME NEW e \in Entry PROVE Ent(j, e) = Ent(k, e)
  BY <1>2, Sectors DEF Ent
<1>8. QED
  BY <1>5, <1>6, <1>7

(* Changing one directory entry of a card gives a card. *)
LEMMA SetEntCard ==
  ASSUME NEW k, IsCard(k), NEW e \in Entry, NEW r \in DirEnt
  PROVE  /\ IsCard(SetEnt(k, e, r))
         /\ \A g \in Entry : Ent(SetEnt(k, e, r), g) = IF g = e THEN r ELSE Ent(k, g)
         /\ \A c \in Cluster : Fat(SetEnt(k, e, r), c) = Fat(k, c)
<1> DEFINE j == SetEnt(k, e, r)
<1>1. k = [s \in Sector |-> k[s]]
  BY DEF IsCard
<1>2. j = [s \in Sector |-> IF s = DirSect(e) THEN [k[s] EXCEPT ![e] = r] ELSE k[s]]
  BY <1>1, Sectors DEF SetEnt
<1>3. k[DirSect(e)] \in [{g \in Entry : DirSect(g) = DirSect(e)} -> DirEnt]
  BY Sectors DEF IsCard, IsContent
<1>4. ASSUME NEW s \in Sector PROVE IsContent(s, j[s])
  <2>1. CASE s = DirSect(e)
    BY <2>1, <1>2, <1>3, Sectors DEF IsContent
  <2>2. CASE s # DirSect(e)
    BY <2>2, <1>2 DEF IsCard
  <2>3. QED
    BY <2>1, <2>2
<1>5. IsCard(j)
  BY <1>2, <1>4 DEF IsCard
<1>6. ASSUME NEW g \in Entry
      PROVE  Ent(j, g) = IF g = e THEN r ELSE Ent(k, g)
  <2>1. CASE DirSect(g) = DirSect(e)
    BY <2>1, <1>2, <1>3, Sectors DEF Ent
  <2>2. CASE DirSect(g) # DirSect(e)
    BY <2>2, <1>2, Sectors DEF Ent
  <2>3. QED
    BY <2>1, <2>2
<1>7. ASSUME NEW c \in Cluster PROVE Fat(j, c) = Fat(k, c)
  BY <1>2, Sectors DEF Fat
<1>8. QED
  BY <1>5, <1>6, <1>7

(* Data sectors are no part of the FAT or the directory. *)
LEMMA DataCard ==
  ASSUME NEW k, IsCard(k), NEW j, j = [s \in Sector |-> j[s]],
         \A s \in Sector : j[s] = k[s] \/ (s \in DataSectors /\ j[s] \in SUBSET Offsets)
  PROVE  /\ IsCard(j)
         /\ \A c \in Cluster : Fat(j, c) = Fat(k, c)
         /\ \A e \in Entry : Ent(j, e) = Ent(k, e)
<1>1. ASSUME NEW s \in Sector PROVE IsContent(s, j[s])
  <2>1. CASE j[s] = k[s]
    BY <2>1 DEF IsCard
  <2>2. CASE s \in DataSectors /\ j[s] \in SUBSET Offsets
    BY <2>2, Sectors DEF IsContent
  <2>3. QED
    BY <2>1, <2>2
<1>2. \A s \in FatSectors \cup DirSectors : j[s] = k[s]
  BY Sectors DEF Sector
<1>3. QED
  BY <1>1, <1>2, Sectors DEF IsCard, Fat, Ent

(* Changing one data sector of a card gives a card. *)
LEMMA SetDataCard ==
  ASSUME NEW k, IsCard(k), NEW n \in 0 .. NDataSects - 1, NEW v \in SUBSET Offsets
  PROVE  /\ IsCard(SetData(k, n, v))
         /\ \A c \in Cluster : Fat(SetData(k, n, v), c) = Fat(k, c)
         /\ \A e \in Entry : Ent(SetData(k, n, v), e) = Ent(k, e)
<1> DEFINE j == SetData(k, n, v)
<1>1. j = [s \in Sector |-> IF s = DataSect(n) THEN v ELSE k[s]]
  BY Sectors DEF SetData, IsCard
<1>2. QED
  BY <1>1, Sectors, DataCard

-----------------------------------------------------------------------------
(***************************************************************************)
(* The sector layer.  DiskOK is what TypeOK says of the card and the kept  *)
(* sector; every operation of the layer preserves it.                      *)
(***************************************************************************)
KeptOK ==
  \/ kept = Empty /\ ~dirty
  \/ /\ lent = "kept"
     /\ \E s \in Sector : /\ DOMAIN kept = {s}
                          /\ kept = [x \in {s} |-> kept[s]]
                          /\ IsContent(s, kept[s])
                          /\ ~dirty => kept[s] = card[s]
DiskOK == IsCard(card) /\ KeptOK /\ dirty \in BOOLEAN

(* What the library reads is a card, and is the card itself while no       *)
(* changes wait.                                                           *)
LEMMA ViewCard ==
  ASSUME DiskOK
  PROVE  /\ IsCard(View)
         /\ ~dirty => View = card
         /\ lent # "kept" => View = card /\ kept = Empty /\ ~dirty
         /\ \A s \in Sector : s \in DOMAIN kept => View[s] = kept[s]
         /\ \A s \in Sector : s \notin DOMAIN kept => View[s] = card[s]
<1>1. View = [s \in Sector |-> View[s]]
  BY DEF View
<1>2. \A s \in Sector : View[s] = IF s \in DOMAIN kept THEN kept[s] ELSE card[s]
  BY DEF View
<1>3. card = [s \in Sector |-> card[s]]
  BY DEF DiskOK, IsCard
<1>4. CASE kept = Empty /\ ~dirty
  <2>1. DOMAIN kept = {}
    BY <1>4 DEF Empty
  <2>2. View = card
    BY <2>1, <1>2, <1>3, <1>1
  <2>3. QED
    BY <2>1, <2>2, <1>4, <1>2 DEF DiskOK
<1>5. CASE lent = "kept" /\ ~(kept = Empty /\ ~dirty)
  <2>1. PICK s \in Sector : /\ DOMAIN kept = {s}
                            /\ IsContent(s, kept[s])
                            /\ ~dirty => kept[s] = card[s]
    BY <1>5 DEF DiskOK, KeptOK
  <2>2. \A x \in Sector : IsContent(x, View[x])
    BY <2>1, <1>2 DEF DiskOK, IsCard
  <2>3. IsCard(View)
    BY <2>2, <1>1 DEF IsCard
  <2>4. ~dirty => View = card
    BY <2>1, <1>1, <1>2, <1>3
  <2>5. QED
    BY <2>3, <2>4, <1>2, <1>5
<1>6. QED
  BY <1>4, <1>5 DEF DiskOK, KeptOK

(* A card with its own buffer empty is what the library reads. *)
LEMMA DropOK ==
  ASSUME Drop, IsCard(card')
  PROVE  DiskOK' /\ View' = card'
<1>1. kept' = Empty /\ dirty' = FALSE
  BY DEF Drop
<1>2. DiskOK'
  BY <1>1 DEF DiskOK, KeptOK
<1>3. View' = [s \in Sector |-> card'[s]]
  BY <1>1 DEF View, Empty
<1>4. card' = [s \in Sector |-> card'[s]]
  BY DEF IsCard
<1>5. QED
  BY <1>2, <1>3, <1>4

(* Nothing of the sector layer changes. *)
LEMMA SameDiskOK ==
  ASSUME DiskOK, UNCHANGED disk, UNCHANGED lent
  PROVE  DiskOK' /\ View' = View /\ card' = card
BY DEF DiskOK, KeptOK, disk, View, IsCard, IsContent

(* A sector of a card in the buffer is read as it is in that card. *)
LEMMA HoldOK ==
  ASSUME NEW k, IsCard(k), NEW s \in Sector,
         IsCard(card'), \A x \in Sector : x # s => card'[x] = k[x],
         lent' = "kept", kept' = [x \in {s} |-> k[s]],
         dirty' \in BOOLEAN, ~dirty' => k[s] = card'[s]
  PROVE  DiskOK' /\ View' = k
<1>1. DOMAIN kept' = {s} /\ kept'[s] = k[s] /\ kept' = [x \in {s} |-> kept'[s]]
  OBVIOUS
<1>2. IsContent(s, k[s])
  BY DEF IsCard
<1>3. KeptOK'
  BY <1>1, <1>2 DEF KeptOK, IsContent
<1>4. View' = [x \in Sector |-> k[x]]
  BY <1>1 DEF View
<1>5. k = [x \in Sector |-> k[x]]
  BY DEF IsCard
<1>6. QED
  BY <1>3, <1>4, <1>5 DEF DiskOK

(* Reading sectors through the buffer changes nothing that is read; on the *)
(* card it writes at most what was waiting (win_load).                     *)
LEMMA LoadOK ==
  ASSUME DiskOK, UNCHANGED lent, NEW S, NEW s,
         S # {} => s \in S /\ s \in Sector, Load(S, s)
  PROVE  DiskOK' /\ View' = View /\ card' \in {card, View}
<1>1. CASE ~(lent = "kept" /\ S # {})
  <2>1. UNCHANGED disk
    BY <1>1 DEF Load
  <2>2. QED
    BY <2>1, SameDiskOK
<1>2. CASE lent = "kept" /\ S # {}
  <2>1. /\ card' = CardAfterLoad(S)
        /\ kept' = [x \in {s} |-> View[s]]
        /\ dirty' = (dirty /\ S \subseteq DOMAIN kept)
    BY <1>2 DEF Load
  <2>2. IsCard(View) /\ IsCard(card) /\ dirty \in BOOLEAN
    BY ViewCard DEF DiskOK
  <2>3. CASE ~(S \subseteq DOMAIN kept)
    <3>1. card' = View /\ ~dirty'
      BY <1>2, <2>1, <2>3 DEF CardAfterLoad
    <3>2. QED
      BY <3>1, <2>1, <2>2, <1>2, HoldOK
  <2>4. CASE S \subseteq DOMAIN kept
    <3>1. card' = card /\ dirty' = dirty
      BY <1>2, <2>1, <2>2, <2>4 DEF CardAfterLoad
    <3>2. DOMAIN kept = {s}
      BY <1>2, <2>4 DEF DiskOK, KeptOK, Empty
    <3>3. \A x \in Sector : x # s => card'[x] = View[x]
      BY <3>1, <3>2, ViewCard
    <3>4. ~dirty' => View[s] = card'[s]
      BY <3>1, ViewCard
    <3>5. QED
      BY <3>1, <3>3, <3>4, <2>1, <2>2, <1>2, HoldOK
  <2>5. QED
    BY <2>3, <2>4
<1>3. QED
  BY <1>1, <1>2

(* Changing one sector through the buffer changes it in what is read; on   *)
(* the card it writes at most that or what was waiting (win_put).          *)
LEMMA PutOK ==
  ASSUME DiskOK, UNCHANGED lent, NEW S, NEW s \in Sector, s \in S,
         NEW k, IsCard(k), \A x \in Sector : x # s => k[x] = View[x],
         Put(S, s, k)
  PROVE  DiskOK' /\ View' = k /\ card' \in {card, View, k}
<1>1. card' = CardAfterPut(S, k) /\ HoldPut(s, k)
  BY DEF Put
<1>2. IsCard(View) /\ IsCard(card)
  BY ViewCard DEF DiskOK
<1>3. CASE lent = "kept"
  <2>1. kept' = [x \in {s} |-> k[s]] /\ dirty' = TRUE
    BY <1>1, <1>3 DEF HoldPut
  <2>2. card' = CardAfterLoad(S)
    BY <1>1, <1>3 DEF CardAfterPut
  <2>3. \A x \in Sector : x # s => card'[x] = k[x]
    <3>1. CASE ~(S \subseteq DOMAIN kept)
      BY <3>1, <2>2, <1>3 DEF CardAfterLoad
    <3>2. CASE S \subseteq DOMAIN kept
      <4>1. DOMAIN kept = {s}
        BY <3>2 DEF DiskOK, KeptOK, Empty
      <4>2. card' = card
        BY <3>2, <2>2 DEF CardAfterLoad
      <4>3. QED
        BY <4>1, <4>2, ViewCard
    <3>3. QED
      BY <3>1, <3>2
  <2>4. card' \in {card, View}
    BY <2>2 DEF CardAfterLoad
  <2>5. QED
    BY <2>1, <2>3, <2>4, <1>2, <1>3, HoldOK
<1>4. CASE lent # "kept"
  <2>1. card' = k /\ Drop
    BY <1>1, <1>4 DEF CardAfterPut, HoldPut, Drop
  <2>2. QED
    BY <2>1, DropOK
<1>5. QED
  BY <1>3, <1>4

(* A read that fails may drop what was waiting, and then the card is read. *)
LEMMA LoadFailsOK ==
  ASSUME DiskOK, UNCHANGED lent, NEW S, LoadFails(S)
  PROVE  DiskOK' /\ View' \in {card, View} /\ card' \in {card, View}
<1>1. IsCard(View) /\ IsCard(card)
  BY ViewCard DEF DiskOK
<1>2. CASE lent = "kept"
  BY <1>1, <1>2, DropOK DEF LoadFails
<1>3. CASE lent # "kept"
  BY <1>3, SameDiskOK DEF LoadFails
<1>4. QED
  BY <1>2, <1>3

(* A change that fails leaves the buffer empty: the card is read, with all *)
(* or nothing of one sector written.                                       *)
LEMMA PutFailsOK ==
  ASSUME DiskOK, UNCHANGED lent, NEW S, NEW k, IsCard(k), PutFails(S, k)
  PROVE  DiskOK' /\ View' = card' /\ card' \in {card, View, k}
<1>1. IsCard(View) /\ IsCard(card)
  BY ViewCard DEF DiskOK
<1>2. Drop /\ card' \in {card, View, k}
  BY DEF PutFails
<1>3. QED
  BY <1>1, <1>2, DropOK

(* win_flush changes nothing that is read. *)
LEMMA FlushOK ==
  ASSUME DiskOK, UNCHANGED lent, Flush
  PROVE  DiskOK' /\ View' = View /\ card' = View
<1>1. card' = View /\ dirty' = FALSE /\ kept' = kept
  BY ViewCard DEF Flush
<1>2. IsCard(View)
  BY ViewCard
<1>3. KeptOK'
  BY <1>1, ViewCard DEF DiskOK, KeptOK, Empty, IsContent
<1>4. View' = View
  <2>1. \A s \in Sector : View'[s] = View[s]
    BY <1>1, ViewCard DEF View
  <2>2. QED
    BY <2>1 DEF View
<1>5. QED
  BY <1>1, <1>2, <1>3, <1>4 DEF DiskOK

(* A win_flush that fails leaves the buffer empty. *)
LEMMA FlushFailsOK ==
  ASSUME DiskOK, UNCHANGED lent, FlushFails
  PROVE  DiskOK' /\ View' = card' /\ card' \in {card, View}
<1>1. IsCard(View) /\ IsCard(card)
  BY ViewCard DEF DiskOK
<1>2. QED
  BY <1>1, DropOK DEF FlushFails

-----------------------------------------------------------------------------
(***************************************************************************)
(* The invariant.  DiskOK and CtrlOK together are TypeOK and what a call   *)
(* in progress may count on.                                               *)
(***************************************************************************)
(* A transfer works on a slot that has not failed; only a write extends it. *)
TransferOK ==
  pc \in {"chunk", "alloc", "move", "link", "join"} =>
    /\ ~Has(call.fh, "FAILED")
    /\ call.op \in {"read", "write"}
    /\ pc = "alloc" => call.op = "write"

(* A slot has a cluster to link only while the write that took it goes on, *)
(* or after that write failed.                                             *)
NewClOK ==
  \A f \in Handle : Has(f, "NEWCL") =>
    Has(f, "FAILED") \/ (f = call.fh /\ pc \in {"move", "link"})

(* The cluster to link is the one before the hint. *)
HintOK ==
  (pc \in {"link", "join"} \/ (pc = "move" /\ Has(call.fh, "NEWCL"))) =>
    hint > 2 /\ call.op = "write"

(* There is a cluster to link it to, or to cut the chain at. *)
ClustOK == pc \in {"join", "cut"} => Cur.cclust # 0

CallType == [op : Op, fh : Handle, left : Nat, cl : 0 .. MaxClust,
             append : BOOLEAN]
CtrlOK ==
  /\ lent \in {"none", "plain", "kept"}
  /\ mounted \in BOOLEAN
  /\ hint \in 2 .. MaxClust
  /\ files \in [Handle -> Slot]
  /\ pc \in StepName
  /\ call \in CallType
  /\ TransferOK /\ NewClOK /\ HintOK /\ ClustOK
IndInv == DiskOK /\ CtrlOK

(* TypeOK is a part of the invariant. *)
LEMMA IndInvTypeOK == IndInv => TypeOK
BY DEF IndInv, DiskOK, KeptOK, CtrlOK, CallType, TypeOK

-----------------------------------------------------------------------------
(* Slots.                                                                  *)

(* A slot that was never opened. *)
LEMMA FreeSlotOK == FreeSlot \in Slot /\ FreeSlot.flags = {} /\ 0 \in Handle
<1>1. 0 \in 0 .. NDataSects - 1
  BY GeometryAssumption DEF NDataSects
<1>2. 0 \in Entry /\ 0 \in Handle
  BY GeometryAssumption, FilesAssumption DEF Entry, Handle
<1>3. QED
  BY <1>1, <1>2 DEF FreeSlot, Slot

(* A change of one slot leaves the others alone. *)
LEMMA SetSlotOK ==
  ASSUME files \in [Handle -> Slot], NEW f \in Handle, NEW r \in Slot, SetSlot(f, r)
  PROVE  /\ files' \in [Handle -> Slot]
         /\ files'[f] = r
         /\ \A g \in Handle : g # f => files'[g] = files[g]
BY DEF SetSlot

(* A change of flags leaves the rest of a slot alone. *)
LEMMA WithOK ==
  ASSUME NEW r \in Slot, NEW on \in SUBSET Flag, NEW off
  PROVE  /\ With(r, on, off) \in Slot
         /\ With(r, on, off).flags = (r.flags \ off) \cup on
         /\ With(r, on, off).ent = r.ent
         /\ With(r, on, off).sclust = r.sclust
         /\ With(r, on, off).cclust = r.cclust
         /\ With(r, on, off).csect = r.csect
         /\ With(r, on, off).fptr = r.fptr
         /\ With(r, on, off).fsize = r.fsize
BY DEF With, Slot

(* Clearing flags is a change of flags. *)
LEMMA WithoutOK ==
  ASSUME NEW r \in Slot, NEW off
  PROVE  /\ With(r, {}, off) \in Slot
         /\ With(r, {}, off).flags = r.flags \ off
         /\ With(r, {}, off).ent = r.ent
         /\ With(r, {}, off).sclust = r.sclust
         /\ With(r, {}, off).cclust = r.cclust
         /\ With(r, {}, off).csect = r.csect
         /\ With(r, {}, off).fptr = r.fptr
         /\ With(r, {}, off).fsize = r.fsize
BY DEF With, Slot

(* The first sector of a cluster is one of the card's, and so are the next *)
(* SPC - 1.                                                                *)
LEMMA ClustSectOK ==
  ASSUME NEW cl \in Cluster, NEW i \in 0 .. SPC - 1
  PROVE  ClustSect(cl) + i \in 0 .. NDataSects - 1
<1>1. SPC \in Nat /\ SPC > 0 /\ MaxClust \in Nat
  BY GeometryAssumption
<1>2. cl - 2 \in Nat /\ cl - 2 <= MaxClust - 3
  BY <1>1 DEF Cluster
<1>3. (cl - 2) * SPC <= (MaxClust - 3) * SPC
  BY <1>1, <1>2
<1>4. (MaxClust - 3) * SPC = (MaxClust - 2) * SPC - SPC
  BY <1>1
<1>5. (cl - 2) * SPC \in Nat
  BY <1>1, <1>2
<1>6. (MaxClust - 2) * SPC \in Int
  BY <1>1
<1> DEFINE a == (cl - 2) * SPC  b == (MaxClust - 3) * SPC  c == (MaxClust - 2) * SPC
<1>7. a + i \in 0 .. c - 1
  <2>1. a \in Nat /\ a <= b /\ b = c - SPC /\ c \in Int
    BY <1>3, <1>4, <1>5, <1>6
  <2> HIDE DEF a, b, c
  <2>2. QED
    BY <2>1, <1>1
<1>8. QED
  BY <1>7 DEF ClustSect, NDataSects

(* The last sector of the data area ends a cluster. *)
LEMMA NextSectOK ==
  ASSUME NEW n \in 0 .. NDataSects - 1, (n + 1) % SPC # 0
  PROVE  n + 1 \in 0 .. NDataSects - 1
<1>1. SPC \in Nat /\ SPC > 0 /\ MaxClust \in Nat /\ MaxClust > 2
  BY GeometryAssumption
<1>2. ((MaxClust - 2) * SPC) % SPC = 0
  BY <1>1
<1>3. n + 1 # NDataSects
  BY <1>2 DEF NDataSects
<1>4. NDataSects \in Int
  BY <1>1 DEF NDataSects
<1>5. QED
  BY <1>3, <1>4

(* The next cluster of a chain, or why there is none. *)
LEMMA FatNextOK ==
  ASSUME NEW k, NEW cl
  PROVE  /\ FatNext(k, cl) \in Cluster \cup {0, Bad}
         /\ FatNext(k, cl) # Bad => cl \in Cluster
BY DEF FatNext

(* Going to a position the chain reaches gives a slot. *)
LEMMA AtOK ==
  ASSUME NEW r \in Slot, NEW p \in Nat, CanReach(r, p)
  PROVE  At(r, p) \in Slot /\ At(r, p).flags = r.flags
<1>1. 0 \in 0 .. NDataSects - 1 /\ SPC \in Nat /\ SPC > 0 /\ UPS \in Nat /\ UPS > 0
  BY FreeSlotOK, GeometryAssumption DEF NDataSects
<1>2. CASE p = 0
  BY <1>1, <1>2 DEF At, Slot
<1>3. CASE p > 0
  <2> DEFINE cl == Walk(View, r.sclust, Steps(p))
             i == ((p - 1) \div UPS) % SPC
  <2>1. cl \in Cluster
    BY <1>3 DEF CanReach
  <2>2. i \in 0 .. SPC - 1
    <3>1. (p - 1) \div UPS \in Nat
      BY <1>1, <1>3
    <3>2. QED
      BY <3>1, <1>1
  <2>3. ClustSect(cl) + i \in 0 .. NDataSects - 1
    BY <2>1, <2>2, ClustSectOK
  <2>4. At(r, p) = [r EXCEPT !.cclust = cl, !.fptr = p, !.csect = ClustSect(cl) + i]
    BY <1>3 DEF At
  <2> HIDE DEF cl, i
  <2>5. QED
    BY <2>1, <2>3, <2>4 DEF Slot
<1>4. QED
  BY <1>2, <1>3

(* The sector the walk down a chain reads last is one it reads. *)
LEMMA LoadWalkOK ==
  ASSUME DiskOK, UNCHANGED lent, NEW cl, NEW n, LoadWalk(cl, n)
  PROVE  DiskOK' /\ View' = View /\ card' \in {card, View}
<1>1. CASE WalkedTo(View, cl, n) = {}
  BY <1>1, SameDiskOK DEF LoadWalk
<1>2. CASE WalkedTo(View, cl, n) # {}
  <2>1. PICK i \in WalkedTo(View, cl, n) :
          Load(WalkLoads(View, cl, n), FatSect(Walk(View, cl, i)))
    BY <1>2 DEF LoadWalk
  <2>2. Walk(View, cl, i) \in Cluster
    BY DEF WalkedTo
  <2>3. FatSect(Walk(View, cl, i)) \in WalkLoads(View, cl, n)
    BY DEF WalkLoads
  <2>4. FatSect(Walk(View, cl, i)) \in Sector
    BY <2>2, Sectors
  <2>5. QED
    BY <2>1, <2>3, <2>4, LoadOK
<1>3. QED
  BY <1>1, <1>2

(* The last sector of the FAT is the one of the last cluster's entry. *)
LEMMA LastFatOK ==
  /\ <<"fat", LastFat>> \in Sector
  /\ <<"fat", LastFat>> \in FatRange(2, LastFat)
<1>1. MaxClust - 1 \in Cluster
  BY GeometryAssumption DEF Cluster
<1>2. <<"fat", LastFat>> = FatSect(MaxClust - 1)
  BY DEF LastFat, FatSect
<1>3. 2 \div FatEps <= LastFat /\ 2 \div FatEps \in Int /\ LastFat \in Int
  BY GeometryAssumption DEF LastFat
<1>4. LastFat \in (2 \div FatEps) .. LastFat
  BY <1>3
<1>5. QED
  BY <1>1, <1>2, <1>4, Sectors DEF FatRange

(* The search for a free cluster ends in the sector of the one it takes. *)
LEMMA AllocLoadsOK ==
  ASSUME NEW cl \in Cluster, hint \in 2 .. MaxClust
  PROVE  FatSect(cl) \in AllocLoads(cl)
<1>1. cl >= 2 /\ cl \in Int /\ FatEps \in Nat /\ FatEps > 0
  BY GeometryAssumption DEF Cluster
<1>2. CASE cl >= hint
  <2>1. hint \div FatEps <= cl \div FatEps
    BY <1>1, <1>2
  <2>2. hint \div FatEps \in Int /\ cl \div FatEps \in Int
    BY <1>1
  <2>3. cl \div FatEps \in (hint \div FatEps) .. (cl \div FatEps)
    BY <2>1, <2>2
  <2>4. QED
    BY <1>2, <2>3 DEF AllocLoads, FatRange, FatSect
<1>3. CASE ~(cl >= hint)
  <2>1. 2 \div FatEps <= cl \div FatEps
    BY <1>1
  <2>2. 2 \div FatEps \in Int /\ cl \div FatEps \in Int
    BY <1>1
  <2>3. cl \div FatEps \in (2 \div FatEps) .. (cl \div FatEps)
    BY <2>1, <2>2
  <2>4. QED
    BY <1>3, <2>3 DEF AllocLoads, FatRange, FatSect
<1>4. QED
  BY <1>2, <1>3

(* Wiping a cluster changes no FAT and no directory entry. *)
LEMMA WipedCard ==
  ASSUME NEW k, IsCard(k), NEW cl \in Cluster
  PROVE  /\ IsCard(Wiped(k, cl))
         /\ \A s \in Sector : s \notin DataSectors => Wiped(k, cl)[s] = k[s]
         /\ \A c \in Cluster : Fat(Wiped(k, cl), c) = Fat(k, c)
         /\ \A e \in Entry : Ent(Wiped(k, cl), e) = Ent(k, e)
<1> DEFINE j == Wiped(k, cl)
           In(s) == \E i \in 0 .. SPC - 1 : s = DataSect(ClustSect(cl) + i)
<1>1. j = [s \in Sector |-> IF In(s) THEN {} ELSE k[s]]
  BY DEF Wiped
<1>2. ASSUME NEW s \in Sector, In(s) PROVE s \in DataSectors
  <2>1. PICK i \in 0 .. SPC - 1 : s = DataSect(ClustSect(cl) + i)
    BY <1>2
  <2>2. QED
    BY <2>1, ClustSectOK, Sectors
<1>3. j = [s \in Sector |-> j[s]]
  BY <1>1
<1>4. \A s \in Sector : j[s] = k[s] \/ (s \in DataSectors /\ j[s] \in SUBSET Offsets)
  BY <1>1, <1>2
<1>5. \A s \in Sector : s \notin DataSectors => j[s] = k[s]
  BY <1>1, <1>2
<1> HIDE DEF j
<1>6. IsCard(j) /\ (\A c \in Cluster : Fat(j, c) = Fat(k, c))
                /\ (\A e \in Entry : Ent(j, e) = Ent(k, e))
  BY <1>3, <1>4, DataCard
<1>7. QED
  BY <1>5, <1>6 DEF j

-----------------------------------------------------------------------------
(* What the calls change on the card.                                      *)

(* Changing one entry changes one sector. *)
LEMMA FatPutOK ==
  ASSUME DiskOK, UNCHANGED lent, NEW cl \in Cluster, NEW v \in FatValue, FatPut(cl, v)
  PROVE  DiskOK' /\ View' = SetFat(View, cl, v) /\ card' \in {card, View, View'}
<1> DEFINE k == SetFat(View, cl, v)
<1>1. IsCard(View) /\ FatSect(cl) \in Sector
  BY ViewCard, Sectors
<1>2. IsCard(k)
  BY <1>1, SetFatCard
<1>3. \A x \in Sector : x # FatSect(cl) => k[x] = View[x]
  BY <1>1 DEF SetFat, IsCard
<1>4. Put({FatSect(cl)}, FatSect(cl), k)
  BY DEF FatPut
<1>5. QED
  BY <1>1, <1>2, <1>3, <1>4, PutOK

(* Nothing but that entry changes when the card fails. *)
LEMMA FatPutFailsOK ==
  ASSUME DiskOK, UNCHANGED lent, NEW cl \in Cluster, NEW v \in FatValue,
         FatPutFails(cl, v)
  PROVE  DiskOK' /\ View' = card' /\ card' \in {card, View, SetFat(View, cl, v)}
<1>1. IsCard(SetFat(View, cl, v))
  BY ViewCard, SetFatCard
<1>2. QED
  BY <1>1, PutFailsOK DEF FatPutFails

(* The entry a slot is written to is one of the card. *)
LEMMA WithEntryOK ==
  ASSUME NEW k, IsCard(k), NEW r \in Slot
  PROVE  /\ r.ent \in Entry
         /\ [Ent(k, r.ent) EXCEPT !.sclust = r.sclust, !.size = r.fsize] \in DirEnt
<1>1. r.ent \in Entry /\ r.sclust \in 0 .. MaxClust /\ r.fsize \in Nat
  BY FatValues, GeometryAssumption DEF Slot, Cluster
<1>2. Ent(k, r.ent) \in DirEnt
  BY <1>1, Entries
<1>3. QED
  BY <1>1, <1>2 DEF DirEnt

(* Changing one directory entry through the buffer. *)
LEMMA EntPutOK ==
  ASSUME DiskOK, UNCHANGED lent, NEW S, NEW e \in Entry, NEW r \in DirEnt,
         DirSect(e) \in S, Put(S, DirSect(e), SetEnt(View, e, r))
  PROVE  DiskOK' /\ View' = SetEnt(View, e, r) /\ card' \in {card, View, View'}
<1> DEFINE k == SetEnt(View, e, r)
<1>1. IsCard(View) /\ DirSect(e) \in Sector
  BY ViewCard, Sectors
<1>2. IsCard(k)
  BY <1>1, SetEntCard
<1>3. \A x \in Sector : x # DirSect(e) => k[x] = View[x]
  BY <1>1 DEF SetEnt, IsCard
<1>4. QED
  BY <1>1, <1>2, <1>3, PutOK

(* The same when the card fails. *)
LEMMA EntPutFailsOK ==
  ASSUME DiskOK, UNCHANGED lent, NEW S, NEW e \in Entry, NEW r \in DirEnt,
         PutFails(S, SetEnt(View, e, r))
  PROVE  DiskOK' /\ View' = card' /\ card' \in {card, View, SetEnt(View, e, r)}
<1>1. IsCard(SetEnt(View, e, r))
  BY ViewCard, SetEntCard
<1>2. QED
  BY <1>1, PutFailsOK

(* dir_write changes the entry of its slot. *)
LEMMA DirWriteOK ==
  ASSUME DiskOK, UNCHANGED lent, NEW r \in Slot, DirWrite(r)
  PROVE  DiskOK' /\ View' = WithEntry(View, r) /\ card' \in {card, View, View'}
BY ViewCard, WithEntryOK, EntPutOK DEF DirWrite, WithEntry

(* The same when the card fails. *)
LEMMA DirWriteFailsOK ==
  ASSUME DiskOK, UNCHANGED lent, NEW r \in Slot, DirWriteFails(r)
  PROVE  DiskOK' /\ View' = card' /\ card' \in {card, View, WithEntry(View, r)}
BY ViewCard, WithEntryOK, EntPutFailsOK DEF DirWriteFails, WithEntry

(* Taking a cluster marks it as the end of a chain and wipes it. *)
LEMMA AllocOK ==
  ASSUME DiskOK, UNCHANGED lent, NEW cl \in Cluster, NEW S, FatSect(cl) \in S,
         card' = Wiped(CardAfterPut(S, SetFat(View, cl, EOC)), cl),
         HoldPut(FatSect(cl), SetFat(View, cl, EOC))
  PROVE  /\ DiskOK'
         /\ View' = Wiped(SetFat(View, cl, EOC), cl)
         /\ card' \in {Wiped(card, cl), Wiped(View, cl), View'}
<1> DEFINE s == FatSect(cl)
           k == SetFat(View, cl, EOC)
           c == CardAfterPut(S, k)
<1>1. IsCard(View) /\ IsCard(card) /\ s \in Sector /\ s \notin DataSectors
  BY ViewCard, Sectors DEF DiskOK
<1>2. IsCard(k)
  BY <1>1, SetFatCard, FatValues
<1>3. \A x \in Sector : x # s => k[x] = View[x]
  BY <1>1 DEF SetFat, IsCard
<1>4. IsCard(Wiped(k, cl)) /\ Wiped(k, cl)[s] = k[s]
  BY <1>1, <1>2, WipedCard
<1>5. CASE lent = "kept"
  <2>1. kept' = [x \in {s} |-> k[s]] /\ dirty' = TRUE
    BY <1>5 DEF HoldPut
  <2>2. c \in {card, View}
    BY <1>5 DEF CardAfterPut, CardAfterLoad
  <2>3. \A x \in Sector : x # s => c[x] = k[x]
    <3>1. CASE ~(S \subseteq DOMAIN kept)
      BY <3>1, <1>3, <1>5 DEF CardAfterPut, CardAfterLoad
    <3>2. CASE S \subseteq DOMAIN kept
      <4>1. DOMAIN kept = {s}
        BY <3>2 DEF DiskOK, KeptOK, Empty
      <4>2. c = card
        BY <3>2, <1>5 DEF CardAfterPut, CardAfterLoad
      <4>3. QED
        BY <4>1, <4>2, <1>3, ViewCard
    <3>3. QED
      BY <3>1, <3>2
  <2>4. \A x \in Sector : x # s => card'[x] = Wiped(k, cl)[x]
    BY <2>3 DEF Wiped
  <2>5. IsCard(card') /\ card' \in {Wiped(card, cl), Wiped(View, cl)}
    BY <2>2, <1>1, WipedCard
  <2>6. kept' = [x \in {s} |-> Wiped(k, cl)[s]]
    BY <2>1, <1>4
  <2> HIDE DEF k, c, s
  <2>7. DiskOK' /\ View' = Wiped(k, cl)
    BY <2>1, <2>4, <2>5, <2>6, <1>1, <1>4, <1>5, HoldOK
  <2>8. QED
    BY <2>5, <2>7 DEF k
<1>6. CASE lent # "kept"
  <2>1. card' = Wiped(k, cl) /\ Drop
    BY <1>6 DEF CardAfterPut, HoldPut, Drop
  <2>2. QED
    BY <2>1, <1>4, DropOK
<1>7. QED
  BY <1>5, <1>6

(* A whole sector of data goes past the buffer. *)
LEMMA WholeSectorOK ==
  ASSUME DiskOK, UNCHANGED lent, NEW n \in 0 .. NDataSects - 1,
         card' \in {card, SetData(card, n, Offsets)},
         IF DataSect(n) \in DOMAIN kept THEN Drop ELSE UNCHANGED <<kept, dirty>>
  PROVE  /\ DiskOK'
         /\ \A x \in Sector : x \notin DataSectors =>
              card'[x] = card[x] /\ View'[x] = View[x]
<1>1. IsCard(card) /\ DataSect(n) \in DataSectors
  BY Sectors DEF DiskOK
<1>2. IsCard(card')
  BY <1>1, SetDataCard
<1>3. \A x \in Sector : x # DataSect(n) => card'[x] = card[x]
  BY <1>1 DEF SetData, IsCard
<1>4. CASE DataSect(n) \in DOMAIN kept
  <2>1. DiskOK' /\ View' = card'
    BY <1>2, <1>4, DropOK
  <2>2. DOMAIN kept = {DataSect(n)}
    BY <1>4 DEF DiskOK, KeptOK, Empty
  <2>3. \A x \in Sector : x # DataSect(n) => View[x] = card[x]
    BY <2>2, ViewCard
  <2>4. QED
    BY <2>1, <2>3, <1>1, <1>3
<1>5. CASE DataSect(n) \notin DOMAIN kept
  <2>1. kept' = kept /\ dirty' = dirty
    BY <1>5
  <2>2. KeptOK'
    BY <2>1, <1>3, <1>5 DEF DiskOK, KeptOK, IsContent, Empty
  <2>3. \A x \in Sector : x # DataSect(n) => View'[x] = View[x]
    BY <2>1, <1>3 DEF View
  <2>4. QED
    BY <2>1, <2>2, <2>3, <1>1, <1>2, <1>3 DEF DiskOK
<1>6. QED
  BY <1>4, <1>5

(* Part of a sector is merged into what the library reads there. *)
LEMMA MergedOK ==
  ASSUME DiskOK, UNCHANGED lent, CtrlOK, NEW n, n = Cur.csect,
         \/ Put({DataSect(n)}, DataSect(n), Merged(n))
         \/ PutFails({DataSect(n)}, Merged(n))
  PROVE  /\ DiskOK'
         /\ \A k \in {card', View'} : \E j \in {card, View} :
              \A x \in Sector : x \notin DataSectors => k[x] = j[x]
         /\ Put({DataSect(n)}, DataSect(n), Merged(n)) =>
              \A x \in Sector : x \notin DataSectors => View'[x] = View[x]
<1> DEFINE k == Merged(n)
           s == DataSect(n)
<1>1. Cur \in Slot
  BY DEF CtrlOK, CallType, Cur
<1>2. n \in 0 .. NDataSects - 1 /\ Cur.fptr \in Nat
  BY <1>1 DEF Slot
<1>3. IsCard(View) /\ IsCard(card) /\ s \in Sector /\ s \in DataSectors
  BY <1>2, ViewCard, Sectors DEF DiskOK
<1>4. Offset \in Nat /\ Offset < UPS /\ UPS \in Nat
  BY <1>2, GeometryAssumption DEF Offset
<1>5. Chunk \in Nat /\ Chunk <= UPS - Offset
  BY <1>4 DEF Chunk, CtrlOK, CallType
<1>6. Offset .. Offset + Chunk - 1 \subseteq Offsets
  BY <1>4, <1>5 DEF Offsets
<1>7. View[s] \subseteq Offsets
  BY <1>3, Sectors DEF IsCard, IsContent
<1>8. PICK v \in SUBSET Offsets : k = SetData(View, n, v)
  BY <1>6, <1>7 DEF Merged
<1>9. IsCard(k)
  BY <1>2, <1>3, <1>8, SetDataCard
<1>10. \A x \in Sector : x # s => k[x] = View[x]
  BY <1>3, <1>8 DEF SetData, IsCard
<1>11. CASE Put({s}, s, k)
  <2> HIDE DEF k, s
  <2>1. DiskOK' /\ View' = k /\ card' \in {card, View, k}
    BY <1>3, <1>9, <1>10, <1>11, PutOK
  <2>2. QED
    BY <2>1, <1>3, <1>10
<1>12. CASE PutFails({s}, k) /\ ~Put({s}, s, k)
  <2> HIDE DEF k, s
  <2>1. DiskOK' /\ View' = card' /\ card' \in {card, View, k}
    BY <1>9, <1>12, PutFailsOK
  <2>2. \A j \in {card', View'} : \E l \in {card, View} :
          \A x \in Sector : x \notin DataSectors => j[x] = l[x]
    BY <2>1, <1>3, <1>10
  <2>3. QED
    BY <1>12, <2>1, <2>2 DEF k, s
<1>13. QED
  BY <1>11, <1>12

-----------------------------------------------------------------------------
(* What the calls change of the slots, and of the call in progress.        *)

(* No slot has a cluster to link, but one that failed. *)
Settled == \A f \in Handle : Has(f, "NEWCL") => Has(f, "FAILED")

(* Only the slot in transfer may have one otherwise. *)
LEMMA SettledOK ==
  ASSUME CtrlOK
  PROVE  /\ pc \notin {"move", "link"} => Settled
         /\ \A f \in Handle : f # call.fh => (Has(f, "NEWCL") => Has(f, "FAILED"))
BY DEF CtrlOK, NewClOK, Settled

(* Once all slots are settled, a step that does not go on to transfer or   *)
(* to cut leaves a state that the invariant allows.                        *)
LEMMA RestOK ==
  ASSUME lent' \in {"none", "plain", "kept"}, mounted' \in BOOLEAN,
         hint' \in 2 .. MaxClust, files' \in [Handle -> Slot], Settled',
         pc' \in {"idle", "unmount", "append", "size", "free", "entry", "flush"},
         call' \in CallType
  PROVE  CtrlOK'
<1>1. NewClOK' /\ TransferOK' /\ HintOK' /\ ClustOK'
  BY DEF Settled, NewClOK, TransferOK, HintOK, ClustOK
<1>2. pc' \in StepName
  BY DEF StepName
<1>3. QED
  BY <1>1, <1>2 DEF CtrlOK

(* The locals of a call that has just begun. *)
LEMMA NoCallOK ==
  /\ NoCall \in CallType
  /\ \A o \in Op : [NoCall EXCEPT !.op = o] \in CallType
  /\ \A o \in Op, f \in Handle : [NoCall EXCEPT !.op = o, !.fh = f] \in CallType
  /\ \A o \in Op, cl \in 0 .. MaxClust :
       [NoCall EXCEPT !.op = o, !.cl = cl] \in CallType
  /\ \A o \in Op, f \in Handle, n \in Nat :
       [NoCall EXCEPT !.op = o, !.fh = f, !.left = n] \in CallType
  /\ \A o \in Op, f \in Handle, cl \in 0 .. MaxClust :
       [NoCall EXCEPT !.op = o, !.fh = f, !.cl = cl] \in CallType
  /\ \A o \in Op, f \in Handle, cl \in 0 .. MaxClust, a \in BOOLEAN :
       [NoCall EXCEPT !.op = o, !.fh = f, !.cl = cl, !.append = a] \in CallType
<1>1. 0 \in Handle /\ 0 \in 0 .. MaxClust /\ "none" \in Op
  BY FreeSlotOK, GeometryAssumption DEF Op
<1>2. NoCall \in CallType
  BY <1>1 DEF NoCall, CallType
<1>3. \A c \in CallType, o \in Op : [c EXCEPT !.op = o] \in CallType
  BY DEF CallType
<1>4. \A c \in CallType, f \in Handle : [c EXCEPT !.fh = f] \in CallType
  BY DEF CallType
<1>5. \A c \in CallType, n \in Nat : [c EXCEPT !.left = n] \in CallType
  BY DEF CallType
<1>6. \A c \in CallType, cl \in 0 .. MaxClust : [c EXCEPT !.cl = cl] \in CallType
  BY DEF CallType
<1>7. \A c \in CallType, a \in BOOLEAN : [c EXCEPT !.append = a] \in CallType
  BY DEF CallType
<1>8. QED
  BY <1>2, <1>3, <1>4, <1>5, <1>6, <1>7

(* A call that returns has no locals. *)
LEMMA ReturnOK ==
  ASSUME call \in CallType, Return
  PROVE  pc' \in {"idle", "unmount"} /\ call' \in CallType
BY NoCallOK DEF Return

(* A slot set to one that has nothing to link. *)
LEMMA SetSlotSettledOK ==
  ASSUME CtrlOK, NEW f \in Handle, NEW r \in Slot, SetSlot(f, r),
         "NEWCL" \in r.flags => "FAILED" \in r.flags,
         f = call.fh \/ pc \notin {"move", "link"}
  PROVE  files' \in [Handle -> Slot] /\ Settled'
<1>1. files \in [Handle -> Slot]
  BY DEF CtrlOK
<1>2. /\ files' \in [Handle -> Slot] /\ files'[f] = r
      /\ \A g \in Handle : g # f => files'[g] = files[g]
  BY <1>1, SetSlotOK
<1>3. \A g \in Handle : g # f => (Has(g, "NEWCL") => Has(g, "FAILED"))
  BY SettledOK DEF Settled
<1>4. QED
  BY <1>2, <1>3 DEF Settled, Has

(* The error paths settle the slot. *)
LEMMA FailSlotOK ==
  ASSUME CtrlOK, FailSlot
  PROVE  files' \in [Handle -> Slot] /\ Settled'
<1>1. call.fh \in Handle /\ Cur \in Slot
  BY DEF CtrlOK, CallType, Cur
<1>2. CASE call.op \in {"read", "write", "truncate"}
  <2>1. SetSlot(call.fh, With(Cur, {"FAILED"}, {}))
    BY <1>2 DEF FailSlot
  <2>2. QED
    BY <2>1, <1>1, WithOK, SetSlotSettledOK DEF Flag
<1>3. CASE call.op = "sync"
  <2>1. SetSlot(call.fh, With(Cur, {"FAILED"}, {"DIRTY"}))
    BY <1>3 DEF FailSlot
  <2>2. QED
    BY <2>1, <1>1, WithOK, SetSlotSettledOK DEF Flag
<1>4. CASE call.op \in {"open", "close", "unmount"}
  <2>1. SetSlot(call.fh, FreeSlot)
    BY <1>4 DEF FailSlot
  <2>2. QED
    BY <2>1, <1>1, FreeSlotOK, SetSlotSettledOK
<1>5. CASE call.op \notin {"read", "write", "truncate", "sync", "open", "close", "unmount"}
  <2>1. UNCHANGED files
    BY <1>5 DEF FailSlot
  <2>2. pc \notin {"move", "link"}
    BY <1>5 DEF CtrlOK, TransferOK
  <2>3. QED
    BY <2>1, <2>2, SettledOK DEF CtrlOK, Settled, Has
<1>6. QED
  BY <1>2, <1>3, <1>4, <1>5

(* UZEFS_ERR_DISK returned. *)
LEMMA DiskErrorOK ==
  ASSUME CtrlOK, UNCHANGED <<lent, mounted>>, hint' \in 2 .. MaxClust, DiskError
  PROVE  CtrlOK'
BY FailSlotOK, ReturnOK, RestOK DEF DiskError, CtrlOK

(* UZEFS_ERR_CORRUPT returned. *)
LEMMA CorruptOK ==
  ASSUME CtrlOK, UNCHANGED <<lent, mounted, hint>>, pc \notin {"move", "link"}, Corrupt
  PROVE  CtrlOK'
<1>1. files' \in [Handle -> Slot] /\ Settled'
  <2>1. CASE call.op = "open"
    BY <2>1, FreeSlotOK, SetSlotSettledOK DEF Corrupt, CtrlOK, CallType
  <2>2. CASE call.op # "open"
    BY <2>2, SettledOK DEF Corrupt, CtrlOK, Settled, Has
  <2>3. QED
    BY <2>1, <2>2
<1>2. QED
  BY <1>1, ReturnOK, RestOK DEF Corrupt, CtrlOK

(* The slot is the one it was, and the call returns or goes on. *)
LEMMA SameFilesOK ==
  ASSUME CtrlOK, UNCHANGED files, pc \notin {"move", "link"},
         lent' \in {"none", "plain", "kept"}, mounted' \in BOOLEAN,
         hint' \in 2 .. MaxClust,
         pc' \in {"idle", "unmount", "append", "size", "free", "entry", "flush"},
         call' \in CallType
  PROVE  CtrlOK'
<1>1. Settled' /\ files' \in [Handle -> Slot]
  BY SettledOK DEF Settled, Has, CtrlOK
<1>2. QED
  BY <1>1, RestOK

-----------------------------------------------------------------------------
(* The invariant holds at first, and every action preserves it.            *)

(* A console that has just been switched on satisfies the invariant. *)
LEMMA InitInv == Init => IndInv
<1> SUFFICES ASSUME Init PROVE IndInv
  OBVIOUS
<1>1. DiskOK
  BY VolumesAssumption DEF Init, DiskOK, KeptOK
<1>2. \A f \in Handle : files[f] \in Slot /\ files[f].flags = {}
  BY FreeSlotOK DEF Init
<1>3. CtrlOK
  <2>1. hint \in 2 .. MaxClust
    BY GeometryAssumption DEF Init
  <2>2. files \in [Handle -> Slot] /\ call \in CallType
    BY <1>2, NoCallOK DEF Init
  <2>3. TransferOK /\ NewClOK /\ HintOK /\ ClustOK
    BY <1>2 DEF Init, TransferOK, NewClOK, HintOK, ClustOK, Has
  <2>4. QED
    BY <2>1, <2>2, <2>3 DEF Init, CtrlOK, StepName
<1>4. QED
  BY <1>1, <1>3 DEF IndInv

(* Every slot forgotten, and the buffer too. *)
LEMMA ForgetOK ==
  ASSUME IndInv, Drop, card' \in {card, View},
         lent' \in {"none", "plain", "kept"}, mounted' \in BOOLEAN,
         hint' \in 2 .. MaxClust, files' = [f \in Handle |-> FreeSlot],
         pc' = "idle", call' \in CallType
  PROVE  IndInv'
<1>1. IsCard(card')
  BY ViewCard DEF IndInv, DiskOK
<1>2. DiskOK'
  BY <1>1, DropOK
<1>3. files' \in [Handle -> Slot] /\ Settled'
  BY FreeSlotOK DEF Settled, Has
<1>4. QED
  BY <1>2, <1>3, RestOK DEF IndInv

(* uzefs_mount, done or failed, and a power cut, preserve the invariant. *)
LEMMA MountInv == ASSUME IndInv, Mount \/ MountFails \/ Crash PROVE IndInv'
<1>1. 2 \in 2 .. MaxClust
  BY GeometryAssumption
<1>2. CASE Mount
  BY <1>1, <1>2, ForgetOK DEF Mount, Drop, IndInv, CtrlOK
<1>3. CASE MountFails
  BY <1>3, ForgetOK DEF MountFails, Drop, IndInv, CtrlOK
<1>4. CASE Crash
  BY <1>1, <1>4, NoCallOK, ForgetOK DEF Crash, Drop
<1>5. QED
  BY <1>2, <1>3, <1>4

(* uzefs_lend and uzefs_unlend preserve the invariant. *)
LEMMA LendInv ==
  ASSUME IndInv, NEW how \in Lendings, Lend(how) \/ LendFails(how)
  PROVE  IndInv'
<1>1. /\ pc = "idle" /\ Drop /\ card' \in {card, View} /\ lent' = how
      /\ UNCHANGED <<mounted, hint, files, pc, call>>
  BY DEF Lend, LendFails, FlushFails
<1>2. IsCard(card')
  BY <1>1, ViewCard DEF IndInv, DiskOK
<1>3. DiskOK'
  BY <1>1, <1>2, DropOK
<1>4. lent' \in {"none", "plain", "kept"}
  BY <1>1, FilesAssumption
<1>5. CtrlOK'
  BY <1>1, <1>4, SameFilesOK DEF IndInv, CtrlOK
<1>6. QED
  BY <1>3, <1>5 DEF IndInv

(* uzefs_unmount, as it begins preserves the invariant. *)
LEMMA UnmountInv == ASSUME IndInv, Unmount PROVE IndInv'
<1>1. DiskOK'
  BY SameDiskOK DEF IndInv, Unmount
<1>2. call' \in CallType
  <2>1. "unmount" \in Op
    BY DEF Op
  <2>2. QED
    BY ONLY <2>1, NoCallOK, Unmount DEF Unmount
<1>3. CtrlOK'
  BY <1>2, SameFilesOK DEF IndInv, Unmount, CtrlOK
<1>4. QED
  BY <1>1, <1>3 DEF IndInv

(* uzefs_unmount closing a slot preserves the invariant. *)
LEMMA UnmountCloseInv ==
  ASSUME IndInv, NEW f \in Handle, UnmountClose(f)
  PROVE  IndInv'
<1>1. DiskOK'
  BY SameDiskOK DEF IndInv, UnmountClose
<1>2. call' \in CallType
  BY DEF UnmountClose, IndInv, CtrlOK, CallType
<1>3. CtrlOK'
  <2>1. CASE Has(f, "FAILED")
    <3>1. files' \in [Handle -> Slot] /\ Settled'
      BY <2>1, FreeSlotOK, SetSlotSettledOK DEF UnmountClose, IndInv
    <3>2. QED
      BY <2>1, <3>1, <1>2, RestOK DEF UnmountClose, IndInv, CtrlOK
  <2>2. CASE ~Has(f, "FAILED")
    BY <2>2, <1>2, SameFilesOK DEF UnmountClose, IndInv, CtrlOK
  <2>3. QED
    BY <2>1, <2>2
<1>4. QED
  BY <1>1, <1>3 DEF IndInv

(* The end of uzefs_unmount preserves the invariant. *)
LEMMA UnmountEndInv == ASSUME IndInv, UnmountEnd PROVE IndInv'
<1>1. DiskOK'
  BY FlushOK, FlushFailsOK DEF IndInv, UnmountEnd
<1>2. CtrlOK'
  BY NoCallOK, SameFilesOK DEF IndInv, UnmountEnd, CtrlOK
<1>3. QED
  BY <1>1, <1>2 DEF IndInv

(* The scan of the directory ends in the sector of the entry it stops at. *)
LEMMA ScannedOK ==
  ASSUME NEW e \in Entry
  PROVE  DirSect(e) \in Scanned(e) /\ DirSect(e) \in Sector
<1>1. e \in 0 .. e
  BY DEF Entry
<1>2. QED
  BY <1>1, Sectors DEF Scanned

(* The slot uzefs_open fills in. *)
LEMMA NewSlotOK ==
  ASSUME NEW k, NEW e \in Entry, NEW mode,
         Ent(k, e).sclust \in Cluster \cup {0}, Ent(k, e).size \in Nat
  PROVE  NewSlot(e, mode, k) \in Slot /\ "NEWCL" \notin NewSlot(e, mode, k).flags
<1> DEFINE fl == {"OPEN"} \cup (IF "READ" \in mode THEN {"RD"} ELSE {})
                          \cup (IF "WRITE" \in mode THEN {"WR"} ELSE {})
<1>1. fl \in SUBSET Flag /\ "NEWCL" \notin fl
  BY DEF Flag
<1>2. NewSlot(e, mode, k) = [FreeSlot EXCEPT !.flags = fl, !.ent = e,
                               !.sclust = Ent(k, e).sclust, !.fsize = Ent(k, e).size]
  BY DEF NewSlot
<1> HIDE DEF fl
<1>3. QED
  BY <1>1, <1>2, FreeSlotOK DEF Slot

(* uzefs_open of a file there is preserves the invariant. *)
LEMMA OpenExistingInv ==
  ASSUME IndInv, NEW nm, NEW mode, NEW f \in Handle, NEW e \in Entry,
         OpenExisting(nm, mode, f, e)
  PROVE  IndInv'
<1> DEFINE r == NewSlot(e, mode, View)
           cut == "TRUNC" \in mode /\ r.sclust # 0
           append == "APPEND" \in mode
           q == IF cut THEN [r EXCEPT !.sclust = 0, !.fsize = 0] ELSE r
<1>1. DiskOK'
  BY ScannedOK, LoadOK DEF OpenExisting, IndInv
<1>2. pc = "idle" /\ Ent(View, e).sclust \in Cluster \cup {0} /\ Ent(View, e).size \in Nat
  BY ViewCard, Entries DEF OpenExisting, OpenChecks, IndInv, DirEnt
<1>3. r \in Slot /\ "NEWCL" \notin r.flags
  BY <1>2, NewSlotOK
<1>4. q \in Slot /\ "NEWCL" \notin q.flags
  BY <1>3 DEF Slot
<1>5. /\ SetSlot(f, q)
      /\ pc' \in {"size", "append", "idle"}
      /\ call' = IF cut \/ append
                 THEN [NoCall EXCEPT !.op = "open", !.fh = f,
                         !.cl = IF cut THEN r.sclust ELSE 0, !.append = append]
                 ELSE NoCall
      /\ UNCHANGED <<lent, mounted, hint>>
  BY DEF OpenExisting
<1>6. call' \in CallType
  <2>1. (IF cut THEN r.sclust ELSE 0) \in 0 .. MaxClust
    BY <1>3, FatValues, GeometryAssumption DEF Slot, Cluster
  <2>2. "open" \in Op /\ append \in BOOLEAN
    BY DEF Op
  <2> HIDE DEF r, cut, append
  <2>3. QED
    BY <1>5, <2>1, <2>2, NoCallOK
<1> HIDE DEF q
<1>7. files' \in [Handle -> Slot] /\ Settled'
  BY <1>2, <1>4, <1>5, SetSlotSettledOK DEF IndInv
<1>8. CtrlOK'
  BY <1>5, <1>6, <1>7, RestOK DEF IndInv, CtrlOK
<1>9. QED
  BY <1>1, <1>8 DEF IndInv

(* An entry that is created is one of the card. *)
LEMMA CreatedOK ==
  ASSUME IndInv, NEW nm \in Names, NEW e \in Entry, NEW last \in Entry,
         NEW S, S = Scanned(last) \cup {DirSect(e)},
         \/ Put(S, DirSect(e), Created(View, e, nm))
         \/ PutFails(S, Created(View, e, nm)),
         UNCHANGED lent
  PROVE  /\ DiskOK'
         /\ Put(S, DirSect(e), Created(View, e, nm)) => View' = Created(View, e, nm)
         /\ PutFails(S, Created(View, e, nm)) => View' = card'
         /\ card' \in {card, View, Created(View, e, nm)}
<1> DEFINE r == [name |-> nm, sclust |-> 0, size |-> 0]
<1>1. r \in DirEnt
  BY GeometryAssumption DEF DirEnt
<1>2. DirSect(e) \in S /\ Created(View, e, nm) = SetEnt(View, e, r)
  BY DEF Created
<1> HIDE DEF r
<1>3. QED
  BY <1>1, <1>2, EntPutOK, EntPutFailsOK DEF IndInv

(* uzefs_open creating a file preserves the invariant. *)
LEMMA OpenNewInv ==
  ASSUME IndInv, NEW nm \in Names, NEW mode, NEW f \in Handle, NEW e \in Entry,
         NEW last \in Entry,
         OpenNew(nm, mode, f, e, last) \/ OpenNewFails(nm, mode, f, e, last)
  PROVE  IndInv'
<1> DEFINE k == Created(View, e, nm)
<1>1. pc = "idle" /\ UNCHANGED <<lent, mounted, hint, pc, call>>
  BY DEF OpenNew, OpenNewFails, CreateChecks, OpenChecks
<1>2. DiskOK'
  BY <1>1, CreatedOK DEF OpenNew, OpenNewFails
<1>3. CASE OpenNew(nm, mode, f, e, last)
  <2>1. [name |-> nm, sclust |-> 0, size |-> 0] \in DirEnt
    BY GeometryAssumption DEF DirEnt
  <2>2. Ent(k, e) = [name |-> nm, sclust |-> 0, size |-> 0]
    BY <2>1, ViewCard, SetEntCard DEF IndInv, Created
  <2>3. NewSlot(e, mode, k) \in Slot /\ "NEWCL" \notin NewSlot(e, mode, k).flags
    BY <2>2, NewSlotOK
  <2>4. SetSlot(f, NewSlot(e, mode, k))
    BY <1>3 DEF OpenNew
  <2>5. files' \in [Handle -> Slot] /\ Settled'
    BY <2>3, <2>4, <1>1, SetSlotSettledOK DEF IndInv
  <2>6. CtrlOK'
    BY <1>1, <2>5, RestOK DEF IndInv, CtrlOK
  <2>7. QED
    BY <1>2, <2>6 DEF IndInv
<1>4. CASE OpenNewFails(nm, mode, f, e, last)
  <2>1. CtrlOK'
    BY <1>1, <1>4, SameFilesOK DEF IndInv, CtrlOK, OpenNewFails
  <2>2. QED
    BY <1>2, <2>1 DEF IndInv
<1>5. QED
  BY <1>3, <1>4

(* A lookup preserves the invariant. *)
LEMMA StatInv == ASSUME IndInv, NEW nm, NEW e \in Entry, Stat(nm, e) PROVE IndInv'
<1>1. DiskOK'
  BY ScannedOK, LoadOK, LoadFailsOK DEF IndInv, Stat
<1>2. CtrlOK'
  BY SameFilesOK DEF IndInv, CtrlOK, Stat
<1>3. QED
  BY <1>1, <1>2 DEF IndInv

(* uzefs_delete, as it removes the entry preserves the invariant. *)
LEMMA DeleteInv ==
  ASSUME IndInv, NEW nm, NEW e \in Entry, Delete(nm, e)
  PROVE  IndInv'
<1> DEFINE r == [Ent(View, e) EXCEPT !.name = Removed]
           cl == Ent(View, e).sclust
<1>1. pc = "idle" /\ UNCHANGED <<lent, mounted, hint, files>>
  BY DEF Delete, Closed
<1>2. Ent(View, e) \in DirEnt
  BY ViewCard, Entries DEF IndInv
<1>3. r \in DirEnt /\ cl \in 0 .. MaxClust
  BY <1>2 DEF DirEnt
<1>4. DiskOK'
  BY <1>1, <1>3, ScannedOK, EntPutOK, EntPutFailsOK DEF Delete, IndInv
<1>5. [NoCall EXCEPT !.op = "delete", !.cl = cl] \in CallType
  <2>1. "delete" \in Op
    BY DEF Op
  <2>2. QED
    BY ONLY <1>3, <2>1, NoCallOK
<1>6. pc' \in {"idle", "free"} /\ call' \in CallType
  BY <1>1, <1>5 DEF Delete, IndInv, CtrlOK
<1>7. CtrlOK'
  BY <1>1, <1>6, SameFilesOK DEF IndInv, CtrlOK
<1>8. QED
  BY <1>4, <1>7 DEF IndInv

(* uzefs_rename preserves the invariant. *)
LEMMA RenameInv ==
  ASSUME IndInv, NEW from, NEW to \in Names, NEW e \in Entry, NEW last \in Entry,
         Rename(from, to, e, last)
  PROVE  IndInv'
<1> DEFINE r == [Ent(View, e) EXCEPT !.name = to]
<1>1. pc = "idle" /\ UNCHANGED <<lent, mounted, hint, files, pc, call>>
  BY DEF Rename, Closed
<1>2. r \in DirEnt
  BY ViewCard, Entries DEF IndInv, DirEnt
<1>3. DiskOK'
  BY <1>1, <1>2, ScannedOK, EntPutOK, EntPutFailsOK DEF Rename, IndInv
<1>4. CtrlOK'
  BY <1>1, SameFilesOK DEF IndInv, CtrlOK
<1>5. QED
  BY <1>3, <1>4 DEF IndInv

(* A step to the next part of a transfer. *)
LEMMA TransferStepOK ==
  ASSUME lent' \in {"none", "plain", "kept"}, mounted' \in BOOLEAN,
         hint' \in 2 .. MaxClust, files' \in [Handle -> Slot], Settled',
         pc' \in {"chunk", "alloc", "move"},
         call' \in CallType, call'.op \in {"read", "write"},
         pc' = "alloc" => call'.op = "write",
         "FAILED" \notin files'[call'.fh].flags
  PROVE  CtrlOK'
<1>1. call'.fh \in Handle
  BY DEF CallType
<1>2. ~Has(call.fh, "FAILED")' /\ ~Has(call.fh, "NEWCL")'
  BY <1>1 DEF Has, Settled
<1>3. NewClOK' /\ TransferOK' /\ HintOK' /\ ClustOK'
  BY <1>2 DEF Settled, NewClOK, TransferOK, HintOK, ClustOK
<1>4. pc' \in StepName
  BY DEF StepName
<1>5. QED
  BY <1>3, <1>4 DEF CtrlOK

(* A transfer that begins. *)
LEMMA BeginOK ==
  ASSUME IndInv, NEW f \in Handle, NEW r \in Slot, SetSlot(f, r), pc = "idle",
         "NEWCL" \notin r.flags, "FAILED" \notin r.flags,
         NEW op \in {"read", "write"}, NEW n \in Nat,
         pc' = "chunk", call' = [NoCall EXCEPT !.op = op, !.fh = f, !.left = n],
         UNCHANGED <<lent, mounted, hint>>
  PROVE  CtrlOK'
<1>1. files' \in [Handle -> Slot] /\ Settled'
  BY SetSlotSettledOK DEF IndInv
<1>2. files'[f] = r
  BY SetSlotOK DEF IndInv, CtrlOK
<1>3. call' \in CallType
  <2>1. op \in Op
    BY DEF Op
  <2>2. QED
    BY <2>1, NoCallOK
<1>4. call'.op = op /\ call'.fh = f
  BY DEF NoCall
<1>5. QED
  BY <1>1, <1>2, <1>3, <1>4, TransferStepOK DEF IndInv, CtrlOK

(* Between calls a slot that has not failed has nothing to link. *)
LEMMA ReadyOK ==
  ASSUME IndInv, NEW f \in Handle, Ready(f)
  PROVE  /\ pc = "idle" /\ files[f] \in Slot
         /\ "FAILED" \notin files[f].flags /\ "NEWCL" \notin files[f].flags
<1>1. pc = "idle" /\ ~Has(f, "FAILED")
  BY DEF Ready
<1>2. ~Has(f, "NEWCL")
  BY <1>1, SettledOK DEF IndInv, Settled
<1>3. QED
  BY <1>1, <1>2 DEF IndInv, CtrlOK, Has

(* uzefs_read, as it begins preserves the invariant. *)
LEMMA ReadInv ==
  ASSUME IndInv, NEW f \in Handle, NEW n \in 1 .. MaxXfer, Read(f, n)
  PROVE  IndInv'
<1> DEFINE rest == files[f].fsize - files[f].fptr
           m == IF n > rest THEN rest ELSE n
<1>1. Ready(f) /\ files[f].fptr < files[f].fsize /\ BeginXfer(f, "read", m) /\ UNCHANGED files
  BY DEF Read
<1>2. /\ pc = "idle" /\ files[f] \in Slot
      /\ "FAILED" \notin files[f].flags /\ "NEWCL" \notin files[f].flags
  BY <1>1, ReadyOK
<1>3. m \in Nat
  BY <1>1, <1>2 DEF Slot
<1>4. SetSlot(f, files[f])
  BY <1>1 DEF SetSlot, IndInv, CtrlOK
<1> HIDE DEF m
<1>5. CtrlOK'
  BY <1>1, <1>2, <1>3, <1>4, BeginOK DEF BeginXfer
<1>6. DiskOK'
  BY <1>1, SameDiskOK DEF BeginXfer, IndInv
<1>7. QED
  BY <1>5, <1>6 DEF IndInv

(* uzefs_write, as it begins preserves the invariant. *)
LEMMA WriteInv ==
  ASSUME IndInv, NEW f \in Handle, NEW n \in 1 .. MaxXfer, Write(f, n)
  PROVE  IndInv'
<1> DEFINE r == With(files[f], {}, {"CONTIG"})
<1>1. Ready(f) /\ SetSlot(f, r) /\ BeginXfer(f, "write", n)
  BY DEF Write, CanWrite
<1>2. /\ pc = "idle" /\ files[f] \in Slot
      /\ "FAILED" \notin files[f].flags /\ "NEWCL" \notin files[f].flags
  BY <1>1, ReadyOK
<1>3. r \in Slot /\ "NEWCL" \notin r.flags /\ "FAILED" \notin r.flags
  BY <1>2, WithOK
<1>4. n \in Nat
  OBVIOUS
<1> HIDE DEF r
<1>5. CtrlOK'
  BY <1>1, <1>2, <1>3, <1>4, BeginOK DEF BeginXfer
<1>6. DiskOK'
  BY <1>1, SameDiskOK DEF BeginXfer, IndInv
<1>7. QED
  BY <1>5, <1>6 DEF IndInv

(* A call on one slot that is over in the same step. *)
LEMMA OverOK ==
  ASSUME IndInv, NEW f \in Handle, NEW r \in Slot, SetSlot(f, r), pc = "idle",
         "NEWCL" \notin r.flags, UNCHANGED <<lent, mounted, hint, pc, call>>
  PROVE  CtrlOK'
<1>1. files' \in [Handle -> Slot] /\ Settled'
  BY SetSlotSettledOK DEF IndInv
<1>2. QED
  BY <1>1, RestOK DEF IndInv, CtrlOK

(* uzefs_seek preserves the invariant. *)
LEMMA SeekInv ==
  ASSUME IndInv, NEW f \in Handle, NEW pos \in 0 .. MaxSize, Seek(f, pos)
  PROVE  IndInv'
<1> DEFINE past == pos > files[f].fsize
           to == IF past THEN files[f].fsize ELSE pos
           r == IF past THEN With(files[f], {}, {"CONTIG"}) ELSE files[f]
<1>1. Ready(f) /\ UNCHANGED <<lent, mounted, hint>>
  BY DEF Seek
<1>2. /\ pc = "idle" /\ files[f] \in Slot
      /\ "FAILED" \notin files[f].flags /\ "NEWCL" \notin files[f].flags
  BY <1>1, ReadyOK
<1>3. to \in Nat /\ (past => pos - to \in Nat)
  BY <1>2, FilesAssumption DEF Slot
<1>4. r \in Slot /\ "NEWCL" \notin r.flags /\ "FAILED" \notin r.flags
  <2> DEFINE q == With(files[f], {}, {"CONTIG"})
  <2>1. q \in Slot /\ "NEWCL" \notin q.flags /\ "FAILED" \notin q.flags
    BY <1>2, WithOK
  <2> HIDE DEF q, past
  <2>2. QED
    BY <1>2, <2>1 DEF q
<1>5. \/ /\ LoadWalk(r.sclust, Steps(to))
         /\ IF CanReach(r, to)
            THEN IF past THEN Zeros(f, At(r, to), pos - to)
                 ELSE SetSlot(f, At(r, to)) /\ UNCHANGED <<pc, call>>
            ELSE SetSlot(f, r) /\ UNCHANGED <<pc, call>>
      \/ /\ LoadFails(WalkLoads(View, r.sclust, Steps(to)))
         /\ SetSlot(f, With(r, {"FAILED"}, {}))
         /\ UNCHANGED <<pc, call>>
  BY DEF Seek
<1> HIDE DEF past, to, r
<1>6. DiskOK'
  BY <1>1, <1>5, LoadWalkOK, LoadFailsOK DEF IndInv
<1>7. CanReach(r, to) => At(r, to) \in Slot /\ At(r, to).flags = r.flags
  BY <1>3, <1>4, AtOK
<1>8. With(r, {"FAILED"}, {}) \in Slot /\ "NEWCL" \notin With(r, {"FAILED"}, {}).flags
  BY <1>4, WithOK DEF Flag
<1>9. CtrlOK'
  <2>1. CASE CanReach(r, to) /\ past /\ Zeros(f, At(r, to), pos - to)
    BY <2>1, <1>1, <1>2, <1>3, <1>4, <1>7, BeginOK DEF Zeros
  <2>2. CASE CanReach(r, to) /\ SetSlot(f, At(r, to)) /\ UNCHANGED <<pc, call>>
    BY <2>2, <1>1, <1>2, <1>4, <1>7, OverOK
  <2>3. CASE SetSlot(f, r) /\ UNCHANGED <<pc, call>>
    BY <2>3, <1>1, <1>2, <1>4, OverOK
  <2>4. CASE SetSlot(f, With(r, {"FAILED"}, {})) /\ UNCHANGED <<pc, call>>
    BY <2>4, <1>1, <1>2, <1>8, OverOK
  <2>5. QED
    BY <2>1, <2>2, <2>3, <2>4, <1>5
<1>10. QED
  BY <1>6, <1>9 DEF IndInv

(* uzefs_fragments preserves the invariant. *)
LEMMA FragmentsInv ==
  ASSUME IndInv, NEW f \in Handle, Fragments(f)
  PROVE  IndInv'
<1> DEFINE r == files[f]
           left == Steps(r.fsize)
<1>1. Ready(f) /\ UNCHANGED <<lent, mounted, hint, pc, call>>
  BY DEF Fragments
<1>2. pc = "idle" /\ r \in Slot /\ "NEWCL" \notin r.flags
  BY <1>1, ReadyOK
<1>3. PICK n \in 0 .. left :
        \/ /\ LoadWalk(r.sclust + n, left - n)
           /\ \E on \in {{"CONTIG"}, {}} : SetSlot(f, With(r, on, {}))
        \/ /\ \/ LoadFails(WalkLoads(View, r.sclust + n, left - n))
              \/ UNCHANGED disk
           /\ SetSlot(f, With(r, {"FAILED"}, {}))
  BY DEF Fragments
<1>4. DiskOK'
  BY <1>1, <1>3, LoadWalkOK, LoadFailsOK, SameDiskOK DEF IndInv
<1>5. PICK on \in {{"CONTIG"}, {}, {"FAILED"}} : SetSlot(f, With(r, on, {}))
  BY <1>3
<1>6. With(r, on, {}) \in Slot /\ "NEWCL" \notin With(r, on, {}).flags
  <2>1. on \in SUBSET Flag /\ "NEWCL" \notin on
    BY DEF Flag
  <2> HIDE DEF r
  <2>2. QED
    BY <1>2, <2>1, WithOK
<1>7. CtrlOK'
  BY <1>1, <1>2, <1>5, <1>6, OverOK
<1>8. QED
  BY <1>4, <1>7 DEF IndInv

(* In a transfer the slot has not failed, and outside of "move" and "link" *)
(* it has nothing to link.                                                 *)
LEMMA CurOK ==
  ASSUME IndInv
  PROVE  /\ call.fh \in Handle /\ Cur \in Slot /\ Cur = files[call.fh]
         /\ pc \in {"chunk", "alloc", "move", "link", "join"} =>
              "FAILED" \notin Cur.flags /\ call.op \in {"read", "write"}
         /\ pc \in {"chunk", "alloc", "join"} => "NEWCL" \notin Cur.flags
<1>1. call.fh \in Handle /\ Cur \in Slot /\ Cur = files[call.fh]
  BY DEF IndInv, CtrlOK, CallType, Cur
<1>2. pc \in {"chunk", "alloc", "move", "link", "join"} =>
        "FAILED" \notin Cur.flags /\ call.op \in {"read", "write"}
  BY <1>1 DEF IndInv, CtrlOK, TransferOK, Has
<1>3. pc \in {"chunk", "alloc", "join"} => Settled
  BY SettledOK DEF IndInv
<1>4. QED
  BY <1>1, <1>2, <1>3 DEF Settled, Has

(* The transfer goes on or ends. *)
LEMMA ContinueOK ==
  ASSUME IndInv, NEW r \in Slot, SetSlot(call.fh, r),
         "NEWCL" \notin r.flags, "FAILED" \notin r.flags,
         call.op \in {"read", "write"},
         NEW left \in Nat, Continue(left), UNCHANGED <<lent, mounted, hint>>
  PROVE  CtrlOK'
<1>1. files' \in [Handle -> Slot] /\ Settled'
  BY CurOK, SetSlotSettledOK DEF IndInv
<1>2. files'[call.fh] = r
  BY CurOK, SetSlotOK DEF IndInv, CtrlOK
<1>3. CASE left = 0
  <2>1. pc' \in {"idle", "unmount"} /\ call' \in CallType
    BY <1>3, ReturnOK DEF Continue, IndInv, CtrlOK
  <2>2. QED
    BY <2>1, <1>1, RestOK DEF IndInv, CtrlOK
<1>4. CASE left # 0
  <2>1. pc' = "chunk" /\ call' = [call EXCEPT !.left = left]
    BY <1>4 DEF Continue
  <2>2. call' \in CallType /\ call'.op = call.op /\ call'.fh = call.fh
    BY <2>1 DEF IndInv, CtrlOK, CallType
  <2>3. QED
    BY <2>1, <2>2, <1>1, <1>2, TransferStepOK DEF IndInv, CtrlOK
<1>5. QED
  BY <1>3, <1>4

(* uzefs_open going to the end preserves the invariant. *)
LEMMA AppendInv == ASSUME IndInv, Append PROVE IndInv'
<1> DEFINE r == Cur
<1>1. pc = "append" /\ UNCHANGED <<lent, mounted, hint>>
  BY DEF Append
<1>2. DiskOK'
  BY <1>1, LoadWalkOK, LoadFailsOK DEF Append, IndInv
<1>3. call.fh \in Handle /\ r \in Slot /\ r.fsize \in Nat
  BY CurOK DEF Slot
<1>4. "NEWCL" \in r.flags => "FAILED" \in r.flags
  BY <1>1, CurOK, SettledOK DEF IndInv, Settled, Has
<1>5. CASE CanReach(r, r.fsize) /\ SetSlot(call.fh, At(r, r.fsize)) /\ Return
  <2>1. At(r, r.fsize) \in Slot /\ At(r, r.fsize).flags = r.flags
    BY <1>3, <1>5, AtOK
  <2>2. files' \in [Handle -> Slot] /\ Settled'
    BY <2>1, <1>3, <1>4, <1>5, SetSlotSettledOK DEF IndInv
  <2>3. pc' \in {"idle", "unmount"} /\ call' \in CallType
    BY <1>5, ReturnOK DEF IndInv, CtrlOK
  <2>4. QED
    BY <2>2, <2>3, <1>1, <1>2, RestOK DEF IndInv, CtrlOK
<1>6. CASE Corrupt
  BY <1>1, <1>2, <1>6, CorruptOK DEF IndInv
<1>7. CASE DiskError
  BY <1>1, <1>2, <1>7, DiskErrorOK DEF IndInv, CtrlOK
<1>8. QED
  BY <1>5, <1>6, <1>7 DEF Append

(* locate inside a cluster preserves the invariant. *)
LEMMA SameClusterInv == ASSUME IndInv, SameCluster PROVE IndInv'
<1> DEFINE r == IF AtBoundary THEN [Cur EXCEPT !.csect = @ + 1] ELSE Cur
<1>1. /\ pc = "chunk" /\ SetSlot(call.fh, r) /\ pc' = "move" /\ UNCHANGED call
      /\ UNCHANGED <<disk, lent, mounted, hint>>
  BY DEF SameCluster, Goto
<1>2. Cur \in Slot /\ "NEWCL" \notin Cur.flags /\ "FAILED" \notin Cur.flags
  BY <1>1, CurOK
<1>3. r \in Slot /\ r.flags = Cur.flags
  <2>1. CASE AtBoundary
    <3>1. Cur.csect + 1 \in 0 .. NDataSects - 1
      BY <1>2, <2>1, NextSectOK DEF SameCluster, InCluster, Slot
    <3>2. QED
      BY <1>2, <2>1, <3>1 DEF Slot
  <2>2. CASE ~AtBoundary
    BY <1>2, <2>2
  <2>3. QED
    BY <2>1, <2>2
<1> HIDE DEF r
<1>4. files' \in [Handle -> Slot] /\ Settled' /\ files'[call.fh] = r
  BY <1>1, <1>2, <1>3, CurOK, SetSlotOK, SetSlotSettledOK DEF IndInv, CtrlOK
<1>5. CtrlOK'
  BY <1>1, <1>2, <1>3, <1>4, CurOK, TransferStepOK DEF IndInv, CtrlOK
<1>6. DiskOK'
  BY <1>1, SameDiskOK DEF IndInv
<1>7. QED
  BY <1>5, <1>6 DEF IndInv

(* locate into the next cluster preserves the invariant. *)
LEMMA NextClusterInv == ASSUME IndInv, NextCluster PROVE IndInv'
<1> DEFINE nx == IF Cur.cclust # 0 THEN FatNext(View, Cur.cclust) ELSE Cur.sclust
           S == IF Cur.cclust # 0 THEN {FatSect(Cur.cclust)} ELSE {}
<1>1. pc = "chunk" /\ UNCHANGED <<lent, mounted, hint>>
  BY DEF NextCluster
<1>2. /\ call.fh \in Handle /\ Cur \in Slot /\ Cur = files[call.fh]
      /\ "NEWCL" \notin Cur.flags /\ "FAILED" \notin Cur.flags
      /\ call.op \in {"read", "write"}
  BY <1>1, CurOK
<1>3. S # {} => FatSect(Cur.cclust) \in S /\ FatSect(Cur.cclust) \in Sector
  BY <1>2, Sectors DEF Slot
<1>4. \/ Load(S, FatSect(Cur.cclust))
      \/ LoadFails(S)
  BY DEF NextCluster
<1>5. DiskOK'
  BY <1>1, <1>3, <1>4, LoadOK, LoadFailsOK DEF IndInv
<1>6. \/ /\ nx \in Cluster
         /\ SetSlot(call.fh, [Cur EXCEPT !.cclust = nx, !.csect = ClustSect(nx)])
         /\ Goto("move")
      \/ call.op = "write" /\ UNCHANGED files /\ Goto("alloc")
      \/ Corrupt
      \/ DiskError
  BY DEF NextCluster
<1> HIDE DEF nx, S
<1>7. CASE /\ nx \in Cluster
           /\ SetSlot(call.fh, [Cur EXCEPT !.cclust = nx, !.csect = ClustSect(nx)])
           /\ Goto("move")
  <2> DEFINE r == [Cur EXCEPT !.cclust = nx, !.csect = ClustSect(nx)]
  <2>1. ClustSect(nx) \in 0 .. NDataSects - 1
    <3>1. 0 \in 0 .. SPC - 1 /\ ClustSect(nx) \in Int
      BY <1>7, GeometryAssumption DEF Cluster, ClustSect
    <3>2. ClustSect(nx) + 0 \in 0 .. NDataSects - 1
      BY <3>1, <1>7, ClustSectOK
    <3>3. QED
      BY <3>1, <3>2
  <2>2. r \in Slot /\ r.flags = Cur.flags
    BY <1>2, <1>7, <2>1 DEF Slot
  <2>3. SetSlot(call.fh, r) /\ pc' = "move" /\ UNCHANGED call
    BY <1>7 DEF Goto
  <2> HIDE DEF r
  <2>4. files' \in [Handle -> Slot] /\ Settled' /\ files'[call.fh] = r
    BY <1>1, <1>2, <2>2, <2>3, SetSlotOK, SetSlotSettledOK DEF IndInv, CtrlOK
  <2>5. QED
    BY <1>1, <1>2, <2>2, <2>3, <2>4, <1>5, TransferStepOK DEF IndInv, CtrlOK
<1>8. CASE call.op = "write" /\ UNCHANGED files /\ Goto("alloc")
  <2>1. Settled' /\ files' \in [Handle -> Slot] /\ files'[call.fh] = Cur
    BY <1>1, <1>2, <1>8, SettledOK DEF Settled, Has, IndInv, CtrlOK
  <2>2. pc' = "alloc" /\ UNCHANGED call
    BY <1>8 DEF Goto
  <2>3. QED
    BY <1>1, <1>2, <1>5, <1>8, <2>1, <2>2, TransferStepOK DEF IndInv, CtrlOK
<1>9. CASE Corrupt
  BY <1>1, <1>5, <1>9, CorruptOK DEF IndInv
<1>10. CASE DiskError
  BY <1>1, <1>5, <1>10, DiskErrorOK DEF IndInv, CtrlOK
<1>11. QED
  BY <1>6, <1>7, <1>8, <1>9, <1>10

(* alloc_cluster preserves the invariant. *)
LEMMA AllocInv == ASSUME IndInv, NEW cl \in Cluster, Alloc(cl) PROVE IndInv'
<1> DEFINE k == SetFat(View, cl, EOC)
<1>1. pc = "alloc" /\ UNCHANGED <<lent, mounted>>
  BY DEF Alloc
<1>2. /\ call.fh \in Handle /\ Cur \in Slot /\ Cur = files[call.fh]
      /\ "NEWCL" \notin Cur.flags /\ "FAILED" \notin Cur.flags
      /\ call.op = "write"
  BY <1>1, CurOK DEF IndInv, CtrlOK, TransferOK
<1>3. cl + 1 \in 2 .. MaxClust /\ cl + 1 > 2 /\ hint \in 2 .. MaxClust
  BY GeometryAssumption DEF Cluster, IndInv, CtrlOK
<1>4. CASE /\ card' = Wiped(CardAfterPut(AllocLoads(cl), k), cl)
           /\ HoldPut(FatSect(cl), k)
           /\ hint' = cl + 1
           /\ SetSlot(call.fh, [With(Cur, {"NEWCL"}, {}) EXCEPT !.csect = ClustSect(cl)])
           /\ Goto("move")
  <2> DEFINE q == With(Cur, {"NEWCL"}, {})
             r == [q EXCEPT !.csect = ClustSect(cl)]
  <2>1. FatSect(cl) \in AllocLoads(cl)
    BY <1>3, AllocLoadsOK
  <2>2. DiskOK'
    BY <1>1, <1>4, <2>1, AllocOK DEF IndInv
  <2>3. ClustSect(cl) \in 0 .. NDataSects - 1
    <3>1. 0 \in 0 .. SPC - 1 /\ ClustSect(cl) \in Int
      BY GeometryAssumption DEF Cluster, ClustSect
    <3>2. ClustSect(cl) + 0 \in 0 .. NDataSects - 1
      BY <3>1, ClustSectOK
    <3>3. QED
      BY <3>1, <3>2
  <2>4. q \in Slot /\ q.flags = Cur.flags \cup {"NEWCL"}
    <3>1. {"NEWCL"} \in SUBSET Flag
      BY DEF Flag
    <3>2. q \in Slot /\ q.flags = (Cur.flags \ {}) \cup {"NEWCL"}
      BY <1>2, <3>1, WithOK
    <3>3. QED
      BY <3>2
  <2>5. SetSlot(call.fh, r) /\ pc' = "move" /\ UNCHANGED call /\ hint' = cl + 1
    BY <1>4 DEF Goto
  <2> HIDE DEF q
  <2>6. r \in Slot /\ r.flags = Cur.flags \cup {"NEWCL"}
    BY <2>3, <2>4 DEF Slot
  <2> HIDE DEF r
  <2>7. /\ files' \in [Handle -> Slot] /\ files'[call.fh] = r
        /\ \A g \in Handle : g # call.fh => files'[g] = files[g]
    BY <1>2, <2>5, <2>6, SetSlotOK DEF IndInv, CtrlOK
  <2>8. NewClOK'
    BY <2>5, <2>7, SettledOK DEF NewClOK, Has, IndInv
  <2>9. TransferOK' /\ HintOK' /\ ClustOK'
    BY <1>2, <1>3, <2>5, <2>6, <2>7 DEF TransferOK, HintOK, ClustOK, Has
  <2>10. CtrlOK'
    BY <1>1, <1>3, <2>5, <2>7, <2>8, <2>9 DEF IndInv, CtrlOK, StepName
  <2>11. QED
    BY <2>2, <2>10 DEF IndInv
<1>5. CASE LoadFails(AllocLoads(cl)) /\ UNCHANGED hint /\ DiskError
  BY <1>1, <1>3, <1>5, LoadFailsOK, DiskErrorOK DEF IndInv
<1>6. CASE PutFails({}, k) /\ hint' = cl + 1 /\ DiskError
  <2>1. IsCard(k)
    BY ViewCard, SetFatCard, FatValues DEF IndInv
  <2>2. QED
    BY <2>1, <1>1, <1>3, <1>6, PutFailsOK, DiskErrorOK DEF IndInv
<1>7. QED
  BY <1>4, <1>5, <1>6 DEF Alloc

(* alloc_cluster on a full card preserves the invariant. *)
LEMMA AllocFullInv == ASSUME IndInv, AllocFull PROVE IndInv'
<1>1. pc = "alloc" /\ UNCHANGED <<lent, mounted, hint>>
  BY DEF AllocFull
<1>2. DiskOK'
  BY <1>1, LastFatOK, LoadOK, LoadFailsOK DEF AllocFull, IndInv
<1>3. CASE Return /\ UNCHANGED files
  BY <1>1, <1>2, <1>3, ReturnOK, SameFilesOK DEF IndInv, CtrlOK
<1>4. CASE DiskError
  BY <1>1, <1>2, <1>4, DiskErrorOK DEF IndInv, CtrlOK
<1>5. QED
  BY <1>3, <1>4 DEF AllocFull

(* A chunk moves the position, and never moves more than is left. *)
LEMMA ChunkOK ==
  ASSUME IndInv
  PROVE  /\ Moved(Cur) \in Slot /\ Moved(Cur).flags = Cur.flags
         /\ call.left - Chunk \in Nat
<1>1. Cur \in Slot /\ Cur.fptr \in Nat /\ Cur.fsize \in Nat
  BY CurOK DEF Slot
<1>2. call.left \in Nat
  BY DEF IndInv, CtrlOK, CallType
<1>3. Offset \in Nat /\ Offset < UPS /\ UPS \in Nat
  BY <1>1, GeometryAssumption DEF Offset
<1>4. Chunk \in Nat /\ Chunk <= call.left
  BY <1>2, <1>3 DEF Chunk
<1>5. Cur.fptr + Chunk \in Nat
  BY <1>1, <1>4
<1>6. Moved(Cur) \in Slot /\ Moved(Cur).flags = Cur.flags
  BY <1>1, <1>5 DEF Moved, Slot
<1>7. QED
  BY <1>2, <1>4, <1>6

(* A chunk read preserves the invariant. *)
LEMMA ReadChunkInv == ASSUME IndInv, ReadChunk PROVE IndInv'
<1> DEFINE s == DataSect(Cur.csect)
           S == IF Chunk = UPS /\ s \notin DOMAIN kept THEN {} ELSE {s}
<1>1. pc = "move" /\ call.op = "read" /\ UNCHANGED <<lent, mounted, hint>>
  BY DEF ReadChunk
<1>2. Cur \in Slot /\ Cur = files[call.fh] /\ "FAILED" \notin Cur.flags
  BY <1>1, CurOK
<1>3. "NEWCL" \notin Cur.flags
  BY <1>1, <1>2 DEF IndInv, CtrlOK, HintOK, Has
<1>4. s \in Sector /\ (S # {} => s \in S)
  BY <1>2, Sectors DEF Slot
<1>5. \/ Load(S, s) /\ SetSlot(call.fh, Moved(Cur)) /\ Continue(call.left - Chunk)
      \/ (LoadFails(S) \/ UNCHANGED disk) /\ DiskError
  BY DEF ReadChunk
<1> HIDE DEF S, s
<1>6. DiskOK'
  BY <1>1, <1>4, <1>5, LoadOK, LoadFailsOK, SameDiskOK DEF IndInv
<1>7. CASE SetSlot(call.fh, Moved(Cur)) /\ Continue(call.left - Chunk)
  BY <1>1, <1>2, <1>3, <1>6, <1>7, ChunkOK, ContinueOK DEF IndInv
<1>8. CASE DiskError
  BY <1>1, <1>6, <1>8, DiskErrorOK DEF IndInv, CtrlOK
<1>9. QED
  BY <1>5, <1>7, <1>8

(* A chunk written preserves the invariant. *)
LEMMA WriteChunkInv == ASSUME IndInv, WriteChunk PROVE IndInv'
<1> DEFINE r == With(Moved(Cur), {"DIRTY"}, {})
<1>1. pc = "move" /\ call.op = "write" /\ UNCHANGED <<lent, mounted, hint>>
  BY DEF WriteChunk
<1>2. /\ call.fh \in Handle /\ Cur \in Slot /\ Cur = files[call.fh]
      /\ "FAILED" \notin Cur.flags
  BY <1>1, CurOK
<1>3. DiskOK'
  <2>1. CASE Chunk = UPS
    <3>1. Cur.csect \in 0 .. NDataSects - 1
      BY <1>2 DEF Slot
    <3>2. WholeSector(Cur.csect)
      BY <2>1 DEF WriteChunk
    <3>3. QED
      BY <1>1, <3>1, <3>2, WholeSectorOK DEF WholeSector, IndInv
  <2>2. CASE Chunk # UPS
    BY <1>1, <2>2, MergedOK DEF WriteChunk, IndInv
  <2>3. QED
    BY <2>1, <2>2
<1>4. r \in Slot /\ r.flags = Cur.flags \cup {"DIRTY"}
  <2>1. {"DIRTY"} \in SUBSET Flag
    BY DEF Flag
  <2>2. r \in Slot /\ r.flags = (Cur.flags \ {}) \cup {"DIRTY"}
    BY <2>1, ChunkOK, WithOK
  <2>3. QED
    BY <2>2
<1>5. SetSlot(call.fh, r)
  BY DEF WriteChunk, Written
<1> HIDE DEF r
<1>6. CASE Has(call.fh, "NEWCL")
  <2>1. pc' = "link" /\ call' = [call EXCEPT !.left = @ - Chunk]
    BY <1>6 DEF WriteChunk, LinkNext
  <2>2. call' \in CallType /\ call'.fh = call.fh /\ call'.op = "write"
    BY <1>1, <2>1, ChunkOK DEF IndInv, CtrlOK, CallType
  <2>3. /\ files' \in [Handle -> Slot] /\ files'[call.fh] = r
        /\ \A g \in Handle : g # call.fh => files'[g] = files[g]
    BY <1>2, <1>4, <1>5, SetSlotOK DEF IndInv, CtrlOK
  <2>4. NewClOK'
    BY <2>1, <2>2, <2>3, SettledOK DEF NewClOK, Has, IndInv
  <2>5. hint' > 2
    BY <1>1, <1>6 DEF IndInv, CtrlOK, HintOK
  <2>6. TransferOK' /\ HintOK' /\ ClustOK'
    BY <1>2, <1>4, <2>1, <2>2, <2>3, <2>5 DEF TransferOK, HintOK, ClustOK, Has
  <2>7. CtrlOK'
    BY <1>1, <2>1, <2>2, <2>3, <2>4, <2>6 DEF IndInv, CtrlOK, StepName
  <2>8. QED
    BY <1>3, <2>7 DEF IndInv
<1>7. CASE ~Has(call.fh, "NEWCL")
  <2>1. "NEWCL" \notin r.flags /\ "FAILED" \notin r.flags
    BY <1>2, <1>4, <1>7 DEF Has
  <2>2. Continue(call.left - Chunk)
    BY <1>7 DEF WriteChunk, LinkNext
  <2>3. CtrlOK'
    BY <1>1, <1>4, <1>5, <2>1, <2>2, ChunkOK, ContinueOK
  <2>4. QED
    BY <1>3, <2>3 DEF IndInv
<1>8. QED
  BY <1>6, <1>7

(* A chunk the card fails to write preserves the invariant. *)
LEMMA WriteChunkFailsInv == ASSUME IndInv, WriteChunkFails PROVE IndInv'
<1>1. UNCHANGED <<lent, mounted, hint>> /\ DiskError
  BY DEF WriteChunkFails
<1>2. Cur.csect \in 0 .. NDataSects - 1
  BY CurOK DEF Slot
<1>3. DiskOK'
  <2>1. CASE Chunk = UPS
    <3>1. WholeSectorFails(Cur.csect)
      BY <2>1 DEF WriteChunkFails
    <3>2. QED
      BY <1>1, <1>2, <3>1, WholeSectorOK DEF WholeSectorFails, IndInv
  <2>2. CASE Chunk # UPS
    BY <1>1, <2>2, MergedOK DEF WriteChunkFails, IndInv
  <2>3. QED
    BY <2>1, <2>2
<1>4. CtrlOK'
  BY <1>1, DiskErrorOK DEF IndInv, CtrlOK
<1>5. QED
  BY <1>3, <1>4 DEF IndInv

(* The cluster before the hint can follow another in a chain. *)
LEMMA NewClustOK ==
  ASSUME IndInv, pc \in {"link", "join"}
  PROVE  NewClust \in Cluster
<1>1. hint > 2 /\ hint \in 2 .. MaxClust /\ MaxClust \in Nat
  BY GeometryAssumption DEF IndInv, CtrlOK, HintOK
<1>2. QED
  BY <1>1 DEF NewClust, Cluster

(* The slot while its cluster is linked. *)
LEMMA LinkedOK ==
  ASSUME IndInv, pc \in {"link", "join"}, NEW r \in Slot
  PROVE  /\ Linked(r) \in Slot /\ Linked(r).flags = r.flags
         /\ With(Linked(r), {"FAILED"}, {}) \in Slot
         /\ "FAILED" \in With(Linked(r), {"FAILED"}, {}).flags
<1> DEFINE q == Linked(r)
<1>1. q \in Slot /\ q.flags = r.flags
  BY NewClustOK DEF Linked, Slot
<1>2. {"FAILED"} \in SUBSET Flag
  BY DEF Flag
<1> HIDE DEF q
<1>3. /\ With(q, {"FAILED"}, {}) \in Slot
      /\ With(q, {"FAILED"}, {}).flags = (q.flags \ {}) \cup {"FAILED"}
  BY <1>1, <1>2, WithOK
<1>4. QED
  BY <1>1, <1>3 DEF q

(* Linking that fails ends the call. *)
LEMMA LinkFailsOK ==
  ASSUME IndInv, pc \in {"link", "join"}, NEW r \in Slot, LinkFails(r),
         UNCHANGED <<lent, mounted, hint>>
  PROVE  CtrlOK'
<1> DEFINE q == With(Linked(r), {"FAILED"}, {})
<1>1. q \in Slot /\ "FAILED" \in q.flags
  BY LinkedOK
<1> HIDE DEF q
<1>2. SetSlot(call.fh, q) /\ Return
  BY DEF LinkFails, q
<1>3. files' \in [Handle -> Slot] /\ Settled'
  BY <1>1, <1>2, CurOK, SetSlotSettledOK DEF IndInv
<1>4. QED
  BY <1>2, <1>3, ReturnOK, RestOK DEF IndInv, CtrlOK

(* link_new, its directory entry preserves the invariant. *)
LEMMA LinkInv == ASSUME IndInv, Link PROVE IndInv'
<1>1. pc = "link" /\ UNCHANGED <<lent, mounted, hint>>
  BY DEF Link
<1>2. /\ call.fh \in Handle /\ Cur \in Slot /\ Cur = files[call.fh]
      /\ "FAILED" \notin Cur.flags /\ call.op \in {"read", "write"}
      /\ call.left \in Nat
  BY <1>1, CurOK DEF IndInv, CtrlOK, CallType
<1>3. /\ Linking \in Slot /\ Linking.cclust = Cur.cclust
      /\ "NEWCL" \notin Linking.flags /\ "FAILED" \notin Linking.flags
  <2> DEFINE q == With(Cur, {}, {"NEWCL"})
  <2>1. q \in Slot /\ q.flags = Cur.flags \ {"NEWCL"} /\ q.cclust = Cur.cclust
    BY <1>2, WithoutOK
  <2>2. NewClust \in Cluster
    BY <1>1, NewClustOK
  <2>3. Linking = [q EXCEPT !.sclust = IF Cur.cclust = 0 THEN NewClust ELSE @]
    BY DEF Linking
  <2> HIDE DEF q
  <2>4. QED
    BY <1>2, <2>1, <2>2, <2>3 DEF Slot
<1>4. DiskOK'
  BY <1>1, <1>3, DirWriteOK, DirWriteFailsOK DEF Link, IndInv
<1>5. CASE SetSlot(call.fh, Linked(Linking)) /\ Continue(call.left)
  <2>1. Linked(Linking) \in Slot /\ Linked(Linking).flags = Linking.flags
    BY <1>1, <1>3, LinkedOK
  <2>2. CtrlOK'
    BY <1>1, <1>2, <1>3, <1>5, <2>1, ContinueOK
  <2>3. QED
    BY <1>4, <2>2 DEF IndInv
<1>6. CASE Cur.cclust # 0 /\ SetSlot(call.fh, Linking) /\ Goto("join")
  <2>1. pc' = "join" /\ UNCHANGED call
    BY <1>6 DEF Goto
  <2>2. files' \in [Handle -> Slot] /\ Settled' /\ files'[call.fh] = Linking
    BY <1>2, <1>3, <1>6, SetSlotOK, SetSlotSettledOK DEF IndInv, CtrlOK
  <2>3. hint' > 2 /\ call.op = "write"
    BY <1>1 DEF IndInv, CtrlOK, HintOK
  <2>4. NewClOK' /\ TransferOK' /\ HintOK' /\ ClustOK'
    BY <1>3, <1>6, <2>1, <2>2, <2>3
       DEF Settled, NewClOK, TransferOK, HintOK, ClustOK, Has, Cur
  <2>5. CtrlOK'
    BY <1>1, <2>1, <2>2, <2>4 DEF IndInv, CtrlOK, StepName
  <2>6. QED
    BY <1>4, <2>5 DEF IndInv
<1>7. CASE LinkFails(Linking)
  BY <1>1, <1>3, <1>4, <1>7, LinkFailsOK DEF IndInv
<1>8. QED
  BY <1>5, <1>6, <1>7 DEF Link

(* link_new, its FAT link preserves the invariant. *)
LEMMA JoinInv == ASSUME IndInv, Join PROVE IndInv'
<1>1. pc = "join" /\ UNCHANGED <<lent, mounted, hint>>
  BY DEF Join
<1>2. /\ call.fh \in Handle /\ Cur \in Slot /\ call.left \in Nat
      /\ "FAILED" \notin Cur.flags /\ "NEWCL" \notin Cur.flags
      /\ call.op \in {"read", "write"}
  BY <1>1, CurOK DEF IndInv, CtrlOK, CallType
<1>3. Cur.cclust \in Cluster /\ NewClust \in Cluster /\ NewClust \in FatValue
  BY <1>1, <1>2, NewClustOK, FatValues DEF Slot, IndInv, CtrlOK, ClustOK
<1>4. DiskOK'
  BY <1>1, <1>3, FatPutOK, FatPutFailsOK DEF Join, IndInv
<1>5. CASE SetSlot(call.fh, Linked(Cur)) /\ Continue(call.left)
  <2>1. Linked(Cur) \in Slot /\ Linked(Cur).flags = Cur.flags
    BY <1>1, <1>2, LinkedOK
  <2>2. CtrlOK'
    BY <1>1, <1>2, <1>5, <2>1, ContinueOK
  <2>3. QED
    BY <1>4, <2>2 DEF IndInv
<1>6. CASE LinkFails(Cur)
  BY <1>1, <1>2, <1>4, <1>6, LinkFailsOK DEF IndInv
<1>7. QED
  BY <1>5, <1>6 DEF Join

(* A truncate that begins to cut. *)
LEMMA BeginCutOK ==
  ASSUME IndInv, pc = "idle", NEW f \in Handle, NEW r \in Slot,
         "NEWCL" \notin r.flags, NEW cl \in 0 .. MaxClust,
         NEW step \in {"cut", "size"}, step = "cut" => r.cclust # 0,
         BeginCut(f, r, cl, step), UNCHANGED <<lent, mounted, hint>>
  PROVE  CtrlOK'
<1>1. SetSlot(f, r) /\ pc' = step
      /\ call' = [NoCall EXCEPT !.op = "truncate", !.fh = f, !.cl = cl]
  BY DEF BeginCut
<1>2. call' \in CallType /\ call'.fh = f
  BY <1>1, NoCallOK DEF Op, NoCall
<1>3. files' \in [Handle -> Slot] /\ Settled' /\ files'[f] = r
  BY <1>1, SetSlotOK, SetSlotSettledOK DEF IndInv, CtrlOK
<1>4. NewClOK' /\ TransferOK' /\ HintOK' /\ ClustOK'
  BY <1>1, <1>2, <1>3 DEF Settled, NewClOK, TransferOK, HintOK, ClustOK, Cur
<1>5. QED
  BY <1>1, <1>2, <1>3, <1>4 DEF IndInv, CtrlOK, StepName

(* uzefs_truncate, as it begins preserves the invariant. *)
LEMMA TruncateInv ==
  ASSUME IndInv, NEW f \in Handle, Truncate(f)
  PROVE  IndInv'
<1> DEFINE r == With(files[f], {}, {"CONTIG"})
           nx == FatNext(View, r.cclust)
           c == [r EXCEPT !.fsize = r.fptr]
           z == [r EXCEPT !.sclust = 0, !.fsize = 0]
           S == {FatSect(r.cclust)}
           x == With(c, {"FAILED"}, {})
<1>1. Ready(f) /\ UNCHANGED <<lent, mounted, hint>>
  BY DEF Truncate, CanWrite
<1>2. /\ pc = "idle" /\ files[f] \in Slot
      /\ "FAILED" \notin files[f].flags /\ "NEWCL" \notin files[f].flags
  BY <1>1, ReadyOK
<1>3. r \in Slot /\ "NEWCL" \notin r.flags
  BY <1>2, WithoutOK
<1>4. \/ r.cclust = 0 /\ BeginCut(f, z, r.sclust, "size") /\ UNCHANGED disk
      \/ /\ r.cclust # 0 /\ Load(S, FatSect(r.cclust))
         /\ \/ nx \in Cluster /\ BeginCut(f, c, nx, "cut")
            \/ BeginCut(f, c, 0, "size")
            \/ SetSlot(f, c) /\ UNCHANGED <<pc, call>>
      \/ /\ LoadFails(S)
         /\ SetSlot(f, x) /\ UNCHANGED <<pc, call>>
  BY DEF Truncate
<1>5. c \in Slot /\ c.flags = r.flags /\ c.cclust = r.cclust
  BY <1>3 DEF Slot
<1>6. z \in Slot /\ z.flags = r.flags /\ r.sclust \in 0 .. MaxClust
  <2> HIDE DEF r
  <2>1. z \in Slot /\ z.flags = r.flags
    BY <1>3 DEF Slot
  <2>2. r.sclust \in 0 .. MaxClust
    BY <1>3, GeometryAssumption DEF Slot, Cluster
  <2>3. QED
    BY <2>1, <2>2
<1>7. x \in Slot /\ "NEWCL" \notin x.flags
  <2>1. {"FAILED"} \in SUBSET Flag
    BY DEF Flag
  <2> HIDE DEF c
  <2>2. x \in Slot /\ x.flags = (c.flags \ {}) \cup {"FAILED"}
    BY <1>5, <2>1, WithOK
  <2>3. QED
    BY <1>3, <1>5, <2>2
<1>8. r.cclust # 0 => FatSect(r.cclust) \in Sector
  BY <1>3, Sectors DEF Slot
<1>9. Cluster \subseteq 0 .. MaxClust /\ 0 \in 0 .. MaxClust
  BY GeometryAssumption DEF Cluster
<1> HIDE DEF r, nx, c, z, x
<1>10. DiskOK'
  BY <1>1, <1>4, <1>8, LoadOK, LoadFailsOK, SameDiskOK DEF IndInv
<1>11. CtrlOK'
  <2>1. CASE r.cclust = 0 /\ BeginCut(f, z, r.sclust, "size")
    BY <2>1, <1>1, <1>2, <1>3, <1>6, BeginCutOK
  <2>2. CASE r.cclust # 0 /\ nx \in Cluster /\ BeginCut(f, c, nx, "cut")
    BY <2>2, <1>1, <1>2, <1>3, <1>5, <1>9, BeginCutOK
  <2>3. CASE BeginCut(f, c, 0, "size")
    BY <2>3, <1>1, <1>2, <1>3, <1>5, <1>9, BeginCutOK
  <2>4. CASE SetSlot(f, c) /\ UNCHANGED <<pc, call>>
    BY <2>4, <1>1, <1>2, <1>3, <1>5, OverOK
  <2>5. CASE SetSlot(f, x) /\ UNCHANGED <<pc, call>>
    BY <2>5, <1>1, <1>2, <1>7, OverOK
  <2>6. QED
    BY <2>1, <2>2, <2>3, <2>4, <2>5, <1>4
<1>12. QED
  BY <1>10, <1>11 DEF IndInv

(* The cut of a chain preserves the invariant. *)
LEMMA CutInv == ASSUME IndInv, Cut PROVE IndInv'
<1>1. pc = "cut" /\ UNCHANGED <<lent, mounted, hint>>
  BY DEF Cut
<1>2. Cur.cclust \in Cluster
  BY <1>1, CurOK DEF IndInv, CtrlOK, ClustOK, Slot
<1>3. DiskOK'
  BY <1>1, <1>2, FatValues, FatPutOK, FatPutFailsOK DEF Cut, IndInv
<1>4. CASE Goto("size") /\ UNCHANGED files
  BY <1>1, <1>3, <1>4, SameFilesOK DEF Goto, IndInv, CtrlOK
<1>5. CASE DiskError
  BY <1>1, <1>3, <1>5, DiskErrorOK DEF IndInv, CtrlOK
<1>6. QED
  BY <1>4, <1>5 DEF Cut

(* The end of a truncate. *)
LEMMA DoneOK ==
  ASSUME IndInv, Done
  PROVE  pc' \in {"idle", "unmount", "append"} /\ call' \in CallType
BY ReturnOK DEF Done, Goto, IndInv, CtrlOK

(* cut_chain, its directory entry preserves the invariant. *)
LEMMA CutSizeInv == ASSUME IndInv, CutSize PROVE IndInv'
<1> DEFINE r == With(Cur, {}, {"DIRTY"})
           x == With(r, {"FAILED"}, {})
<1>1. pc = "size" /\ UNCHANGED <<lent, mounted, hint>>
  BY DEF CutSize
<1>2. call.fh \in Handle /\ Cur \in Slot /\ Cur = files[call.fh]
  BY CurOK
<1>3. "NEWCL" \in Cur.flags => "FAILED" \in Cur.flags
  BY <1>1, <1>2, SettledOK DEF IndInv, Settled, Has
<1>4. r \in Slot /\ r.flags = Cur.flags \ {"DIRTY"}
  BY <1>2, WithoutOK
<1>5. \/ DirWrite(r) /\ SetSlot(call.fh, r) /\ (Goto("free") \/ Done)
      \/ /\ DirWriteFails(r)
         /\ SetSlot(call.fh, FreeSlot) \/ SetSlot(call.fh, x)
         /\ Return
  BY DEF CutSize
<1> HIDE DEF r
<1>6. x \in Slot /\ "FAILED" \in x.flags
  <2>1. {"FAILED"} \in SUBSET Flag
    BY DEF Flag
  <2>2. x \in Slot /\ x.flags = (r.flags \ {}) \cup {"FAILED"}
    BY <1>4, <2>1, WithOK
  <2>3. QED
    BY <2>2
<1> HIDE DEF x
<1>7. DiskOK'
  BY <1>1, <1>4, <1>5, DirWriteOK, DirWriteFailsOK DEF IndInv
<1>8. files' \in [Handle -> Slot] /\ Settled'
  BY <1>2, <1>3, <1>4, <1>5, <1>6, FreeSlotOK, SetSlotSettledOK DEF IndInv
<1>9. pc' \in {"idle", "unmount", "append", "free"} /\ call' \in CallType
  BY <1>5, ReturnOK, DoneOK DEF Goto, IndInv, CtrlOK
<1>10. CtrlOK'
  BY <1>1, <1>8, <1>9, RestOK DEF IndInv, CtrlOK
<1>11. QED
  BY <1>7, <1>10 DEF IndInv

(* free_chain, one cluster preserves the invariant. *)
LEMMA FreeInv == ASSUME IndInv, Free PROVE IndInv'
<1> DEFINE cl == call.cl
           nx == FatNext(View, cl)
<1>1. pc = "free" /\ UNCHANGED <<lent, mounted>>
  BY DEF Free
<1>2. nx # Bad => cl \in Cluster /\ nx \in Cluster \cup {0}
  BY FatNextOK
<1>3. 0 \in FatValue /\ hint \in 2 .. MaxClust /\ MaxClust \in Nat
  BY FatValues, GeometryAssumption DEF IndInv, CtrlOK
<1>4. CASE /\ nx # Bad
           /\ FatPut(cl, 0)
           /\ hint' = (IF cl < hint THEN cl ELSE hint)
           /\ IF nx # 0 THEN pc' = pc /\ call' = [call EXCEPT !.cl = nx] ELSE Done
           /\ UNCHANGED files
  <2>1. DiskOK'
    BY <1>1, <1>2, <1>3, <1>4, FatPutOK DEF IndInv
  <2>2. hint' \in 2 .. MaxClust
    BY <1>2, <1>3, <1>4 DEF Cluster
  <2>3. pc' \in {"free", "idle", "unmount", "append"} /\ call' \in CallType
    <3>1. CASE nx # 0
      <4>1. nx \in 0 .. MaxClust
        BY <1>2, <1>3, <1>4, <3>1 DEF Cluster
      <4> HIDE DEF nx
      <4>2. QED
        BY <1>1, <1>4, <3>1, <4>1 DEF IndInv, CtrlOK, CallType
    <3>2. CASE nx = 0
      BY <1>4, <3>2, DoneOK
    <3>3. QED
      BY <3>1, <3>2
  <2>4. CtrlOK'
    BY <1>1, <1>4, <2>2, <2>3, SameFilesOK DEF IndInv, CtrlOK
  <2>5. QED
    BY <2>1, <2>4 DEF IndInv
<1>5. CASE /\ IF cl \in Cluster THEN Load({FatSect(cl)}, FatSect(cl)) ELSE UNCHANGED disk
           /\ Corrupt /\ UNCHANGED hint
  <2>1. DiskOK'
    BY <1>1, <1>5, Sectors, LoadOK, SameDiskOK DEF IndInv
  <2>2. QED
    BY <1>1, <1>5, <2>1, CorruptOK DEF IndInv
<1>6. CASE /\ cl \in Cluster
           /\ FatPutFails(cl, 0) \/ LoadFails({FatSect(cl)})
           /\ DiskError /\ UNCHANGED hint
  <2>1. DiskOK'
    BY <1>1, <1>3, <1>6, FatPutFailsOK, LoadFailsOK DEF IndInv
  <2>2. QED
    BY <1>1, <1>3, <1>6, <2>1, DiskErrorOK DEF IndInv
<1>7. QED
  BY <1>4, <1>5, <1>6 DEF Free

(* uzefs_sync and uzefs_close, as they begin, preserve the invariant. *)
LEMMA SyncInv ==
  ASSUME IndInv, NEW f \in Handle, NEW op \in {"sync", "close"}, Sync(f, op)
  PROVE  IndInv'
<1>1. pc = "idle" /\ UNCHANGED <<disk, lent, mounted, hint>>
  BY DEF Sync
<1>2. DiskOK'
  BY <1>1, SameDiskOK DEF IndInv
<1>3. CASE Has(f, "FAILED")
  <2>1. SetSlot(f, FreeSlot) /\ UNCHANGED <<pc, call>>
    BY <1>3 DEF Sync
  <2>2. CtrlOK'
    BY <1>1, <2>1, FreeSlotOK, OverOK
  <2>3. QED
    BY <1>2, <2>2 DEF IndInv
<1>4. CASE ~Has(f, "FAILED")
  <2>1. /\ pc' \in {"entry", "flush"} /\ UNCHANGED files
        /\ call' = [NoCall EXCEPT !.op = op, !.fh = f]
    BY <1>4 DEF Sync
  <2>2. call' \in CallType
    <3>1. op \in Op
      BY DEF Op
    <3>2. QED
      BY <2>1, <3>1, NoCallOK
  <2>3. CtrlOK'
    BY <1>1, <2>1, <2>2, SameFilesOK DEF IndInv, CtrlOK
  <2>4. QED
    BY <1>2, <2>3 DEF IndInv
<1>5. QED
  BY <1>3, <1>4

(* uzefs_sync writing the entry preserves the invariant. *)
LEMMA SyncEntryInv == ASSUME IndInv, SyncEntry PROVE IndInv'
<1>1. pc = "entry" /\ UNCHANGED <<lent, mounted, hint>>
  BY DEF SyncEntry
<1>2. DiskOK'
  BY <1>1, CurOK, DirWriteOK, DirWriteFailsOK DEF SyncEntry, IndInv
<1>3. CASE Goto("flush") /\ UNCHANGED files
  BY <1>1, <1>2, <1>3, SameFilesOK DEF Goto, IndInv, CtrlOK
<1>4. CASE DiskError
  BY <1>1, <1>2, <1>4, DiskErrorOK DEF IndInv, CtrlOK
<1>5. QED
  BY <1>3, <1>4 DEF SyncEntry

(* uzefs_sync and uzefs_close flushing the buffer preserve the invariant. *)
LEMMA SyncDoneInv == ASSUME IndInv, SyncDone PROVE IndInv'
<1> DEFINE r == With(Cur, {}, {"DIRTY"})
<1>1. pc = "flush" /\ Return /\ UNCHANGED <<lent, mounted, hint>>
  BY DEF SyncDone
<1>2. DiskOK'
  BY <1>1, FlushOK DEF SyncDone, IndInv
<1>3. call.fh \in Handle /\ Cur \in Slot /\ Cur = files[call.fh]
  BY CurOK
<1>4. r \in Slot /\ r.flags = Cur.flags \ {"DIRTY"}
  BY <1>3, WithoutOK
<1>5. "NEWCL" \in Cur.flags => "FAILED" \in Cur.flags
  BY <1>1, <1>3, SettledOK DEF IndInv, Settled, Has
<1>6. SetSlot(call.fh, r) \/ SetSlot(call.fh, FreeSlot)
  BY DEF SyncDone
<1> HIDE DEF r
<1>7. files' \in [Handle -> Slot] /\ Settled'
  BY <1>3, <1>4, <1>5, <1>6, FreeSlotOK, SetSlotSettledOK DEF IndInv
<1>8. CtrlOK'
  BY <1>1, <1>7, ReturnOK, RestOK DEF IndInv, CtrlOK
<1>9. QED
  BY <1>2, <1>8 DEF IndInv

(* A flush the card fails preserves the invariant. *)
LEMMA SyncFlushFailsInv == ASSUME IndInv, SyncFlushFails PROVE IndInv'
<1>1. UNCHANGED <<lent, mounted, hint>> /\ FlushFails /\ DiskError
  BY DEF SyncFlushFails
<1>2. DiskOK'
  BY <1>1, FlushFailsOK DEF IndInv
<1>3. QED
  BY <1>1, <1>2, DiskErrorOK DEF IndInv, CtrlOK

-----------------------------------------------------------------------------
(* Every step preserves the invariant. *)
LEMMA NextInv == ASSUME IndInv, [Next]_vars PROVE IndInv'
<1>1. CASE VolumeCall
  BY <1>1, MountInv, UnmountInv, LendInv DEF VolumeCall
<1>2. CASE NameCall
  BY <1>2, StatInv, DeleteInv, RenameInv, OpenExistingInv, OpenNewInv DEF NameCall
<1>3. CASE HandleCall
  BY <1>3, ReadInv, WriteInv, SeekInv, TruncateInv, SyncInv, FragmentsInv DEF HandleCall
<1>4. CASE Step
  BY <1>4, AppendInv, SameClusterInv, NextClusterInv, AllocInv, AllocFullInv,
     ReadChunkInv, WriteChunkInv, WriteChunkFailsInv, LinkInv, JoinInv, CutInv,
     CutSizeInv, FreeInv, SyncEntryInv, SyncDoneInv, SyncFlushFailsInv,
     UnmountCloseInv, UnmountEndInv DEF Step
<1>5. CASE Crash
  BY <1>5, MountInv
<1>6. CASE UNCHANGED vars
  <2>1. DiskOK'
    BY <1>6, SameDiskOK DEF vars, disk, IndInv
  <2>2. CtrlOK'
    BY <1>6 DEF vars, IndInv, CtrlOK, TransferOK, NewClOK, HintOK, ClustOK, Has, Cur
  <2>3. QED
    BY <2>1, <2>2 DEF IndInv
<1>7. QED
  BY <1>1, <1>2, <1>3, <1>4, <1>5, <1>6 DEF Next

(* The card is always one that can be, the kept sector is one sector at    *)
(* most, only in a buffer lent for that, and the card's own unless it has  *)
(* changes waiting; and every slot and local of a call stays in its range. *)
THEOREM TypeCorrect == Spec => []TypeOK
<1>1. Init => IndInv
  BY InitInv
<1>2. IndInv /\ [Next]_vars => IndInv'
  BY NextInv
<1>3. IndInv => TypeOK
  BY IndInvTypeOK
<1>4. QED
  BY <1>1, <1>2, <1>3, PTL DEF Spec

=============================================================================
