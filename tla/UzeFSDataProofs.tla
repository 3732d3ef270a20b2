-------------------------- MODULE UzeFSDataProofs --------------------------
(***************************************************************************)
(* Under RepairedSpec no file ever shows bytes that were not written to    *)
(* it: whenever the power goes, every byte that the size and the chain of  *)
(* a file on the card give it was written there since its cluster was      *)
(* taken.  For every geometry, number of files, mode and length of call.   *)
(***************************************************************************)
EXTENDS UzeFSSizeProofs

-----------------------------------------------------------------------------
(***************************************************************************)
(* The bytes of a chain.                                                   *)
(***************************************************************************)
(* The unit p of a file is its own in the cluster c, which holds it. *)
Held(k, c, p) == p % UPS \in k[DataSect(ClustSect(c) + ((p % UPC) \div UPS))]

(* So are all units below z that the chain from s has. *)
OwnUpTo(k, s, z) ==
  \A p \in Nat :
    p < z /\ Walk(k, s, p \div UPC) \in Cluster => Held(k, Walk(k, s, p \div UPC), p)

Owns(k) ==
  \A e \in Entry : Used(k, e) => OwnUpTo(k, Ent(k, e).sclust, Ent(k, e).size)

(* The contents j have all the bytes that k has in the cluster c. *)
Fuller(j, k, c) ==
  \A i \in 0 .. SPC - 1 :
    k[DataSect(ClustSect(c) + i)] \subseteq j[DataSect(ClustSect(c) + i)]

(* The chain from s in j is one of k's, maybe cut short, with its bytes. *)
Within(j, k, s) ==
  \A n \in Nat : Walk(j, s, n) \in Cluster =>
    /\ Walk(k, s, n) = Walk(j, s, n)
    /\ Fuller(j, k, Walk(j, s, n))

(* And it is all of it. *)
Keeps(j, k, s) ==
  /\ Within(j, k, s)
  /\ \A n \in Nat : Walk(k, s, n) \in Cluster => Walk(j, s, n) = Walk(k, s, n)

(* Where in its cluster a unit is. *)
LEMMA UnitIn ==
  ASSUME NEW p \in Nat
  PROVE  /\ p \div UPC \in Nat /\ p % UPC \in Nat /\ p % UPS \in Offsets
         /\ (p % UPC) \div UPS \in 0 .. SPC - 1
         /\ (p % UPC) \div UPS = (p \div UPS) % SPC
         /\ p \div UPC = (p \div UPS) \div SPC
<1>1. /\ p \div UPS \in Nat /\ p = UPS * (p \div UPS) + (p % UPS)
      /\ p % UPS \in 0 .. UPS - 1
  BY DivIs, UnitsOK
<1> DEFINE u == p \div UPS
           a == p % UPS
<1>2. u \div SPC \in Nat /\ u = SPC * (u \div SPC) + (u % SPC) /\ u % SPC \in 0 .. SPC - 1
  BY <1>1, DivIs, UnitsOK
<1> DEFINE t == u \div SPC
           i == u % SPC
           x == UPS * i + a
<1>3. u \in Nat /\ a \in 0 .. UPS - 1 /\ t \in Nat /\ i \in 0 .. SPC - 1
      /\ p = UPS * u + a /\ u = SPC * t + i
  BY <1>1, <1>2
<1> HIDE DEF u, a, t, i
<1>4. UPS * i \in Nat /\ UPS * i <= UPS * (SPC - 1)
  <2>1. i \in Nat /\ SPC - 1 \in Nat /\ i <= SPC - 1 /\ UPS \in Nat
    BY <1>3, UnitsOK
  <2>2. \A b, c, d \in Nat : b <= c => d * b <= d * c /\ d * b \in Nat
    OBVIOUS
  <2>3. QED
    BY <2>1, <2>2
<1>5. x \in 0 .. UPC - 1
  <2>1. UPS * (SPC - 1) = UPC - UPS
    BY UnitsOK
  <2>2. QED
    BY <2>1, <1>3, <1>4, UnitsOK
<1>6. p = UPC * t + x
  <2>1. UPS * (SPC * t + i) = UPC * t + UPS * i
    BY <1>3, UnitsOK
  <2>2. UPC * t \in Nat /\ UPS * u \in Nat
    BY <1>3, UnitsOK
  <2>3. QED
    BY <2>1, <2>2, <1>3, <1>4, UnitsOK
<1> HIDE DEF x
<1>7. p \div UPC = t /\ p % UPC = x
  BY <1>3, <1>5, <1>6, DivUnique, UnitsOK
<1>8. x \div UPS = i
  BY <1>3, DivUnique, UnitsOK DEF x
<1>9. QED
  BY <1>3, <1>5, <1>7, <1>8 DEF u, a, t, i, Offsets

(* What has more bytes of a cluster holds the units held before. *)
LEMMA HeldFuller ==
  ASSUME NEW j, NEW k, NEW c, Fuller(j, k, c), NEW p \in Nat, Held(k, c, p)
  PROVE  Held(j, c, p)
<1>1. (p % UPC) \div UPS \in 0 .. SPC - 1
  BY UnitIn
<1>2. QED
  BY <1>1 DEF Held, Fuller

(* A chain that is within another has its own bytes where that has them. *)
LEMMA WithinOwn ==
  ASSUME NEW j, NEW k, NEW s, Within(j, k, s), NEW z, OwnUpTo(k, s, z)
  PROVE  OwnUpTo(j, s, z)
<1> SUFFICES ASSUME NEW p \in Nat, p < z, Walk(j, s, p \div UPC) \in Cluster
             PROVE  Held(j, Walk(j, s, p \div UPC), p)
  BY DEF OwnUpTo
<1>1. p \div UPC \in Nat
  BY UnitIn
<1>2. /\ Walk(k, s, p \div UPC) = Walk(j, s, p \div UPC)
      /\ Fuller(j, k, Walk(j, s, p \div UPC))
  BY <1>1 DEF Within
<1>3. Held(k, Walk(j, s, p \div UPC), p)
  BY <1>2 DEF OwnUpTo
<1>4. QED
  BY <1>2, <1>3, HeldFuller

(* A file cut short has its own bytes. *)
LEMMA OwnLess ==
  ASSUME NEW k, NEW s, NEW z \in Nat, OwnUpTo(k, s, z), NEW y \in Nat, y <= z
  PROVE  OwnUpTo(k, s, y)
<1>1. \A p \in Nat : p < y => p < z
  OBVIOUS
<1>2. QED
  BY <1>1 DEF OwnUpTo

(* Contents whose files are within those of other contents have no byte    *)
(* more that is not a file's own.                                          *)
LEMMA WithinOwns ==
  ASSUME NEW j, NEW k, Owns(k),
         \A e \in Entry : Used(j, e) =>
           /\ Used(k, e) /\ Ent(j, e) = Ent(k, e)
           /\ Within(j, k, Ent(k, e).sclust)
  PROVE  Owns(j)
<1> SUFFICES ASSUME NEW e \in Entry, Used(j, e)
             PROVE  OwnUpTo(j, Ent(j, e).sclust, Ent(j, e).size)
  BY DEF Owns
<1>1. OwnUpTo(k, Ent(k, e).sclust, Ent(k, e).size) /\ Ent(j, e) = Ent(k, e)
  BY DEF Owns
<1>2. QED
  BY <1>1, WithinOwn

(* The same files, with more of their bytes. *)
Wider(j, k) ==
  /\ Meta(j, k)
  /\ \A n \in 0 .. NDataSects - 1 : k[DataSect(n)] \subseteq j[DataSect(n)]

(* Where all data sectors have their bytes, every cluster has. *)
LEMMA ChainFuller ==
  ASSUME NEW j, NEW k, \A n \in 0 .. NDataSects - 1 : k[DataSect(n)] \subseteq j[DataSect(n)],
         NEW c \in Cluster
  PROVE  Fuller(j, k, c)
BY ClustSectOK DEF Fuller

(* The same walk over such sectors is the same file. *)
LEMMA SameWalkKeeps ==
  ASSUME NEW j, NEW k, NEW s, \A n \in Nat : Walk(j, s, n) = Walk(k, s, n),
         \A n \in 0 .. NDataSects - 1 : k[DataSect(n)] \subseteq j[DataSect(n)]
  PROVE  Keeps(j, k, s)
BY ChainFuller DEF Keeps, Within

(* With more bytes of the same files, every file keeps its own. *)
LEMMA WiderKeeps ==
  ASSUME NEW j, NEW k, Wider(j, k)
  PROVE  /\ \A s : Keeps(j, k, s)
         /\ Owns(k) => Owns(j)
<1>1. \A c : FatNext(j, c) = FatNext(k, c)
  BY DEF Wider, Meta, FatNext
<1>2. \A s : Keeps(j, k, s)
  <2> TAKE s
  <2>1. \A n \in Nat : Walk(j, s, n) = Walk(k, s, n)
    BY <1>1, WalkNext
  <2>2. QED
    BY <2>1, SameWalkKeeps DEF Wider
<1>3. \A e \in Entry : Ent(j, e) = Ent(k, e) /\ (Used(j, e) => Used(k, e))
  BY DEF Wider, Meta, Used
<1>4. QED
  BY <1>2, <1>3, WithinOwns DEF Keeps

(* Nothing written is nothing lost. *)
LEMMA WiderRefl == \A k : Wider(k, k)
BY DEF Wider, Meta

(* A FAT entry changed leaves the data alone. *)
LEMMA FatData ==
  ASSUME NEW k, NEW c, NEW v, NEW n
  PROVE  IsCard(k) => SetFat(k, c, v)[DataSect(n)] = k[DataSect(n)]
<1>1. FatSect(c) # DataSect(n)
  BY DEF FatSect, DataSect
<1>2. QED
  BY <1>1 DEF SetFat, IsCard

(* So does a directory entry changed. *)
LEMMA EntData ==
  ASSUME NEW k, NEW e, NEW q, NEW n
  PROVE  IsCard(k) => SetEnt(k, e, q)[DataSect(n)] = k[DataSect(n)]
<1>1. DirSect(e) # DataSect(n)
  BY DEF DirSect, DataSect
<1>2. QED
  BY <1>1 DEF SetEnt, IsCard

(* Ending a chain at c, or freeing c, leaves every chain within itself. *)
LEMMA CutWithin ==
  ASSUME NEW k, IsCard(k), NEW c \in Cluster, NEW v \in {0, EOC}, NEW s
  PROVE  Within(SetFat(k, c, v), k, s)
<1> DEFINE j == SetFat(k, c, v)
<1>1. v \in FatValue /\ v \notin Cluster
  BY FatValues
<1>2. \A d \in Cluster : Fat(j, d) \in Cluster => Fat(j, d) = Fat(k, d)
  BY <1>1, SetFatCard
<1>3. \A n \in 0 .. NDataSects - 1 : k[DataSect(n)] \subseteq j[DataSect(n)]
  BY FatData
<1> HIDE DEF j
<1>4. \A n \in Nat : Walk(j, s, n) \in Cluster => Walk(k, s, n) = Walk(j, s, n)
  BY <1>2, WalkShorter
<1>5. QED
  BY <1>3, <1>4, ChainFuller DEF Within, j

(* So no file gets bytes by it. *)
LEMMA CutOwns ==
  ASSUME NEW k, IsCard(k), Owns(k), NEW c \in Cluster, NEW v \in {0, EOC}
  PROVE  Owns(SetFat(k, c, v))
<1>1. v \in FatValue
  BY FatValues
<1>2. \A e \in Entry : Ent(SetFat(k, c, v), e) = Ent(k, e)
  BY <1>1, SetFatCard
<1>3. QED
  BY <1>2, CutWithin, WithinOwns DEF Used

(* A FAT entry that the chain does not follow may change. *)
LEMMA FatKeeps ==
  ASSUME NEW k, IsCard(k), NEW c \in Cluster, NEW v \in FatValue, NEW s,
         \A n \in Nat : Walk(k, s, n) # c
  PROVE  Keeps(SetFat(k, c, v), k, s)
<1>1. \A n \in Nat : Walk(k, s, n) \in Cluster =>
        Fat(SetFat(k, c, v), Walk(k, s, n)) = Fat(k, Walk(k, s, n))
  BY SetFatCard
<1>2. \A n \in Nat : Walk(SetFat(k, c, v), s, n) = Walk(k, s, n)
  BY <1>1, WalkSame
<1>3. \A n \in 0 .. NDataSects - 1 : k[DataSect(n)] \subseteq SetFat(k, c, v)[DataSect(n)]
  BY FatData
<1>4. QED
  BY <1>2, <1>3, SameWalkKeeps

(* A directory entry changed leaves every chain as it is. *)
LEMMA EntKeeps ==
  ASSUME NEW k, IsCard(k), NEW e \in Entry, NEW q \in DirEnt
  PROVE  \A s : Keeps(SetEnt(k, e, q), k, s)
<1> TAKE s
<1>1. \A c \in Cluster : Fat(SetEnt(k, e, q), c) = Fat(k, c)
  BY SetEntCard
<1>2. \A c : FatNext(SetEnt(k, e, q), c) = FatNext(k, c)
  BY <1>1 DEF FatNext
<1>3. \A n \in Nat : Walk(SetEnt(k, e, q), s, n) = Walk(k, s, n)
  BY <1>2, WalkNext
<1>4. \A n \in 0 .. NDataSects - 1 : k[DataSect(n)] \subseteq SetEnt(k, e, q)[DataSect(n)]
  BY EntData
<1>5. QED
  BY <1>3, <1>4, SameWalkKeeps

(* The file of a new entry needs bytes of its own, the others have them. *)
LEMMA EntOwns ==
  ASSUME NEW k, IsCard(k), Owns(k), NEW e \in Entry, NEW q \in DirEnt,
         q.name \in Names => OwnUpTo(k, q.sclust, q.size)
  PROVE  Owns(SetEnt(k, e, q))
<1> DEFINE j == SetEnt(k, e, q)
<1>1. \A s : Within(j, k, s)
  BY EntKeeps DEF Keeps
<1>2. \A g \in Entry : Ent(j, g) = IF g = e THEN q ELSE Ent(k, g)
  BY SetEntCard
<1> HIDE DEF j
<1> SUFFICES ASSUME NEW g \in Entry, Used(j, g)
             PROVE  OwnUpTo(j, Ent(j, g).sclust, Ent(j, g).size)
  BY DEF Owns, j
<1>3. OwnUpTo(k, Ent(j, g).sclust, Ent(j, g).size)
  BY <1>2 DEF Owns, Used
<1>4. QED
  BY <1>1, <1>3, WithinOwn

(* The same for what do_sync and link_new write into the entry, *)
LEMMA WithEntryOwns ==
  ASSUME NEW k, IsCard(k), Owns(k), NEW r \in Slot, OwnUpTo(k, r.sclust, r.fsize)
  PROVE  Owns(WithEntry(k, r))
<1>1. /\ r.ent \in Entry
      /\ [Ent(k, r.ent) EXCEPT !.sclust = r.sclust, !.size = r.fsize] \in DirEnt
  BY WithEntryOK
<1>2. Ent(k, r.ent) \in DirEnt
  BY <1>1, Entries
<1>3. LET q == [Ent(k, r.ent) EXCEPT !.sclust = r.sclust, !.size = r.fsize]
      IN  q.sclust = r.sclust /\ q.size = r.fsize
  BY <1>2 DEF DirEnt
<1>4. QED
  BY <1>1, <1>3, EntOwns DEF WithEntry

(* which leaves the chains alone. *)
LEMMA WithEntryKeeps ==
  ASSUME NEW k, IsCard(k), NEW r \in Slot
  PROVE  \A s : Keeps(WithEntry(k, r), k, s)
BY WithEntryOK, EntKeeps DEF WithEntry

-----------------------------------------------------------------------------
(***************************************************************************)
(* The invariant.                                                          *)
(***************************************************************************)
(* The chain has the last byte of the file of slot r. *)
Reached(k, r) == r.fsize > 0 => Walk(k, r.sclust, Steps(r.fsize)) \in Cluster

Fit(k, r) == /\ OwnUpTo(k, r.sclust, r.fsize)
             /\ "WR" \in r.flags => Reached(k, r)

(* A cluster that waits to be linked ends at the position, which is the    *)
(* end of the file, and holds what was written to it.                      *)
FitNew(k, r, new) ==
  /\ OwnUpTo(k, r.sclust, r.fsize)
  /\ r.fsize <= r.fptr
  /\ \A p \in Nat : p < r.fptr /\ p \div UPC = Steps(r.fptr) => Held(k, new, p)

Joins(f) == f = call.fh /\ pc \in {"link", "join"}
Fits(f) == IF Joins(f) THEN FitNew(View, files[f], NewClust)
                       ELSE Fit(View, files[f])

DataInv ==
  /\ Owns(card) /\ Owns(View)
  /\ \A f \in Handle : Live(f) => Fits(f)

(* A slot still fits contents that keep its file. *)
LEMMA KeepsFit ==
  ASSUME NEW j, NEW k, NEW r \in Slot, Keeps(j, k, r.sclust), Fit(k, r)
  PROVE  Fit(j, r)
<1>1. OwnUpTo(j, r.sclust, r.fsize)
  BY WithinOwn DEF Keeps, Fit
<1>2. "WR" \in r.flags /\ r.fsize > 0 => Walk(j, r.sclust, Steps(r.fsize)) \in Cluster
  <2> SUFFICES ASSUME "WR" \in r.flags, r.fsize > 0
               PROVE  Walk(j, r.sclust, Steps(r.fsize)) \in Cluster
    OBVIOUS
  <2>1. Walk(k, r.sclust, Steps(r.fsize)) \in Cluster
    BY DEF Fit, Reached
  <2>2. Steps(r.fsize) \in Nat
    BY StepsNat DEF Slot
  <2>3. QED
    BY <2>1, <2>2 DEF Keeps
<1>3. QED
  BY <1>1, <1>2 DEF Fit, Reached

(* A step that works on the slot g and leaves the other files alone. *)
LEMMA DataStep ==
  ASSUME CardInv, DataInv, Owns(card'), Owns(View'), NEW g \in Handle,
         \A f \in Handle : f # g =>
           /\ files'[f] = files[f] /\ ~Joins(f) /\ ~Joins(f)'
           /\ Live(f) => Keeps(View', View, files[f].sclust),
         Live(g)' => Fits(g)'
  PROVE  DataInv'
<1> SUFFICES ASSUME NEW f \in Handle, Live(f)', f # g
             PROVE  Fits(f)'
  BY DEF DataInv
<1>1. files'[f] = files[f] /\ ~Joins(f) /\ ~Joins(f)'
  OBVIOUS
<1>2. Live(f)
  BY <1>1, LiveAble
<1>3. Fit(View, files[f]) /\ Keeps(View', View, files[f].sclust)
  BY <1>1, <1>2 DEF DataInv, Fits
<1>4. files[f] \in Slot
  BY DEF CardInv, IndInv, CtrlOK
<1>5. Fit(View', files[f])
  BY <1>3, <1>4, KeepsFit
<1>6. QED
  BY <1>1, <1>5 DEF Fits

(* The slot q serves the file of slot r, and writes it only where r may. *)
Alike(q, r) ==
  Able(q) => /\ Able(r)
             /\ q.sclust = r.sclust /\ q.fsize = r.fsize
             /\ "WR" \in q.flags => "WR" \in r.flags

(* The slot of the same file fits where it did. *)
LEMMA AlikeFit ==
  ASSUME NEW k, NEW q, NEW r, Able(q), Alike(q, r), Fit(k, r)
  PROVE  Fit(k, q)
BY DEF Alike, Fit, Reached, OwnUpTo

NoJoin == pc \notin {"link", "join"}

(* A step that changes at most the flags and the position of slots. *)
LEMMA DataTame ==
  ASSUME CardInv, DataInv, Owns(card'), Owns(View'), NoJoin, NoJoin',
         \A f \in Handle : /\ Alike(files'[f], files[f])
                           /\ Live(f) => Keeps(View', View, files[f].sclust)
  PROVE  DataInv'
<1> SUFFICES ASSUME NEW f \in Handle, Live(f)'
             PROVE  Fits(f)'
  BY DEF DataInv
<1>1. Able(files'[f]) /\ Able(files[f])
  BY LiveAble DEF Alike
<1>2. Fit(View, files[f]) /\ Keeps(View', View, files[f].sclust)
  BY <1>1, LiveAble DEF DataInv, Fits, Joins, NoJoin
<1>3. files[f] \in Slot
  BY DEF CardInv, IndInv, CtrlOK
<1>4. Fit(View', files[f])
  BY <1>2, <1>3, KeepsFit
<1>5. Fit(View', files'[f])
  BY <1>1, <1>4, AlikeFit
<1>6. QED
  BY <1>5 DEF Fits, Joins, NoJoin

(* A step that only reads. *)
LEMMA DataRead ==
  ASSUME CardInv, DataInv, SameRead, NoJoin, NoJoin',
         \A f \in Handle : Alike(files'[f], files[f])
  PROVE  DataInv'
<1>1. View' = View /\ card' \in {card, View}
  BY DEF SameRead
<1>2. Owns(card') /\ Owns(View')
  BY <1>1 DEF DataInv
<1>3. \A s : Keeps(View', View, s)
  BY <1>1, WiderRefl, WiderKeeps
<1>4. QED
  BY <1>2, <1>3, DataTame

(* Flags other than the mode's change nothing of the file, *)
LEMMA AlikeWith ==
  ASSUME NEW r \in Slot, NEW on \in SUBSET {"FAILED", "CONTIG", "NEWCL", "DIRTY"},
         NEW off \in SUBSET {"CONTIG", "NEWCL", "DIRTY"}
  PROVE  With(r, on, off) \in Slot /\ Alike(With(r, on, off), r)
<1>1. on \in SUBSET Flag
  BY DEF Flag
<1>2. /\ With(r, on, off) \in Slot
      /\ With(r, on, off).flags = (r.flags \ off) \cup on
      /\ With(r, on, off).sclust = r.sclust
      /\ With(r, on, off).fsize = r.fsize
  BY <1>1, WithOK
<1>3. QED
  BY <1>2 DEF Alike, Able

(* nor does a move of the position, *)
LEMMA AlikeMove ==
  ASSUME NEW q, NEW r, q.flags = r.flags, q.sclust = r.sclust, q.fsize = r.fsize
  PROVE  Alike(q, r)
BY DEF Alike, Able

(* and a slot given up serves none. *)
LEMMA AlikeDead ==
  ASSUME NEW q, NEW r, ~Able(q)
  PROVE  Alike(q, r)
BY DEF Alike

(* Two such changes are one. *)
LEMMA AlikeTrans ==
  ASSUME NEW p, NEW q, NEW r, Alike(p, q), Alike(q, r)
  PROVE  Alike(p, r)
BY DEF Alike

(* An error leaves every slot with its file or without one. *)
LEMMA AlikeFail ==
  ASSUME CardInv, DiskError \/ Corrupt
  PROVE  /\ \A f \in Handle : Alike(files'[f], files[f])
         /\ NoJoin'
<1>1. NoJoin'
  BY DEF DiskError, Corrupt, Return, NoJoin
<1>2. CASE UNCHANGED files
  BY <1>1, <1>2, AlikeMove
<1>3. CASE DiskError
  <2>1. CASE /\ \A f \in Handle : f # call.fh => files'[f] = files[f]
             /\ ~Able(files'[call.fh])
    BY <1>1, <2>1, AlikeDead, AlikeMove
  <2>2. QED
    BY <1>2, <1>3, <2>1, FailSlotDead DEF DiskError
<1>4. CASE SetSlot(call.fh, FreeSlot)
  <2>1. call.fh \in Handle /\ files \in [Handle -> Slot]
    BY DEF CardInv, IndInv, CtrlOK, CallType
  <2>2. \A f \in Handle : files'[f] = IF f = call.fh THEN FreeSlot ELSE files[f]
    BY <1>4, <2>1 DEF SetSlot
  <2>3. ~Able(FreeSlot)
    BY FreeSlotOK DEF Able
  <2>4. QED
    BY <1>1, <2>2, <2>3, AlikeDead, AlikeMove
<1>5. QED
  BY <1>2, <1>3, <1>4 DEF Corrupt

(* A call that gives up without a write. *)
LEMMA DataError ==
  ASSUME CardInv, DataInv, SameRead, NoJoin, DiskError \/ Corrupt
  PROVE  DataInv'
BY AlikeFail, DataRead

(* A step that changes no slot, *)
LEMMA DataSame ==
  ASSUME CardInv, DataInv, SameRead, NoJoin, NoJoin', UNCHANGED files
  PROVE  DataInv'
BY AlikeMove, DataRead

(* or one, with the same file. *)
LEMMA DataSlot ==
  ASSUME CardInv, CardInv', DataInv, SameRead, NoJoin, NoJoin', NEW g \in Handle,
         NEW q, SetSlot(g, q), Alike(q, files[g])
  PROVE  DataInv'
<1>1. files'[g] = q /\ \A f \in Handle : f # g => files'[f] = files[f]
  BY SetSlotIs
<1>2. \A f \in Handle : Alike(files'[f], files[f])
  BY <1>1, AlikeMove
<1>3. QED
  BY <1>2, DataRead

-----------------------------------------------------------------------------
(***************************************************************************)
(* Steps that only read.                                                   *)
(***************************************************************************)
LEMMA DataMount ==
  ASSUME WholeInv, DataInv, Mount \/ MountFails \/ Crash
  PROVE  DataInv'
<1>1. files' = [f \in Handle |-> FreeSlot] /\ card' = card /\ Drop
  BY DEF Mount, MountFails, Crash, Drop
<1>2. View' = card'
  BY <1>1, DropOK DEF WholeInv, CardInv, IndInv, DiskOK
<1>3. \A f \in Handle : ~Live(f)'
  BY <1>1, FreeSlotOK, LiveAble DEF Able
<1>4. QED
  BY <1>1, <1>2, <1>3 DEF DataInv

(* uzefs_buffer writes what waits, and what is read stays the same. *)
LEMMA DataLend ==
  ASSUME NothingDropped, WholeInv, WholeInv', DataInv, NEW how \in Lendings,
         Lend(how) \/ LendFails(how)
  PROVE  DataInv'
<1>1. DiskOK /\ DiskOK' /\ CardInv /\ CardInv'
  BY DEF WholeInv, CardInv, IndInv
<1>2. ~LendFails(how)
  <2>1. LendFails(how) => Faults /\ lent = "kept"
    BY <1>1, ViewCard DEF LendFails, FlushFails
  <2>2. QED
    BY <2>1 DEF NothingDropped, WholeInv, PosInv, LoanOK
<1>3. card' = (IF dirty THEN View ELSE card) /\ Drop
      /\ pc = "idle" /\ UNCHANGED <<files, pc, call>>
  BY <1>2 DEF Lend
<1>4. card' = View
  BY <1>1, <1>3, ViewCard
<1>5. SameRead
  BY <1>1, <1>3, <1>4, DropOK DEF DiskOK, SameRead
<1>6. NoJoin /\ NoJoin'
  BY <1>3 DEF NoJoin
<1>7. QED
  BY <1>1, <1>3, <1>5, <1>6, DataSame

(* uzefs_unmount begins and ends. *)
LEMMA DataUnmount ==
  ASSUME NothingDropped, WholeInv, DataInv, Unmount \/ UnmountEnd
  PROVE  DataInv'
<1>1. CardInv /\ PosInv
  BY DEF WholeInv
<1>2. UNCHANGED <<lent, files>> /\ NoJoin /\ NoJoin'
  BY DEF Unmount, UnmountEnd, NoJoin
<1>3. SameRead
  BY <1>1, <1>2, OnlyReads DEF Unmount, UnmountEnd
<1>4. QED
  BY <1>1, <1>2, <1>3, DataSame

(* It closes a file. *)
LEMMA DataUnmountClose ==
  ASSUME NothingDropped, WholeInv, WholeInv', DataInv, NEW f \in Handle, UnmountClose(f)
  PROVE  DataInv'
<1>1. CardInv /\ CardInv' /\ PosInv
  BY DEF WholeInv
<1>2. UNCHANGED disk /\ UNCHANGED lent /\ NoJoin /\ NoJoin'
      /\ (SetSlot(f, FreeSlot) \/ UNCHANGED files)
  BY DEF UnmountClose, NoJoin
<1>3. SameRead
  BY <1>1, <1>2, OnlyReads
<1>4. Alike(FreeSlot, files[f])
  BY FreeSlotOK, AlikeDead DEF Able
<1>5. QED
  BY <1>1, <1>2, <1>3, <1>4, DataSame, DataSlot

(* uzefs_stat. *)
LEMMA DataStat ==
  ASSUME NothingDropped, WholeInv, DataInv, NEW nm, NEW e \in Entry, Stat(nm, e)
  PROVE  DataInv'
<1>1. CardInv /\ PosInv
  BY DEF WholeInv
<1>2. UNCHANGED <<lent, files>> /\ NoJoin /\ NoJoin'
  BY DEF Stat, NoJoin
<1>3. SameRead
  BY <1>1, <1>2, ScannedOK, OnlyReads DEF Stat
<1>4. QED
  BY <1>1, <1>2, <1>3, DataSame

(* uzefs_seek moves the position, not beyond the size. *)
LEMMA DataSeek ==
  ASSUME NothingDropped, WholeInv, WholeInv', DataInv, NEW f \in Handle,
         NEW pos \in 0 .. MaxSize, Seek(f, pos)
  PROVE  DataInv'
<1> DEFINE past == pos > files[f].fsize
           to == IF past THEN files[f].fsize ELSE pos
           r == IF past THEN With(files[f], {}, {"CONTIG"}) ELSE files[f]
<1>1. CardInv /\ CardInv' /\ PosInv
  BY DEF WholeInv
<1>2. /\ UNCHANGED lent /\ Ready(f)
      /\ \/ /\ LoadWalk(r.sclust, Steps(to))
            /\ \/ /\ CanReach(r, to)
                  /\ SetSlot(f, At(r, to))
                  /\ pc' = "chunk" \/ UNCHANGED pc
               \/ SetSlot(f, r) /\ UNCHANGED pc
         \/ /\ LoadFails(WalkLoads(View, r.sclust, Steps(to)))
            /\ SetSlot(f, With(r, {"FAILED"}, {}))
            /\ UNCHANGED pc
  BY DEF Seek, Zeros
<1>3. pc = "idle" /\ files[f] \in Slot
  BY <1>1, <1>2, ReadyRests
<1>4. SameRead
  BY <1>1, <1>2, OnlyReads
<1>5. to \in Nat
  BY <1>3, FilesAssumption DEF Slot
<1>6. r \in Slot /\ Alike(r, files[f])
  <2>1. CASE past
    BY <2>1, <1>3, AlikeWith
  <2>2. CASE ~past
    BY <2>2, <1>3, AlikeMove
  <2>3. QED
    BY <2>1, <2>2
<1> HIDE DEF r, to, past
<1>7. NoJoin /\ NoJoin'
  BY <1>2, <1>3 DEF NoJoin
<1>8. PICK q : SetSlot(f, q) /\ Alike(q, r)
  <2>1. CanReach(r, to) => Alike(At(r, to), r)
    BY <1>5, <1>6, AtStands, AlikeMove
  <2>2. Alike(r, r) /\ Alike(With(r, {"FAILED"}, {}), r)
    BY <1>6, AlikeMove, AlikeWith
  <2>3. QED
    BY <1>2, <2>1, <2>2
<1>9. Alike(q, files[f])
  BY <1>6, <1>8, AlikeTrans
<1>10. QED
  BY <1>1, <1>4, <1>7, <1>8, <1>9, DataSlot

(* uzefs_read and uzefs_write begin. *)
LEMMA DataBegin ==
  ASSUME NothingDropped, WholeInv, WholeInv', DataInv, NEW f \in Handle, NEW n \in Nat,
         Read(f, n) \/ Write(f, n)
  PROVE  DataInv'
<1>1. CardInv /\ CardInv' /\ PosInv
  BY DEF WholeInv
<1>2. /\ Ready(f) /\ UNCHANGED disk /\ UNCHANGED lent /\ pc' = "chunk"
      /\ UNCHANGED files \/ SetSlot(f, With(files[f], {}, {"CONTIG"}))
  BY DEF Read, Write, CanWrite, BeginXfer
<1>3. pc = "idle" /\ files[f] \in Slot
  BY <1>1, <1>2, ReadyRests
<1>4. SameRead
  BY <1>1, <1>2, OnlyReads
<1>5. NoJoin /\ NoJoin'
  BY <1>2, <1>3 DEF NoJoin
<1>6. Alike(With(files[f], {}, {"CONTIG"}), files[f])
  BY <1>3, AlikeWith
<1>7. QED
  BY <1>1, <1>2, <1>4, <1>5, <1>6, DataSame, DataSlot

(* uzefs_fragments may mark the file. *)
LEMMA DataFragments ==
  ASSUME NothingDropped, WholeInv, WholeInv', DataInv, NEW f \in Handle, Fragments(f)
  PROVE  DataInv'
<1> DEFINE r == files[f]
           left == Steps(r.fsize)
<1>1. CardInv /\ CardInv' /\ PosInv
  BY DEF WholeInv
<1>2. Ready(f) /\ UNCHANGED <<lent, pc>>
  BY DEF Fragments
<1>3. pc = "idle" /\ r \in Slot
  BY <1>1, <1>2, ReadyRests
<1>4. PICK n \in 0 .. left, on \in SUBSET {"CONTIG", "FAILED"} :
        /\ \/ LoadWalk(r.sclust + n, left - n)
           \/ LoadFails(WalkLoads(View, r.sclust + n, left - n))
           \/ UNCHANGED disk
        /\ SetSlot(f, With(r, on, {}))
  <2>1. {} \in SUBSET {"CONTIG", "FAILED"} /\ {"CONTIG"} \in SUBSET {"CONTIG", "FAILED"}
        /\ {"FAILED"} \in SUBSET {"CONTIG", "FAILED"}
    OBVIOUS
  <2>2. PICK n \in 0 .. left :
          \/ /\ LoadWalk(r.sclust + n, left - n)
             /\ LET onePiece == \A i \in n .. left - 1 :
                      FatNext(View, r.sclust + i) = r.sclust + i + 1
                IN  SetSlot(f, With(r, IF onePiece THEN {"CONTIG"} ELSE {}, {}))
          \/ /\ \/ LoadFails(WalkLoads(View, r.sclust + n, left - n))
                \/ UNCHANGED disk
             /\ SetSlot(f, With(r, {"FAILED"}, {}))
    BY DEF Fragments
  <2> HIDE DEF left, r
  <2>3. QED
    BY <2>1, <2>2
<1>5. SameRead
  BY <1>1, <1>2, <1>4, OnlyReads
<1>6. NoJoin /\ NoJoin'
  BY <1>2, <1>3 DEF NoJoin
<1>7. Alike(With(r, on, {}), r)
  BY <1>3, AlikeWith
<1>8. QED
  BY <1>1, <1>4, <1>5, <1>6, <1>7, DataSlot

(* uzefs_write in append mode goes to the end first. *)
LEMMA DataAppend ==
  ASSUME NothingDropped, WholeInv, WholeInv', DataInv, Append
  PROVE  DataInv'
<1>1. CardInv /\ CardInv' /\ PosInv
  BY DEF WholeInv
<1>2. UNCHANGED lent /\ NoJoin
  BY DEF Append, NoJoin
<1>3. SameRead
  BY <1>1, <1>2, OnlyReads DEF Append
<1>4. CASE DiskError \/ Corrupt
  BY <1>1, <1>2, <1>3, <1>4, DataError
<1>5. CASE /\ CanReach(Cur, Cur.fsize) /\ SetSlot(call.fh, At(Cur, Cur.fsize)) /\ Return
  <2> DEFINE q == At(Cur, Cur.fsize)
  <2>1. call.fh \in Handle /\ Cur \in Slot /\ Cur = files[call.fh] /\ Cur.fsize \in Nat
    BY <1>1, CurOK DEF CardInv, Slot
  <2>2. q.sclust = Cur.sclust /\ q.flags = Cur.flags /\ q.fsize = Cur.fsize
    BY <2>1, <1>5, AtStands
  <2>3. SetSlot(call.fh, q) /\ NoJoin'
    BY <1>5 DEF Return, NoJoin
  <2> HIDE DEF q
  <2>4. Alike(q, files[call.fh])
    BY <2>1, <2>2, AlikeMove
  <2>5. QED
    BY <1>1, <1>2, <1>3, <2>1, <2>3, <2>4, DataSlot
<1>6. QED
  BY <1>4, <1>5 DEF Append

(* uzefs_sync and uzefs_close begin. *)
LEMMA DataSync ==
  ASSUME NothingDropped, WholeInv, WholeInv', DataInv, NEW f \in Handle, NEW op, Sync(f, op)
  PROVE  DataInv'
<1>1. CardInv /\ CardInv' /\ PosInv
  BY DEF WholeInv
<1>2. UNCHANGED disk /\ UNCHANGED lent /\ NoJoin /\ NoJoin'
      /\ (SetSlot(f, FreeSlot) \/ UNCHANGED files)
  BY DEF Sync, NoJoin
<1>3. SameRead
  BY <1>1, <1>2, OnlyReads
<1>4. Alike(FreeSlot, files[f])
  BY FreeSlotOK, AlikeDead DEF Able
<1>5. QED
  BY <1>1, <1>2, <1>3, <1>4, DataSame, DataSlot

(* They end, the buffer written. *)
LEMMA DataSyncDone ==
  ASSUME NothingDropped, WholeInv, WholeInv', DataInv, SyncDone \/ SyncFlushFails
  PROVE  DataInv'
<1>1. CardInv /\ CardInv' /\ PosInv
  BY DEF WholeInv
<1>2. UNCHANGED lent /\ NoJoin
  BY DEF SyncDone, SyncFlushFails, NoJoin
<1>3. SameRead
  BY <1>1, <1>2, OnlyReads DEF SyncDone, SyncFlushFails
<1>4. CASE SyncDone
  <2> DEFINE q == IF call.op = "sync" THEN With(Cur, {}, {"DIRTY"}) ELSE FreeSlot
  <2>1. call.fh \in Handle /\ Cur \in Slot /\ Cur = files[call.fh]
    BY <1>1, CurOK DEF CardInv
  <2>2. Alike(q, Cur)
    <3>1. Alike(With(Cur, {}, {"DIRTY"}), Cur)
      BY <2>1, AlikeWith
    <3>2. Alike(FreeSlot, Cur)
      BY FreeSlotOK, AlikeDead DEF Able
    <3>3. QED
      BY <3>1, <3>2
  <2>3. SetSlot(call.fh, q) /\ NoJoin'
    BY <1>4 DEF SyncDone, Return, NoJoin
  <2> HIDE DEF q
  <2>4. QED
    BY <1>1, <1>2, <1>3, <2>1, <2>2, <2>3, DataSlot
<1>5. CASE SyncFlushFails
  BY <1>1, <1>2, <1>3, <1>5, DataError DEF SyncFlushFails
<1>6. QED
  BY <1>4, <1>5

(* locate in the same cluster, *)
LEMMA DataSameCluster ==
  ASSUME NothingDropped, WholeInv, WholeInv', DataInv, SameCluster
  PROVE  DataInv'
<1> DEFINE q == IF AtBoundary THEN [Cur EXCEPT !.csect = @ + 1] ELSE Cur
<1>1. CardInv /\ CardInv' /\ PosInv
  BY DEF WholeInv
<1>2. /\ pc = "chunk" /\ SetSlot(call.fh, q) /\ NoJoin /\ NoJoin'
      /\ UNCHANGED disk /\ UNCHANGED lent
  BY DEF SameCluster, Goto, NoJoin
<1>3. call.fh \in Handle /\ Cur \in Slot /\ Cur = files[call.fh]
  BY <1>1, <1>2, TransferSlot
<1>4. q.flags = Cur.flags /\ q.sclust = Cur.sclust /\ q.fsize = Cur.fsize
  BY <1>3 DEF Slot
<1> HIDE DEF q
<1>5. Alike(q, files[call.fh])
  BY <1>3, <1>4, AlikeMove
<1>6. SameRead
  BY <1>1, <1>2, OnlyReads
<1>7. QED
  BY <1>1, <1>2, <1>3, <1>5, <1>6, DataSlot

(* in the next, *)
LEMMA DataNextCluster ==
  ASSUME NothingDropped, WholeInv, WholeInv', DataInv, NextCluster
  PROVE  DataInv'
<1> DEFINE nx == IF Cur.cclust # 0 THEN FatNext(View, Cur.cclust) ELSE Cur.sclust
           S == IF Cur.cclust # 0 THEN {FatSect(Cur.cclust)} ELSE {}
           q == [Cur EXCEPT !.cclust = nx, !.csect = ClustSect(nx)]
<1>1. CardInv /\ CardInv' /\ PosInv
  BY DEF WholeInv
<1>2. /\ pc = "chunk" /\ UNCHANGED lent
      /\ \/ /\ Load(S, FatSect(Cur.cclust))
            /\ \/ SetSlot(call.fh, q) /\ Goto("move")
               \/ UNCHANGED files /\ Goto("alloc")
               \/ Corrupt
         \/ LoadFails(S) /\ DiskError
  BY DEF NextCluster
<1>3. call.fh \in Handle /\ Cur \in Slot /\ Cur = files[call.fh]
  BY <1>1, <1>2, TransferSlot
<1>4. S # {} => FatSect(Cur.cclust) \in S /\ FatSect(Cur.cclust) \in Sector
  BY <1>3, Sectors DEF Slot
<1>5. q.flags = Cur.flags /\ q.sclust = Cur.sclust /\ q.fsize = Cur.fsize
  BY <1>3 DEF Slot
<1> HIDE DEF S, q, nx
<1>6. SameRead
  BY <1>1, <1>2, <1>4, OnlyReads
<1>7. NoJoin /\ \A step \in {"move", "alloc"} : Goto(step) => NoJoin'
  BY <1>2 DEF NoJoin, Goto
<1>8. Alike(q, files[call.fh])
  BY <1>3, <1>5, AlikeMove
<1>9. CASE SetSlot(call.fh, q) /\ Goto("move")
  BY <1>1, <1>3, <1>6, <1>7, <1>8, <1>9, DataSlot
<1>10. CASE UNCHANGED files /\ Goto("alloc")
  BY <1>1, <1>6, <1>7, <1>10, DataSame
<1>11. CASE DiskError \/ Corrupt
  BY <1>1, <1>6, <1>7, <1>11, DataError
<1>12. QED
  BY <1>2, <1>9, <1>10, <1>11

(* or without a cluster to take. *)
LEMMA DataAllocFull ==
  ASSUME NothingDropped, WholeInv, DataInv, AllocFull
  PROVE  DataInv'
<1>1. CardInv /\ PosInv
  BY DEF WholeInv
<1>2. /\ UNCHANGED lent /\ NoJoin
      /\ \/ Load(FatRange(2, LastFat), <<"fat", LastFat>>) /\ Return /\ UNCHANGED files
         \/ LoadFails(FatRange(2, LastFat)) /\ DiskError
  BY DEF AllocFull, NoJoin
<1>3. SameRead
  BY <1>1, <1>2, LastFatOK, OnlyReads
<1>4. Return => NoJoin'
  BY DEF Return, NoJoin
<1>5. QED
  BY <1>1, <1>2, <1>3, <1>4, DataSame, DataError

(* A chunk read moves the position only. *)
LEMMA DataReadChunk ==
  ASSUME NothingDropped, WholeInv, WholeInv', SizeInv, DataInv, ReadChunk
  PROVE  DataInv'
<1> DEFINE s == DataSect(Cur.csect)
           S == IF Chunk = UPS /\ s \notin DOMAIN kept THEN {} ELSE {s}
           q == Moved(Cur)
<1>1. CardInv /\ CardInv' /\ PosInv /\ LeftOK /\ IndInv
  BY DEF WholeInv, CardInv
<1>2. /\ pc = "move" /\ call.op = "read" /\ UNCHANGED lent /\ NoJoin
      /\ \/ Load(S, s) /\ SetSlot(call.fh, q) /\ Continue(call.left - Chunk)
         \/ (LoadFails(S) \/ UNCHANGED disk) /\ DiskError
  BY DEF ReadChunk, NoJoin
<1>3. call.fh \in Handle /\ Cur \in Slot /\ Cur = files[call.fh]
  BY <1>1, <1>2, TransferSlot
<1>4. s \in Sector /\ (S # {} => s \in S)
  BY <1>3, Sectors DEF Slot
<1> HIDE DEF S, s
<1>5. SameRead
  BY <1>1, <1>2, <1>4, OnlyReads
<1>6. CASE SetSlot(call.fh, q) /\ Continue(call.left - Chunk)
  <2>1. /\ Chunk \in Nat /\ Chunk > 0 /\ q.sclust = Cur.sclust /\ q.flags = Cur.flags
    BY <1>1, <1>2, ChunkOK, ChunkPositive
  <2>2. Chunk <= call.left /\ call.left \in Nat
    <3>1. call.left \in Nat /\ UPS \in Nat /\ Cur.fptr \in Nat /\ Offset \in Nat
      BY <1>1, <1>3, UnitsOK, DivIs DEF IndInv, CtrlOK, CallType, Offset, Slot
    <3>2. QED
      BY <3>1 DEF Chunk
  <2>3. Cur.fptr + call.left <= Cur.fsize
    BY <1>2 DEF SizeInv, Locals, ReadWithin
  <2>4. q.fsize = Cur.fsize
    <3>1. Cur.fptr \in Nat /\ Cur.fsize \in Nat
      BY <1>3 DEF Slot
    <3>2. ~(Cur.fptr + Chunk > Cur.fsize)
      BY <2>1, <2>2, <2>3, <3>1
    <3>3. QED
      BY <1>3, <3>2 DEF Moved, Slot
  <2> HIDE DEF q
  <2>5. Alike(q, files[call.fh])
    BY <1>3, <2>1, <2>4, AlikeMove
  <2>6. NoJoin'
    BY <1>6 DEF Continue, Return, NoJoin
  <2>7. QED
    BY <1>1, <1>2, <1>3, <1>5, <1>6, <2>5, <2>6, DataSlot
<1>7. CASE DiskError
  BY <1>1, <1>2, <1>5, <1>7, DataError
<1>8. QED
  BY <1>2, <1>6, <1>7

-----------------------------------------------------------------------------
(***************************************************************************)
(* Steps that change the directory, cut chains and free clusters.          *)
(***************************************************************************)
LEMMA DataChange ==
  ASSUME CardInv, DataInv, NEW k, Owns(k), View' \in {View, k}, card' \in {card, View, k},
         NEW g \in Handle,
         \A f \in Handle : f # g =>
           /\ files'[f] = files[f] /\ ~Joins(f) /\ ~Joins(f)'
           /\ Live(f) => Keeps(k, View, files[f].sclust),
         Live(g)' => Fits(g)'
  PROVE  DataInv'
<1>1. Owns(card') /\ Owns(View')
  BY DEF DataInv
<1>2. \A s : Keeps(View, View, s)
  BY WiderRefl, WiderKeeps
<1>3. \A f \in Handle : f # g /\ Live(f) => Keeps(View', View, files[f].sclust)
  BY <1>2
<1>4. QED
  BY <1>1, <1>3, DataStep

(* The same for a step outside link_new that leaves all files to slots. *)
LEMMA DataChangeTame ==
  ASSUME CardInv, DataInv, NEW k, Owns(k), View' \in {View, k}, card' \in {card, View, k},
         NoJoin, NoJoin',
         \A f \in Handle : /\ Alike(files'[f], files[f])
                           /\ Live(f) => Keeps(k, View, files[f].sclust)
  PROVE  DataInv'
<1>1. Owns(card') /\ Owns(View')
  BY DEF DataInv
<1>2. \A s : Keeps(View, View, s)
  BY WiderRefl, WiderKeeps
<1>3. \A f \in Handle : Live(f) => Keeps(View', View, files[f].sclust)
  BY <1>2
<1>4. QED
  BY <1>1, <1>3, DataTame

(* An empty file has its bytes. *)
LEMMA FitEmpty ==
  ASSUME NEW k, NEW r, r.fsize = 0
  PROVE  Fit(k, r)
<1>1. \A p \in Nat : ~(p < 0)
  OBVIOUS
<1>2. QED
  BY <1>1 DEF Fit, Reached, OwnUpTo

(* The slot of an open file has the chain of its entry. *)
LEMMA LiveFile ==
  ASSUME CardInv, PosInv, NEW f \in Handle, Live(f), f # call.fh \/ pc # "size"
  PROVE  /\ files[f] \in Slot /\ files[f].ent \in Entry
         /\ Used(View, files[f].ent)
         /\ Ent(View, files[f].ent).sclust = files[f].sclust
<1>1. files[f] \in Slot
  BY DEF CardInv, IndInv, CtrlOK
<1>2. Placed(View, files[f], Phase(f), NewClust) /\ Phase(f) # "size"
  BY DEF PosInv, AllPlaced, Phase
<1>3. Has(f, "OPEN")
  BY DEF Live
<1>4. QED
  BY <1>1, <1>2, <1>3 DEF Placed, PosInv, Named, Slot

(* A FAT entry no chain points at changes no open file. *)
LEMMA UnpointedKeeps ==
  ASSUME CardInv, PosInv, NEW c \in Cluster, ~Points(View, c), NEW v \in FatValue,
         NEW f \in Handle, Live(f), f # call.fh \/ pc # "size"
  PROVE  Keeps(SetFat(View, c, v), View, files[f].sclust)
<1>1. IsCard(View)
  BY ViewCard DEF CardInv, IndInv
<1>2. \A n \in Nat : Walk(View, files[f].sclust, n) # c
  BY <1>1, LiveFile, WalkPointed
<1>3. QED
  BY <1>1, <1>2, FatKeeps

(* The chain of one file is no matter to another. *)
LEMMA OtherKeeps ==
  ASSUME CardInv, PosInv, NEW e \in Entry, Used(View, e), NEW n \in Nat,
         NEW c \in Cluster, c = Walk(View, Ent(View, e).sclust, n), NEW v \in FatValue,
         NEW f \in Handle, Live(f), f # call.fh \/ pc # "size", files[f].ent # e
  PROVE  Keeps(SetFat(View, c, v), View, files[f].sclust)
<1>1. IsCard(View) /\ SoundChains(View)
  BY ViewCard DEF CardInv, IndInv, Good
<1>2. \A i \in Nat : Walk(View, files[f].sclust, i) # c
  BY <1>1, LiveFile, WalkOnce
<1>3. QED
  BY <1>1, <1>2, FatKeeps

(* A slot not in link_new fits. *)
LEMMA LiveFit ==
  ASSUME DataInv, NEW f \in Handle, Live(f), ~Joins(f)
  PROVE  Fit(View, files[f])
BY DEF DataInv, Fits

(* uzefs_open of a name that is there: the host has repaired the file if   *)
(* its size runs past its chain, or it is cut to nothing.                  *)
LEMMA DataOpenExisting ==
  ASSUME NothingDropped, WholeInv, WholeInv', DataInv, RepairedFirst,
         NEW nm \in Names, NEW mode \in Modes,
         NEW f \in Handle, NEW e \in Entry, OpenExisting(nm, mode, f, e)
  PROVE  DataInv'
<1> DEFINE r == NewSlot(e, mode, View)
           cut == "TRUNC" \in mode /\ r.sclust # 0
           append == "APPEND" \in mode
           q == IF cut THEN [r EXCEPT !.sclust = 0, !.fsize = 0] ELSE r
<1>1. CardInv /\ CardInv' /\ PosInv /\ DiskOK
  BY DEF WholeInv, CardInv, IndInv
<1>2. View' = View /\ card' \in {card, View}
  BY <1>1, ScanCard DEF OpenExisting
<1>3. /\ pc = "idle" /\ SetSlot(f, q) /\ Used(View, e) /\ ~Has(f, "OPEN")
      /\ pc' = IF cut THEN "size" ELSE IF append THEN "append" ELSE "idle"
  BY DEF OpenExisting, OpenChecks, IsHit, Used, Takes
<1>4. files'[f] = q /\ (\A g \in Handle : g # f => files'[g] = files[g]) /\ q \in Slot
  BY <1>1, <1>3, SetSlotIs
<1>5. r \in Slot
  BY <1>1, ViewCard, Entries, NewSlotOK DEF OpenExisting, DirEnt
<1>6. r.sclust = Ent(View, e).sclust /\ r.fsize = Ent(View, e).size
  BY DEF NewSlot, FreeSlot
<1> HIDE DEF r
<1>7. IF cut THEN q.fsize = 0 ELSE q = r
  BY <1>5 DEF Slot
<1>8. \A g \in Handle : ~Joins(g) /\ ~Joins(g)'
  BY <1>3 DEF Joins
<1> HIDE DEF q, cut
<1>9. OwnUpTo(View, q.sclust, q.fsize)
  <2>1. CASE cut
    BY <1>7, <2>1, FitEmpty DEF Fit
  <2>2. CASE ~cut
    BY <1>3, <1>6, <1>7, <2>2 DEF DataInv, Owns
  <2>3. QED
    BY <2>1, <2>2
<1>10. "WR" \in q.flags => Reached(View, q)
  <2> SUFFICES ASSUME "WR" \in q.flags, q.fsize > 0,
                      Walk(View, q.sclust, Steps(q.fsize)) \notin Cluster
               PROVE  FALSE
    BY DEF Reached
  <2>1. ~Has(f, "WR") /\ Has(f, "WR")'
    BY <1>1, <1>3, <1>4 DEF PosInv, WritersOpen, Has
  <2>2. ClustersFor(q.fsize) <= ChainLen(View, q.sclust)
    BY <1>4, <2>1 DEF RepairedFirst
  <2>3. q.fsize \in Nat
    BY <1>4 DEF Slot
  <2>4. Steps(q.fsize) \in Nat /\ ClustersFor(q.fsize) = Steps(q.fsize) + 1
    BY <2>3, StepsNat, ClustersIs
  <2>5. ChainLen(View, q.sclust) \in Nat /\ ChainLen(View, q.sclust) <= Steps(q.fsize)
    BY <1>1, <2>4, ViewCard, LenAtMost
  <2>6. QED
    BY <2>2, <2>4, <2>5
<1>11. Fits(f)'
  BY <1>2, <1>4, <1>8, <1>9, <1>10 DEF Fits, Fit
<1>12. \A s : Keeps(View, View, s)
  BY WiderRefl, WiderKeeps
<1>13. PICK k : k = View
  OBVIOUS
<1>14. Owns(k)
  BY <1>13 DEF DataInv
<1>15. QED
  BY <1>1, <1>2, <1>4, <1>8, <1>11, <1>12, <1>13, <1>14, DataChange

(* An entry written outside link_new. *)
LEMMA DataEntry ==
  ASSUME WholeInv, DataInv, NEW e \in Entry, NEW q \in DirEnt,
         q.name \in Names => OwnUpTo(View, q.sclust, q.size),
         View' \in {View, SetEnt(View, e, q)},
         card' \in {card, View, SetEnt(View, e, q)},
         UNCHANGED files, NoJoin, NoJoin'
  PROVE  DataInv'
<1>1. CardInv /\ IsCard(View)
  BY ViewCard DEF WholeInv, CardInv, IndInv
<1>2. PICK k : k = SetEnt(View, e, q)
  OBVIOUS
<1>3. Owns(k) /\ \A s : Keeps(k, View, s)
  BY <1>1, <1>2, EntOwns, EntKeeps DEF DataInv
<1>4. \A f \in Handle : Alike(files'[f], files[f])
  BY AlikeMove
<1>5. QED
  BY <1>1, <1>2, <1>3, <1>4, DataChangeTame

(* uzefs_open of a new name makes an empty file. *)
LEMMA DataOpenNew ==
  ASSUME NothingDropped, WholeInv, WholeInv', DataInv, NEW nm \in Names, NEW mode \in Modes,
         NEW f \in Handle, NEW e \in Entry, NEW last \in Entry,
         OpenNew(nm, mode, f, e, last) \/ OpenNewFails(nm, mode, f, e, last)
  PROVE  DataInv'
<1> DEFINE r == [name |-> nm, sclust |-> 0, size |-> 0]
           k == Created(View, e, nm)
<1>1. CardInv /\ CardInv' /\ PosInv
  BY DEF WholeInv
<1>2. pc = "idle" /\ UNCHANGED <<lent, pc, call>>
  BY DEF OpenNew, OpenNewFails, CreateChecks, OpenChecks
<1>3. r \in DirEnt /\ k = SetEnt(View, e, r) /\ IsCard(View)
  BY <1>1, GeometryAssumption, ViewCard DEF DirEnt, Created, CardInv, IndInv
<1>4. IsCard(k) /\ Ent(k, e) = r
  BY <1>3, SetEntCard
<1>5. OwnUpTo(View, r.sclust, r.size)
  BY DEF OwnUpTo
<1>6. NoJoin /\ NoJoin'
  BY <1>2 DEF NoJoin
<1>7. CASE OpenNewFails(nm, mode, f, e, last)
  <2>1. View' \in {View, k} /\ card' \in {card, View, k} /\ UNCHANGED files
    BY <1>1, <1>2, <1>4, <1>7, FailsKeep, PutFailsOK DEF OpenNewFails, CardInv, IndInv
  <2> HIDE DEF r
  <2>2. QED
    BY <1>3, <1>5, <1>6, <2>1, DataEntry
<1>8. CASE OpenNew(nm, mode, f, e, last)
  <2> DEFINE q == NewSlot(e, mode, k)
  <2>1. SetSlot(f, q) /\ Put(Scanned(last) \cup {DirSect(e)}, DirSect(e), k)
    BY <1>8 DEF OpenNew
  <2>2. View' = k /\ card' \in {card, View, k}
    BY <1>1, <1>2, <2>1, CreatedOK DEF CardInv, IndInv
  <2>3. q.fsize = 0
    BY <1>4 DEF NewSlot, FreeSlot
  <2> HIDE DEF q
  <2>4. files'[f] = q /\ (\A g \in Handle : g # f => files'[g] = files[g])
    BY <1>1, <2>1, SetSlotIs
  <2> HIDE DEF r
  <2>5. Owns(k) /\ \A s : Keeps(k, View, s)
    BY <1>3, <1>5, EntOwns, EntKeeps DEF DataInv
  <2> HIDE DEF k
  <2>6. \A g \in Handle : ~Joins(g) /\ ~Joins(g)'
    BY <1>2 DEF Joins
  <2>7. Fits(f)'
    BY <2>3, <2>4, <2>6, FitEmpty DEF Fits
  <2>8. QED
    BY <1>1, <2>2, <2>4, <2>5, <2>6, <2>7, DataChange
<1>9. QED
  BY <1>7, <1>8

(* uzefs_delete takes the entry; the chain is freed after it. *)
LEMMA DataDelete ==
  ASSUME NothingDropped, WholeInv, WholeInv', DataInv, NEW nm \in Names, NEW e \in Entry,
         Delete(nm, e)
  PROVE  DataInv'
<1> DEFINE r == [Ent(View, e) EXCEPT !.name = Removed]
           k == SetEnt(View, e, r)
<1>1. CardInv /\ CardInv' /\ PosInv /\ DiskOK
  BY DEF WholeInv, CardInv, IndInv
<1>2. pc = "idle" /\ UNCHANGED <<lent, files>> /\ pc' \in {"idle", "free"}
  BY DEF Delete, Closed
<1>3. IsCard(View) /\ Ent(View, e) \in DirEnt
  BY <1>1, ViewCard, Entries
<1>4. r \in DirEnt /\ r.name \notin Names
  BY <1>3, NamesAssumption DEF DirEnt
<1>5. Put(Scanned(e), DirSect(e), k) \/ PutFails(Scanned(e), k)
  BY DEF Delete
<1> HIDE DEF r
<1>6. IsCard(k)
  BY <1>3, <1>4, SetEntCard
<1>7. View' \in {View, k} /\ card' \in {card, View, k}
  BY <1>1, <1>2, <1>4, <1>5, <1>6, ScannedOK, EntPutOK, EntPutFailsOK, FailsKeep
<1>8. NoJoin /\ NoJoin'
  BY <1>2 DEF NoJoin
<1>9. QED
  BY <1>2, <1>4, <1>7, <1>8, DataEntry

(* uzefs_rename takes the file with its bytes to another name. *)
LEMMA DataRename ==
  ASSUME NothingDropped, WholeInv, WholeInv', DataInv, NEW from \in Names, NEW to \in Names,
         NEW e \in Entry, NEW last \in Entry, Rename(from, to, e, last)
  PROVE  DataInv'
<1> DEFINE r == [Ent(View, e) EXCEPT !.name = to]
           k == SetEnt(View, e, r)
           S == Scanned(e) \cup Scanned(last)
<1>1. CardInv /\ CardInv' /\ PosInv /\ DiskOK
  BY DEF WholeInv, CardInv, IndInv
<1>2. pc = "idle" /\ UNCHANGED <<lent, files, pc, call>> /\ Used(View, e)
  BY DEF Rename, Closed, IsHit, Used
<1>3. IsCard(View) /\ Ent(View, e) \in DirEnt
  BY <1>1, ViewCard, Entries
<1>4. r \in DirEnt /\ r.sclust = Ent(View, e).sclust /\ r.size = Ent(View, e).size
  BY <1>3 DEF DirEnt
<1>5. Put(S, DirSect(e), k) \/ PutFails(S, k)
  BY DEF Rename
<1>6. DirSect(e) \in S
  BY ScannedOK
<1> HIDE DEF r, S
<1>7. IsCard(k) /\ OwnUpTo(View, r.sclust, r.size)
  BY <1>2, <1>3, <1>4, SetEntCard DEF DataInv, Owns
<1>8. View' \in {View, k} /\ card' \in {card, View, k}
  BY <1>1, <1>2, <1>4, <1>5, <1>6, <1>7, EntPutOK, EntPutFailsOK, FailsKeep
<1>9. NoJoin /\ NoJoin'
  BY <1>2 DEF NoJoin
<1>10. QED
  BY <1>2, <1>4, <1>7, <1>8, <1>9, DataEntry

(* do_sync writes the size that the slot has. *)
LEMMA DataSyncEntry ==
  ASSUME NothingDropped, WholeInv, WholeInv', DataInv, SyncEntry
  PROVE  DataInv'
<1>1. CardInv /\ CardInv' /\ PosInv /\ DiskOK /\ IsCard(View)
  BY ViewCard DEF WholeInv, CardInv, IndInv
<1>2. pc = "entry" /\ UNCHANGED lent /\ NoJoin
  BY DEF SyncEntry, NoJoin
<1>3. call.fh \in Handle /\ Cur \in Slot /\ Cur = files[call.fh] /\ Live(call.fh)
  BY <1>1, <1>2, WriterRests
<1>4. OwnUpTo(View, Cur.sclust, Cur.fsize)
  BY <1>2, <1>3, LiveFit DEF Joins, Fit
<1>5. PICK k : k = WithEntry(View, Cur)
  OBVIOUS
<1>6. IsCard(k)
  BY <1>1, <1>3, <1>5, WithEntryOK, SetEntCard DEF WithEntry
<1>7. Owns(k) /\ \A s : Keeps(k, View, s)
  BY <1>1, <1>3, <1>4, <1>5, WithEntryOwns, WithEntryKeeps DEF DataInv
<1>8. DirWrite(Cur) => View' = k /\ card' \in {card, View, k}
  BY <1>1, <1>2, <1>3, <1>5, DirWriteOK
<1>9. DirWriteFails(Cur) => View' \in {View, k} /\ card' \in {card, View, k}
  BY <1>1, <1>2, <1>3, <1>5, <1>6, DirWriteFailsOK, FailsKeep DEF DirWriteFails
<1>10. NoJoin' /\ \A f \in Handle : Alike(files'[f], files[f])
  <2>1. CASE DiskError
    BY <1>1, <2>1, AlikeFail
  <2>2. CASE Goto("flush") /\ UNCHANGED files
    BY <2>2, AlikeMove DEF Goto, NoJoin
  <2>3. QED
    BY <2>1, <2>2 DEF SyncEntry
<1>11. View' \in {View, k} /\ card' \in {card, View, k}
  BY <1>8, <1>9 DEF SyncEntry
<1>12. QED
  BY <1>1, <1>2, <1>7, <1>10, <1>11, DataChangeTame

(* The size that uzefs_truncate leaves. *)
LEMMA DataCutSize ==
  ASSUME NothingDropped, WholeInv, WholeInv', DataInv, CutSize
  PROVE  DataInv'
<1> DEFINE r == With(Cur, {}, {"DIRTY"})
           q == IF call.op = "open" THEN FreeSlot ELSE With(r, {"FAILED"}, {})
<1>1. CardInv /\ CardInv' /\ PosInv /\ DiskOK /\ IsCard(View)
  BY ViewCard DEF WholeInv, CardInv, IndInv
<1>2. /\ pc = "size" /\ UNCHANGED lent /\ NoJoin
      /\ \/ DirWrite(r) /\ SetSlot(call.fh, r) /\ (Goto("free") \/ Done)
         \/ DirWriteFails(r) /\ SetSlot(call.fh, q) /\ Return
  BY DEF CutSize, NoJoin
<1>3. call.fh \in Handle /\ Cur \in Slot /\ Cur = files[call.fh] /\ Live(call.fh)
  BY <1>1, <1>2, WriterRests
<1>4. OwnUpTo(View, Cur.sclust, Cur.fsize)
  BY <1>2, <1>3, LiveFit DEF Joins, Fit
<1>5. r \in Slot /\ r.sclust = Cur.sclust /\ r.fsize = Cur.fsize /\ Alike(r, Cur)
  BY <1>3, WithoutOK, AlikeWith
<1> HIDE DEF r
<1>6. Alike(q, Cur)
  <2>1. Alike(With(r, {"FAILED"}, {}), r)
    BY <1>5, AlikeWith
  <2>2. Alike(FreeSlot, Cur)
    BY FreeSlotOK, AlikeDead DEF Able
  <2>3. QED
    BY <1>5, <2>1, <2>2, AlikeTrans
<1> HIDE DEF q
<1>7. PICK k : k = WithEntry(View, r)
  OBVIOUS
<1>8. IsCard(k)
  BY <1>1, <1>5, <1>7, WithEntryLeaves
<1>9. Owns(k) /\ \A s : Keeps(k, View, s)
  BY <1>1, <1>4, <1>5, <1>7, WithEntryOwns, WithEntryKeeps DEF DataInv
<1>10. DirWrite(r) => View' = k /\ card' \in {card, View, k}
  BY <1>1, <1>2, <1>5, <1>7, DirWriteOK
<1>11. DirWriteFails(r) => View' \in {View, k} /\ card' \in {card, View, k}
  BY <1>1, <1>2, <1>5, <1>7, <1>8, DirWriteFailsOK, FailsKeep DEF DirWriteFails
<1>12. View' \in {View, k} /\ card' \in {card, View, k}
  BY <1>2, <1>10, <1>11
<1>13. NoJoin'
  BY <1>2 DEF Goto, Done, Return, NoJoin
<1>14. PICK p : SetSlot(call.fh, p) /\ Alike(p, Cur)
  BY <1>2, <1>5, <1>6
<1>15. \A f \in Handle : Alike(files'[f], files[f])
  <2>1. files'[call.fh] = p /\ \A f \in Handle : f # call.fh => files'[f] = files[f]
    BY <1>1, <1>3, <1>14, SetSlotIs
  <2>2. QED
    BY <1>3, <1>14, <2>1, AlikeMove
<1>16. QED
  BY <1>1, <1>2, <1>9, <1>12, <1>13, <1>15, DataChangeTame

(* uzefs_truncate begins: the slot gets the size it will have. *)
LEMMA DataTruncate ==
  ASSUME NothingDropped, WholeInv, WholeInv', SizeInv, DataInv, NEW f \in Handle, Truncate(f)
  PROVE  DataInv'
<1> DEFINE r == With(files[f], {}, {"CONTIG"})
           nx == FatNext(View, r.cclust)
           cutAt == [r EXCEPT !.fsize = r.fptr]
<1>1. CardInv /\ CardInv' /\ PosInv /\ DiskOK
  BY DEF WholeInv, CardInv, IndInv
<1>2. Ready(f) /\ UNCHANGED lent
  BY DEF Truncate, CanWrite
<1>3. pc = "idle" /\ files[f] \in Slot /\ Resting(View, files[f]) /\ Live(f)
  BY <1>1, <1>2, ReadyRests DEF Live, Has
<1>4. /\ r \in Slot /\ r.sclust = files[f].sclust /\ r.cclust = files[f].cclust
      /\ r.csect = files[f].csect /\ r.fptr = files[f].fptr /\ r.fsize = files[f].fsize
      /\ r.ent = files[f].ent
  BY <1>3, WithoutOK
<1>5. Resting(View, r) /\ OwnUpTo(View, r.sclust, r.fsize)
  <2>1. Fit(View, files[f])
    BY <1>3, LiveFit DEF Joins
  <2>2. QED
    BY <1>3, <1>4, <2>1, SamePlace DEF Fit
<1> HIDE DEF r
<1>6. PICK k : k = View
  OBVIOUS
<1>7. Owns(k) /\ \A s : Keeps(k, View, s)
  BY <1>6, WiderRefl, WiderKeeps DEF DataInv
<1>8. ASSUME NEW q \in Slot, SetSlot(f, q), SameRead, NoJoin', Able(q) => Fit(View, q)
      PROVE  DataInv'
  <2>1. files'[f] = q /\ \A g \in Handle : g # f => files'[g] = files[g]
    BY <1>1, <1>8, SetSlotIs
  <2>2. \A g \in Handle : ~Joins(g) /\ ~Joins(g)'
    BY <1>3, <1>8 DEF Joins, NoJoin
  <2>3. View' = View /\ card' \in {card, View}
    BY <1>8 DEF SameRead
  <2>4. Live(f)' => Fits(f)'
    BY <1>8, <2>1, <2>2, <2>3, LiveAble DEF Fits
  <2>5. QED
    BY <1>1, <1>6, <1>7, <2>1, <2>2, <2>3, <2>4, DataChange
<1>9. CASE r.cclust = 0
  <2> DEFINE q == [r EXCEPT !.sclust = 0, !.fsize = 0]
  <2>1. BeginCut(f, q, r.sclust, "size") /\ UNCHANGED disk
    BY <1>9 DEF Truncate, r
  <2>2. q \in Slot /\ q.fsize = 0
    BY <1>4 DEF Slot
  <2> HIDE DEF q
  <2>3. SetSlot(f, q) /\ NoJoin'
    BY <2>1 DEF BeginCut, NoJoin
  <2>4. SameRead
    BY <1>1, <1>2, <2>1, OnlyReads
  <2>5. QED
    BY <1>8, <2>2, <2>3, <2>4, FitEmpty
<1>10. CASE r.cclust # 0
  <2>1. \/ /\ Load({FatSect(r.cclust)}, FatSect(r.cclust))
           /\ CASE nx \in Cluster -> BeginCut(f, cutAt, nx, "cut")
                [] nx = 0 -> BeginCut(f, cutAt, 0, "size")
                [] OTHER -> SetSlot(f, cutAt) /\ UNCHANGED <<pc, call>>
        \/ /\ LoadFails({FatSect(r.cclust)})
           /\ SetSlot(f, With(cutAt, {"FAILED"}, {}))
           /\ UNCHANGED <<pc, call>>
    BY <1>10 DEF Truncate, r
  <2>2. /\ cutAt \in Slot /\ cutAt.sclust = r.sclust
        /\ cutAt.fsize = r.fptr
    BY <1>4 DEF Slot
  <2>3. FatSect(r.cclust) \in Sector
    BY <1>4, <1>10, Sectors DEF Slot
  <2>4. SameRead
    BY <1>1, <1>2, <2>1, <2>3, OnlyReads
  <2> HIDE DEF cutAt
  <2>5. Fit(View, cutAt)
    <3>1. r.fptr \in Nat /\ r.fsize \in Nat /\ r.fptr <= r.fsize
      BY <1>4, <1>5 DEF Resting, Slot
    <3>2. OwnUpTo(View, r.sclust, r.fptr)
      BY <1>5, <3>1, OwnLess
    <3>3. r.fptr > 0 => Walk(View, r.sclust, Steps(r.fptr)) \in Cluster
      BY <1>5, <3>1 DEF Resting, Stands
    <3>4. QED
      BY <2>2, <3>2, <3>3 DEF Fit, Reached
  <2>6. /\ \A cl, step : step \in {"cut", "size"} /\ BeginCut(f, cutAt, cl, step)
             => SetSlot(f, cutAt) /\ NoJoin'
        /\ UNCHANGED <<pc, call>> => NoJoin'
    BY <1>3 DEF BeginCut, NoJoin
  <2>7. CASE SetSlot(f, cutAt) /\ NoJoin'
    BY <1>8, <2>2, <2>4, <2>5, <2>7
  <2>8. CASE SetSlot(f, With(cutAt, {"FAILED"}, {})) /\ NoJoin'
    <3>1. With(cutAt, {"FAILED"}, {}) \in Slot /\ ~Able(With(cutAt, {"FAILED"}, {}))
      <4>1. "FAILED" \in Flag
        BY DEF Flag
      <4>2. QED
        BY <2>2, <4>1, OneFlag DEF Able
    <3>2. QED
      BY <1>8, <2>4, <2>8, <3>1
  <2>9. QED
    BY <2>1, <2>6, <2>7, <2>8
<1>11. QED
  BY <1>9, <1>10

(* uzefs_truncate ends the chain where the position is. *)
LEMMA DataCut ==
  ASSUME NothingDropped, WholeInv, WholeInv', SizeInv, DataInv, Cut
  PROVE  DataInv'
<1>1. CardInv /\ CardInv' /\ PosInv /\ PosInv' /\ DiskOK /\ IsCard(View)
  BY ViewCard DEF WholeInv, CardInv, IndInv
<1>2. pc = "cut" /\ UNCHANGED lent /\ call.op = "truncate"
  BY DEF Cut, SizeInv, Locals, ChangeCall
<1>3. /\ call.fh \in Handle /\ Cur \in Slot /\ Cur = files[call.fh] /\ Live(call.fh)
      /\ Used(View, Cur.ent) /\ Resting(View, Cur)
      /\ \A f \in Handle : f # call.fh /\ Has(f, "OPEN") => files[f].ent # Cur.ent
  BY <1>1, <1>2, WriterRests DEF Placed, Resting
<1>4. Cur.cclust \in Cluster /\ Cur.cclust # 0
  BY <1>1, <1>2, <1>3 DEF CardInv, IndInv, CtrlOK, ClustOK, Slot
<1>5. Cur.fsize = Cur.fptr /\ Fit(View, Cur)
  BY <1>2, <1>3, LiveFit DEF SizeInv, AllSized, Sized, Phase, Joins
<1>6. PICK c \in Cluster : c = Cur.cclust
  BY <1>4
<1>7. PICK k : k = SetFat(View, c, EOC)
  OBVIOUS
<1>8. IsCard(k) /\ Owns(k)
  BY <1>1, <1>7, FatValues, SetFatCard, CutOwns DEF DataInv
<1>9. FatPut(Cur.cclust, EOC) => View' = k /\ card' \in {card, View, k}
  BY <1>1, <1>2, <1>6, <1>7, FatValues, FatPutOK
<1>10. FatPutFails(Cur.cclust, EOC) => View' \in {View, k} /\ card' \in {card, View, k}
  BY <1>1, <1>2, <1>6, <1>7, <1>8, FatValues, FatPutFailsOK, FailsKeep DEF FatPutFails
<1>11. Cur.fptr \in Nat /\ Cur.fptr > 0
  BY <1>3, <1>4, NowhereIsStart DEF Resting, Slot
<1>12. ASSUME NEW f \in Handle, f # call.fh, Live(f)
       PROVE  Keeps(k, View, files[f].sclust)
  <2>1. files[f].ent # Cur.ent /\ Cur.ent \in Entry
    BY <1>3, <1>12 DEF Slot, Live
  <2>2. Steps(Cur.fptr) \in Nat /\ c = Walk(View, Ent(View, Cur.ent).sclust, Steps(Cur.fptr))
    BY <1>3, <1>6, <1>11, StepsNat DEF Resting, Stands
  <2>3. QED
    BY <1>1, <1>3, <1>7, <1>12, <2>1, <2>2, FatValues, OtherKeeps
<1>13. PICK g \in Handle : g = call.fh
  BY <1>3
<1>14. View' \in {View, k} /\ card' \in {card, View, k}
  BY <1>9, <1>10 DEF Cut
<1>15. CASE FatPut(Cur.cclust, EOC) /\ Goto("size") /\ UNCHANGED files
  <2>1. \A f \in Handle : files'[f] = files[f] /\ ~Joins(f) /\ ~Joins(f)'
    BY <1>2, <1>15 DEF Goto, Joins
  <2>2. OwnUpTo(k, Cur.sclust, Cur.fsize)
    BY <1>1, <1>5, <1>7, CutWithin, WithinOwn DEF Fit
  <2>3. Walk(k, Cur.sclust, Steps(Cur.fptr)) \in Cluster
    <3>1. pc' = "size" /\ call' = call /\ files' = files
      BY <1>15 DEF Goto
    <3>2. Live(g)' /\ Phase(g)' = "size"
      BY <1>3, <1>13, <3>1 DEF Live, Has, Phase
    <3>3. Placed(View', files'[g], "size", NewClust')
      BY <1>1, <3>2 DEF PosInv, AllPlaced
    <3>4. Stands(View', Cur, Cur.fptr)
      BY <1>3, <1>13, <3>1, <3>3 DEF Placed
    <3>5. QED
      BY <1>9, <1>11, <1>15, <3>4 DEF Stands
  <2>4. Fits(g)'
    BY <1>3, <1>5, <1>9, <1>13, <1>15, <2>1, <2>2, <2>3 DEF Fits, Fit, Reached
  <2>5. QED
    BY <1>1, <1>8, <1>12, <1>13, <1>14, <2>1, <2>4, DataChange
<1>16. CASE FatPutFails(Cur.cclust, EOC) /\ DiskError
  <2>1. ~Live(g)' /\ \A f \in Handle : f # g => files'[f] = files[f]
    BY <1>1, <1>2, <1>13, <1>16, FailSlotDead, LiveAble DEF DiskError
  <2>2. \A f \in Handle : ~Joins(f) /\ ~Joins(f)'
    BY <1>2, <1>16 DEF DiskError, Return, Joins
  <2>3. QED
    BY <1>1, <1>8, <1>12, <1>13, <1>14, <2>1, <2>2, DataChange
<1>17. QED
  BY <1>15, <1>16 DEF Cut

(* free_chain frees what is in no file. *)
LEMMA DataFree ==
  ASSUME NothingDropped, WholeInv, WholeInv', DataInv, Free
  PROVE  DataInv'
<1> DEFINE cl == call.cl
           nx == FatNext(View, cl)
<1>1. CardInv /\ CardInv' /\ PosInv /\ DiskOK /\ IsCard(View)
  BY ViewCard DEF WholeInv, CardInv, IndInv
<1>2. /\ pc = "free" /\ UNCHANGED lent /\ NoJoin
      /\ \/ nx # Bad /\ FatPut(cl, 0) /\ UNCHANGED files
            /\ ((pc' = pc /\ call' = [call EXCEPT !.cl = nx]) \/ Done)
         \/ nx = Bad /\ (IF cl \in Cluster THEN Load({FatSect(cl)}, FatSect(cl))
                                           ELSE UNCHANGED disk) /\ Corrupt
         \/ cl \in Cluster /\ LoadFails({FatSect(cl)}) /\ DiskError
         \/ cl \in Cluster /\ FatPutFails(cl, 0) /\ DiskError
  BY DEF Free, NoJoin
<1>3. nx # Bad => cl \in Cluster
  BY FatNextOK
<1>4. cl \in Cluster => ~Points(View, cl)
  BY <1>1, <1>2 DEF CardInv, StepsOK, FreeOK
<1> HIDE DEF cl, nx
<1>5. CASE (IF cl \in Cluster THEN Load({FatSect(cl)}, FatSect(cl)) ELSE UNCHANGED disk)
           /\ Corrupt
  <2>1. cl \in Cluster => FatSect(cl) \in Sector
    BY Sectors
  <2>2. SameRead
    BY <1>1, <1>2, <1>5, <2>1, OnlyReads
  <2>3. QED
    BY <1>1, <1>2, <1>5, <2>2, DataError
<1>6. CASE LoadFails({FatSect(cl)}) /\ DiskError
  BY <1>1, <1>2, <1>6, OnlyReads, DataError
<1>7. ASSUME cl \in Cluster, FatPut(cl, 0) \/ FatPutFails(cl, 0), NoJoin',
             \A f \in Handle : Alike(files'[f], files[f])
      PROVE  DataInv'
  <2>1. PICK k : k = SetFat(View, cl, 0)
    OBVIOUS
  <2>2. IsCard(k) /\ Owns(k)
    BY <1>1, <1>7, <2>1, FatValues, SetFatCard, CutOwns DEF DataInv
  <2>3. FatPut(cl, 0) => View' = k /\ card' \in {card, View, k}
    BY <1>1, <1>2, <1>7, <2>1, FatValues, FatPutOK
  <2>4. FatPutFails(cl, 0) => View' \in {View, k} /\ card' \in {card, View, k}
    BY <1>1, <1>2, <1>7, <2>1, <2>2, FatValues, FatPutFailsOK, FailsKeep DEF FatPutFails
  <2>5. \A f \in Handle : Live(f) => Keeps(k, View, files[f].sclust)
    BY <1>1, <1>2, <1>4, <1>7, <2>1, FatValues, UnpointedKeeps
  <2>6. View' \in {View, k} /\ card' \in {card, View, k}
    BY <1>7, <2>3, <2>4
  <2>7. QED
    BY <1>1, <1>2, <1>7, <2>2, <2>5, <2>6, DataChangeTame
<1>8. CASE nx # Bad /\ FatPut(cl, 0) /\ UNCHANGED files
           /\ ((pc' = pc /\ call' = [call EXCEPT !.cl = nx]) \/ Done)
  <2>1. NoJoin'
    BY <1>2, <1>8 DEF Done, Goto, Return, NoJoin
  <2>2. \A f \in Handle : Alike(files'[f], files[f])
    BY <1>8, AlikeMove
  <2>3. QED
    BY <1>3, <1>7, <1>8, <2>1, <2>2
<1>9. CASE cl \in Cluster /\ FatPutFails(cl, 0) /\ DiskError
  BY <1>1, <1>7, <1>9, AlikeFail
<1>10. QED
  BY <1>2, <1>5, <1>6, <1>8, <1>9

-----------------------------------------------------------------------------
(***************************************************************************)
(* Taking a cluster: what it held is nobody's.                             *)
(***************************************************************************)
LEMMA ClustersApart ==
  ASSUME NEW c \in Cluster, NEW d \in Cluster, NEW i \in 0 .. SPC - 1, NEW j \in 0 .. SPC - 1,
         ClustSect(c) + i = ClustSect(d) + j
  PROVE  c = d
<1>1. PICK m, n \in Nat : m = c - 2 /\ n = d - 2
  BY GeometryAssumption DEF Cluster
<1>2. SPC * m + i = SPC * n + j
  BY <1>1, UnitsOK DEF ClustSect
<1>3. (SPC * m + i) \div SPC = m /\ (SPC * n + j) \div SPC = n
  BY <1>1, DivUnique, UnitsOK
<1>4. QED
  BY <1>1, <1>2, <1>3, GeometryAssumption DEF Cluster

(* A cluster taken that no file has changes no file, *)
LEMMA WipedKeeps ==
  ASSUME NEW k, IsCard(k), NEW c \in Cluster, NEW s, \A n \in Nat : Walk(k, s, n) # c
  PROVE  Keeps(Wiped(k, c), k, s)
<1> DEFINE j == Wiped(k, c)
<1>1. \A d : FatNext(j, d) = FatNext(k, d)
  BY WipedCard DEF FatNext
<1>2. ASSUME NEW d \in Cluster, d # c PROVE Fuller(j, k, d)
  <2> SUFFICES ASSUME NEW i \in 0 .. SPC - 1
               PROVE  j[DataSect(ClustSect(d) + i)] = k[DataSect(ClustSect(d) + i)]
    BY DEF Fuller
  <2>1. DataSect(ClustSect(d) + i) \in Sector
    BY ClustSectOK, Sectors
  <2>2. \A h \in 0 .. SPC - 1 : DataSect(ClustSect(d) + i) # DataSect(ClustSect(c) + h)
    BY <1>2, ClustersApart DEF DataSect
  <2>3. QED
    BY <2>1, <2>2 DEF Wiped
<1> HIDE DEF j
<1>3. \A n \in Nat : Walk(j, s, n) = Walk(k, s, n)
  BY <1>1, WalkNext
<1>4. QED
  BY <1>2, <1>3 DEF Keeps, Within, j

(* and takes no bytes from one. *)
LEMMA WipedOwns ==
  ASSUME NEW k, IsCard(k), Owns(k), NEW c \in Cluster,
         \A e \in Entry : Used(k, e) => \A n \in Nat : Walk(k, Ent(k, e).sclust, n) # c
  PROVE  Owns(Wiped(k, c))
<1>1. \A e \in Entry : Ent(Wiped(k, c), e) = Ent(k, e)
  BY WipedCard
<1>2. QED
  BY <1>1, WipedKeeps, WithinOwns DEF Used, Keeps

(* What keeps what is kept keeps it. *)
LEMMA KeepsTrans ==
  ASSUME NEW i, NEW j, NEW k, NEW s, Keeps(i, j, s), Keeps(j, k, s)
  PROVE  Keeps(i, k, s)
<1>1. ASSUME NEW n \in Nat, Walk(i, s, n) \in Cluster
      PROVE  Walk(k, s, n) = Walk(i, s, n) /\ Fuller(i, k, Walk(i, s, n))
  <2>1. Walk(j, s, n) = Walk(i, s, n) /\ Fuller(i, j, Walk(i, s, n))
    BY <1>1 DEF Keeps, Within
  <2>2. Walk(k, s, n) = Walk(i, s, n) /\ Fuller(j, k, Walk(i, s, n))
    BY <1>1, <2>1 DEF Keeps, Within
  <2>3. QED
    BY <2>1, <2>2 DEF Fuller
<1>2. \A n \in Nat : Walk(k, s, n) \in Cluster => Walk(i, s, n) = Walk(k, s, n)
  BY DEF Keeps
<1>3. QED
  BY <1>1, <1>2 DEF Keeps, Within

(* A cluster that nothing points at is in no file. *)
LEMMA UnpointedWalk ==
  ASSUME NEW k, IsCard(k), NEW c \in Cluster, ~Points(k, c)
  PROVE  \A e \in Entry : Used(k, e) => \A n \in Nat : Walk(k, Ent(k, e).sclust, n) # c
BY WalkPointed

(* Where only a FAT sector waits, the card's chains are those of the view, *)
(* maybe cut short.                                                        *)
LEMMA CardWalk ==
  ASSUME IsCard(View), KeptLinks, pc # "size", NEW e \in Entry, Used(View, e)
  PROVE  LET s == Ent(View, e).sclust
         IN  \A n \in Nat : Walk(card, s, n) \in Cluster => Walk(card, s, n) = Walk(View, s, n)
<1> DEFINE s == Ent(View, e).sclust
           T == {n \in Nat : Walk(card, s, n) \in Cluster => Walk(card, s, n) = Walk(View, s, n)}
<1>1. 0 \in T
  BY WalkIs
<1>2. ASSUME NEW n \in Nat, n \in T PROVE n + 1 \in T
  <2> SUFFICES ASSUME Walk(card, s, n + 1) \in Cluster
               PROVE  Walk(card, s, n + 1) = Walk(View, s, n + 1)
    OBVIOUS
  <2>1. PICK c : c = Walk(card, s, n)
    OBVIOUS
  <2>2. Walk(card, s, n + 1) = FatNext(card, c) /\ FatNext(card, c) \in Cluster
    BY <2>1, WalkIs
  <2>3. c \in Cluster
    BY <2>2, FatValues, FatNextOK
  <2>4. c = Walk(View, s, n) /\ Walk(View, s, n + 1) = FatNext(View, c)
    <3>1. c = Walk(View, s, n)
      BY <1>2, <2>1, <2>3
    <3>2. Walk(View, s, n + 1) = FatNext(View, Walk(View, s, n))
      BY WalkIs
    <3>3. QED
      BY <3>1, <3>2
  <2>5. Points(View, c)
    BY <2>3, <2>4, WalkPointed
  <2>6. Fat(card, c) \in Cluster /\ Fat(card, c) \in {Fat(View, c), EOC}
    BY <2>2, <2>3, <2>5, FatValues DEF FatNext, KeptLinks
  <2>7. FatNext(card, c) = FatNext(View, c)
    BY <2>6, FatValues DEF FatNext
  <2>8. QED
    BY <2>2, <2>4, <2>7
<1> HIDE DEF T
<1>3. \A n \in Nat : n \in T
  BY <1>1, <1>2, NatAll
<1>4. QED
  BY <1>3 DEF T

(* alloc_cluster takes a cluster that no chain has, in the card and in what *)
(* the library reads, and what it held belongs to no one.                  *)
LEMMA DataAlloc ==
  ASSUME NothingDropped, WholeInv, WholeInv', KeptInv, DataInv, NEW cl \in Cluster, Alloc(cl)
  PROVE  DataInv'
<1> DEFINE v == With(Cur, {"NEWCL"}, {})
           q == [v EXCEPT !.csect = ClustSect(cl)]
<1>1. CardInv /\ CardInv' /\ PosInv /\ DiskOK /\ IsCard(View) /\ IsCard(card)
  BY ViewCard DEF WholeInv, CardInv, IndInv, DiskOK
<1>2. PICK k : k = SetFat(View, cl, EOC)
  OBVIOUS
<1>3. /\ pc = "alloc" /\ UNCHANGED lent /\ NoJoin
      /\ \/ /\ card' = Wiped(CardAfterPut(AllocLoads(cl), k), cl)
            /\ HoldPut(FatSect(cl), k)
            /\ SetSlot(call.fh, q) /\ pc' = "move"
         \/ LoadFails(AllocLoads(cl)) /\ DiskError
         \/ PutFails({}, k) /\ DiskError
  BY <1>2 DEF Alloc, Goto, NoJoin
<1>4. call.fh \in Handle /\ Cur \in Slot /\ Cur = files[call.fh]
  BY <1>1, <1>3, TransferSlot
<1>5. Fat(View, cl) = 0
  BY DEF Alloc, Takable, FreeFrom
<1>6. ~Points(View, cl)
  BY <1>1, <1>5, FreeUnpointed
<1>7. IsCard(k) /\ Owns(k) /\ ~Points(k, cl)
  <2>1. EOC # cl
    BY FatValues
  <2>2. QED
    BY <1>1, <1>2, <1>6, <2>1, FatValues, SetFatCard, CutOwns DEF DataInv, Points, Used
<1>8. \A f \in Handle : Live(f) => Keeps(k, View, files[f].sclust)
  BY <1>1, <1>2, <1>3, <1>6, FatValues, UnpointedKeeps
<1>9. CASE /\ card' = Wiped(CardAfterPut(AllocLoads(cl), k), cl)
           /\ HoldPut(FatSect(cl), k)
           /\ SetSlot(call.fh, q) /\ pc' = "move"
  <2>1. FatSect(cl) \in AllocLoads(cl)
    BY <1>1, AllocLoadsOK DEF CardInv, IndInv, CtrlOK
  <2>2. View' = Wiped(k, cl)
    BY <1>1, <1>2, <1>3, <1>9, <2>1, AllocOK
  <2>3. Owns(Wiped(k, cl)) /\ Owns(Wiped(View, cl))
    BY <1>1, <1>6, <1>7, UnpointedWalk, WipedOwns DEF DataInv
  <2>4. ASSUME lent = "kept", AllocLoads(cl) \subseteq DOMAIN kept
        PROVE  Owns(Wiped(card, cl))
    <3>1. PICK s : DOMAIN kept = {s}
      BY <1>1, <2>1, <2>4 DEF DiskOK, KeptOK, Empty
    <3>2. DOMAIN kept = {FatSect(cl)}
      BY <2>1, <2>4, <3>1
    <3>3. \A e \in Entry : DirSect(e) \in Sector /\ DirSect(e) # FatSect(cl)
      BY Sectors DEF DirSect, FatSect
    <3>4. \A e \in Entry : Ent(card, e) = Ent(View, e) /\ Used(card, e) = Used(View, e)
      BY <1>1, <3>2, <3>3, ViewCard DEF Ent, Used
    <3>5. ASSUME NEW e \in Entry, Used(card, e), NEW n \in Nat
          PROVE  Walk(card, Ent(card, e).sclust, n) # cl
      BY <1>1, <1>3, <1>6, <3>4, <3>5, UnpointedWalk, CardWalk DEF KeptInv
    <3>6. QED
      BY <1>1, <3>5, WipedOwns DEF DataInv
  <2>5. Owns(card')
    BY <1>9, <2>3, <2>4 DEF CardAfterPut, CardAfterLoad
  <2>6. ASSUME NEW f \in Handle, Live(f) PROVE Keeps(View', View, files[f].sclust)
    <3>1. PICK s : s = files[f].sclust
      OBVIOUS
    <3>2. files[f].ent \in Entry /\ Used(View, files[f].ent)
          /\ Ent(View, files[f].ent).sclust = s
      BY <1>1, <1>3, <2>6, <3>1, LiveFile
    <3>3. \A e \in Entry : Ent(k, e) = Ent(View, e) /\ Used(k, e) = Used(View, e)
      BY <1>1, <1>2, FatValues, SetFatCard DEF Used
    <3>4. \A n \in Nat : Walk(k, s, n) # cl
      BY <1>7, <3>2, <3>3, UnpointedWalk
    <3>5. Keeps(Wiped(k, cl), k, s)
      BY <1>7, <3>4, WipedKeeps
    <3>6. QED
      BY <1>8, <2>2, <2>6, <3>1, <3>5, KeepsTrans
  <2>7. v \in Slot /\ Alike(v, Cur)
    BY <1>4, AlikeWith
  <2> HIDE DEF v
  <2>8. q.flags = v.flags /\ q.sclust = v.sclust /\ q.fsize = v.fsize
    BY <2>7 DEF Slot
  <2>9. SetSlot(call.fh, q)
    BY <1>9
  <2> HIDE DEF q
  <2>10. Alike(q, Cur)
    BY <2>7, <2>8, AlikeMove, AlikeTrans
  <2>11. files'[call.fh] = q /\ \A f \in Handle : f # call.fh => files'[f] = files[f]
    BY <1>1, <1>4, <2>9, SetSlotIs
  <2>12. \A f \in Handle : Alike(files'[f], files[f])
    BY <1>4, <2>10, <2>11, AlikeMove
  <2>13. NoJoin'
    BY <1>9 DEF NoJoin
  <2>14. Owns(View')
    BY <2>2, <2>3
  <2>15. QED
    BY <1>1, <1>3, <2>5, <2>6, <2>12, <2>13, <2>14, DataTame
<1>10. CASE LoadFails(AllocLoads(cl)) /\ DiskError
  BY <1>1, <1>3, <1>10, OnlyReads, DataError
<1>11. CASE PutFails({}, k) /\ DiskError
  <2>1. View' \in {View, k} /\ card' \in {card, View, k}
    BY <1>1, <1>3, <1>7, <1>11, FailsKeep, PutFailsOK
  <2>2. NoJoin' /\ \A f \in Handle : Alike(files'[f], files[f])
    BY <1>1, <1>11, AlikeFail
  <2>3. QED
    BY <1>1, <1>3, <1>7, <1>8, <2>1, <2>2, DataChangeTame
<1>12. QED
  BY <1>3, <1>9, <1>10, <1>11

-----------------------------------------------------------------------------
(***************************************************************************)
(* Data written.                                                           *)
(***************************************************************************)
(* A data sector gets more bytes of its file. *)
LEMMA SetDataWider ==
  ASSUME NEW k, IsCard(k), NEW n \in 0 .. NDataSects - 1, NEW v \in SUBSET Offsets,
         k[DataSect(n)] \subseteq v
  PROVE  Wider(SetData(k, n, v), k) /\ SetData(k, n, v)[DataSect(n)] = v
<1> DEFINE j == SetData(k, n, v)
<1>1. Meta(j, k)
  BY SetDataCard DEF Meta
<1>2. DataSect(n) \in Sector
  BY Sectors
<1>3. \A x \in Sector : j[x] = IF x = DataSect(n) THEN v ELSE k[x]
  BY <1>2 DEF SetData, IsCard
<1> HIDE DEF j
<1>4. \A m \in 0 .. NDataSects - 1 : k[DataSect(m)] \subseteq j[DataSect(m)]
  BY <1>3, Sectors
<1>5. QED
  BY <1>1, <1>2, <1>3, <1>4 DEF Wider, j

(* The bytes of a data sector. *)
LEMMA DataContent ==
  ASSUME NEW k, IsCard(k), NEW n \in 0 .. NDataSects - 1
  PROVE  k[DataSect(n)] \subseteq Offsets
BY Sectors DEF IsCard, IsContent

(* A whole data sector written makes all of it the file's. *)
LEMMA WholeSectorWider ==
  ASSUME DiskOK, UNCHANGED lent, NEW n \in 0 .. NDataSects - 1, WholeSector(n)
  PROVE  /\ Wider(card', card) /\ Wider(View', View)
         /\ View'[DataSect(n)] = Offsets
<1> DEFINE s == DataSect(n)
<1>1. /\ card' = SetData(card, n, Offsets)
      /\ IF s \in DOMAIN kept THEN Drop ELSE UNCHANGED <<kept, dirty>>
  BY DEF WholeSector
<1>2. IsCard(card) /\ IsCard(View) /\ s \in Sector
  BY ViewCard, Sectors DEF DiskOK
<1>3. Wider(card', card) /\ card'[s] = Offsets
  BY <1>1, <1>2, DataContent, SetDataWider
<1>4. \A x \in Sector : x # s => card'[x] = card[x]
  BY <1>1, <1>2 DEF SetData, IsCard
<1>5. Meta(View', View) /\ IsCard(card')
  <2>1. IsCard(card')
    BY <1>1, <1>2, SetDataCard
  <2>2. QED
    BY <1>1, <2>1, WholeSectorOK, DataMeta
<1>6. View'[s] = Offsets /\ \A x \in Sector : x # s => View'[x] = View[x]
  <2>1. CASE s \in DOMAIN kept
    <3>1. View' = card'
      BY <1>1, <1>5, <2>1, DropOK
    <3>2. DOMAIN kept = {s}
      BY <2>1 DEF DiskOK, KeptOK, Empty
    <3>3. QED
      BY <3>1, <3>2, <1>3, <1>4, ViewCard
  <2>2. CASE s \notin DOMAIN kept
    <3>1. kept' = kept
      BY <1>1, <2>2
    <3>2. QED
      BY <3>1, <2>2, <1>2, <1>3, <1>4 DEF View
  <2>3. QED
    BY <2>1, <2>2
<1>7. \A m \in 0 .. NDataSects - 1 : View[DataSect(m)] \subseteq View'[DataSect(m)]
  BY <1>2, <1>6, DataContent, Sectors
<1>8. QED
  BY <1>3, <1>5, <1>6, <1>7 DEF Wider

(* What is merged into a sector is the file's as well. *)
LEMMA MergedWider ==
  ASSUME DiskOK, CtrlOK, NEW n, n = Cur.csect
  PROVE  /\ n \in 0 .. NDataSects - 1 /\ IsCard(Merged(n))
         /\ Wider(Merged(n), View)
         /\ Offset .. Offset + Chunk - 1 \subseteq Merged(n)[DataSect(n)]
         /\ \A x \in Sector : x # DataSect(n) => Merged(n)[x] = View[x]
<1>1. Cur \in Slot
  BY DEF CtrlOK, CallType, Cur
<1>2. n \in 0 .. NDataSects - 1 /\ Cur.fptr \in Nat
  BY <1>1 DEF Slot
<1>3. IsCard(View) /\ DataSect(n) \in Sector
  BY <1>2, ViewCard, Sectors DEF DiskOK
<1>4. Offset \in Nat /\ Offset < UPS /\ UPS \in Nat
  BY <1>2, GeometryAssumption DEF Offset
<1>5. Chunk \in Nat /\ Chunk <= UPS - Offset
  BY <1>4 DEF Chunk, CtrlOK, CallType
<1>6. Offset .. Offset + Chunk - 1 \subseteq Offsets
  BY <1>4, <1>5 DEF Offsets
<1>7. View[DataSect(n)] \subseteq Offsets
  BY <1>2, <1>3, DataContent
<1>8. PICK v \in SUBSET Offsets :
        /\ Merged(n) = SetData(View, n, v) /\ View[DataSect(n)] \subseteq v
        /\ Offset .. Offset + Chunk - 1 \subseteq v
  <2>1. CASE Fresh
    BY <1>6, <1>7, <2>1 DEF Merged
  <2>2. CASE ~Fresh
    BY <1>6, <1>7, <2>2 DEF Merged
  <2>3. QED
    BY <2>1, <2>2
<1>9. \A x \in Sector : x # DataSect(n) => Merged(n)[x] = View[x]
  BY <1>3, <1>8 DEF SetData, IsCard
<1>10. QED
  BY <1>2, <1>3, <1>8, <1>9, SetDataWider, SetDataCard

(* A chunk that could not be written: some of it may be there. *)
LEMMA DataWriteChunkFails ==
  ASSUME NothingDropped, WholeInv, WholeInv', DataInv, WriteChunkFails
  PROVE  DataInv'
<1>1. CardInv /\ PosInv /\ DiskOK /\ CtrlOK
  BY DEF WholeInv, CardInv, IndInv
<1>2. /\ pc = "move" /\ UNCHANGED lent /\ DiskError
      /\ \/ WholeSectorFails(Cur.csect)
         \/ PutFails({DataSect(Cur.csect)}, Merged(Cur.csect))
  BY DEF WriteChunkFails
<1>3. lent # "kept"
  BY <1>1, <1>2 DEF WholeSectorFails, PutFails, NothingDropped, PosInv, LoanOK
<1>4. View = card /\ kept = Empty /\ ~dirty /\ IsCard(card)
  BY <1>1, <1>3, ViewCard DEF DiskOK
<1>5. PICK n : n = Cur.csect
  OBVIOUS
<1>6. n \in 0 .. NDataSects - 1
  BY <1>1, <1>2, <1>5, TransferSlot DEF Slot
<1>7. PICK k : IsCard(k) /\ Wider(k, card) /\ card' \in {card, k} /\ View' = card'
  <2>1. CASE WholeSectorFails(n)
    <3> DEFINE k == SetData(card, n, Offsets)
    <3>1. Wider(k, card) /\ IsCard(k)
      BY <1>4, <1>6, DataContent, SetDataWider, SetDataCard
    <3>2. card' \in {card, k} /\ kept' = Empty
      BY <1>4, <2>1 DEF WholeSectorFails, Drop
    <3> HIDE DEF k
    <3>3. IsCard(card')
      BY <1>4, <3>1, <3>2
    <3>4. View' = [s \in Sector |-> card'[s]]
      BY <3>2 DEF View, Empty
    <3>5. View' = card'
      BY <3>3, <3>4 DEF IsCard
    <3>6. QED
      BY <3>1, <3>2, <3>5
  <2>2. CASE PutFails({DataSect(n)}, Merged(n))
    <3>1. Wider(Merged(n), View) /\ IsCard(Merged(n))
      BY <1>1, <1>5, MergedWider
    <3>2. View' = card' /\ card' \in {card, View, Merged(n)}
      BY <1>1, <1>2, <2>2, <3>1, PutFailsOK
    <3>3. QED
      BY <1>4, <3>1, <3>2
  <2>3. QED
    BY <1>2, <1>5, <2>1, <2>2
<1>8. Owns(k)
  BY <1>7, WiderKeeps DEF DataInv
<1>9. \A s : Keeps(k, View, s)
  BY <1>4, <1>7, WiderKeeps
<1>10. NoJoin /\ NoJoin' /\ \A f \in Handle : Alike(files'[f], files[f])
  BY <1>1, <1>2, AlikeFail DEF NoJoin
<1>11. View' \in {View, k} /\ card' \in {card, View, k}
  BY <1>4, <1>7
<1>12. QED
  BY <1>1, <1>8, <1>9, <1>10, <1>11, DataChangeTame

(* The units of a chunk are in one sector. *)
LEMMA ChunkUnits ==
  ASSUME NEW p \in Nat, NEW c \in Nat, c <= UPS - (p % UPS), NEW x \in Nat, p <= x, x < p + c
  PROVE  /\ x % UPS \in p % UPS .. (p % UPS) + c - 1
         /\ (x % UPC) \div UPS = (p \div UPS) % SPC
         /\ x \div UPC = (p \div UPS) \div SPC
<1> DEFINE t == p \div UPS
           o == p % UPS
           r == o + (x - p)
<1>1. t \in Nat /\ p = UPS * t + o /\ o \in 0 .. UPS - 1
  BY DivIs, UnitsOK
<1>2. UPS * t \in Nat
  BY <1>1, UnitsOK
<1> HIDE DEF t, o
<1>3. r \in 0 .. UPS - 1 /\ r \in o .. o + c - 1
  BY <1>1, UnitsOK DEF o
<1>4. x = UPS * t + r
  BY <1>1, <1>2
<1> HIDE DEF r
<1>5. x \div UPS = t /\ x % UPS = r
  BY <1>1, <1>3, <1>4, DivUnique, UnitsOK
<1>6. (x % UPC) \div UPS = (x \div UPS) % SPC /\ x \div UPC = (x \div UPS) \div SPC
  BY UnitIn
<1>7. QED
  BY <1>3, <1>5, <1>6 DEF t, o

(* A chunk written leaves every file its bytes, and the chunk is there. *)
LEMMA ChunkWider ==
  ASSUME CardInv, DataInv, pc = "move", WriteChunk
  PROVE  /\ Wider(View', View) /\ Owns(View') /\ Owns(card')
         /\ Offset .. Offset + Chunk - 1 \subseteq View'[DataSect(Cur.csect)]
<1>1. DiskOK /\ CtrlOK /\ UNCHANGED lent
  BY DEF CardInv, IndInv, WriteChunk
<1>2. PICK n : n = Cur.csect
  OBVIOUS
<1>3. n \in 0 .. NDataSects - 1 /\ IsCard(Merged(n)) /\ Wider(Merged(n), View)
      /\ Offset .. Offset + Chunk - 1 \subseteq Merged(n)[DataSect(n)]
      /\ \A x \in Sector : x # DataSect(n) => Merged(n)[x] = View[x]
  BY <1>1, <1>2, MergedWider
<1>4. CASE Chunk = UPS
  <2>1. WholeSector(n)
    BY <1>2, <1>4 DEF WriteChunk
  <2>2. /\ Wider(card', card) /\ Wider(View', View)
        /\ View'[DataSect(n)] = Offsets
    BY <1>1, <1>3, <2>1, WholeSectorWider
  <2>3. Merged(n)[DataSect(n)] \subseteq Offsets
    BY <1>3, DataContent
  <2>4. QED
    BY <1>2, <1>3, <2>2, <2>3, WiderKeeps DEF DataInv
<1>5. CASE Chunk # UPS
  <2>1. Put({DataSect(n)}, DataSect(n), Merged(n))
    BY <1>2, <1>5 DEF WriteChunk
  <2> DEFINE k == Merged(n)
             s == DataSect(n)
  <2>2. s \in Sector /\ s \in {s}
    BY <1>3, Sectors
  <2> HIDE DEF k, s
  <2>3. IsCard(k) /\ (\A x \in Sector : x # s => k[x] = View[x]) /\ Put({s}, s, k)
    BY <1>3, <2>1 DEF k, s
  <2>4. View' = k /\ card' \in {card, View, k}
    BY <1>1, <2>2, <2>3, PutOK
  <2>5. Wider(k, View) /\ Offset .. Offset + Chunk - 1 \subseteq k[s]
    BY <1>3 DEF k, s
  <2>6. Owns(k)
    BY <2>5, WiderKeeps DEF DataInv
  <2>7. QED
    BY <1>2, <2>4, <2>5, <2>6 DEF DataInv, s
<1>6. QED
  BY <1>4, <1>5

(* So the file has the bytes of the chunk in its cluster c. *)
LEMMA ChunkHeld ==
  ASSUME CardInv, LeftOK, DataInv, pc = "move", WriteChunk, NEW c,
         Cur.csect = ClustSect(c) + ((Cur.fptr \div UPS) % SPC),
         NEW x \in Nat, Cur.fptr <= x, x < Cur.fptr + Chunk
  PROVE  /\ Held(View', c, x)
         /\ x \div UPC = (Cur.fptr \div UPS) \div SPC
<1>1. Offset .. Offset + Chunk - 1 \subseteq View'[DataSect(Cur.csect)]
  BY ChunkWider
<1>2. Cur.fptr \in Nat /\ Chunk \in Nat /\ Chunk <= UPS - (Cur.fptr % UPS)
  BY ChunkPositive, CurOK DEF Slot, CardInv
<1>3. /\ x % UPS \in Cur.fptr % UPS .. (Cur.fptr % UPS) + Chunk - 1
      /\ (x % UPC) \div UPS = (Cur.fptr \div UPS) % SPC
      /\ x \div UPC = (Cur.fptr \div UPS) \div SPC
  BY <1>2, ChunkUnits
<1>4. QED
  BY <1>1, <1>3 DEF Held, Offset

(* A cluster is full where the file goes on behind it. *)
LEMMA SizeBefore ==
  ASSUME NEW k, IsCard(k), NEW r \in Slot, Reached(k, r), NEW n \in Nat,
         Walk(k, r.sclust, n) \notin Cluster
  PROVE  r.fsize <= UPC * n
<1> SUFFICES ASSUME r.fsize > 0
             PROVE  r.fsize <= UPC * n
  BY UnitsOK DEF Slot
<1> DEFINE z == r.fsize - 1
           m == z \div UPC
<1>1. z \in Nat /\ r.fsize = z + 1 /\ Steps(r.fsize) = m /\ m \in Nat
  BY StepsNat DEF Slot
<1>2. m < n
  BY <1>1, WalkOut DEF Reached
<1>3. z = UPC * m + (z % UPC) /\ z % UPC \in 0 .. UPC - 1
  BY <1>1, DivIs, UnitsOK
<1> HIDE DEF z, m
<1>4. UPC * (m + 1) <= UPC * n /\ UPC * (m + 1) = UPC * m + UPC /\ UPC * m \in Nat
      /\ UPC * n \in Nat
  <2>1. \A b, c, d \in Nat : b <= c => d * b <= d * c /\ d * b \in Nat /\ d * c \in Nat
    OBVIOUS
  <2>2. m + 1 \in Nat /\ m + 1 <= n /\ UPC \in Nat
    BY <1>1, <1>2, UnitsOK
  <2>3. QED
    BY <1>1, <2>1, <2>2
<1>5. QED
  BY <1>1, <1>3, <1>4, UnitsOK

(* The chain ends where AtEnd says. *)
LEMMA AtEndOut ==
  ASSUME NEW k, NEW r, NEW n \in Nat, AtEnd(k, r, n)
  PROVE  Walk(k, r.sclust, n) \notin Cluster
<1>1. CASE n = 0
  BY <1>1, WalkIs, FatValues DEF AtEnd
<1>2. CASE n # 0
  <2>1. n - 1 \in Nat /\ (n - 1) + 1 = n
    BY <1>2
  <2>2. Walk(k, r.sclust, n - 1) \in Cluster
        /\ Fat(k, Walk(k, r.sclust, n - 1)) = EOC
    BY <1>2 DEF AtEnd
  <2>3. QED
    BY <2>1, <2>2, EndIsOut
<1>3. QED
  BY <1>1, <1>2

(* A unit and its cluster in the chain. *)
LEMMA UnitDiv ==
  ASSUME NEW x \in Nat
  PROVE  /\ x \div UPC \in Nat /\ UPC * (x \div UPC) \in Nat
         /\ x = UPC * (x \div UPC) + (x % UPC)
         /\ x % UPC \in 0 .. UPC - 1 /\ x % UPC \in Nat
<1>1. /\ x \div UPC \in Nat /\ x = UPC * (x \div UPC) + (x % UPC)
      /\ x % UPC \in 0 .. UPC - 1 /\ UPC \in Nat
  BY DivIs, UnitsOK
<1>2. \A a, b \in Nat : a * b \in Nat
  OBVIOUS
<1>3. QED
  BY <1>1, <1>2

(* A chunk written is the file's, in its chain or in the cluster to link. *)
LEMMA DataWriteChunk ==
  ASSUME NothingDropped, WholeInv, WholeInv', DataInv, WriteChunk
  PROVE  DataInv'
<1> DEFINE q == With(Moved(Cur), {"DIRTY"}, {})
           p == Cur.fptr
           n == p \div UPC
<1>1. CardInv /\ CardInv' /\ PosInv /\ LeftOK /\ IndInv /\ CtrlOK
  BY DEF WholeInv, CardInv, IndInv
<1>2. /\ pc = "move" /\ call.op = "write" /\ UNCHANGED hint
      /\ SetSlot(call.fh, q) /\ LinkNext
  BY DEF WriteChunk, Written
<1>3. /\ call.fh \in Handle /\ Cur \in Slot /\ Cur = files[call.fh] /\ p \in Nat
      /\ Cur.fsize \in Nat
      /\ "OPEN" \in Cur.flags => Placed(View, Cur, "move", NewClust)
      /\ IsCard(View) /\ call \in CallType
  BY <1>1, <1>2, TransferSlot DEF IndInv, CtrlOK
<1>4. WriterIn(files, call.fh)
  BY <1>1, <1>2, WriteByWriter DEF CtrlOK, HintOK
<1>5. Able(Cur) /\ "WR" \in Cur.flags /\ Live(call.fh) /\ ~Joins(call.fh)
  <2>1. Able(Cur) /\ "WR" \in Cur.flags
    BY <1>3, <1>4 DEF WriterIn, Able
  <2>2. QED
    BY <1>2, <1>3, <2>1, LiveAble DEF Joins
<1>6. Fit(View, Cur)
  BY <1>3, <1>5, LiveFit
<1>7. OwnUpTo(View, Cur.sclust, Cur.fsize) /\ Reached(View, Cur)
  BY <1>5, <1>6 DEF Fit
<1>8. InMove(View, Cur, NewClust) /\ p <= Cur.fsize
  BY <1>3, <1>5 DEF Placed, Able
<1>9. Wider(View', View) /\ Owns(View') /\ Owns(card')
  BY <1>1, <1>2, ChunkWider
<1>10. \A s : Keeps(View', View, s)
  BY <1>9, WiderKeeps
<1>11. /\ Moved(Cur) \in Slot
       /\ Chunk \in Nat /\ Chunk > 0 /\ Chunk <= UPS - (p % UPS)
       /\ Moved(Cur).flags = Cur.flags
       /\ Moved(Cur).sclust = Cur.sclust /\ Moved(Cur).fptr = p + Chunk
       /\ Moved(Cur).fsize = IF p + Chunk > Cur.fsize THEN p + Chunk ELSE Cur.fsize
  <2>1. Moved(Cur).fsize = IF p + Chunk > Cur.fsize THEN p + Chunk ELSE Cur.fsize
    BY <1>3 DEF Moved, Slot
  <2>2. QED
    BY <1>1, <1>2, <2>1, ChunkOK, ChunkPositive
<1>12. /\ q \in Slot /\ q.flags = Cur.flags \cup {"DIRTY"}
       /\ q.sclust = Cur.sclust /\ q.fptr = p + Chunk
       /\ q.fsize = IF p + Chunk > Cur.fsize THEN p + Chunk ELSE Cur.fsize
  <2>1. "DIRTY" \in Flag
    BY DEF Flag
  <2>2. QED
    BY <1>11, <2>1, OneFlag
<1> HIDE DEF q
<1>13. PICK g \in Handle : g = call.fh
  BY <1>3
<1>14. files'[g] = q /\ \A f \in Handle : f # g => files'[f] = files[f]
  BY <1>1, <1>2, <1>13, SetSlotIs
<1>15. /\ pc' \in {"link", "join"} => call'.fh = g
       /\ pc' = "link" <=> "NEWCL" \in Cur.flags
       /\ pc' # "join"
  <2>1. CASE "NEWCL" \in Cur.flags
    <3>1. pc' = "link" /\ call' = [call EXCEPT !.left = @ - Chunk]
      BY <1>2, <1>3, <2>1 DEF LinkNext, Has
    <3>2. QED
      BY <1>3, <1>13, <2>1, <3>1 DEF CallType
  <2>2. CASE "NEWCL" \notin Cur.flags
    <3>1. Continue(call.left - Chunk)
      BY <1>2, <1>3, <2>2 DEF LinkNext, Has
    <3>2. pc' \in {"chunk", "idle", "unmount"}
      BY <3>1 DEF Continue, Return
    <3>3. QED
      BY <2>2, <3>2
  <2>3. QED
    BY <2>1, <2>2
<1>16. OwnUpTo(View', Cur.sclust, Cur.fsize)
  BY <1>7, <1>10, WithinOwn DEF Keeps
<1>17. ASSUME \A x \in Nat : /\ p <= x /\ x < p + Chunk
                             /\ Walk(View', Cur.sclust, x \div UPC) \in Cluster
                             => Held(View', Walk(View', Cur.sclust, x \div UPC), x)
       PROVE  OwnUpTo(View', q.sclust, q.fsize)
  <2> SUFFICES ASSUME NEW x \in Nat, x < q.fsize, Walk(View', Cur.sclust, x \div UPC) \in Cluster
               PROVE  Held(View', Walk(View', Cur.sclust, x \div UPC), x)
    BY <1>12 DEF OwnUpTo
  <2>1. CASE x < Cur.fsize
    BY <1>16, <2>1 DEF OwnUpTo
  <2>2. CASE ~(x < Cur.fsize)
    <3>1. p <= x /\ x < p + Chunk
      BY <1>3, <1>8, <1>11, <1>12, <2>2
    <3>2. QED
      BY <1>17, <3>1
  <2>3. QED
    BY <2>1, <2>2
<1>18. Fits(g)'
  <2>1. CASE "NEWCL" \notin Cur.flags
    <3> DEFINE c == Walk(View, Cur.sclust, Steps(p + 1))
    <3>1. /\ c \in Cluster /\ Cur.csect = ClustSect(c) + ((p \div UPS) % SPC)
          /\ Stands(View, Cur, p + 1)
      <4>1. Stands(View, Cur, p + 1) /\ p + 1 # 0 /\ (p + 1) - 1 = p
        BY <1>3, <1>8, <2>1 DEF InMove
      <4>2. QED
        BY <4>1 DEF Stands
    <3>2. Steps(p + 1) = (p \div UPS) \div SPC /\ Steps(p + 1) \in Nat
      <4>1. p + 1 \in Nat /\ p + 1 > 0 /\ (p + 1) - 1 = p
        BY <1>3
      <4>2. QED
        BY <4>1, StepsUnits, StepsNat
    <3>3. Walk(View', Cur.sclust, Steps(p + 1)) = c
      BY <1>10, <3>1, <3>2 DEF Keeps
    <3> HIDE DEF c
    <3>4. ASSUME NEW x \in Nat, p <= x, x < p + Chunk,
                 Walk(View', Cur.sclust, x \div UPC) \in Cluster
          PROVE  Held(View', Walk(View', Cur.sclust, x \div UPC), x)
      <4>1. Held(View', c, x) /\ x \div UPC = (p \div UPS) \div SPC
        BY <1>1, <1>2, <3>1, <3>4, ChunkHeld
      <4>2. QED
        BY <3>2, <3>3, <4>1
    <3>5. OwnUpTo(View', q.sclust, q.fsize)
      BY <1>17, <3>4
    <3>6. Walk(View, Cur.sclust, Steps(q.fsize)) \in Cluster \/ q.fsize = 0
      <4>1. CASE p + Chunk > Cur.fsize
        <5>1. Stands(View, Cur, p + Chunk)
          BY <1>1, <1>2, <3>1, MovedStands
        <5>2. p + Chunk # 0
          BY <1>3, <1>11
        <5>3. QED
          BY <1>12, <4>1, <5>1, <5>2 DEF Stands
      <4>2. CASE ~(p + Chunk > Cur.fsize)
        BY <1>3, <1>7, <1>12, <4>2 DEF Reached
      <4>3. QED
        BY <4>1, <4>2
    <3>7. Reached(View', q)
      <4>1. q.fsize \in Nat /\ (q.fsize > 0 => q.fsize # 0) /\ Steps(q.fsize) \in Nat
        BY <1>12, StepsNat DEF Slot
      <4>2. QED
        BY <1>10, <1>12, <3>6, <4>1 DEF Keeps, Reached
    <3>8. Fit(View', q)
      BY <3>5, <3>7 DEF Fit
    <3>9. QED
      BY <1>14, <1>15, <2>1, <3>8 DEF Fits, Joins
  <2>2. CASE "NEWCL" \in Cur.flags
    <3>1. p % UPC = 0 /\ AtEnd(View, Cur, n) /\ Cur.csect = ClustSect(NewClust) /\ n \in Nat
      <4>1. n \in Nat
        BY <1>3, UnitsOK, DivIs
      <4>2. QED
        BY <1>8, <2>2, <4>1 DEF InMove, Extends
    <3>2. Walk(View, Cur.sclust, n) \notin Cluster
      BY <3>1, AtEndOut
    <3>3. p = UPC * n
      <4>1. p = UPC * n + (p % UPC) /\ UPC * n \in Nat
        BY <1>3, UnitDiv
      <4>2. QED
        BY <1>3, <3>1, <4>1
    <3>4. Cur.fsize <= p
      BY <1>3, <1>7, <3>1, <3>2, <3>3, SizeBefore
    <3>5. q.fsize = p + Chunk
      BY <1>3, <1>11, <1>12, <3>4
    <3>6. (p \div UPS) % SPC = 0 /\ (p \div UPS) \div SPC = n
      BY <1>3, <3>1, ClusterStart
    <3>7. Cur.csect = ClustSect(NewClust) + ((p \div UPS) % SPC)
      <4>1. Cur.csect \in Int
        BY <1>3 DEF Slot
      <4>2. QED
        BY <3>1, <3>6, <4>1
    <3>8. \A x \in Nat : p <= x /\ x < p + Chunk => Held(View', NewClust, x) /\ x \div UPC = n
      BY <1>1, <1>2, <3>6, <3>7, ChunkHeld
    <3> HIDE DEF n
    <3>9. Walk(View', Cur.sclust, n) \notin Cluster
      BY <1>10, <3>1, <3>2 DEF Keeps, Within
    <3>10. OwnUpTo(View', q.sclust, q.fsize)
      BY <1>17, <3>8, <3>9
    <3>11. Steps(q.fptr) = n
      <4>1. p + Chunk \in Nat /\ p + Chunk > 0 /\ (p + Chunk) - 1 \in Nat
            /\ p <= (p + Chunk) - 1 /\ (p + Chunk) - 1 < p + Chunk
        BY <1>3, <1>11
      <4>2. ((p + Chunk) - 1) \div UPC = n
        BY <3>8, <4>1
      <4>3. QED
        BY <1>12, <4>1, <4>2, StepsNat
    <3>12. ASSUME NEW x \in Nat, x < q.fptr, x \div UPC = Steps(q.fptr)
           PROVE  Held(View', NewClust, x)
      <4>1. x = UPC * n + (x % UPC) /\ x % UPC \in Nat /\ UPC * n \in Nat
        BY <3>11, <3>12, UnitDiv
      <4>2. p <= x
        BY <1>3, <3>3, <4>1
      <4>3. QED
        BY <1>12, <3>8, <3>12, <4>2
    <3>13. q.fsize <= q.fptr
      BY <1>3, <1>11, <1>12, <3>5
    <3>14. FitNew(View', q, NewClust)
      BY <3>10, <3>12, <3>13 DEF FitNew
    <3>15. NewClust' = NewClust
      BY <1>2 DEF NewClust
    <3>16. QED
      BY <1>13, <1>14, <1>15, <2>2, <3>14, <3>15 DEF Fits, Joins
  <2>3. QED
    BY <2>1, <2>2
<1>19. \A f \in Handle : f # g => ~Joins(f) /\ ~Joins(f)'
  BY <1>2, <1>13, <1>15 DEF Joins
<1>20. QED
  BY <1>1, <1>9, <1>10, <1>14, <1>18, <1>19, DataStep

(* What follows link_new, the entries of k having only bytes of their own. *)
LEMMA DataLinked ==
  ASSUME CardInv, DataInv, NEW k, Owns(k), View' \in {View, k}, card' \in {card, View, k},
         pc \in {"link", "join"}, call.fh \in Handle,
         \A f \in Handle : f # call.fh /\ Live(f) => Keeps(k, View, files[f].sclust),
         NEW q, SetSlot(call.fh, q),
         \/ pc' \notin {"link", "join"} /\ (Able(q) => Fit(View', q))
         \/ pc' = "join" /\ UNCHANGED call /\ FitNew(View', q, NewClust')
  PROVE  DataInv'
<1>1. PICK g \in Handle : g = call.fh
  OBVIOUS
<1>2. files'[g] = q /\ \A f \in Handle : f # g => files'[f] = files[f]
  <2>1. files \in [Handle -> Slot]
    BY DEF CardInv, IndInv, CtrlOK
  <2>2. QED
    BY <1>1, <2>1 DEF SetSlot
<1>3. \A f \in Handle : f # g => ~Joins(f) /\ ~Joins(f)'
  BY <1>1 DEF Joins
<1>4. ASSUME Live(g)' PROVE Fits(g)'
  <2>1. Able(q)
    BY <1>2, <1>4, LiveAble
  <2>2. CASE pc' \notin {"link", "join"}
    BY <1>2, <2>1, <2>2 DEF Fits, Joins
  <2>3. CASE pc' = "join" /\ UNCHANGED call /\ FitNew(View', q, NewClust')
    BY <1>1, <1>2, <2>3 DEF Fits, Joins
  <2>4. QED
    BY <2>2, <2>3
<1>5. QED
  BY <1>1, <1>2, <1>3, <1>4, DataChange

(* The slot that link_new works on. *)
LEMMA LinkFit ==
  ASSUME CardInv, PosInv, DataInv, pc \in {"link", "join"}
  PROVE  /\ FitNew(View, Cur, NewClust) /\ Able(Cur)
         /\ Cur.fsize = Cur.fptr /\ Cur.fptr > 0 /\ Cur.fptr \in Nat
         /\ Steps(Cur.fptr) \in Nat /\ AtEnd(View, Cur, Steps(Cur.fptr))
<1>1. /\ call.fh \in Handle /\ Cur = files[call.fh] /\ Cur.fptr \in Nat /\ Cur.fsize \in Nat
  BY TransferSlot
<1>2. /\ Cur.fptr <= Cur.fsize /\ InLink(View, Cur, NewClust) /\ Able(Cur)
  BY LinkWriter DEF Able
<1>3. FitNew(View, Cur, NewClust)
  <2>1. Live(call.fh)
    BY <1>1, <1>2, LiveAble
  <2>2. QED
    BY <1>1, <2>1 DEF DataInv, Fits, Joins
<1>4. Cur.fptr > 0 /\ AtEnd(View, Cur, Steps(Cur.fptr))
  BY <1>2 DEF InLink, Extends
<1>5. QED
  BY <1>1, <1>2, <1>3, <1>4, StepsNat DEF FitNew

(* link_new, the directory entry. *)
LEMMA DataLink ==
  ASSUME NothingDropped, WholeInv, WholeInv', SizeInv, DataInv, Link
  PROVE  DataInv'
<1> DEFINE r == Linking
           new == NewClust
           s == Cur.sclust
           n == Steps(Cur.fptr)
<1>1. CardInv /\ CardInv' /\ PosInv /\ IsCard(View)
  BY ViewCard DEF WholeInv, CardInv, IndInv, CtrlOK
<1>2. pc = "link" /\ UNCHANGED <<lent, hint>>
  BY DEF Link
<1>3. /\ call.fh \in Handle /\ Cur \in Slot /\ Cur = files[call.fh]
      /\ Cur.fptr \in Nat /\ Cur.fsize \in Nat /\ DiskOK
  BY <1>1, <1>2, TransferSlot
<1>4. new \in Cluster
  BY <1>1, <1>2, LinkWriter
<1>5. Fat(View, new) = EOC
  <2>1. call.op = "write"
    BY <1>1, <1>2 DEF CardInv, IndInv, CtrlOK, HintOK
  <2>2. QED
    BY <1>2, <2>1 DEF SizeInv, Locals, NewEnds, Linkable
<1>6. /\ FitNew(View, Cur, new) /\ Able(Cur)
      /\ Cur.fsize = Cur.fptr /\ Cur.fptr > 0 /\ n \in Nat /\ AtEnd(View, Cur, n)
  BY <1>1, <1>2, LinkFit
<1>7. /\ r \in Slot /\ r.sclust = (IF Cur.cclust = 0 THEN new ELSE s)
  BY <1>1, <1>2, LinkingOK
<1>8. r.fsize = Cur.fsize /\ r.fptr = Cur.fptr
  BY <1>3, LinkingPlace
<1>9. /\ Linked(r).sclust = r.sclust /\ Linked(r).fsize = r.fsize
  BY <1>7 DEF Linked, Slot
<1>10. NewClust' = new
  BY <1>2 DEF NewClust
<1> HIDE DEF r, new, s
<1>11. Cur.cclust = 0 => n = 0 /\ Walk(View, new, 0) = new /\ Walk(View, new, 0 + 1) \notin Cluster
  <2>1. Cur.cclust = 0 => n = 0
    BY <1>6, FatValues DEF AtEnd
  <2>2. Walk(View, new, 0) = new /\ 0 \in Nat
    BY WalkIs
  <2>3. Walk(View, new, 0 + 1) \notin Cluster
    BY <1>4, <1>5, <2>2, EndIsOut
  <2>4. QED
    BY <2>1, <2>2, <2>3
<1>12. OwnUpTo(View, r.sclust, r.fsize)
  <2>1. CASE Cur.cclust # 0
    BY <1>6, <1>7, <1>8, <2>1 DEF FitNew, s
  <2>2. CASE Cur.cclust = 0
    <3> SUFFICES ASSUME NEW p \in Nat, p < Cur.fptr, Walk(View, new, p \div UPC) \in Cluster
                 PROVE  Held(View, Walk(View, new, p \div UPC), p)
      BY <1>6, <1>7, <1>8, <2>2 DEF OwnUpTo
    <3>1. p \div UPC \in Nat
      BY UnitDiv
    <3> DEFINE m == p \div UPC
    <3>2. m = 0
      <4>1. m \in Nat /\ Walk(View, new, m) \in Cluster
        BY <3>1
      <4> HIDE DEF m
      <4>2. ~(0 + 1 <= m)
        BY <1>1, <1>11, <2>2, <4>1, WalkOut
      <4>3. QED
        BY <4>1, <4>2
    <3> HIDE DEF m
    <3>3. Held(View, new, p)
      BY <1>6, <1>11, <2>2, <3>2 DEF FitNew, m
    <3>4. QED
      BY <1>11, <2>2, <3>2, <3>3 DEF m
  <2>3. QED
    BY <2>1, <2>2
<1>13. PICK k : k = WithEntry(View, r)
  OBVIOUS
<1>14. IsCard(k) /\ Owns(k) /\ \A t : Keeps(k, View, t)
  <2>1. IsCard(k)
    BY <1>1, <1>7, <1>13, WithEntryLeaves
  <2>2. QED
    BY <1>1, <1>7, <1>12, <1>13, <2>1, WithEntryOwns, WithEntryKeeps DEF DataInv
<1>15. DirWrite(r) => View' = k /\ card' \in {card, View, k}
  BY <1>2, <1>3, <1>7, <1>13, DirWriteOK
<1>16. DirWriteFails(r) => View' \in {View, k} /\ card' \in {card, View, k}
  BY <1>1, <1>2, <1>3, <1>7, <1>13, <1>14, DirWriteFailsOK, FailsKeep DEF DirWriteFails
<1>17. OwnUpTo(k, r.sclust, r.fsize)
  BY <1>12, <1>14, WithinOwn DEF Keeps
<1>18. CASE Cur.cclust = 0 /\ DirWrite(r) /\ SetSlot(call.fh, Linked(r)) /\ Continue(call.left)
  <2>1. Walk(View, r.sclust, n) \in Cluster /\ Steps(r.fsize) = n
    BY <1>4, <1>6, <1>7, <1>8, <1>11, <1>18
  <2>2. Walk(k, r.sclust, n) \in Cluster
    BY <1>6, <1>14, <2>1 DEF Keeps
  <2>3. Fit(View', Linked(r))
    BY <1>9, <1>15, <1>17, <1>18, <2>1, <2>2 DEF Fit, Reached, OwnUpTo
  <2>4. pc' \notin {"link", "join"}
    BY <1>18 DEF Continue, Return
  <2>5. PICK q : q = Linked(r)
    OBVIOUS
  <2>6. QED
    BY <1>1, <1>2, <1>3, <1>14, <1>15, <1>18, <2>3, <2>4, <2>5, DataLinked
<1>19. CASE Cur.cclust # 0 /\ DirWrite(r) /\ SetSlot(call.fh, r) /\ Goto("join")
  <2>1. pc' = "join" /\ UNCHANGED call
    BY <1>19 DEF Goto
  <2>2. ASSUME NEW p \in Nat, p < r.fptr, p \div UPC = Steps(r.fptr)
        PROVE  Held(k, new, p)
    <3>1. Held(View, new, p)
      BY <1>6, <1>8, <2>2 DEF FitNew
    <3>2. Fuller(k, View, new)
      <4>1. \A i \in 0 .. NDataSects - 1 : View[DataSect(i)] \subseteq k[DataSect(i)]
        BY <1>1, <1>13, EntData DEF WithEntry
      <4>2. QED
        BY <1>4, <4>1, ChainFuller
    <3>3. QED
      BY <3>1, <3>2, HeldFuller
  <2>3. FitNew(View', r, NewClust')
    BY <1>3, <1>6, <1>8, <1>10, <1>15, <1>17, <1>19, <2>2 DEF FitNew
  <2>4. QED
    BY <1>1, <1>2, <1>3, <1>14, <1>15, <1>19, <2>1, <2>3, DataLinked
<1>20. CASE DirWriteFails(r) /\ LinkFails(r)
  <2>1. PICK q : SetSlot(call.fh, q) /\ ~Able(q) /\ pc' \in {"idle", "unmount"}
    BY <1>1, <1>2, <1>7, <1>20, LinkFailsSlot
  <2>2. QED
    BY <1>1, <1>2, <1>3, <1>14, <1>16, <1>20, <2>1, DataLinked
<1>21. QED
  BY <1>18, <1>19, <1>20 DEF Link, r

(* A chain that ends at c goes on to new, and ends there. *)
LEMMA JoinWalk ==
  ASSUME NEW k, IsCard(k), SoundChains(k), NEW e \in Entry, Used(k, e),
         NEW m \in Nat, NEW c \in Cluster, c = Walk(k, Ent(k, e).sclust, m),
         NEW new \in Cluster, ~Points(k, new), Fat(k, new) = EOC
  PROVE  LET j == SetFat(k, c, new)
             s == Ent(k, e).sclust
         IN  /\ \A i \in 0 .. m : Walk(j, s, i) = Walk(k, s, i)
             /\ Walk(j, s, m + 1) = new
             /\ Walk(j, s, (m + 1) + 1) \notin Cluster
<1>1. PICK j : j = SetFat(k, c, new)
  OBVIOUS
<1>2. IsCard(j) /\ \A d \in Cluster : Fat(j, d) = IF d = c THEN new ELSE Fat(k, d)
  <2>1. new \in FatValue
    BY FatValues
  <2>2. QED
    BY <1>1, <2>1, SetFatCard
<1>3. new # c
  BY WalkPointed
<1>4. FatNext(j, c) = new /\ Fat(j, new) = EOC
  BY <1>2, <1>3, FatValues DEF FatNext
<1>5. PICK s : s = Ent(k, e).sclust
  OBVIOUS
<1>6. ASSUME NEW i \in 0 .. m - 1 PROVE Fat(j, Walk(k, s, i)) = Fat(k, Walk(k, s, i))
  <2>1. i \in Nat /\ i # m /\ i \in 0 .. m
    OBVIOUS
  <2>2. Walk(k, s, i) \in Cluster
    BY <1>5, <2>1, WalkLinks
  <2>3. Walk(k, s, i) # c
    BY <1>5, <2>1, <2>2, WalkOnce
  <2>4. QED
    BY <1>2, <2>2, <2>3
<1>7. \A i \in 0 .. m : Walk(j, s, i) = Walk(k, s, i)
  <2>1. SameLinks(j, k, s, m)
    BY <1>6 DEF SameLinks
  <2>2. QED
    BY <2>1, WalkFrame
<1>8. Walk(j, s, m + 1) = new
  <2>1. Walk(j, s, m + 1) = FatNext(j, Walk(j, s, m)) /\ Walk(j, s, m) = c
    BY <1>5, <1>7, WalkIs
  <2>2. QED
    BY ONLY <1>4, <2>1
<1>9. Walk(j, s, (m + 1) + 1) \notin Cluster
  <2>1. m + 1 \in Nat
    OBVIOUS
  <2>2. QED
    BY <1>4, <1>8, <2>1, EndIsOut
<1>10. QED
  BY <1>1, <1>5, <1>7, <1>8, <1>9

(* The units that the new cluster brings are the file's. *)
LEMMA JoinOwn ==
  ASSUME NEW k, IsCard(k), SoundChains(k), NEW e \in Entry, Used(k, e),
         NEW m \in Nat, NEW c \in Cluster, c = Walk(k, Ent(k, e).sclust, m),
         NEW new \in Cluster, ~Points(k, new), Fat(k, new) = EOC,
         NEW z, OwnUpTo(k, Ent(k, e).sclust, z),
         \A p \in Nat : p < z /\ p \div UPC = m + 1 => Held(k, new, p)
  PROVE  OwnUpTo(SetFat(k, c, new), Ent(k, e).sclust, z)
<1>1. PICK s, j : s = Ent(k, e).sclust /\ j = SetFat(k, c, new)
  OBVIOUS
<1>2. /\ \A i \in 0 .. m : Walk(j, s, i) = Walk(k, s, i)
      /\ Walk(j, s, m + 1) = new
      /\ Walk(j, s, (m + 1) + 1) \notin Cluster
  BY <1>1, JoinWalk
<1>3. IsCard(j) /\ \A d \in Cluster : Fuller(j, k, d)
  <2>1. new \in FatValue
    BY FatValues
  <2>2. IsCard(j)
    BY <1>1, <2>1, SetFatCard
  <2>3. \A i \in 0 .. NDataSects - 1 : k[DataSect(i)] \subseteq j[DataSect(i)]
    BY <1>1, FatData
  <2>4. QED
    BY <2>2, <2>3, ChainFuller
<1> SUFFICES ASSUME NEW p \in Nat, p < z, Walk(j, s, p \div UPC) \in Cluster
             PROVE  Held(j, Walk(j, s, p \div UPC), p)
  BY <1>1 DEF OwnUpTo
<1>4. PICK i \in Nat : i = p \div UPC
  BY UnitDiv
<1>5. ~((m + 1) + 1 <= i)
  <2>1. (m + 1) + 1 \in Nat
    OBVIOUS
  <2>2. QED
    BY <1>2, <1>3, <1>4, <2>1, WalkOut
<1>6. CASE i <= m
  <2>1. Walk(j, s, i) = Walk(k, s, i)
    BY <1>2, <1>6
  <2>2. Held(k, Walk(k, s, i), p)
    BY <1>1, <1>4, <2>1 DEF OwnUpTo
  <2>3. QED
    BY <1>3, <1>4, <2>1, <2>2, HeldFuller
<1>7. CASE i = m + 1
  BY <1>2, <1>3, <1>4, <1>7, HeldFuller
<1>8. QED
  BY <1>5, <1>6, <1>7

(* link_new, the FAT. *)
LEMMA DataJoin ==
  ASSUME NothingDropped, WholeInv, WholeInv', SizeInv, DataInv, Join
  PROVE  DataInv'
<1> DEFINE new == NewClust
           s == Cur.sclust
           n == Steps(Cur.fptr)
<1>1. CardInv /\ CardInv' /\ PosInv /\ IsCard(View) /\ SoundChains(View)
  BY ViewCard DEF WholeInv, CardInv, IndInv, CtrlOK, Good
<1>2. pc = "join" /\ UNCHANGED lent
  BY DEF Join
<1>3. /\ call.fh \in Handle /\ Cur \in Slot /\ Cur = files[call.fh] /\ DiskOK
  BY <1>1, <1>2, TransferSlot
<1>4. /\ Cur.ent \in Entry /\ Used(View, Cur.ent)
      /\ Ent(View, Cur.ent).sclust = s /\ new \in Cluster
      /\ ~Points(View, new)
      /\ \A f \in Handle : f # call.fh /\ Has(f, "OPEN") => files[f].ent # Cur.ent
  BY <1>1, <1>2, LinkWriter
<1>5. Fat(View, new) = EOC
  <2>1. call.op = "write"
    BY <1>1, <1>2 DEF CardInv, IndInv, CtrlOK, HintOK
  <2>2. QED
    BY <1>2, <2>1 DEF SizeInv, Locals, NewEnds
<1>6. /\ FitNew(View, Cur, new) /\ Able(Cur)
      /\ Cur.fsize = Cur.fptr /\ Cur.fptr > 0 /\ n \in Nat /\ AtEnd(View, Cur, n)
  BY <1>1, <1>2, LinkFit
<1>7. Ent(View, Cur.ent).size = Cur.fsize
  <2>1. Live(call.fh) /\ Phase(call.fh) = "join"
    BY <1>2, <1>3, <1>6, LiveAble DEF Phase
  <2>2. QED
    BY <1>3, <2>1 DEF SizeInv, AllSized, Sized
<1>8. Linked(Cur).sclust = s /\ Linked(Cur).fsize = Cur.fsize
  BY <1>3 DEF Linked, Slot
<1>9. PICK c \in Cluster : c = Cur.cclust
  BY <1>1, <1>2, <1>3 DEF CardInv, IndInv, CtrlOK, ClustOK, Slot
<1> HIDE DEF new, n, s
<1>10. PICK m \in Nat : n = m + 1 /\ c = Walk(View, s, m)
  <2>1. n # 0
    BY <1>6, <1>9, FatValues DEF AtEnd
  <2>2. n - 1 \in Nat /\ n = (n - 1) + 1
    BY <1>6, <2>1
  <2>3. c = Walk(View, s, n - 1)
    BY <1>6, <1>9, <2>1 DEF AtEnd, s
  <2>4. QED
    BY <2>2, <2>3
<1>11. PICK k : k = SetFat(View, c, new)
  OBVIOUS
<1>12. IsCard(k) /\ \A e \in Entry : Ent(k, e) = Ent(View, e)
  <2>1. new \in FatValue
    BY <1>4, FatValues
  <2>2. QED
    BY <1>1, <1>11, <2>1, SetFatCard
<1>13. c = Walk(View, Ent(View, Cur.ent).sclust, m)
  BY <1>4, <1>10
<1>14. OwnUpTo(k, s, Cur.fsize)
  <2>1. OwnUpTo(View, Ent(View, Cur.ent).sclust, Cur.fsize)
    BY <1>4, <1>6 DEF FitNew, s
  <2>2. \A p \in Nat : p < Cur.fsize /\ p \div UPC = m + 1 => Held(View, new, p)
    BY <1>6, <1>10 DEF FitNew, n
  <2>3. OwnUpTo(k, Ent(View, Cur.ent).sclust, Cur.fsize)
    BY <1>1, <1>4, <1>5, <1>11, <1>13, <2>1, <2>2, JoinOwn
  <2>4. QED
    BY <1>4, <2>3
<1>15. Walk(k, s, n) = new
  BY <1>1, <1>4, <1>5, <1>10, <1>11, <1>13, JoinWalk
<1>16. new \in FatValue
  BY <1>4, FatValues
<1>17. Owns(k)
  <2> SUFFICES ASSUME NEW e \in Entry, Used(k, e)
               PROVE  OwnUpTo(k, Ent(k, e).sclust, Ent(k, e).size)
    BY DEF Owns
  <2>1. Ent(k, e) = Ent(View, e) /\ Used(View, e)
    BY <1>12 DEF Used
  <2>2. CASE e = Cur.ent
    BY <1>4, <1>7, <1>14, <2>1, <2>2
  <2>3. CASE e # Cur.ent
    <3>1. \A i \in Nat : Walk(View, Ent(View, e).sclust, i) # c
      BY <1>1, <1>4, <1>13, <2>1, <2>3, WalkOnce
    <3>2. Keeps(k, View, Ent(View, e).sclust)
      BY <1>1, <1>11, <1>16, <3>1, FatKeeps
    <3>3. OwnUpTo(View, Ent(View, e).sclust, Ent(View, e).size)
      BY <2>1 DEF DataInv, Owns
    <3>4. QED
      BY <2>1, <3>2, <3>3, WithinOwn DEF Keeps
  <2>4. QED
    BY <2>2, <2>3
<1>18. \A f \in Handle : f # call.fh /\ Live(f) => Keeps(k, View, files[f].sclust)
  <2> SUFFICES ASSUME NEW f \in Handle, f # call.fh, Live(f)
               PROVE  Keeps(k, View, files[f].sclust)
    OBVIOUS
  <2>1. files[f].ent # Cur.ent
    BY <1>4 DEF Live
  <2>2. QED
    BY <1>1, <1>2, <1>4, <1>11, <1>13, <1>16, <2>1, OtherKeeps
<1>19. FatPut(Cur.cclust, new) => View' = k /\ card' \in {card, View, k}
  BY <1>2, <1>3, <1>4, <1>9, <1>11, FatValues, FatPutOK
<1>20. FatPutFails(Cur.cclust, new) => View' \in {View, k} /\ card' \in {card, View, k}
  BY <1>1, <1>2, <1>3, <1>4, <1>9, <1>11, <1>12, FatValues, FatPutFailsOK, FailsKeep
     DEF FatPutFails
<1>21. CASE FatPut(Cur.cclust, new) /\ SetSlot(call.fh, Linked(Cur)) /\ Continue(call.left)
  <2>1. PICK q : q = Linked(Cur)
    OBVIOUS
  <2>2. Steps(q.fsize) = n /\ q.sclust = s /\ q.fsize = Cur.fsize
    BY <1>6, <1>8, <2>1 DEF n
  <2>3. Fit(View', q)
    BY <1>4, <1>14, <1>15, <1>19, <1>21, <2>2 DEF Fit, Reached
  <2>4. pc' \notin {"link", "join"}
    BY <1>21 DEF Continue, Return
  <2>5. QED
    BY <1>1, <1>2, <1>3, <1>17, <1>18, <1>19, <1>21, <2>1, <2>3, <2>4, DataLinked
<1>22. CASE FatPutFails(Cur.cclust, new) /\ LinkFails(Cur)
  <2>1. PICK q : SetSlot(call.fh, q) /\ ~Able(q) /\ pc' \in {"idle", "unmount"}
    BY <1>1, <1>2, <1>3, <1>22, LinkFailsSlot
  <2>2. QED
    BY <1>1, <1>2, <1>3, <1>17, <1>18, <1>20, <1>22, <2>1, DataLinked
<1>23. QED
  BY <1>21, <1>22 DEF Join, new

-----------------------------------------------------------------------------
(***************************************************************************)
(* Whenever the power goes.                                                *)
(***************************************************************************)
(* The bytes that sizes and chains give the files of k are their own, and  *)
(* OwnVolumes says so of the volumes the card may come with, as            *)
(* NoStaleBytes says it of the card.                                       *)
OwnBytes(k) ==
  \A e \in Entry : Used(k, e) =>
    \A p \in 0 .. Ent(k, e).size - 1 :
      p < ChainLen(k, Ent(k, e).sclust) * UPC => HoldsOwn(k, Ent(k, e).sclust, p)
OwnVolumes == \A k \in Volumes : OwnBytes(k)

(* A unit is in the chain where it is below the units of its clusters. *)
LEMMA UnitOfChain ==
  ASSUME NEW k, IsCard(k), SoundChains(k), NEW e \in Entry, Used(k, e), NEW p \in Nat
  PROVE  (p < ChainLen(k, Ent(k, e).sclust) * UPC)
         <=> Walk(k, Ent(k, e).sclust, p \div UPC) \in Cluster
<1>1. PICK s : s = Ent(k, e).sclust
  OBVIOUS
<1>2. PICK n \in Nat, x \in 0 .. UPC - 1 : n = p \div UPC /\ p = UPC * n + x
  BY UnitDiv
<1>3. ASSUME Walk(k, s, n) \in Cluster, ChainLen(k, s) \in Nat
      PROVE  p < ChainLen(k, s) * UPC
  <2>1. PICK l \in Nat : l = ChainLen(k, s) /\ n + 1 <= l
    <3>1. ChainLen(k, s) > n
      BY <1>1, <1>3, LenAtLeast
    <3>2. QED
      BY <1>3, <3>1
  <2>2. UPC * (n + 1) <= UPC * l /\ UPC * (n + 1) = UPC * n + UPC
        /\ UPC * n \in Nat /\ UPC * l \in Nat /\ UPC * l = l * UPC
    <3>1. \A b, c, d \in Nat : b <= c => d * b <= d * c /\ d * b \in Nat /\ d * c \in Nat
                                         /\ d * c = c * d
      OBVIOUS
    <3>2. n + 1 \in Nat /\ UPC \in Nat
      BY UnitsOK
    <3>3. QED
      BY <2>1, <3>1, <3>2
  <2>3. QED
    BY <1>2, <2>1, <2>2, UnitsOK
<1>4. ASSUME Walk(k, s, n) \notin Cluster
      PROVE  ~(p < ChainLen(k, s) * UPC)
  <2>1. PICK l \in Nat : l = ChainLen(k, s) /\ l <= n
    BY <1>4, LenAtMost
  <2>2. UPC * l <= UPC * n /\ UPC * n \in Nat /\ UPC * l \in Nat /\ UPC * l = l * UPC
    <3>1. \A b, c, d \in Nat : b <= c => d * b <= d * c /\ d * b \in Nat /\ d * c \in Nat
                                         /\ d * b = b * d
      OBVIOUS
    <3>2. QED
      BY <2>1, <3>1, UnitsOK
  <2>3. QED
    BY <1>2, <2>1, <2>2, UnitsOK
<1>5. ChainLen(k, s) \in Nat
  <2> DEFINE S == {i \in 0 .. MaxClust - 1 : Walk(k, s, i) \in Cluster}
  <2>1. S \subseteq 0 .. MaxClust - 1 /\ IsFiniteSet(0 .. MaxClust - 1)
    BY FS_Interval, GeometryAssumption
  <2>2. ChainLen(k, s) = Cardinality(S)
    BY DEF ChainLen
  <2> HIDE DEF S
  <2>3. QED
    BY <2>1, <2>2, FS_Subset, FS_CardinalityType
<1>6. QED
  BY <1>1, <1>2, <1>3, <1>4, <1>5

(* So the two ways to say that files have their own bytes are the same. *)
LEMMA OwnsIs ==
  ASSUME NEW k, IsCard(k), SoundChains(k)
  PROVE  Owns(k) <=> OwnBytes(k)
<1>1. ASSUME NEW e \in Entry, Used(k, e)
      PROVE  OwnUpTo(k, Ent(k, e).sclust, Ent(k, e).size) <=>
             \A p \in 0 .. Ent(k, e).size - 1 :
               p < ChainLen(k, Ent(k, e).sclust) * UPC => HoldsOwn(k, Ent(k, e).sclust, p)
  <2>1. PICK s : s = Ent(k, e).sclust
    OBVIOUS
  <2>2. PICK z \in Nat : z = Ent(k, e).size
    BY SizeNat
  <2>3. \A p \in Nat : p < ChainLen(k, s) * UPC <=> Walk(k, s, p \div UPC) \in Cluster
    BY <1>1, <2>1, UnitOfChain
  <2>4. \A p : HoldsOwn(k, s, p) <=> Held(k, Walk(k, s, p \div UPC), p)
    BY DEF HoldsOwn, Held
  <2>5. \A p : p \in 0 .. z - 1 <=> p \in Nat /\ p < z
    OBVIOUS
  <2>6. OwnUpTo(k, s, z) <=> \A p \in 0 .. z - 1 : p < ChainLen(k, s) * UPC => HoldsOwn(k, s, p)
    BY <2>3, <2>4, <2>5, Zenon DEF OwnUpTo
  <2>7. QED
    BY <2>1, <2>2, <2>6
<1>2. QED
  BY <1>1 DEF Owns, OwnBytes

(* Every step keeps it, when no file that a host would repair is written. *)
LEMMA DataNext ==
  ASSUME NothingDropped, SizesInv, SizesInv', DataInv, [Next /\ RepairedFirst]_vars
  PROVE  DataInv'
<1>1. WholeInv /\ WholeInv' /\ SizeInv /\ KeptInv
  BY DEF SizesInv
<1>2. CASE VolumeCall
  BY <1>1, <1>2, DataMount, DataUnmount, DataLend DEF VolumeCall
<1>3. CASE NameCall /\ RepairedFirst
  BY <1>1, <1>3, DataStat, DataDelete, DataRename, DataOpenExisting, DataOpenNew DEF NameCall
<1>4. CASE HandleCall
  <2>1. 1 .. MaxXfer \subseteq Nat
    BY GeometryAssumption
  <2>2. QED
    BY <1>1, <1>4, <2>1, DataBegin, DataSeek, DataTruncate, DataSync, DataFragments
       DEF HandleCall
<1>5. CASE Step
  BY <1>1, <1>5, DataAppend, DataSameCluster, DataNextCluster, DataAlloc, DataAllocFull,
     DataReadChunk, DataWriteChunk, DataWriteChunkFails, DataLink, DataJoin, DataCut,
     DataCutSize, DataFree, DataSyncEntry, DataSyncDone, DataUnmountClose, DataUnmount DEF Step
<1>6. CASE Crash
  BY <1>1, <1>6, DataMount
<1>7. CASE UNCHANGED vars
  <2>1. View' = View
    BY <1>1, <1>7, SameDiskOK DEF vars, disk, WholeInv, CardInv, IndInv
  <2>2. UNCHANGED <<card, files, pc, call, hint>>
    BY <1>7 DEF vars
  <2>3. \A f \in Handle : (Live(f)' <=> Live(f)) /\ (Fits(f)' <=> Fits(f))
    BY <2>1, <2>2 DEF Live, Has, Fits, Joins, NewClust
  <2>4. QED
    BY <2>1, <2>2, <2>3 DEF DataInv
<1>8. QED
  BY <1>2, <1>3, <1>4, <1>5, <1>6, <1>7 DEF Next

(* It holds of every volume the card may come with. *)
LEMMA DataInit == ASSUME SoundVolumes, OwnVolumes, Init PROVE DataInv
<1>1. WholeInv
  BY PosInit
<1>2. IsCard(card) /\ SoundChains(card) /\ View = card /\ OwnBytes(card)
  BY <1>1, ViewCard DEF Init, WholeInv, CardInv, IndInv, SoundVolumes, OwnVolumes
<1>3. Owns(card)
  BY <1>2, OwnsIs
<1>4. \A f \in Handle : ~Live(f)
  BY FreeSlotOK DEF Init, Live, Has
<1>5. QED
  BY <1>2, <1>3, <1>4 DEF DataInv

(* What the steps of RepairedSpec rely on. *)
DatasInv == SizesInv /\ DataInv

(* Whenever the power goes, whatever has failed before it, every byte that *)
(* the size and the chain of a file give it is one that was written to it, *)
(* as long as hosts have a card on which a size runs past its chain        *)
(* repaired before they write that file again: the order in which          *)
(* link_new, alloc_cluster, free_chain and uzefs_truncate write the data,  *)
(* the entry and the FAT never lends a file the bytes of another.          *)
THEOREM BytesAreOwn ==
  ASSUME SoundVolumes, CoveredVolumes, OwnVolumes, NothingDropped
  PROVE  RepairedSpec => []NoStaleBytes
<1>1. Init => DatasInv
  BY SizesInit, DataInit DEF DatasInv
<1>2. DatasInv /\ [Next /\ RepairedFirst]_vars => DatasInv'
  <2>1. [Next /\ RepairedFirst]_vars => [Next]_vars
    OBVIOUS
  <2>2. QED
    BY <2>1, SizesNext, DataNext DEF DatasInv
<1>3. DatasInv => NoStaleBytes
  <2> SUFFICES ASSUME DatasInv PROVE NoStaleBytes
    OBVIOUS
  <2>1. IsCard(card) /\ SoundChains(card) /\ Owns(card)
    BY DEF DatasInv, SizesInv, WholeInv, CardInv, IndInv, DiskOK, Good, DataInv
  <2>2. OwnBytes(card)
    BY <2>1, OwnsIs
  <2>3. QED
    BY <2>2 DEF OwnBytes, NoStaleBytes
<1>4. QED
  BY <1>1, <1>2, <1>3, PTL DEF RepairedSpec
-----------------------------------------------------------------------------
(***************************************************************************)
(* What a sync leaves on the card.                                         *)
(***************************************************************************)
(* A handle whose last writes are under way has not failed. *)
FlushLive == pc = "flush" => Live(call.fh)

(* What returns, or goes on with a transfer, does not write the kept       *)
(* sector next.                                                            *)
LEMMA NoFlush ==
  /\ Return => pc' # "flush"
  /\ DiskError => pc' # "flush"
  /\ Corrupt => pc' # "flush"
  /\ Done => pc' # "flush"
  /\ \A n : Continue(n) => pc' # "flush"
BY DEF Return, DiskError, Corrupt, Done, Goto, Continue

(* Nor does a call of a name, *)
LEMMA NameNoFlush == ASSUME NameCall PROVE pc' # "flush"
<1>1. PICK nm \in Names, e \in Entry :
        \/ Stat(nm, e) \/ Delete(nm, e)
        \/ \E to \in Names, last \in Entry : Rename(nm, to, e, last)
        \/ \E m \in Modes, f \in Handle :
             \/ OpenExisting(nm, m, f, e)
             \/ \E last \in Entry : OpenNew(nm, m, f, e, last)
                                    \/ OpenNewFails(nm, m, f, e, last)
  BY DEF NameCall
<1>2. CASE Stat(nm, e)
  BY <1>2 DEF Stat
<1>3. CASE Delete(nm, e)
  BY <1>3 DEF Delete, Closed
<1>4. CASE \E to \in Names, last \in Entry : Rename(nm, to, e, last)
  BY <1>4 DEF Rename, Closed
<1>5. ASSUME NEW m \in Modes, NEW f \in Handle, OpenExisting(nm, m, f, e)
      PROVE  pc' # "flush"
  BY <1>5 DEF OpenExisting
<1>6. ASSUME NEW m \in Modes, NEW f \in Handle, NEW last \in Entry,
             OpenNew(nm, m, f, e, last) \/ OpenNewFails(nm, m, f, e, last)
      PROVE  pc' # "flush"
  <2>1. pc = "idle" /\ pc' = pc
    BY <1>6 DEF OpenNew, OpenNewFails, CreateChecks, OpenChecks
  <2>2. QED
    BY <2>1
<1>7. QED
  BY <1>1, <1>2, <1>3, <1>4, <1>5, <1>6

(* nor one of a handle that is no sync, *)
LEMMA HandleNoFlush ==
  ASSUME HandleCall, \A f \in Handle, op \in {"sync", "close"} : ~Sync(f, op)
  PROVE  pc' # "flush"
<1>1. PICK f \in Handle :
        \/ \E n \in 1 .. MaxXfer : Read(f, n) \/ Write(f, n)
        \/ \E pos \in 0 .. MaxSize : Seek(f, pos)
        \/ Truncate(f) \/ Fragments(f)
  BY DEF HandleCall
<1>2. CASE \E n \in 1 .. MaxXfer : Read(f, n) \/ Write(f, n)
  BY <1>2 DEF Read, Write, BeginXfer
<1>3. CASE \E pos \in 0 .. MaxSize : Seek(f, pos)
  <2>1. PICK pos \in 0 .. MaxSize : Seek(f, pos)
    BY <1>3
  <2>2. pc = "idle" /\ (pc' = pc \/ \E r, n : Zeros(f, r, n))
    BY <2>1 DEF Seek, Ready
  <2>3. QED
    BY <2>2 DEF Zeros
<1>4. CASE Truncate(f)
  BY <1>4 DEF Truncate, CanWrite, Ready, BeginCut
<1>5. CASE Fragments(f)
  <2>1. pc = "idle" /\ pc' = pc
    BY <1>5 DEF Fragments, Ready
  <2>2. QED
    BY <2>1
<1>6. QED
  BY <1>1, <1>2, <1>3, <1>4, <1>5

(* nor a step of a call that is none of these. *)
LEMMA StepNoFlush ==
  ASSUME Step, ~SyncEntry, \A f \in Handle : ~UnmountClose(f)
  PROVE  pc' # "flush"
<1>1. CASE Append
  BY <1>1, NoFlush DEF Append
<1>2. CASE SameCluster \/ NextCluster
  BY <1>2, NoFlush DEF SameCluster, NextCluster, Goto
<1>3. CASE \E cl \in Cluster : Alloc(cl)
  <2>1. PICK cl \in Cluster : Alloc(cl)
    BY <1>3
  <2>2. Goto("move") \/ DiskError
    BY <2>1 DEF Alloc
  <2>3. QED
    BY <2>2, NoFlush DEF Goto
<1>4. CASE AllocFull
  BY <1>4, NoFlush DEF AllocFull
<1>5. CASE ReadChunk
  BY <1>5, NoFlush DEF ReadChunk
<1>6. CASE WriteChunk \/ WriteChunkFails
  <2>1. LinkNext \/ DiskError
    BY <1>6 DEF WriteChunk, WriteChunkFails
  <2>2. QED
    BY <2>1, NoFlush DEF LinkNext
<1>7. CASE Link
  <2>1. Continue(call.left) \/ Goto("join") \/ Return
    BY <1>7 DEF Link, LinkFails
  <2>2. QED
    BY <2>1, NoFlush DEF Goto
<1>8. CASE Join
  <2>1. Continue(call.left) \/ Return
    BY <1>8 DEF Join, LinkFails
  <2>2. QED
    BY <2>1, NoFlush
<1>9. CASE Cut
  BY <1>9, NoFlush DEF Cut, Goto
<1>10. CASE CutSize
  <2>1. Goto("free") \/ Done \/ Return
    BY <1>10 DEF CutSize
  <2>2. QED
    BY <2>1, NoFlush DEF Goto
<1>11. CASE Free
  <2>1. (pc = "free" /\ pc' = pc) \/ Done \/ Corrupt \/ DiskError
    BY <1>11 DEF Free
  <2>2. QED
    BY <2>1, NoFlush
<1>12. CASE SyncDone \/ SyncFlushFails
  BY <1>12, NoFlush DEF SyncDone, SyncFlushFails
<1>13. CASE UnmountEnd
  BY <1>13 DEF UnmountEnd
<1>14. QED
  BY <1>1, <1>2, <1>3, <1>4, <1>5, <1>6, <1>7, <1>8, <1>9, <1>10, <1>11, <1>12, <1>13 DEF Step

(* It stays so: only uzefs_sync, uzefs_close and uzefs_unmount's loop get  *)
(* there, with a slot they have looked at or an entry just written.        *)
LEMMA FlushLiveNext == ASSUME CardInv, FlushLive, [Next]_vars PROVE FlushLive'
<1> SUFFICES ASSUME pc' = "flush" PROVE Live(call.fh)'
  BY DEF FlushLive
<1>1. CASE UNCHANGED vars
  BY <1>1 DEF vars, FlushLive, Live, Has
<1>2. CASE \E f \in Handle, op \in {"sync", "close"} : Sync(f, op)
  <2>1. PICK f \in Handle, op \in {"sync", "close"} : Sync(f, op)
    BY <1>2
  <2>2. Live(f) /\ UNCHANGED files /\ call' = [NoCall EXCEPT !.op = op, !.fh = f]
    BY <2>1 DEF Sync, Live
  <2>3. call'.fh = f
    BY <2>2 DEF NoCall
  <2>4. QED
    BY <2>2, <2>3 DEF Live, Has
<1>3. CASE \E f \in Handle : UnmountClose(f)
  <2>1. PICK f \in Handle : UnmountClose(f)
    BY <1>3
  <2>2. Live(f) /\ UNCHANGED files /\ call' = [call EXCEPT !.fh = f]
    BY <2>1 DEF UnmountClose, Live
  <2>3. call'.fh = f
    BY <2>2 DEF CardInv, IndInv, CtrlOK, CallType
  <2>4. QED
    BY <2>2, <2>3 DEF Live, Has
<1>4. CASE SyncEntry
  <2>1. UNCHANGED <<call, files>>
    BY <1>4, NoFlush DEF SyncEntry, Goto
  <2>2. WriterIn(files, call.fh)
    BY <1>4 DEF SyncEntry, CardInv, StepsOK, WriterOK
  <2>3. QED
    BY <2>1, <2>2 DEF WriterIn, Live, Has
<1>5. ~VolumeCall /\ ~Crash
  BY DEF VolumeCall, Mount, MountFails, Unmount, Lend, LendFails, Crash
<1>6. ~NameCall
  BY NameNoFlush
<1>7. CASE HandleCall
  BY <1>2, <1>7, HandleNoFlush
<1>8. CASE Step
  BY <1>3, <1>4, <1>8, StepNoFlush
<1>9. QED
  BY <1>1, <1>5, <1>6, <1>7, <1>8 DEF Next

(* The slot of a handle that has not failed is on the card that has all    *)
(* changes, as far as its chain goes, and a writer's chain goes all the    *)
(* way.                                                                    *)
LEMMA FlushedIsOnCard ==
  ASSUME DatasInv, FlushLive, SyncDone
  PROVE  OnCard(card', Cur)
<1>1. WholeInv /\ CardInv /\ PosInv /\ SizeInv /\ DataInv /\ IndInv
  BY DEF DatasInv, SizesInv, WholeInv, CardInv
<1>2. PICK k : k = View
  OBVIOUS
<1>3. card' = k
  BY <1>1, <1>2, FlushOK DEF SyncDone, IndInv
<1>4. IsCard(k) /\ SoundChains(k) /\ Covered(k) /\ Owns(k)
  BY <1>1, <1>2, ViewCard DEF CardInv, Good, IndInv, DiskOK, SizeInv, Ends, DataInv
<1>5. PICK r \in Slot, g \in Handle : r = Cur /\ r = files[g] /\ g = call.fh
  BY <1>1, CurOK
<1>6. Live(g) /\ pc = "flush" /\ Phase(g) = "flush"
  BY <1>5 DEF SyncDone, FlushLive, Phase
<1>7. Used(k, r.ent) /\ r.ent \in Entry
  BY <1>1, <1>2, <1>5, <1>6 DEF PosInv, Named, Live, Slot
<1>8. PICK s, z : s = r.sclust /\ z = r.fsize /\ z \in Nat
  BY <1>5 DEF Slot
<1>9. Ent(k, r.ent).sclust = s /\ Ent(k, r.ent).size = z
  BY <1>1, <1>2, <1>5, <1>6, <1>8 DEF PosInv, AllPlaced, Placed, SizeInv, AllSized, Sized
<1>10. OwnUpTo(k, s, z) /\ ("WR" \in r.flags => Reached(k, r))
  BY <1>1, <1>2, <1>5, <1>6, <1>8 DEF DataInv, Fits, Joins, Fit
<1>11. PICK l, n : l = ChainLen(k, s) /\ n = ClustersFor(z)
  OBVIOUS
<1>12. l \in Nat /\ l <= n /\ n \in Nat
  <2>1. n \in Nat
    BY <1>8, <1>11, ClustersIs
  <2>2. Walk(k, s, n) \notin Cluster
    BY <1>4, <1>7, <1>9, <1>11 DEF Covered
  <2>3. QED
    BY <1>4, <1>11, <2>1, <2>2, LenAtMost
<1>13. "WR" \in r.flags => l = n
  <2>1. CASE z = 0
    BY <2>1, <1>11, <1>12, ClustersIs
  <2>2. CASE z > 0 /\ "WR" \in r.flags
    <3>1. Walk(k, s, Steps(z)) \in Cluster /\ Steps(z) \in Nat /\ n = Steps(z) + 1
      BY <2>2, <1>8, <1>10, <1>11, ClustersIs, StepsNat DEF Reached
    <3>2. l > Steps(z)
      BY <3>1, <1>4, <1>7, <1>9, <1>11, LenAtLeast
    <3>3. QED
      BY <3>1, <3>2, <1>12
  <2>3. QED
    BY <2>1, <2>2, <1>8
<1>14. \A p \in 0 .. z - 1 : p < l * UPC => HoldsOwn(k, s, p)
  <2>1. \A p \in Nat : p < l * UPC <=> Walk(k, s, p \div UPC) \in Cluster
    BY <1>4, <1>7, <1>9, <1>11, UnitOfChain
  <2>2. \A p : HoldsOwn(k, s, p) <=> Held(k, Walk(k, s, p \div UPC), p)
    BY DEF HoldsOwn, Held
  <2>3. \A p \in 0 .. z - 1 : p \in Nat /\ p < z
    BY <1>8
  <2>4. QED
    BY <1>10, <2>1, <2>2, <2>3, Zenon DEF OwnUpTo
<1>15. QED
  BY <1>3, <1>5, <1>7, <1>8, <1>9, <1>11, <1>12, <1>13, <1>14 DEF OnCard

(* After a uzefs_sync or uzefs_close that succeeded, whatever has failed   *)
(* before it, the card has all that was written through the handle: its    *)
(* entry has the file's size, the chain is as long as that, and every byte *)
(* is there; of a file that was only read, all that its chain reaches.     *)
THEOREM SyncsReachCard ==
  ASSUME SoundVolumes, CoveredVolumes, OwnVolumes, NothingDropped
  PROVE  RepairedSpec => SyncedIsOnCard
<1>1. Init => DatasInv /\ FlushLive
  BY SizesInit, DataInit DEF DatasInv, Init, FlushLive
<1>2. DatasInv /\ FlushLive /\ [Next /\ RepairedFirst]_vars => (DatasInv /\ FlushLive)'
  <2>1. [Next /\ RepairedFirst]_vars => [Next]_vars
    OBVIOUS
  <2>2. DatasInv => CardInv
    BY DEF DatasInv, SizesInv, WholeInv
  <2>3. QED
    BY <2>1, <2>2, SizesNext, DataNext, FlushLiveNext DEF DatasInv
<1>3. DatasInv /\ FlushLive /\ [Next /\ RepairedFirst]_vars
      => [SyncDone => OnCard(card', Cur)]_vars
  BY FlushedIsOnCard
<1>4. QED
  BY <1>1, <1>2, <1>3, PTL DEF RepairedSpec, SyncedIsOnCard
=============================================================================
