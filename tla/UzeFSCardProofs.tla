--------------------------- MODULE UzeFSCardProofs ---------------------------
(***************************************************************************)
(* The card stays sound: whatever command fails and whenever the power     *)
(* goes, no cluster of it is in two chains, and none is in a chain and     *)
(* marked free.  For every geometry, number of files, mode and way to lend *)
(* the buffer, from any sound volume.                                      *)
(***************************************************************************)
EXTENDS UzeFSProofs

-----------------------------------------------------------------------------
(***************************************************************************)
(* The invariant.  SoundChains is not inductive by itself: a handle writes *)
(* its first cluster into its entry again at every sync, long after it     *)
(* took it, and a kept sector can be dropped, so what the library reads    *)
(* becomes what is on the card.  So the same is asked of both, with what   *)
(* the handles open for writing rely on.                                   *)
(***************************************************************************)
(* In the slots fs, f may still change its file. *)
WriterIn(fs, f) ==
  "OPEN" \in fs[f].flags /\ "WR" \in fs[f].flags /\ "FAILED" \notin fs[f].flags

NoWriter(fs, cl) == \A f \in Handle : WriterIn(fs, f) => fs[f].sclust # cl

(* The first cluster of a writer is in use, and in no chain but its own. *)
Own(k, fs) ==
  \A f \in Handle :
    LET s == fs[f].sclust
    IN  WriterIn(fs, f) /\ s # 0 =>
          /\ Fat(k, s) # 0
          /\ \A c \in Cluster : Fat(k, c) # s
          /\ \A e \in Entry : Used(k, e) /\ e # fs[f].ent => Ent(k, e).sclust # s

(* No two writers work on one chain. *)
Distinct(fs) ==
  \A f, g \in Handle :
    WriterIn(fs, f) /\ WriterIn(fs, g) /\ fs[f].sclust # 0
    /\ fs[f].sclust = fs[g].sclust => f = g

(* Two entries, of j and of k, do not start one chain. *)
Apart(j, k) ==
  \A e, g \in Entry :
    /\ Used(j, e) /\ Used(k, g)
    /\ Ent(j, e).sclust = Ent(k, g).sclust
    /\ Ent(j, e).sclust \in Cluster
    => e = g

Good(fs, K) ==
  /\ fs \in [Handle -> Slot]
  /\ Distinct(fs)
  /\ \A k \in K : SoundChains(k) /\ Own(k, fs)
  /\ \A j, k \in K : Apart(j, k)

(* What a call in progress may count on. *)
(* It changes a file through a handle that may. *)
WriterOK ==
  \/ pc \in {"chunk", "alloc", "move", "link", "join"} /\ call.op = "write"
  \/ pc \in {"cut", "size", "entry"}
  => WriterIn(files, call.fh)

(* Only handles that may change a file have changes to write. *)
DirtyOK == \A f \in Handle : Has(f, "DIRTY") => Has(f, "WR")

Linkable == pc = "link" \/ (pc = "move" /\ Has(call.fh, "NEWCL"))

(* The cluster to link is taken, and in no chain yet. *)
NewOK ==
  (Linkable \/ pc = "join") =>
    /\ Fat(View, NewClust) # 0
    /\ ~Points(View, NewClust)
    /\ NoWriter(files, NewClust)

(* The directory entry that will name it is not waiting in the buffer, so  *)
(* that taking it is on the card before naming it is.                      *)
KeptNoDir == Linkable => \A e \in Entry : DirSect(e) \notin DOMAIN kept

(* The chain to free hangs on the cluster it will be cut from, *)
CutOK == pc = "cut" => call.cl \in Cluster /\ Fat(View, Cur.cclust) = call.cl

(* then on its file's entry at most, *)
SizeOK ==
  pc = "size" /\ call.cl # 0 =>
    /\ call.cl \in Cluster
    /\ \A c \in Cluster : Fat(View, c) # call.cl
    /\ \A e \in Entry : Used(View, e) /\ e # Cur.ent => Ent(View, e).sclust # call.cl
    /\ NoWriter(files, call.cl)

(* and then on nothing. *)
FreeOK ==
  pc = "free" /\ call.cl \in Cluster =>
    ~Points(View, call.cl) /\ NoWriter(files, call.cl)

StepsOK == WriterOK /\ DirtyOK /\ NewOK /\ KeptNoDir /\ CutOK /\ SizeOK /\ FreeOK

CardInv == IndInv /\ Good(files, {card, View}) /\ StepsOK

-----------------------------------------------------------------------------
(* Contents that differ in data only. *)
Meta(j, k) ==
  /\ \A cl \in Cluster : Fat(j, cl) = Fat(k, cl)
  /\ \A e \in Entry : Ent(j, e) = Ent(k, e)

(* The writers of gs that have a chain are writers of fs, and on the same. *)
Fewer(gs, fs) ==
  \A f \in Handle : WriterIn(gs, f) /\ gs[f].sclust # 0 =>
    /\ WriterIn(fs, f)
    /\ gs[f].ent = fs[f].ent
    /\ gs[f].sclust = fs[f].sclust

(* Soundness is about the FAT and the directory. *)
LEMMA MetaSound ==
  ASSUME NEW j, NEW k, NEW fs \in [Handle -> Slot], Meta(j, k), SoundChains(k), Own(k, fs)
  PROVE  SoundChains(j) /\ Own(j, fs)
<1>1. \A e \in Entry : Used(j, e) = Used(k, e)
  BY DEF Used, Meta
<1>2. LinkInjective(j)
  BY DEF Meta, SoundChains, LinkInjective
<1>3. StartInjective(j) /\ StartUnlinked(j)
  BY <1>1 DEF Meta, SoundChains, StartInjective, StartUnlinked
<1>4. PointedInUse(j)
  BY <1>1 DEF Meta, SoundChains, PointedInUse, Points
<1>5. Own(j, fs)
  <2>1. \A f \in Handle : fs[f].sclust # 0 => fs[f].sclust \in Cluster
    BY DEF Slot
  <2>2. QED
    BY <1>1, <2>1 DEF Own, Meta
<1>6. QED
  BY <1>2, <1>3, <1>4, <1>5 DEF SoundChains

(* What two entries start does not depend on data. *)
LEMMA MetaApart ==
  ASSUME NEW i, NEW j, NEW k, NEW l, Meta(i, k), Meta(j, l), Apart(k, l)
  PROVE  Apart(i, j)
<1>1. \A e \in Entry : Used(i, e) = Used(k, e) /\ Used(j, e) = Used(l, e)
  BY DEF Used, Meta
<1>2. QED
  BY <1>1 DEF Apart, Meta

(* Contents that differ from sound ones in data only are sound together. *)
LEMMA MetaGood ==
  ASSUME NEW fs, NEW K, NEW J, Good(fs, K),
         \A j \in J : \E k \in K : Meta(j, k)
  PROVE  Good(fs, J)
<1>1. \A j \in J : SoundChains(j) /\ Own(j, fs)
  BY MetaSound DEF Good
<1>2. \A i, j \in J : Apart(i, j)
  BY MetaApart DEF Good
<1>3. QED
  BY <1>1, <1>2 DEF Good

(* So is a set of contents that has fewer. *)
LEMMA SubGood ==
  ASSUME NEW fs, NEW K, NEW J, Good(fs, K), J \subseteq K
  PROVE  Good(fs, J)
BY DEF Good

(* A writer less, or one that let go of its chain, is no harm. *)
LEMMA FewerGood ==
  ASSUME NEW fs, NEW gs \in [Handle -> Slot], NEW K, Good(fs, K), Fewer(gs, fs)
  PROVE  Good(gs, K)
<1>1. Distinct(gs)
  BY DEF Good, Fewer, Distinct
<1>2. ASSUME NEW k \in K PROVE Own(k, gs)
  BY DEF Good, Fewer, Own
<1>3. QED
  BY <1>1, <1>2 DEF Good

(* Changing the slots leaves a cluster that no writer starts at alone. *)
LEMMA FewerNoWriter ==
  ASSUME NEW fs, NEW gs, NEW cl \in Cluster, Fewer(gs, fs), NoWriter(fs, cl)
  PROVE  NoWriter(gs, cl)
BY FatValues DEF Fewer, NoWriter

(* One more sound contents among the others. *)
LEMMA ExtendGood ==
  ASSUME NEW fs, NEW K, Good(fs, K), NEW k, SoundChains(k), Own(k, fs),
         \A j \in K : Apart(k, j)
  PROVE  Good(fs, K \cup {k})
<1>1. \A j \in K : Apart(j, k)
  BY DEF Apart
<1>2. Apart(k, k)
  BY DEF SoundChains, StartInjective, Apart
<1>3. QED
  BY <1>1, <1>2 DEF Good

(* Changing the FAT entry of c to x: it is freed when nothing points at it *)
(* any more, and is made to point at a cluster nothing points at yet.      *)
LEMMA SetFatGood ==
  ASSUME NEW fs, NEW K, Good(fs, K), NEW v \in K, IsCard(v),
         NEW c \in Cluster, NEW x \in FatValue,
         x = 0 => ~Points(v, c) /\ NoWriter(fs, c),
         x \in Cluster => ~Points(v, x) /\ Fat(v, x) # 0 /\ NoWriter(fs, x)
  PROVE  Good(fs, K \cup {SetFat(v, c, x)})
<1> DEFINE k == SetFat(v, c, x)
<1>1. SoundChains(v) /\ Own(v, fs) /\ \A j \in K : Apart(v, j)
  BY DEF Good
<1>2. /\ IsCard(k)
      /\ \A d \in Cluster : Fat(k, d) = IF d = c THEN x ELSE Fat(v, d)
      /\ \A e \in Entry : Ent(k, e) = Ent(v, e)
  BY SetFatCard
<1>3. \A e \in Entry : Used(k, e) = Used(v, e)
  BY <1>2 DEF Used
<1> HIDE DEF k
<1>4. LinkInjective(k)
  BY <1>1, <1>2 DEF SoundChains, LinkInjective, Points
<1>5. StartInjective(k)
  BY <1>1, <1>2, <1>3 DEF SoundChains, StartInjective
<1>6. StartUnlinked(k)
  BY <1>1, <1>2, <1>3 DEF SoundChains, StartUnlinked, Points
<1>7. PointedInUse(k)
  <2> SUFFICES ASSUME NEW d \in Cluster, Points(k, d) PROVE Fat(k, d) # 0
    BY DEF PointedInUse
  <2>1. CASE d = c /\ x = 0
    <3>1. Points(v, c)
      BY <1>2, <1>3, <2>1, FatValues DEF Points
    <3>2. QED
      BY <3>1, <2>1
  <2>2. CASE d = c /\ x # 0
    BY <1>2, <2>2
  <2>3. CASE d # c
    <3>1. Points(v, d) \/ x = d
      BY <1>2, <1>3 DEF Points
    <3>2. Fat(v, d) # 0
      BY <3>1, <1>1 DEF SoundChains, PointedInUse
    <3>3. QED
      BY <3>2, <1>2, <2>3
  <2>4. QED
    BY <2>1, <2>2, <2>3
<1>8. Own(k, fs)
  <2> SUFFICES ASSUME NEW f \in Handle, WriterIn(fs, f), fs[f].sclust # 0
               PROVE  /\ Fat(k, fs[f].sclust) # 0
                      /\ \A d \in Cluster : Fat(k, d) # fs[f].sclust
                      /\ \A e \in Entry : Used(k, e) /\ e # fs[f].ent =>
                           Ent(k, e).sclust # fs[f].sclust
    BY DEF Own
  <2> DEFINE s == fs[f].sclust
  <2>1. s \in Cluster
    BY DEF Good, Slot
  <2>2. /\ Fat(v, s) # 0
        /\ \A d \in Cluster : Fat(v, d) # s
        /\ \A e \in Entry : Used(v, e) /\ e # fs[f].ent => Ent(v, e).sclust # s
    BY <1>1 DEF Own
  <2>3. x # s
    BY <2>1 DEF NoWriter
  <2>4. x = 0 => s # c
    BY DEF NoWriter
  <2> HIDE DEF s
  <2>5. QED
    BY <1>2, <1>3, <2>1, <2>2, <2>3, <2>4 DEF s
<1>9. ASSUME NEW j \in K PROVE Apart(k, j)
  BY <1>1, <1>2, <1>3 DEF Apart
<1>10. SoundChains(k)
  BY <1>4, <1>5, <1>6, <1>7 DEF SoundChains
<1>11. Good(fs, K \cup {k})
  BY <1>2, <1>8, <1>9, <1>10, ExtendGood
<1>12. QED
  BY <1>11 DEF k

(* Changing the directory entry e to r: it starts no chain that another    *)
(* entry or a writer of another entry starts.                              *)
LEMMA SetEntGood ==
  ASSUME NEW fs, NEW K, Good(fs, K), NEW v \in K, IsCard(v),
         NEW e \in Entry, NEW r \in DirEnt,
         r.name \in Names /\ r.sclust \in Cluster =>
           /\ Fat(v, r.sclust) # 0
           /\ \A c \in Cluster : Fat(v, c) # r.sclust
           /\ \A j \in K : \A g \in Entry :
                Used(j, g) /\ g # e => Ent(j, g).sclust # r.sclust
           /\ \A f \in Handle :
                WriterIn(fs, f) /\ fs[f].ent # e => fs[f].sclust # r.sclust
  PROVE  Good(fs, K \cup {SetEnt(v, e, r)})
<1> DEFINE k == SetEnt(v, e, r)
<1>1. SoundChains(v) /\ Own(v, fs) /\ \A j \in K : Apart(v, j)
  BY DEF Good
<1>2. /\ IsCard(k)
      /\ \A g \in Entry : Ent(k, g) = IF g = e THEN r ELSE Ent(v, g)
      /\ \A d \in Cluster : Fat(k, d) = Fat(v, d)
  BY SetEntCard
<1>3. \A g \in Entry : Used(k, g) = IF g = e THEN r.name \in Names ELSE Used(v, g)
  BY <1>2 DEF Used
<1> HIDE DEF k
<1>4. LinkInjective(k)
  BY <1>1, <1>2 DEF SoundChains, LinkInjective
<1>5. StartInjective(k)
  BY <1>1, <1>2, <1>3 DEF SoundChains, StartInjective
<1>6. StartUnlinked(k)
  BY <1>1, <1>2, <1>3 DEF SoundChains, StartUnlinked
<1>7. PointedInUse(k)
  <2> SUFFICES ASSUME NEW d \in Cluster, Points(k, d) PROVE Fat(k, d) # 0
    BY DEF PointedInUse
  <2>1. Points(v, d) \/ (r.name \in Names /\ r.sclust = d)
    BY <1>2, <1>3 DEF Points
  <2>2. Fat(v, d) # 0
    BY <1>1, <2>1 DEF SoundChains, PointedInUse
  <2>3. QED
    BY <1>2, <2>2
<1>8. Own(k, fs)
  <2> SUFFICES ASSUME NEW f \in Handle, WriterIn(fs, f), fs[f].sclust # 0
               PROVE  /\ Fat(k, fs[f].sclust) # 0
                      /\ \A d \in Cluster : Fat(k, d) # fs[f].sclust
                      /\ \A g \in Entry : Used(k, g) /\ g # fs[f].ent =>
                           Ent(k, g).sclust # fs[f].sclust
    BY DEF Own
  <2> DEFINE s == fs[f].sclust
  <2>1. s \in Cluster
    BY DEF Good, Slot
  <2>2. /\ Fat(v, s) # 0
        /\ \A d \in Cluster : Fat(v, d) # s
        /\ \A g \in Entry : Used(v, g) /\ g # fs[f].ent => Ent(v, g).sclust # s
    BY <1>1 DEF Own
  <2>3. r.name \in Names /\ e # fs[f].ent => r.sclust # s
    BY <2>1
  <2> HIDE DEF s
  <2>4. QED
    BY <1>2, <1>3, <2>1, <2>2, <2>3 DEF s
<1>9. ASSUME NEW j \in K PROVE Apart(k, j)
  BY <1>1, <1>2, <1>3 DEF Apart
<1>10. SoundChains(k)
  BY <1>4, <1>5, <1>6, <1>7 DEF SoundChains
<1>11. Good(fs, K \cup {k})
  BY <1>2, <1>8, <1>9, <1>10, ExtendGood
<1>12. QED
  BY <1>11 DEF k

(* Contents differ from themselves in nothing. *)
LEMMA MetaRefl == \A k : Meta(k, k)
BY DEF Meta

-----------------------------------------------------------------------------
(* Slots.                                                                  *)

(* The slot r is q or less: on the same file, on its chain or none, for    *)
(* writing only if q is.                                                   *)
Milder(r, q) ==
  /\ r.ent = q.ent /\ r.sclust \in {q.sclust, 0}
  /\ {"OPEN", "WR"} \cap r.flags = {"OPEN", "WR"} \cap q.flags
  /\ "FAILED" \in q.flags => "FAILED" \in r.flags
  /\ "DIRTY" \in r.flags => "DIRTY" \in q.flags \/ "WR" \in q.flags

(* Less than less is less. *)
LEMMA MilderTrans ==
  ASSUME NEW p, NEW q, NEW r, Milder(p, q), Milder(q, r)
  PROVE  Milder(p, r)
BY DEF Milder

(* The changes of flags the library makes. *)
LEMMA MilderWith ==
  ASSUME NEW r \in Slot, NEW on \in SUBSET {"FAILED", "CONTIG", "NEWCL", "DIRTY"},
         NEW off \in SUBSET {"CONTIG", "NEWCL", "DIRTY"},
         "DIRTY" \in on => "WR" \in r.flags
  PROVE  With(r, on, off) \in Slot /\ Milder(With(r, on, off), r)
<1>1. on \in SUBSET Flag
  BY DEF Flag
<1>2. /\ With(r, on, off) \in Slot
      /\ With(r, on, off).flags = (r.flags \ off) \cup on
      /\ With(r, on, off).ent = r.ent /\ With(r, on, off).sclust = r.sclust
  BY <1>1, WithOK
<1>3. QED
  BY <1>2 DEF Milder

(* A change of position leaves the rest of a slot alone. *)
LEMMA MilderAt ==
  ASSUME NEW r \in Slot, NEW p
  PROVE  At(r, p).ent = r.ent /\ At(r, p).sclust = r.sclust /\ At(r, p).flags = r.flags
BY DEF At, Slot

(* Setting one slot to less. *)
LEMMA MilderOK ==
  ASSUME CardInv, NEW f \in Handle, NEW r \in Slot, SetSlot(f, r),
         r = FreeSlot \/ Milder(r, files[f])
  PROVE  files' \in [Handle -> Slot] /\ Fewer(files', files) /\ DirtyOK'
<1>1. files \in [Handle -> Slot]
  BY DEF CardInv, IndInv, CtrlOK
<1>2. /\ files' \in [Handle -> Slot] /\ files'[f] = r
      /\ \A g \in Handle : g # f => files'[g] = files[g]
  BY <1>1, SetSlotOK
<1>3. DirtyOK
  BY DEF CardInv, StepsOK
<1>4. CASE r = FreeSlot
  BY <1>2, <1>3, <1>4, FreeSlotOK DEF Fewer, WriterIn, DirtyOK, Has
<1>5. CASE Milder(r, files[f])
  BY <1>2, <1>3, <1>5 DEF Fewer, WriterIn, DirtyOK, Has, Milder
<1>6. QED
  BY <1>4, <1>5

(* No slot changes. *)
LEMMA SameMild ==
  ASSUME CardInv, UNCHANGED files
  PROVE  files' \in [Handle -> Slot] /\ Fewer(files', files) /\ DirtyOK'
BY DEF CardInv, IndInv, CtrlOK, StepsOK, DirtyOK, Has, Fewer, WriterIn

(* What an error path leaves of a slot is less than it was. *)
LEMMA FailSlotMild ==
  ASSUME CardInv, FailSlot
  PROVE  files' \in [Handle -> Slot] /\ Fewer(files', files) /\ DirtyOK'
<1>1. call.fh \in Handle /\ Cur \in Slot /\ Cur = files[call.fh]
  BY CurOK DEF CardInv
<1>2. CASE call.op \in {"read", "write", "truncate"}
  BY <1>1, <1>2, MilderWith, MilderOK DEF FailSlot
<1>3. CASE call.op = "sync"
  BY <1>1, <1>3, MilderWith, MilderOK DEF FailSlot
<1>4. CASE call.op \in {"open", "close", "unmount"}
  BY <1>1, <1>4, FreeSlotOK, MilderOK DEF FailSlot
<1>5. CASE call.op \notin {"read", "write", "truncate", "sync", "open", "close", "unmount"}
  BY <1>5, SameMild DEF FailSlot
<1>6. QED
  BY <1>2, <1>3, <1>4, <1>5

-----------------------------------------------------------------------------
(* Steps that are no harm.                                                 *)

(* The library goes on to read and write contents that are sound together. *)
LEMMA StepGood ==
  ASSUME NEW K, Good(files, K), card' \in K, View' \in K,
         files' \in [Handle -> Slot], Fewer(files', files)
  PROVE  Good(files', {card', View'})
<1>1. Good(files', K)
  BY FewerGood
<1>2. {card', View'} \subseteq K
  OBVIOUS
<1>3. QED
  BY <1>1, <1>2, SubGood

(* The same when data changes too. *)
LEMMA StepGoodMeta ==
  ASSUME NEW K, Good(files, K),
         \A k \in {card', View'} : \E j \in K : Meta(k, j),
         files' \in [Handle -> Slot], Fewer(files', files)
  PROVE  Good(files', {card', View'})
<1>1. Good(files', K)
  BY FewerGood
<1>2. QED
  BY <1>1, MetaGood

(* A step to where nothing is counted on but DirtyOK. *)
LEMMA RestSteps ==
  ASSUME DirtyOK', pc' \in {"idle", "unmount", "append", "flush"}
  PROVE  StepsOK'
BY DEF StepsOK, WriterOK, NewOK, Linkable, KeptNoDir, CutOK, SizeOK, FreeOK

(* A step to a part of a transfer with nothing to link. *)
LEMMA TransferSteps ==
  ASSUME DirtyOK', pc' \in {"chunk", "alloc", "move"},
         "NEWCL" \notin files'[call'.fh].flags,
         call'.op = "write" => WriterIn(files', call'.fh)
  PROVE  StepsOK'
BY DEF StepsOK, WriterOK, NewOK, Linkable, KeptNoDir, CutOK, SizeOK, FreeOK, Has

(* A step that leaves nothing new to read and lets the call end. *)
LEMMA RestCard ==
  ASSUME CardInv, IndInv', card' \in {card, View}, View' \in {card, View},
         files' \in [Handle -> Slot] /\ Fewer(files', files) /\ DirtyOK',
         pc' \in {"idle", "unmount", "append", "flush"}
  PROVE  CardInv'
BY StepGood, RestSteps DEF CardInv

(* The same with one contents more. *)
LEMMA RestCardNew ==
  ASSUME CardInv, IndInv', NEW k, Good(files, {card, View} \cup {k}),
         card' \in {card, View, k}, View' \in {card, View, k},
         files' \in [Handle -> Slot] /\ Fewer(files', files) /\ DirtyOK',
         pc' \in {"idle", "unmount", "append", "flush"}
  PROVE  CardInv'
BY StepGood, RestSteps DEF CardInv

(* UZEFS_ERR_DISK after a step that may have written k. *)
LEMMA DiskErrorCard ==
  ASSUME CardInv, IndInv', NEW k, Good(files, {card, View} \cup {k}),
         card' \in {card, View, k}, View' \in {card, View, k}, DiskError
  PROVE  CardInv'
<1>1. pc' \in {"idle", "unmount"}
  BY ReturnOK DEF DiskError, CardInv, IndInv, CtrlOK
<1>2. files' \in [Handle -> Slot] /\ Fewer(files', files) /\ DirtyOK'
  BY FailSlotMild DEF DiskError
<1>3. QED
  BY <1>1, <1>2, RestCardNew

(* UZEFS_ERR_DISK and UZEFS_ERR_CORRUPT after a step that only read. *)
LEMMA ErrorCard ==
  ASSUME CardInv, IndInv', card' \in {card, View}, View' \in {card, View},
         DiskError \/ Corrupt
  PROVE  CardInv'
<1>1. pc' \in {"idle", "unmount"}
  BY ReturnOK DEF DiskError, Corrupt, CardInv, IndInv, CtrlOK
<1>2. files' \in [Handle -> Slot] /\ Fewer(files', files) /\ DirtyOK'
  <2>1. CASE DiskError
    BY <2>1, FailSlotMild DEF DiskError
  <2>2. CASE Corrupt
    BY <2>2, SameMild, CurOK, FreeSlotOK, MilderOK DEF Corrupt, CardInv
  <2>3. QED
    BY <2>1, <2>2
<1>3. QED
  BY <1>1, <1>2, RestCard

-----------------------------------------------------------------------------
(* The volume.                                                             *)

(* With no file open there is nothing but the contents to be sound. *)
LEMMA AllFreeCard ==
  ASSUME CardInv, IndInv', card' \in {card, View}, View' \in {card, View},
         files' = [f \in Handle |-> FreeSlot], pc' = "idle"
  PROVE  CardInv'
<1>1. files' \in [Handle -> Slot] /\ Fewer(files', files) /\ DirtyOK'
  BY FreeSlotOK DEF Fewer, WriterIn, DirtyOK, Has
<1>2. QED
  BY <1>1, RestCard

(* Both contents are the sound one the card starts with. *)
LEMMA InitCard == SoundVolumes /\ Init => CardInv
<1> SUFFICES ASSUME SoundVolumes, Init PROVE CardInv
  OBVIOUS
<1>1. IndInv
  BY InitInv
<1>2. View = card /\ SoundChains(card)
  BY <1>1, ViewCard DEF Init, IndInv, SoundVolumes
<1>3. files \in [Handle -> Slot] /\ \A f \in Handle : files[f].flags = {}
  BY FreeSlotOK DEF Init
<1>4. Own(card, files) /\ Distinct(files)
  BY <1>3 DEF Own, Distinct, WriterIn
<1>5. Apart(card, card)
  BY <1>2 DEF SoundChains, StartInjective, Apart
<1>6. Good(files, {card, View})
  BY <1>2, <1>3, <1>4, <1>5 DEF Good
<1>7. StepsOK
  BY <1>3 DEF Init, StepsOK, WriterOK, DirtyOK, Has, NewOK, Linkable, KeptNoDir,
              CutOK, SizeOK, FreeOK
<1>8. QED
  BY <1>1, <1>6, <1>7 DEF CardInv

(* uzefs_mount, done or failed, and a power cut: the card is read as it    *)
(* is, and no file is open.                                                *)
LEMMA MountCard == ASSUME CardInv, Mount \/ MountFails \/ Crash PROVE CardInv'
<1>1. IndInv'
  BY MountInv DEF CardInv
<1>2. Drop /\ card' = card /\ files' = [f \in Handle |-> FreeSlot] /\ pc' = "idle"
  BY DEF Mount, MountFails, Crash, Drop
<1>3. View' = card'
  BY <1>2, DropOK DEF CardInv, IndInv, DiskOK
<1>4. QED
  BY <1>1, <1>2, <1>3, AllFreeCard

(* uzefs_lend and uzefs_unlend write what waits in the buffer, or drop it. *)
LEMMA LendCard ==
  ASSUME CardInv, NEW how \in Lendings, Lend(how) \/ LendFails(how)
  PROVE  CardInv'
<1>1. IndInv'
  BY LendInv DEF CardInv
<1>2. Drop /\ card' \in {card, View} /\ UNCHANGED files /\ pc' = "idle"
  BY DEF Lend, LendFails, FlushFails
<1>3. IsCard(card')
  BY <1>1 DEF IndInv, DiskOK
<1>4. View' = card'
  BY <1>2, <1>3, DropOK
<1>5. QED
  BY <1>1, <1>2, <1>4, SameMild, RestCard

(* uzefs_unmount begins without touching the card. *)
LEMMA UnmountCard == ASSUME CardInv, Unmount PROVE CardInv'
<1>1. IndInv'
  BY UnmountInv DEF CardInv
<1>2. View' = View /\ card' = card /\ UNCHANGED files /\ pc' = "unmount"
  BY SameDiskOK DEF CardInv, IndInv, Unmount
<1>3. QED
  BY <1>1, <1>2, SameMild, RestCard

(* A step to where only a writer is counted on. *)
LEMMA EntrySteps ==
  ASSUME DirtyOK', pc' = "entry", WriterIn(files', call'.fh)
  PROVE  StepsOK'
BY DEF StepsOK, WriterOK, NewOK, Linkable, KeptNoDir, CutOK, SizeOK, FreeOK

(* uzefs_unmount closes a slot: only a writer has an entry to write. *)
LEMMA UnmountCloseCard ==
  ASSUME CardInv, NEW f \in Handle, UnmountClose(f)
  PROVE  CardInv'
<1>1. IndInv'
  BY UnmountCloseInv DEF CardInv
<1>2. View' = View /\ card' = card
  BY SameDiskOK DEF CardInv, IndInv, UnmountClose
<1>3. CASE Has(f, "FAILED")
  <2>1. SetSlot(f, FreeSlot) /\ pc' = "unmount"
    BY <1>3 DEF UnmountClose
  <2>2. QED
    BY <2>1, <1>1, <1>2, FreeSlotOK, MilderOK, RestCard
<1>4. CASE ~Has(f, "FAILED") /\ ~Has(f, "DIRTY")
  <2>1. UNCHANGED files /\ pc' = "flush"
    BY <1>4 DEF UnmountClose
  <2>2. QED
    BY <2>1, <1>1, <1>2, SameMild, RestCard
<1>5. CASE ~Has(f, "FAILED") /\ Has(f, "DIRTY")
  <2>1. UNCHANGED files /\ pc' = "entry" /\ call' = [call EXCEPT !.fh = f]
    BY <1>5 DEF UnmountClose
  <2>2. call'.fh = f
    BY <2>1 DEF CardInv, IndInv, CtrlOK, CallType
  <2>3. WriterIn(files, f)
    BY <1>5 DEF CardInv, StepsOK, DirtyOK, WriterIn, Has, UnmountClose
  <2>4. WriterIn(files', call'.fh)
    BY <2>1, <2>2, <2>3 DEF WriterIn
  <2>5. files' \in [Handle -> Slot] /\ Fewer(files', files) /\ DirtyOK'
    BY <2>1, SameMild
  <2>6. Good(files', {card', View'})
    BY <2>5, <1>2, StepGood DEF CardInv
  <2>7. QED
    BY <1>1, <2>1, <2>4, <2>5, <2>6, EntrySteps DEF CardInv
<1>6. QED
  BY <1>3, <1>4, <1>5

(* The end of uzefs_unmount writes what waits in the buffer, or drops it. *)
LEMMA UnmountEndCard == ASSUME CardInv, UnmountEnd PROVE CardInv'
<1>1. IndInv'
  BY UnmountEndInv DEF CardInv
<1>2. View' \in {card, View} /\ card' \in {card, View}
  BY FlushOK, FlushFailsOK DEF UnmountEnd, CardInv, IndInv
<1>3. UNCHANGED files /\ pc' = "idle"
  BY DEF UnmountEnd
<1>4. QED
  BY <1>1, <1>2, <1>3, SameMild, RestCard

-----------------------------------------------------------------------------
(* Names.                                                                  *)

(* The scan that finds e leaves the card as it is read, but for the entries *)
(* of one sector.                                                          *)
LEMMA ScanCard ==
  ASSUME DiskOK, NEW e \in Entry, Load(Scanned(e), DirSect(e)), UNCHANGED lent
  PROVE  /\ View' = View /\ card' \in {card, View}
         /\ \A c \in Cluster : Fat(card', c) = Fat(View, c)
<1>1. DirSect(e) \in Scanned(e) /\ DirSect(e) \in Sector
  BY ScannedOK
<1>2. View' = View /\ card' \in {card, View}
  BY <1>1, LoadOK
<1>3. CASE card' = View
  BY <1>2, <1>3
<1>4. CASE lent # "kept"
  BY <1>2, <1>4, ViewCard
<1>5. CASE lent = "kept" /\ card' # View
  <2>1. Scanned(e) \subseteq DOMAIN kept
    BY <1>1, <1>5 DEF Load, CardAfterLoad
  <2>2. DOMAIN kept = {DirSect(e)}
    BY <1>1, <2>1 DEF DiskOK, KeptOK, Empty
  <2>3. ASSUME NEW c \in Cluster PROVE Fat(card, c) = Fat(View, c)
    <3>1. FatSect(c) \in Sector /\ FatSect(c) \notin DOMAIN kept
      BY <2>2, Sectors
    <3>2. QED
      BY <3>1, ViewCard DEF Fat
  <2>4. QED
    BY <1>2, <1>5, <2>3
<1>6. QED
  BY <1>3, <1>4, <1>5

(* The flags of a slot uzefs_open fills in. *)
LEMMA NewSlotFlags ==
  ASSUME NEW k, NEW e, NEW mode
  PROVE  LET r == NewSlot(e, mode, k)
         IN  /\ "WR" \in r.flags <=> "WRITE" \in mode
             /\ "OPEN" \in r.flags
             /\ "DIRTY" \notin r.flags /\ "FAILED" \notin r.flags
             /\ r.ent = e /\ r.sclust = Ent(k, e).sclust
<1> DEFINE fl == {"OPEN"} \cup (IF "READ" \in mode THEN {"RD"} ELSE {})
                          \cup (IF "WRITE" \in mode THEN {"WR"} ELSE {})
<1>1. /\ "WR" \in fl <=> "WRITE" \in mode
      /\ "OPEN" \in fl /\ "DIRTY" \notin fl /\ "FAILED" \notin fl
  OBVIOUS
<1>2. NewSlot(e, mode, k) = [FreeSlot EXCEPT !.flags = fl, !.ent = e,
                               !.sclust = Ent(k, e).sclust, !.fsize = Ent(k, e).size]
  BY DEF NewSlot
<1> HIDE DEF fl
<1>3. QED
  BY <1>1, <1>2 DEF FreeSlot

(* No writer has the chain of an entry that is not open. *)
LEMMA UnopenedChain ==
  ASSUME CardInv, NEW e \in Entry, Used(View, e), ~Busy(e, FALSE),
         NEW g \in Handle, WriterIn(files, g), Ent(View, e).sclust # 0
  PROVE  files[g].ent # e /\ files[g].sclust # Ent(View, e).sclust
<1>1. files[g].ent # e
  BY DEF Busy, WriterIn, Has
<1>2. Own(View, files)
  BY DEF CardInv, Good
<1>3. QED
  BY <1>1, <1>2 DEF Own

(* A new writer is the only one on its chain. *)
LEMMA NewWriterGood ==
  ASSUME CardInv, NEW f \in Handle, NEW r \in Slot, SetSlot(f, r), ~Has(f, "OPEN"),
         NEW e \in Entry, Used(View, e), ~Busy(e, "WR" \notin r.flags),
         r.ent = e, r.sclust \in {0, Ent(View, e).sclust},
         View' = View, card' \in {card, View},
         \A c \in Cluster : Fat(card', c) = Fat(View, c)
  PROVE  Good(files', {card', View'})
<1>1. /\ files' \in [Handle -> Slot] /\ files'[f] = r
      /\ \A g \in Handle : g # f => files'[g] = files[g]
  BY SetSlotOK DEF CardInv, IndInv, CtrlOK
<1>2. Good(files, {card, View})
  BY DEF CardInv
<1> DEFINE s == r.sclust
<1>3. CASE ~("WR" \in r.flags /\ s # 0)
  <2>1. Fewer(files', files)
    BY <1>1, <1>3 DEF Fewer, WriterIn
  <2>2. QED
    BY <1>1, <1>2, <2>1, StepGood
<1>4. CASE "WR" \in r.flags /\ s # 0
  <2>1. s \in Cluster /\ s = Ent(View, e).sclust /\ ~Busy(e, FALSE)
    BY <1>4 DEF Slot
  <2>2. SoundChains(View) /\ Own(View, files) /\ Own(card, files)
    BY <1>2 DEF Good
  <2>3. ASSUME NEW g \in Handle, WriterIn(files', g), g # f
        PROVE  WriterIn(files, g) /\ files'[g].sclust # s
    <3>1. WriterIn(files, g) /\ files'[g] = files[g]
      BY <1>1, <2>3 DEF WriterIn
    <3>2. QED
      BY <2>1, <3>1, UnopenedChain, FatValues
  <2>4. Distinct(files')
    BY <1>1, <1>2, <2>3 DEF Good, Distinct, WriterIn
  <2>5. Fat(View, s) # 0 /\ \A c \in Cluster : Fat(View, c) # s
    BY <2>1, <2>2 DEF SoundChains, PointedInUse, Points, StartUnlinked
  <2>6. ASSUME NEW k \in {card', View'} PROVE Own(k, files')
    <3>1. Fat(k, s) # 0 /\ \A c \in Cluster : Fat(k, c) # s
      BY <2>1, <2>5
    <3>2. \A g \in Entry : Used(k, g) /\ g # e => Ent(k, g).sclust # s
      <4>1. Apart(View, k)
        BY <1>2 DEF Good
      <4>2. QED
        BY <4>1, <2>1 DEF Apart
    <3>3. Own(k, files)
      BY <2>2
    <3>4. ASSUME NEW g \in Handle, WriterIn(files', g), files'[g].sclust # 0
          PROVE  LET t == files'[g].sclust
                 IN  /\ Fat(k, t) # 0
                     /\ \A c \in Cluster : Fat(k, c) # t
                     /\ \A h \in Entry : Used(k, h) /\ h # files'[g].ent =>
                          Ent(k, h).sclust # t
      <4>1. CASE g = f
        BY <4>1, <1>1, <3>1, <3>2
      <4>2. CASE g # f
        <5>1. WriterIn(files, g) /\ files'[g] = files[g]
          BY <4>2, <3>4, <1>1, <2>3
        <5>2. QED
          BY <5>1, <3>3, <3>4 DEF Own
      <4>3. QED
        BY <4>1, <4>2
    <3>5. QED
      BY <3>4 DEF Own
  <2>7. QED
    BY <1>1, <1>2, <2>4, <2>6 DEF Good
<1>5. QED
  BY <1>3, <1>4

(* uzefs_open of a file there is. *)
LEMMA OpenExistingCard ==
  ASSUME CardInv, NEW nm \in Names, NEW mode \in Modes, NEW f \in Handle, NEW e \in Entry,
         OpenExisting(nm, mode, f, e)
  PROVE  CardInv'
<1> DEFINE r == NewSlot(e, mode, View)
           cut == "TRUNC" \in mode /\ r.sclust # 0
           append == "APPEND" \in mode
           q == IF cut THEN [r EXCEPT !.sclust = 0, !.fsize = 0] ELSE r
<1>1. IndInv'
  BY OpenExistingInv DEF CardInv
<1>2. /\ View' = View /\ card' \in {card, View}
      /\ \A c \in Cluster : Fat(card', c) = Fat(View, c)
  BY ScanCard DEF OpenExisting, CardInv, IndInv
<1>3. Ent(View, e).sclust \in Cluster \cup {0} /\ Ent(View, e).size \in Nat
  BY ViewCard, Entries DEF OpenExisting, CardInv, IndInv, DirEnt
<1>4. r \in Slot
  BY <1>3, NewSlotOK
<1>5. /\ "WR" \in r.flags <=> "WRITE" \in mode
      /\ "OPEN" \in r.flags
      /\ "DIRTY" \notin r.flags /\ "FAILED" \notin r.flags
      /\ r.ent = e /\ r.sclust = Ent(View, e).sclust
  BY NewSlotFlags
<1>6. /\ SetSlot(f, q)
      /\ pc' = IF cut THEN "size" ELSE IF append THEN "append" ELSE "idle"
      /\ call' = IF cut \/ append
                 THEN [NoCall EXCEPT !.op = "open", !.fh = f,
                         !.cl = IF cut THEN r.sclust ELSE 0, !.append = append]
                 ELSE NoCall
  BY DEF OpenExisting
<1>7. ~Has(f, "OPEN") /\ ~Busy(e, "WRITE" \notin mode) /\ Used(View, e)
  BY DEF OpenExisting, Takes, IsHit, Used
<1> HIDE DEF r
<1>8. /\ q \in Slot /\ q.flags = r.flags /\ q.ent = e
      /\ q.sclust \in {0, Ent(View, e).sclust} /\ (cut => q.sclust = 0)
  BY <1>4, <1>5 DEF Slot
<1> HIDE DEF q
<1>9. Busy(e, "WR" \notin q.flags) = Busy(e, "WRITE" \notin mode)
  BY <1>5, <1>8
<1>10. Good(files', {card', View'})
  BY <1>2, <1>6, <1>7, <1>8, <1>9, NewWriterGood
<1>11. /\ files' \in [Handle -> Slot] /\ files'[f] = q
       /\ \A g \in Handle : g # f => files'[g] = files[g]
  BY <1>6, <1>8, SetSlotOK DEF CardInv, IndInv, CtrlOK
<1>12. DirtyOK'
  BY <1>5, <1>8, <1>11 DEF CardInv, StepsOK, DirtyOK, Has
<1>13. CASE ~cut
  <2>1. pc' \in {"idle", "append"}
    BY <1>6, <1>13
  <2>2. QED
    BY <2>1, <1>1, <1>10, <1>12, RestSteps DEF CardInv
<1>14. CASE cut
  <2> DEFINE s == Ent(View, e).sclust
  <2>1. pc' = "size" /\ call'.fh = f /\ call'.cl = s
    BY <1>5, <1>6, <1>14 DEF NoCall
  <2>2. "TRUNC" \in mode /\ "WRITE" \in mode
    BY <1>14, FilesAssumption DEF LegalMode
  <2>3. WriterIn(files', f)
    BY <2>2, <1>5, <1>8, <1>11 DEF WriterIn
  <2>4. s \in Cluster /\ s # 0 /\ ~Busy(e, FALSE)
    BY <1>3, <1>5, <1>7, <1>14, <2>2, FatValues
  <2>5. SoundChains(View)
    BY DEF CardInv, Good
  <2>6. \A c \in Cluster : Fat(View, c) # s
    BY <2>4, <2>5, <1>7 DEF SoundChains, StartUnlinked
  <2>7. \A g \in Entry : Used(View, g) /\ g # e => Ent(View, g).sclust # s
    BY <2>4, <2>5, <1>7 DEF SoundChains, StartInjective
  <2>8. NoWriter(files', s)
    <3>1. ASSUME NEW g \in Handle, WriterIn(files', g) PROVE files'[g].sclust # s
      <4>1. CASE g = f
        BY <4>1, <2>4, <1>8, <1>11, <1>14
      <4>2. CASE g # f
        BY <4>2, <3>1, <2>4, <1>7, <1>11, UnopenedChain DEF WriterIn
      <4>3. QED
        BY <4>1, <4>2
    <3>2. QED
      BY <3>1 DEF NoWriter
  <2>9. Cur'.ent = e
    BY <2>1, <1>8, <1>11 DEF Cur
  <2> HIDE DEF s
  <2>10. SizeOK'
    BY <1>2, <2>1, <2>4, <2>6, <2>7, <2>8, <2>9 DEF SizeOK
  <2>11. StepsOK'
    BY <1>12, <2>1, <2>3, <2>10
       DEF StepsOK, WriterOK, NewOK, Linkable, KeptNoDir, CutOK, FreeOK
  <2>12. QED
    BY <1>1, <1>10, <2>11 DEF CardInv
<1>15. QED
  BY <1>13, <1>14

(* uzefs_open creating a file. *)
LEMMA OpenNewCard ==
  ASSUME CardInv, NEW nm \in Names, NEW mode, NEW f \in Handle, NEW e \in Entry,
         NEW last \in Entry,
         OpenNew(nm, mode, f, e, last) \/ OpenNewFails(nm, mode, f, e, last)
  PROVE  CardInv'
<1> DEFINE r == [name |-> nm, sclust |-> 0, size |-> 0]
           k == Created(View, e, nm)
<1>1. IndInv'
  BY OpenNewInv DEF CardInv
<1>2. pc' = "idle" /\ UNCHANGED lent
  BY DEF OpenNew, OpenNewFails, CreateChecks, OpenChecks
<1>3. View' \in {card, View, k} /\ card' \in {card, View, k}
  BY <1>2, CreatedOK DEF OpenNew, OpenNewFails, CardInv, IndInv
<1>4. r \in DirEnt /\ r.sclust \notin Cluster
  BY GeometryAssumption, FatValues DEF DirEnt
<1>5. IsCard(View) /\ Good(files, {card, View})
  BY ViewCard DEF CardInv, IndInv
<1>6. k = SetEnt(View, e, r)
  BY DEF Created
<1> HIDE DEF r
<1>7. Good(files, {card, View} \cup {k}) /\ Ent(k, e) = r
  <2>1. Good(files, {card, View} \cup {SetEnt(View, e, r)})
    BY <1>4, <1>5, SetEntGood
  <2>2. Ent(SetEnt(View, e, r), e) = r
    BY <1>4, <1>5, SetEntCard
  <2> HIDE DEF k
  <2>3. QED
    BY <1>6, <2>1, <2>2
<1> HIDE DEF k
<1>8. files' \in [Handle -> Slot] /\ Fewer(files', files) /\ DirtyOK'
  <2>1. CASE OpenNewFails(nm, mode, f, e, last)
    BY <2>1, SameMild DEF OpenNewFails
  <2>2. CASE OpenNew(nm, mode, f, e, last)
    <3> DEFINE q == NewSlot(e, mode, k)
    <3>1. SetSlot(f, q)
      BY <2>2 DEF OpenNew, k
    <3>2. Ent(k, e).sclust = 0 /\ Ent(k, e).size = 0
      BY <1>7 DEF r
    <3>3. q \in Slot
      BY <3>2, NewSlotOK
    <3>4. q.sclust = 0 /\ "DIRTY" \notin q.flags
      BY <3>2, NewSlotFlags
    <3> HIDE DEF q
    <3>5. /\ files' \in [Handle -> Slot] /\ files'[f] = q
          /\ \A g \in Handle : g # f => files'[g] = files[g]
      BY <3>1, <3>3, SetSlotOK DEF CardInv, IndInv, CtrlOK
    <3>6. QED
      BY <3>4, <3>5 DEF Fewer, WriterIn, CardInv, StepsOK, DirtyOK, Has
  <2>3. QED
    BY <2>1, <2>2
<1>9. QED
  BY <1>1, <1>2, <1>3, <1>7, <1>8, RestCardNew

(* A lookup only reads. *)
LEMMA StatCard == ASSUME CardInv, NEW nm, NEW e \in Entry, Stat(nm, e) PROVE CardInv'
<1>1. IndInv'
  BY StatInv DEF CardInv
<1>2. View' \in {card, View} /\ card' \in {card, View}
  BY ScannedOK, LoadOK, LoadFailsOK DEF CardInv, IndInv, Stat
<1>3. UNCHANGED files /\ pc' = "idle"
  BY DEF Stat
<1>4. QED
  BY <1>1, <1>2, <1>3, SameMild, RestCard

(* uzefs_delete: no entry names the chain once the entry is removed. *)
LEMMA DeleteCard ==
  ASSUME CardInv, NEW nm \in Names, NEW e \in Entry, Delete(nm, e)
  PROVE  CardInv'
<1> DEFINE r == [Ent(View, e) EXCEPT !.name = Removed]
           cl == Ent(View, e).sclust
           k == SetEnt(View, e, r)
<1>1. IndInv'
  BY DeleteInv DEF CardInv
<1>2. pc = "idle" /\ UNCHANGED <<lent, mounted, hint, files>>
  BY DEF Delete, Closed
<1>3. /\ Ent(View, e) \in DirEnt /\ IsCard(View)
      /\ Good(files, {card, View}) /\ SoundChains(View)
  BY ViewCard, Entries DEF CardInv, IndInv, Good
<1>4. r \in DirEnt /\ r.name \notin Names
  BY <1>3, NamesAssumption DEF DirEnt
<1>5. Used(View, e) /\ ~Busy(e, FALSE)
  BY DEF Delete, Closed, IsHit, Used
<1>6. \/ Put(Scanned(e), DirSect(e), k) /\ (pc' = "free" => call'.cl = cl)
      \/ PutFails(Scanned(e), k) /\ UNCHANGED <<pc, call>>
  BY <1>2 DEF Delete, NoCall
<1>7. pc' \in {"idle", "free"}
  BY <1>2 DEF Delete
<1>8. /\ Put(Scanned(e), DirSect(e), k) => View' = k
      /\ View' \in {card, View, k} /\ card' \in {card, View, k}
  BY <1>2, <1>4, <1>6, ScannedOK, EntPutOK, EntPutFailsOK DEF CardInv, IndInv
<1>9. Good(files, {card, View} \cup {k})
  BY <1>3, <1>4, SetEntGood
<1>10. /\ \A g \in Entry : Ent(k, g) = IF g = e THEN r ELSE Ent(View, g)
       /\ \A c \in Cluster : Fat(k, c) = Fat(View, c)
  BY <1>3, <1>4, SetEntCard
<1> HIDE DEF k
<1>11. files' \in [Handle -> Slot] /\ Fewer(files', files) /\ DirtyOK'
  BY <1>2, SameMild
<1>12. CASE pc' = "idle"
  BY <1>1, <1>8, <1>9, <1>11, <1>12, RestCardNew
<1>13. CASE pc' = "free"
  <2>1. View' = k /\ call'.cl = cl
    BY <1>2, <1>6, <1>8, <1>13
  <2>2. ASSUME cl \in Cluster PROVE ~Points(k, cl) /\ NoWriter(files, cl)
    <3>1. \A g \in Entry : Used(k, g) => g # e /\ Used(View, g) /\ Ent(k, g) = Ent(View, g)
      BY <1>4, <1>10 DEF Used
    <3> HIDE DEF r
    <3>2. \A g \in Entry : Used(k, g) => Ent(k, g).sclust # cl
      BY <3>1, <1>3, <1>5, <2>2 DEF SoundChains, StartInjective
    <3>3. \A c \in Cluster : Fat(k, c) # cl
      BY <1>3, <1>5, <1>10, <2>2 DEF SoundChains, StartUnlinked
    <3>4. NoWriter(files, cl)
      BY <1>5, <2>2, FatValues, UnopenedChain DEF NoWriter
    <3>5. QED
      BY <3>2, <3>3, <3>4 DEF Points
  <2>3. FreeOK'
    BY <1>2, <2>1, <2>2 DEF FreeOK, NoWriter, WriterIn
  <2>4. StepsOK'
    BY <1>11, <1>13, <2>3 DEF StepsOK, WriterOK, NewOK, Linkable, KeptNoDir, CutOK, SizeOK
  <2>5. Good(files', {card', View'})
    BY <1>8, <1>9, <1>11, StepGood
  <2>6. QED
    BY <1>1, <2>4, <2>5 DEF CardInv
<1>14. QED
  BY <1>7, <1>12, <1>13

(* uzefs_rename: the entry starts the chain it did. *)
LEMMA RenameCard ==
  ASSUME CardInv, NEW from \in Names, NEW to \in Names, NEW e \in Entry,
         NEW last \in Entry, Rename(from, to, e, last)
  PROVE  CardInv'
<1> DEFINE r == [Ent(View, e) EXCEPT !.name = to]
           k == SetEnt(View, e, r)
<1>1. IndInv'
  BY RenameInv DEF CardInv
<1>2. pc' = "idle" /\ UNCHANGED <<lent, files>>
  BY DEF Rename, Closed
<1>3. /\ Ent(View, e) \in DirEnt /\ IsCard(View)
      /\ Good(files, {card, View}) /\ SoundChains(View) /\ Own(View, files)
  BY ViewCard, Entries DEF CardInv, IndInv, Good
<1>4. r \in DirEnt /\ r.sclust = Ent(View, e).sclust
  BY <1>3 DEF DirEnt
<1>5. Used(View, e) /\ ~Busy(e, FALSE)
  BY DEF Rename, Closed, IsHit, Used
<1>6. View' \in {card, View, k} /\ card' \in {card, View, k}
  BY <1>2, <1>4, ScannedOK, EntPutOK, EntPutFailsOK DEF Rename, CardInv, IndInv
<1> HIDE DEF r
<1>7. ASSUME r.sclust \in Cluster
      PROVE  /\ Fat(View, r.sclust) # 0
             /\ \A c \in Cluster : Fat(View, c) # r.sclust
             /\ \A j \in {card, View} : \A g \in Entry :
                  Used(j, g) /\ g # e => Ent(j, g).sclust # r.sclust
             /\ \A f \in Handle :
                  WriterIn(files, f) /\ files[f].ent # e => files[f].sclust # r.sclust
  <2>1. Fat(View, r.sclust) # 0 /\ \A c \in Cluster : Fat(View, c) # r.sclust
    BY <1>3, <1>4, <1>5, <1>7 DEF SoundChains, PointedInUse, Points, StartUnlinked
  <2>2. \A j \in {card, View} : Apart(View, j)
    BY <1>3 DEF Good
  <2>3. \A j \in {card, View} : \A g \in Entry :
          Used(j, g) /\ g # e => Ent(j, g).sclust # r.sclust
    BY <1>4, <1>5, <1>7, <2>2 DEF Apart
  <2>4. r.sclust # 0
    BY <1>7, FatValues
  <2>5. QED
    BY <1>4, <1>5, <2>1, <2>3, <2>4, UnopenedChain
<1>8. Good(files, {card, View} \cup {k})
  BY <1>3, <1>4, <1>7, SetEntGood
<1> HIDE DEF k
<1>9. QED
  BY <1>1, <1>2, <1>6, <1>8, SameMild, RestCardNew

-----------------------------------------------------------------------------
(* Positions and transfers.                                                *)

(* A slot moves, or marks change: nothing that the soundness rests on. *)
LEMMA MildCard ==
  ASSUME CardInv, IndInv', card' \in {card, View}, View' \in {card, View},
         NEW f \in Handle, NEW r \in Slot, SetSlot(f, r), Milder(r, files[f]),
         pc' \in {"idle", "unmount", "append", "flush"}
  PROVE  CardInv'
BY MilderOK, RestCard

(* The same with a transfer going on. *)
LEMMA TransferCard ==
  ASSUME CardInv, IndInv', card' \in {card, View}, View' \in {card, View},
         NEW f \in Handle, NEW r \in Slot, SetSlot(f, r), Milder(r, files[f]),
         "NEWCL" \notin r.flags, "FAILED" \notin r.flags,
         pc' \in {"chunk", "alloc", "move"}, call'.fh = f,
         call'.op = "write" => WriterIn(files, f)
  PROVE  CardInv'
<1>1. files' \in [Handle -> Slot] /\ Fewer(files', files) /\ DirtyOK'
  BY MilderOK
<1>2. files'[f] = r
  BY SetSlotOK DEF CardInv, IndInv, CtrlOK
<1>3. call'.op = "write" => WriterIn(files', f)
  BY <1>2 DEF WriterIn, Milder
<1>4. Good(files', {card', View'})
  BY <1>1, StepGood DEF CardInv
<1>5. StepsOK'
  BY <1>1, <1>2, <1>3, TransferSteps
<1>6. QED
  BY <1>4, <1>5 DEF CardInv

(* A slot is no more than itself. *)
LEMMA MilderRefl ==
  ASSUME NEW f \in Handle, files \in [Handle -> Slot]
  PROVE  Milder(files[f], files[f])
BY DEF Milder

(* Only a writer writes. *)
LEMMA WriteByWriter ==
  ASSUME CardInv, pc \in {"chunk", "alloc", "move", "link", "join"}, call.op = "write"
  PROVE  WriterIn(files, call.fh)
BY DEF CardInv, StepsOK, WriterOK

(* A chunk that leaves the chains alone is followed by another, or by the  *)
(* end of the call.                                                        *)
LEMMA ContinueCard ==
  ASSUME CardInv, IndInv', card' \in {card, View}, View' \in {card, View},
         NEW r \in Slot, SetSlot(call.fh, r), Milder(r, Cur),
         "NEWCL" \notin r.flags, "FAILED" \notin r.flags,
         pc \in {"chunk", "alloc", "move", "link", "join"},
         NEW left, Continue(left)
  PROVE  CardInv'
<1>1. call.fh \in Handle /\ Cur = files[call.fh] /\ call \in CallType
  BY CurOK DEF CardInv, IndInv, CtrlOK
<1>2. CASE left = 0
  <2>1. pc' \in {"idle", "unmount"}
    BY <1>1, <1>2, ReturnOK DEF Continue
  <2>2. QED
    BY <1>1, <2>1, MildCard
<1>3. CASE left # 0
  <2>1. pc' = "chunk" /\ call' = [call EXCEPT !.left = left]
    BY <1>3 DEF Continue
  <2>2. call'.op = call.op /\ call'.fh = call.fh
    BY <1>1, <2>1 DEF CallType
  <2>3. QED
    BY <1>1, <2>1, <2>2, WriteByWriter, TransferCard
<1>4. QED
  BY <1>2, <1>3

(* uzefs_open going to the end. *)
LEMMA AppendCard == ASSUME CardInv, Append PROVE CardInv'
<1>1. IndInv'
  BY AppendInv DEF CardInv
<1>2. UNCHANGED lent
  BY DEF Append
<1>3. View' \in {card, View} /\ card' \in {card, View}
  BY <1>2, LoadWalkOK, LoadFailsOK DEF Append, CardInv, IndInv
<1>4. call.fh \in Handle /\ Cur \in Slot /\ Cur = files[call.fh] /\ Cur.fsize \in Nat
  BY CurOK DEF CardInv, Slot
<1>5. CASE CanReach(Cur, Cur.fsize) /\ SetSlot(call.fh, At(Cur, Cur.fsize)) /\ Return
  <2> DEFINE r == At(Cur, Cur.fsize)
  <2>1. r \in Slot
    BY <1>4, <1>5, AtOK
  <2>2. r.ent = Cur.ent /\ r.sclust = Cur.sclust /\ r.flags = Cur.flags
    BY <1>4, MilderAt
  <2>3. SetSlot(call.fh, r) /\ pc' \in {"idle", "unmount"}
    BY <1>5, ReturnOK DEF CardInv, IndInv, CtrlOK
  <2> HIDE DEF r
  <2>4. Milder(r, Cur)
    BY <2>2 DEF Milder
  <2>5. QED
    BY <1>1, <1>3, <1>4, <2>1, <2>3, <2>4, MildCard
<1>6. CASE DiskError \/ Corrupt
  BY <1>1, <1>3, <1>6, ErrorCard
<1>7. QED
  BY <1>5, <1>6 DEF Append

(* uzefs_seek; past the end the zeros are written by a writer. *)
LEMMA SeekCard ==
  ASSUME CardInv, NEW f \in Handle, NEW pos \in 0 .. MaxSize, Seek(f, pos)
  PROVE  CardInv'
<1> DEFINE past == pos > files[f].fsize
           to == IF past THEN files[f].fsize ELSE pos
           r == IF past THEN With(files[f], {}, {"CONTIG"}) ELSE files[f]
<1>1. IndInv'
  BY SeekInv DEF CardInv
<1>2. /\ Ready(f) /\ UNCHANGED <<lent, mounted, hint>>
      /\ past => CanWrite(f)
  BY DEF Seek
<1>3. /\ pc = "idle" /\ files[f] \in Slot
      /\ "FAILED" \notin files[f].flags /\ "NEWCL" \notin files[f].flags
  BY <1>2, ReadyOK DEF CardInv
<1>4. to \in Nat
  BY <1>3, FilesAssumption DEF Slot
<1>5. /\ r \in Slot /\ Milder(r, files[f])
      /\ "NEWCL" \notin r.flags /\ "FAILED" \notin r.flags
  <2> DEFINE q == With(files[f], {}, {"CONTIG"})
  <2>1. q \in Slot /\ q.flags = files[f].flags \ {"CONTIG"} /\ Milder(q, files[f])
    BY <1>3, WithoutOK, MilderWith
  <2>2. Milder(files[f], files[f])
    BY MilderRefl DEF CardInv, IndInv, CtrlOK
  <2> HIDE DEF q, past
  <2>3. QED
    BY <1>3, <2>1, <2>2 DEF q
<1>6. \/ /\ LoadWalk(r.sclust, Steps(to))
         /\ IF CanReach(r, to)
            THEN IF past THEN Zeros(f, At(r, to), pos - to)
                 ELSE SetSlot(f, At(r, to)) /\ UNCHANGED <<pc, call>>
            ELSE SetSlot(f, r) /\ UNCHANGED <<pc, call>>
      \/ /\ LoadFails(WalkLoads(View, r.sclust, Steps(to)))
         /\ SetSlot(f, With(r, {"FAILED"}, {}))
         /\ UNCHANGED <<pc, call>>
  BY DEF Seek
<1>7. past => WriterIn(files, f)
  BY <1>2 DEF CanWrite, Ready, WriterIn, Has
<1> HIDE DEF past, to, r
<1>8. View' \in {card, View} /\ card' \in {card, View}
  BY <1>2, <1>6, LoadWalkOK, LoadFailsOK DEF CardInv, IndInv
<1>9. ASSUME CanReach(r, to)
      PROVE  /\ At(r, to) \in Slot /\ At(r, to).flags = r.flags
             /\ Milder(At(r, to), files[f])
  <2>1. At(r, to) \in Slot /\ At(r, to).flags = r.flags
    BY <1>4, <1>5, <1>9, AtOK
  <2>2. Milder(At(r, to), r)
    BY <1>5, MilderAt DEF Milder
  <2>3. QED
    BY <1>5, <2>1, <2>2, MilderTrans
<1>10. With(r, {"FAILED"}, {}) \in Slot /\ Milder(With(r, {"FAILED"}, {}), files[f])
  BY <1>5, MilderWith, MilderTrans
<1>11. CASE CanReach(r, to) /\ past /\ Zeros(f, At(r, to), pos - to)
  <2>1. /\ SetSlot(f, At(r, to)) /\ pc' = "chunk"
        /\ call'.fh = f
    BY <1>11 DEF Zeros, NoCall
  <2>2. QED
    BY <2>1, <1>1, <1>5, <1>7, <1>8, <1>9, <1>11, TransferCard
<1>12. CASE CanReach(r, to) /\ SetSlot(f, At(r, to)) /\ UNCHANGED <<pc, call>>
  BY <1>12, <1>1, <1>3, <1>8, <1>9, MildCard
<1>13. CASE SetSlot(f, r) /\ UNCHANGED <<pc, call>>
  BY <1>13, <1>1, <1>3, <1>5, <1>8, MildCard
<1>14. CASE SetSlot(f, With(r, {"FAILED"}, {})) /\ UNCHANGED <<pc, call>>
  BY <1>14, <1>1, <1>3, <1>8, <1>10, MildCard
<1>15. QED
  BY <1>6, <1>11, <1>12, <1>13, <1>14

(* uzefs_read begins without touching the card. *)
LEMMA ReadCard ==
  ASSUME CardInv, NEW f \in Handle, NEW n \in 1 .. MaxXfer, Read(f, n)
  PROVE  CardInv'
<1>1. IndInv'
  BY ReadInv DEF CardInv
<1>2. /\ Ready(f) /\ UNCHANGED <<disk, lent, files>> /\ pc' = "chunk"
      /\ call'.op = "read" /\ call'.fh = f
  BY DEF Read, BeginXfer, NoCall
<1>3. files[f] \in Slot /\ "FAILED" \notin files[f].flags /\ "NEWCL" \notin files[f].flags
  BY <1>2, ReadyOK DEF CardInv
<1>4. SetSlot(f, files[f]) /\ Milder(files[f], files[f])
  BY <1>2, MilderRefl DEF SetSlot, CardInv, IndInv, CtrlOK
<1>5. View' = View /\ card' = card
  BY <1>2, SameDiskOK DEF CardInv, IndInv
<1>6. QED
  BY <1>1, <1>2, <1>3, <1>4, <1>5, TransferCard

(* uzefs_write begins without touching the card, and with a writer. *)
LEMMA WriteCard ==
  ASSUME CardInv, NEW f \in Handle, NEW n \in 1 .. MaxXfer, Write(f, n)
  PROVE  CardInv'
<1> DEFINE r == With(files[f], {}, {"CONTIG"})
<1>1. IndInv'
  BY WriteInv DEF CardInv
<1>2. /\ Ready(f) /\ WriterIn(files, f) /\ SetSlot(f, r)
      /\ UNCHANGED <<disk, lent>> /\ pc' = "chunk" /\ call'.fh = f
  BY DEF Write, BeginXfer, NoCall, CanWrite, Ready, WriterIn, Has
<1>3. files[f] \in Slot /\ "FAILED" \notin files[f].flags /\ "NEWCL" \notin files[f].flags
  BY <1>2, ReadyOK DEF CardInv
<1>4. r \in Slot /\ Milder(r, files[f]) /\ r.flags = files[f].flags \ {"CONTIG"}
  BY <1>3, WithoutOK, MilderWith
<1> HIDE DEF r
<1>5. View' = View /\ card' = card
  BY <1>2, SameDiskOK DEF CardInv, IndInv
<1>6. QED
  BY <1>1, <1>2, <1>3, <1>4, <1>5, TransferCard

(* uzefs_fragments *)
LEMMA FragmentsCard ==
  ASSUME CardInv, NEW f \in Handle, Fragments(f)
  PROVE  CardInv'
<1> DEFINE r == files[f]
           left == Steps(r.fsize)
<1>1. IndInv'
  BY FragmentsInv DEF CardInv
<1>2. Ready(f) /\ UNCHANGED <<lent, mounted, hint, pc, call>>
  BY DEF Fragments
<1>3. pc = "idle" /\ r \in Slot
  BY <1>2, ReadyOK DEF CardInv
<1>4. PICK n \in 0 .. left :
        \/ /\ LoadWalk(r.sclust + n, left - n)
           /\ \E on \in {{"CONTIG"}, {}} : SetSlot(f, With(r, on, {}))
        \/ /\ \/ LoadFails(WalkLoads(View, r.sclust + n, left - n))
              \/ UNCHANGED disk
           /\ SetSlot(f, With(r, {"FAILED"}, {}))
  BY DEF Fragments
<1>5. View' \in {card, View} /\ card' \in {card, View}
  BY <1>2, <1>4, LoadWalkOK, LoadFailsOK, SameDiskOK DEF CardInv, IndInv
<1>6. PICK on \in {{"CONTIG"}, {}, {"FAILED"}} : SetSlot(f, With(r, on, {}))
  BY <1>4
<1>7. With(r, on, {}) \in Slot /\ Milder(With(r, on, {}), r)
  <2>1. on \in SUBSET {"FAILED", "CONTIG", "NEWCL", "DIRTY"} /\ "DIRTY" \notin on
    OBVIOUS
  <2> HIDE DEF r
  <2>2. QED
    BY <1>3, <2>1, MilderWith
<1>8. QED
  BY <1>1, <1>2, <1>3, <1>5, <1>6, <1>7, MildCard

(* locate *)
LEMMA SameClusterCard == ASSUME CardInv, SameCluster PROVE CardInv'
<1> DEFINE r == IF AtBoundary THEN [Cur EXCEPT !.csect = @ + 1] ELSE Cur
<1>1. IndInv'
  BY SameClusterInv DEF CardInv
<1>2. /\ pc = "chunk" /\ SetSlot(call.fh, r) /\ pc' = "move" /\ UNCHANGED call
      /\ UNCHANGED <<disk, lent>>
  BY DEF SameCluster, Goto
<1>3. /\ call.fh \in Handle /\ Cur \in Slot /\ Cur = files[call.fh]
      /\ "NEWCL" \notin Cur.flags /\ "FAILED" \notin Cur.flags
  BY <1>2, CurOK DEF CardInv
<1>4. r.flags = Cur.flags /\ Milder(r, Cur)
  BY <1>3 DEF Slot, Milder
<1> HIDE DEF r
<1>5. r \in Slot
  BY <1>1, <1>2, <1>3 DEF SetSlot, CardInv, IndInv, CtrlOK
<1>6. View' = View /\ card' = card
  BY <1>2, SameDiskOK DEF CardInv, IndInv
<1>7. QED
  BY <1>1, <1>2, <1>3, <1>4, <1>5, <1>6, WriteByWriter, TransferCard

(* locate into the next cluster only reads. *)
LEMMA NextClusterCard == ASSUME CardInv, NextCluster PROVE CardInv'
<1> DEFINE nx == IF Cur.cclust # 0 THEN FatNext(View, Cur.cclust) ELSE Cur.sclust
           S == IF Cur.cclust # 0 THEN {FatSect(Cur.cclust)} ELSE {}
           r == [Cur EXCEPT !.cclust = nx, !.csect = ClustSect(nx)]
<1>1. IndInv'
  BY NextClusterInv DEF CardInv
<1>2. pc = "chunk" /\ UNCHANGED <<lent, mounted, hint>>
  BY DEF NextCluster
<1>3. /\ call.fh \in Handle /\ Cur \in Slot /\ Cur = files[call.fh]
      /\ "NEWCL" \notin Cur.flags /\ "FAILED" \notin Cur.flags
  BY <1>2, CurOK DEF CardInv
<1>4. S # {} => FatSect(Cur.cclust) \in S /\ FatSect(Cur.cclust) \in Sector
  BY <1>3, Sectors DEF Slot
<1>5. \/ Load(S, FatSect(Cur.cclust))
      \/ LoadFails(S)
  BY DEF NextCluster
<1>6. View' \in {card, View} /\ card' \in {card, View}
  BY <1>2, <1>4, <1>5, LoadOK, LoadFailsOK DEF CardInv, IndInv
<1>7. \/ SetSlot(call.fh, r) /\ Goto("move")
      \/ UNCHANGED files /\ Goto("alloc")
      \/ Corrupt
      \/ DiskError
  BY DEF NextCluster
<1>8. r.flags = Cur.flags /\ Milder(r, Cur)
  BY <1>3 DEF Slot, Milder
<1> HIDE DEF nx, S, r
<1>9. CASE SetSlot(call.fh, r) /\ Goto("move")
  <2>1. r \in Slot
    BY <1>1, <1>3, <1>9 DEF SetSlot, CardInv, IndInv, CtrlOK
  <2>2. QED
    BY <1>1, <1>2, <1>3, <1>6, <1>8, <1>9, <2>1, WriteByWriter, TransferCard DEF Goto
<1>10. CASE UNCHANGED files /\ Goto("alloc")
  <2>1. SetSlot(call.fh, Cur) /\ Milder(Cur, Cur)
    BY <1>3, <1>10, MilderRefl DEF SetSlot, CardInv, IndInv, CtrlOK
  <2>2. QED
    BY <1>1, <1>2, <1>3, <1>6, <1>10, <2>1, WriteByWriter, TransferCard DEF Goto
<1>11. CASE Corrupt \/ DiskError
  BY <1>1, <1>6, <1>11, ErrorCard
<1>12. QED
  BY <1>7, <1>9, <1>10, <1>11

(* alloc_cluster on a full card. *)
LEMMA AllocFullCard == ASSUME CardInv, AllocFull PROVE CardInv'
<1>1. IndInv'
  BY AllocFullInv DEF CardInv
<1>2. UNCHANGED lent
  BY DEF AllocFull
<1>3. View' \in {card, View} /\ card' \in {card, View}
  BY <1>2, LastFatOK, LoadOK, LoadFailsOK DEF AllocFull, CardInv, IndInv
<1>4. CASE Return /\ UNCHANGED files
  BY <1>1, <1>3, <1>4, ReturnOK, SameMild, RestCard DEF CardInv, IndInv, CtrlOK
<1>5. CASE DiskError
  BY <1>1, <1>3, <1>5, ErrorCard
<1>6. QED
  BY <1>4, <1>5 DEF AllocFull

(* What moving a chunk leaves of a slot. *)
LEMMA MovedMild ==
  ASSUME IndInv
  PROVE  Moved(Cur) \in Slot /\ Moved(Cur).flags = Cur.flags /\ Milder(Moved(Cur), Cur)
<1>1. Moved(Cur) \in Slot /\ Moved(Cur).flags = Cur.flags
  BY ChunkOK
<1>2. Moved(Cur).ent = Cur.ent /\ Moved(Cur).sclust = Cur.sclust
  BY CurOK DEF Moved, Slot
<1>3. QED
  BY <1>1, <1>2 DEF Milder

(* A chunk read changes no more than the position. *)
LEMMA ReadChunkCard == ASSUME CardInv, ReadChunk PROVE CardInv'
<1> DEFINE s == DataSect(Cur.csect)
           S == IF Chunk = UPS /\ s \notin DOMAIN kept THEN {} ELSE {s}
<1>1. IndInv'
  BY ReadChunkInv DEF CardInv
<1>2. pc = "move" /\ call.op = "read" /\ UNCHANGED <<lent, mounted, hint>>
  BY DEF ReadChunk
<1>3. Cur \in Slot /\ Cur = files[call.fh] /\ "FAILED" \notin Cur.flags
  BY <1>2, CurOK DEF CardInv
<1>4. "NEWCL" \notin Cur.flags
  BY <1>2, <1>3 DEF CardInv, IndInv, CtrlOK, HintOK, Has
<1>5. s \in Sector /\ (S # {} => s \in S)
  BY <1>3, Sectors DEF Slot
<1>6. \/ Load(S, s) /\ SetSlot(call.fh, Moved(Cur)) /\ Continue(call.left - Chunk)
      \/ (LoadFails(S) \/ UNCHANGED disk) /\ DiskError
  BY DEF ReadChunk
<1> HIDE DEF S, s
<1>7. View' \in {card, View} /\ card' \in {card, View}
  BY <1>2, <1>5, <1>6, LoadOK, LoadFailsOK, SameDiskOK DEF CardInv, IndInv
<1>8. CASE SetSlot(call.fh, Moved(Cur)) /\ Continue(call.left - Chunk)
  BY <1>1, <1>2, <1>3, <1>4, <1>7, <1>8, MovedMild, ContinueCard DEF CardInv
<1>9. CASE DiskError
  BY <1>1, <1>7, <1>9, ErrorCard
<1>10. QED
  BY <1>6, <1>8, <1>9

-----------------------------------------------------------------------------
(* uzefs_sync and uzefs_close.                                             *)

(* uzefs_sync and uzefs_close begin without touching the card: only a      *)
(* writer has an entry to write.                                           *)
LEMMA SyncCard ==
  ASSUME CardInv, NEW f \in Handle, NEW op \in {"sync", "close"}, Sync(f, op)
  PROVE  CardInv'
<1>1. IndInv'
  BY SyncInv DEF CardInv
<1>2. View' = View /\ card' = card
  BY SameDiskOK DEF CardInv, IndInv, Sync
<1>3. CASE Has(f, "FAILED")
  BY <1>1, <1>2, <1>3, FreeSlotOK, MilderOK, RestCard DEF Sync
<1>4. CASE ~Has(f, "FAILED")
  <2>1. /\ UNCHANGED files /\ call'.fh = f
        /\ pc' = IF Has(f, "DIRTY") THEN "entry" ELSE "flush"
    BY <1>4 DEF Sync, NoCall
  <2>2. files' \in [Handle -> Slot] /\ Fewer(files', files) /\ DirtyOK'
    BY <2>1, SameMild
  <2>3. CASE ~Has(f, "DIRTY")
    BY <1>1, <1>2, <2>1, <2>2, <2>3, RestCard
  <2>4. CASE Has(f, "DIRTY")
    <3>1. WriterIn(files, f)
      BY <1>4, <2>4 DEF CardInv, StepsOK, DirtyOK, WriterIn, Has, Sync
    <3>2. WriterIn(files', call'.fh)
      BY <2>1, <3>1 DEF WriterIn
    <3>3. Good(files', {card', View'})
      BY <1>2, <2>2, StepGood DEF CardInv
    <3>4. QED
      BY <1>1, <2>1, <2>2, <2>4, <3>2, <3>3, EntrySteps DEF CardInv
  <2>5. QED
    BY <2>3, <2>4
<1>5. QED
  BY <1>3, <1>4

(* A flush puts on the card what the library reads. *)
LEMMA SyncDoneCard == ASSUME CardInv, SyncDone PROVE CardInv'
<1>1. IndInv'
  BY SyncDoneInv DEF CardInv
<1>2. View' = View /\ card' = View
  BY FlushOK DEF SyncDone, CardInv, IndInv
<1>3. call.fh \in Handle /\ Cur \in Slot /\ Cur = files[call.fh]
  BY CurOK DEF CardInv
<1>4. pc' \in {"idle", "unmount"}
  BY ReturnOK DEF SyncDone, CardInv, IndInv, CtrlOK
<1>5. CASE SetSlot(call.fh, With(Cur, {}, {"DIRTY"}))
  BY <1>1, <1>2, <1>3, <1>4, <1>5, MilderWith, MildCard
<1>6. CASE SetSlot(call.fh, FreeSlot)
  BY <1>1, <1>2, <1>3, <1>4, <1>6, FreeSlotOK, MilderOK, RestCard
<1>7. QED
  BY <1>5, <1>6 DEF SyncDone

(* A flush that fails leaves what the library read, or what the card had. *)
LEMMA SyncFlushFailsCard == ASSUME CardInv, SyncFlushFails PROVE CardInv'
<1>1. IndInv'
  BY SyncFlushFailsInv DEF CardInv
<1>2. View' \in {card, View} /\ card' \in {card, View}
  BY FlushFailsOK DEF SyncFlushFails, CardInv, IndInv
<1>3. QED
  BY <1>1, <1>2, ErrorCard DEF SyncFlushFails

-----------------------------------------------------------------------------
(* Clusters taken, linked and freed.                                       *)

(* Contents that differ in data sectors only. *)
LEMMA DataMeta ==
  ASSUME NEW j, NEW k, \A x \in Sector : x \notin DataSectors => j[x] = k[x]
  PROVE  Meta(j, k)
BY Sectors DEF Meta, Fat, Ent

(* What points at a cluster does not depend on data. *)
LEMMA MetaPoints ==
  ASSUME NEW j, NEW k, Meta(j, k), NEW cl \in Cluster
  PROVE  Points(j, cl) = Points(k, cl) /\ Fat(j, cl) = Fat(k, cl)
<1>1. \A e \in Entry : Used(j, e) = Used(k, e)
  BY DEF Used, Meta
<1>2. QED
  BY <1>1 DEF Meta, Points

(* A cluster that is free is in no chain, and is no writer's first. *)
LEMMA FreeUnpointed ==
  ASSUME CardInv, NEW cl \in Cluster, Fat(View, cl) = 0
  PROVE  ~Points(View, cl) /\ NoWriter(files, cl)
<1>1. SoundChains(View) /\ Own(View, files)
  BY DEF CardInv, Good
<1>2. ~Points(View, cl)
  BY <1>1 DEF SoundChains, PointedInUse
<1>3. NoWriter(files, cl)
  BY <1>1, FatValues DEF Own, NoWriter
<1>4. QED
  BY <1>2, <1>3

(* The next cluster of a chain hangs on the one before it alone. *)
LEMMA LinkedOnce ==
  ASSUME CardInv, NEW c \in Cluster, NEW cl \in Cluster, Fat(View, c) = cl
  PROVE  /\ \A d \in Cluster : d # c => Fat(View, d) # cl
         /\ \A e \in Entry : Used(View, e) => Ent(View, e).sclust # cl
         /\ NoWriter(files, cl)
<1>1. SoundChains(View) /\ Own(View, files)
  BY DEF CardInv, Good
<1>2. \A d \in Cluster : d # c => Fat(View, d) # cl
  BY <1>1 DEF SoundChains, LinkInjective
<1>3. \A e \in Entry : Used(View, e) => Ent(View, e).sclust # cl
  BY <1>1 DEF SoundChains, StartUnlinked
<1>4. NoWriter(files, cl)
  BY <1>1, FatValues DEF Own, NoWriter
<1>5. QED
  BY <1>2, <1>3, <1>4

(* alloc_cluster marks a free cluster as the end of a chain of its own. *)
LEMMA AllocCard == ASSUME CardInv, NEW cl \in Cluster, Alloc(cl) PROVE CardInv'
<1> DEFINE k == SetFat(View, cl, EOC)
<1>1. IndInv'
  BY AllocInv DEF CardInv
<1>2. pc = "alloc" /\ UNCHANGED <<lent, mounted>>
  BY DEF Alloc
<1>3. /\ call.fh \in Handle /\ Cur \in Slot /\ Cur = files[call.fh]
      /\ call.op = "write" /\ WriterIn(files, call.fh)
  BY <1>2, CurOK, WriteByWriter DEF CardInv, IndInv, CtrlOK, TransferOK
<1>4. IsCard(View) /\ IsCard(card) /\ Good(files, {card, View})
  BY ViewCard DEF CardInv, IndInv, DiskOK
<1>5. Fat(View, cl) = 0 /\ ~Points(View, cl) /\ NoWriter(files, cl)
  BY FreeUnpointed DEF Alloc, Takable, FreeFrom
<1>6. /\ IsCard(k)
      /\ \A d \in Cluster : Fat(k, d) = IF d = cl THEN EOC ELSE Fat(View, d)
      /\ \A e \in Entry : Ent(k, e) = Ent(View, e)
  BY <1>4, FatValues, SetFatCard
<1>7. Good(files, {card, View} \cup {k})
  BY <1>4, FatValues, SetFatGood
<1>8. CASE /\ card' = Wiped(CardAfterPut(AllocLoads(cl), k), cl)
           /\ HoldPut(FatSect(cl), k)
           /\ hint' = cl + 1
           /\ SetSlot(call.fh, [With(Cur, {"NEWCL"}, {}) EXCEPT !.csect = ClustSect(cl)])
           /\ Goto("move")
  <2> DEFINE q == With(Cur, {"NEWCL"}, {})
             r == [q EXCEPT !.csect = ClustSect(cl)]
  <2>1. FatSect(cl) \in AllocLoads(cl)
    BY AllocLoadsOK DEF CardInv, IndInv, CtrlOK
  <2>2. /\ View' = Wiped(k, cl)
        /\ card' \in {Wiped(card, cl), Wiped(View, cl), Wiped(k, cl)}
    BY <1>2, <1>8, <2>1, AllocOK DEF CardInv, IndInv
  <2>3. /\ Meta(Wiped(card, cl), card) /\ Meta(Wiped(View, cl), View)
        /\ Meta(Wiped(k, cl), k)
    BY <1>4, <1>6, WipedCard DEF Meta
  <2>4. SetSlot(call.fh, r) /\ pc' = "move" /\ UNCHANGED call /\ hint' = cl + 1
    BY <1>8 DEF Goto
  <2>5. q \in Slot /\ Milder(q, Cur)
    BY <1>3, MilderWith
  <2> HIDE DEF q
  <2>6. Milder(r, Cur)
    BY <2>5 DEF Milder, Slot
  <2>7. r \in Slot
    BY <1>1, <1>3, <2>4 DEF SetSlot, CardInv, IndInv, CtrlOK
  <2> HIDE DEF r
  <2>8. files' \in [Handle -> Slot] /\ Fewer(files', files) /\ DirtyOK'
    BY <1>3, <2>4, <2>6, <2>7, MilderOK
  <2>9. /\ files'[call.fh] = r
        /\ WriterIn(files', call.fh)
    <3>1. files'[call.fh] = r
      BY <1>3, <2>4, <2>7, SetSlotOK DEF CardInv, IndInv, CtrlOK
    <3>2. "FAILED" \notin r.flags
      <4>1. q.flags = (Cur.flags \ {}) \cup {"NEWCL"}
        <5>1. {"NEWCL"} \in SUBSET Flag
          BY DEF Flag
        <5>2. QED
          BY <1>3, <5>1, WithOK DEF q
      <4>2. r.flags = q.flags
        BY <2>5 DEF r, Slot
      <4>3. QED
        BY <1>3, <4>1, <4>2 DEF WriterIn
    <3>3. QED
      BY <1>3, <2>6, <3>1, <3>2 DEF WriterIn, Milder
  <2>10. Good(files', {card', View'})
    <3>1. \A j \in {card', View'} : \E l \in {card, View} \cup {k} : Meta(j, l)
      <4> HIDE DEF k
      <4>1. QED
        BY <2>2, <2>3
    <3>2. QED
      BY <1>7, <2>8, <3>1, StepGoodMeta
  <2>11. NewOK'
    <3>1. NewClust' = cl
      BY <2>4, GeometryAssumption DEF NewClust, Cluster
    <3>2. ~Points(k, cl) /\ Fat(k, cl) # 0
      <4>1. \A e \in Entry : Used(k, e) = Used(View, e)
        BY <1>6 DEF Used
      <4> HIDE DEF k
      <4>2. QED
        BY <1>5, <1>6, <4>1, FatValues DEF Points
    <3>3. ~Points(View', cl) /\ Fat(View', cl) # 0
      BY <2>2, <2>3, <3>2, MetaPoints
    <3>4. NoWriter(files', cl)
      BY <1>5, <2>8, FewerNoWriter
    <3>5. QED
      BY <3>1, <3>3, <3>4 DEF NewOK
  <2>12. KeptNoDir'
    <3>1. kept' = Empty \/ DOMAIN kept' = {FatSect(cl)}
      BY <1>8 DEF HoldPut
    <3>2. QED
      BY <3>1, Sectors DEF KeptNoDir, Empty
  <2>13. StepsOK'
    BY <2>4, <2>8, <2>9, <2>11, <2>12 DEF StepsOK, WriterOK, CutOK, SizeOK, FreeOK
  <2>14. QED
    BY <1>1, <2>10, <2>13 DEF CardInv
<1>9. CASE LoadFails(AllocLoads(cl)) /\ DiskError
  <2>1. View' \in {card, View} /\ card' \in {card, View}
    BY <1>2, <1>9, LoadFailsOK DEF CardInv, IndInv
  <2>2. QED
    BY <1>1, <1>9, <2>1, ErrorCard
<1>10. CASE PutFails({}, k) /\ DiskError
  <2>1. View' \in {card, View, k} /\ card' \in {card, View, k}
    BY <1>2, <1>6, <1>10, PutFailsOK DEF CardInv, IndInv
  <2> HIDE DEF k
  <2>2. QED
    BY <1>1, <1>7, <1>10, <2>1, DiskErrorCard
<1>11. QED
  BY <1>8, <1>9, <1>10 DEF Alloc

(* A chunk written (put_data) changes data only: on the card, which may    *)
(* also get what waited in the buffer,                                     *)
LEMMA WriteChunkMeta ==
  ASSUME CardInv, WriteChunk
  PROVE  Meta(card', card) \/ Meta(card', View)
<1>1. UNCHANGED lent
  BY DEF WriteChunk
<1>2. Cur.csect \in 0 .. NDataSects - 1
  BY CurOK DEF CardInv, Slot
<1>3. CASE Chunk = UPS
  BY <1>1, <1>2, <1>3, WholeSectorOK, DataMeta DEF WriteChunk, WholeSector, CardInv, IndInv
<1>4. CASE Chunk # UPS
  BY <1>1, <1>4, MergedOK, DataMeta DEF WriteChunk, CardInv, IndInv
<1>5. QED
  BY <1>3, <1>4

(* and in what the library reads. It brings no directory sector into the   *)
(* buffer.                                                                 *)
LEMMA WriteChunkView ==
  ASSUME CardInv, WriteChunk
  PROVE  /\ Meta(View', View)
         /\ (\A e \in Entry : DirSect(e) \notin DOMAIN kept) =>
              \A e \in Entry : DirSect(e) \notin DOMAIN kept'
<1>1. UNCHANGED lent
  BY DEF WriteChunk
<1>2. Cur.csect \in 0 .. NDataSects - 1
  BY CurOK DEF CardInv, Slot
<1>3. CASE Chunk = UPS
  <2>1. WholeSector(Cur.csect)
    BY <1>3 DEF WriteChunk
  <2>2. Meta(View', View)
    BY <1>1, <1>2, <2>1, WholeSectorOK, DataMeta DEF WholeSector, CardInv, IndInv
  <2>3. kept' = Empty \/ kept' = kept
    BY <2>1 DEF WholeSector, Drop
  <2>4. QED
    BY <2>2, <2>3 DEF Empty
<1>4. CASE Chunk # UPS
  <2>1. Put({DataSect(Cur.csect)}, DataSect(Cur.csect), Merged(Cur.csect))
    BY <1>4 DEF WriteChunk
  <2>2. Meta(View', View)
    BY <1>1, <2>1, MergedOK, DataMeta DEF CardInv, IndInv
  <2>3. kept' = Empty \/ DOMAIN kept' = {DataSect(Cur.csect)}
    BY <2>1 DEF Put, HoldPut
  <2>4. QED
    BY <1>2, <2>2, <2>3, Sectors DEF Empty
<1>5. QED
  BY <1>3, <1>4

(* The transfer goes on with nothing to link, or the call ends. *)
LEMMA ContinueSteps ==
  ASSUME CardInv, NEW left, Continue(left), DirtyOK',
         "NEWCL" \notin files'[call.fh].flags,
         call.op = "write" => WriterIn(files', call.fh)
  PROVE  StepsOK'
<1>1. call \in CallType
  BY DEF CardInv, IndInv, CtrlOK
<1>2. CASE left = 0
  <2>1. pc' \in {"idle", "unmount"}
    BY <1>1, <1>2, ReturnOK DEF Continue
  <2>2. QED
    BY <2>1, RestSteps
<1>3. CASE left # 0
  <2>1. pc' = "chunk" /\ call' = [call EXCEPT !.left = left]
    BY <1>3 DEF Continue
  <2>2. call'.op = call.op /\ call'.fh = call.fh
    BY <1>1, <2>1 DEF CallType
  <2>3. QED
    BY <2>1, <2>2, TransferSteps
<1>4. QED
  BY <1>2, <1>3

(* A chunk written changes data, and the slot, which may have a new        *)
(* cluster to link.                                                        *)
LEMMA WriteChunkCard == ASSUME CardInv, WriteChunk PROVE CardInv'
<1> DEFINE r == With(Moved(Cur), {"DIRTY"}, {})
<1>1. IndInv'
  BY WriteChunkInv DEF CardInv
<1>2. pc = "move" /\ call.op = "write" /\ UNCHANGED <<lent, mounted, hint>>
  BY DEF WriteChunk
<1>3. /\ call.fh \in Handle /\ Cur \in Slot /\ Cur = files[call.fh]
      /\ WriterIn(files, call.fh) /\ call \in CallType
  BY <1>2, CurOK, WriteByWriter DEF CardInv, IndInv, CtrlOK
<1>4. Moved(Cur) \in Slot /\ Moved(Cur).flags = Cur.flags /\ Milder(Moved(Cur), Cur)
  BY MovedMild DEF CardInv
<1>5. r \in Slot /\ r.flags = (Cur.flags \ {}) \cup {"DIRTY"}
  <2>1. {"DIRTY"} \in SUBSET Flag
    BY DEF Flag
  <2> DEFINE q == Moved(Cur)
  <2> HIDE DEF q
  <2>2. q \in Slot /\ q.flags = Cur.flags
    BY <1>4 DEF q
  <2>3. With(q, {"DIRTY"}, {}) \in Slot
    BY <2>1, <2>2, WithOK
  <2>4. With(q, {"DIRTY"}, {}).flags = (q.flags \ {}) \cup {"DIRTY"}
    BY <2>1, <2>2, WithOK
  <2>5. QED
    BY <2>2, <2>3, <2>4 DEF q
<1>6. Milder(r, Cur)
  <2>1. Milder(r, Moved(Cur))
    BY <1>3, <1>4, MilderWith DEF WriterIn
  <2>2. QED
    BY <1>4, <2>1, MilderTrans
<1>7. SetSlot(call.fh, r)
  BY DEF WriteChunk, Written
<1> HIDE DEF r
<1>8. files' \in [Handle -> Slot] /\ Fewer(files', files) /\ DirtyOK'
  BY <1>3, <1>5, <1>6, <1>7, MilderOK
<1>9. files'[call.fh] = r
  BY <1>3, <1>5, <1>7, SetSlotOK DEF CardInv, IndInv, CtrlOK
<1>10. WriterIn(files', call.fh)
  BY <1>3, <1>5, <1>9 DEF WriterIn
<1>11. Good(files', {card', View'})
  <2>1. \A j \in {card', View'} : \E l \in {card, View} : Meta(j, l)
    BY WriteChunkMeta, WriteChunkView
  <2>2. QED
    BY <1>8, <2>1, StepGoodMeta DEF CardInv
<1>12. CASE Has(call.fh, "NEWCL")
  <2>1. pc' = "link" /\ call' = [call EXCEPT !.left = @ - Chunk]
    BY <1>12 DEF WriteChunk, LinkNext
  <2>2. call'.fh = call.fh /\ call'.op = "write"
    BY <1>2, <1>3, <2>1 DEF CallType
  <2>3. NewOK /\ KeptNoDir /\ Linkable
    BY <1>2, <1>12 DEF CardInv, StepsOK, Linkable
  <2>4. NewClust \in Cluster
    BY <1>2, <1>12, GeometryAssumption
       DEF CardInv, IndInv, CtrlOK, HintOK, NewClust, Cluster
  <2>5. NewClust' = NewClust
    BY <1>2 DEF NewClust
  <2>6. NewOK'
    <3>1. ~Points(View', NewClust) /\ Fat(View', NewClust) # 0
      BY <2>3, <2>4, WriteChunkView, MetaPoints DEF NewOK
    <3>2. NoWriter(files', NewClust)
      BY <1>8, <2>3, <2>4, FewerNoWriter DEF NewOK
    <3>3. QED
      BY <2>5, <3>1, <3>2 DEF NewOK
  <2>7. KeptNoDir'
    BY <2>3, WriteChunkView DEF KeptNoDir
  <2>8. StepsOK'
    BY <1>8, <1>10, <2>1, <2>2, <2>6, <2>7 DEF StepsOK, WriterOK, CutOK, SizeOK, FreeOK
  <2>9. QED
    BY <1>1, <1>11, <2>8 DEF CardInv
<1>13. CASE ~Has(call.fh, "NEWCL")
  <2>1. "NEWCL" \notin r.flags
    BY <1>3, <1>5, <1>13 DEF Has
  <2>2. Continue(call.left - Chunk)
    BY <1>13 DEF WriteChunk, LinkNext
  <2>3. StepsOK'
    BY <1>8, <1>9, <1>10, <2>1, <2>2, ContinueSteps
  <2>4. QED
    BY <1>1, <1>11, <2>3 DEF CardInv
<1>14. QED
  BY <1>12, <1>13

(* A chunk the card fails to write changes data only. *)
LEMMA WriteChunkFailsCard == ASSUME CardInv, WriteChunkFails PROVE CardInv'
<1>1. IndInv'
  BY WriteChunkFailsInv DEF CardInv
<1>2. UNCHANGED lent /\ DiskError
  BY DEF WriteChunkFails
<1>3. Cur.csect \in 0 .. NDataSects - 1
  BY CurOK DEF CardInv, Slot
<1>4. \A j \in {card', View'} : \E l \in {card, View} : Meta(j, l)
  <2>1. CASE Chunk = UPS
    <3>1. WholeSectorFails(Cur.csect)
      BY <2>1 DEF WriteChunkFails
    <3>2. Meta(card', card) /\ Meta(View', View)
      BY <1>2, <1>3, <3>1, WholeSectorOK, DataMeta DEF WholeSectorFails, CardInv, IndInv
    <3>3. QED
      BY <3>2
  <2>2. CASE Chunk # UPS
    BY <1>2, <2>2, MergedOK, DataMeta DEF WriteChunkFails, CardInv, IndInv
  <2>3. QED
    BY <2>1, <2>2
<1>5. pc' \in {"idle", "unmount"}
  BY <1>2, ReturnOK DEF DiskError, CardInv, IndInv, CtrlOK
<1>6. files' \in [Handle -> Slot] /\ Fewer(files', files) /\ DirtyOK'
  BY <1>2, FailSlotMild DEF DiskError
<1>7. Good(files', {card', View'})
  BY <1>4, <1>6, StepGoodMeta DEF CardInv
<1>8. QED
  BY <1>1, <1>5, <1>6, <1>7, RestSteps DEF CardInv

(* A writer may write its entry again: nobody else starts at its chain. *)
LEMMA WriterEntGood ==
  ASSUME CardInv, NEW f \in Handle, WriterIn(files, f), NEW r \in Slot,
         r.ent = files[f].ent, r.sclust = files[f].sclust
  PROVE  /\ Good(files, {card, View} \cup {WithEntry(View, r)})
         /\ \A c \in Cluster : Fat(WithEntry(View, r), c) = Fat(View, c)
         /\ \A e \in Entry : /\ Used(WithEntry(View, r), e) => Used(View, e)
                             /\ Ent(WithEntry(View, r), e).sclust =
                                  IF e = r.ent THEN r.sclust ELSE Ent(View, e).sclust
<1> DEFINE q == [Ent(View, r.ent) EXCEPT !.sclust = r.sclust, !.size = r.fsize]
<1>1. IsCard(View) /\ Good(files, {card, View})
  BY ViewCard DEF CardInv, IndInv
<1>2. r.ent \in Entry /\ q \in DirEnt /\ Ent(View, r.ent) \in DirEnt
  BY <1>1, WithEntryOK, Entries
<1>3. q.sclust = r.sclust /\ q.name = Ent(View, r.ent).name
  BY <1>2 DEF DirEnt
<1>4. WithEntry(View, r) = SetEnt(View, r.ent, q)
  BY DEF WithEntry
<1> HIDE DEF q
<1>5. ASSUME q.sclust \in Cluster
      PROVE  /\ Fat(View, q.sclust) # 0
             /\ \A c \in Cluster : Fat(View, c) # q.sclust
             /\ \A j \in {card, View} : \A g \in Entry :
                  Used(j, g) /\ g # r.ent => Ent(j, g).sclust # q.sclust
             /\ \A g \in Handle :
                  WriterIn(files, g) /\ files[g].ent # r.ent => files[g].sclust # q.sclust
  <2>1. Own(View, files) /\ Own(card, files) /\ Distinct(files)
    BY <1>1 DEF Good
  <2>2. r.sclust # 0
    BY <1>3, <1>5, FatValues
  <2>3. /\ Fat(View, q.sclust) # 0
        /\ \A c \in Cluster : Fat(View, c) # q.sclust
    BY <1>3, <2>1, <2>2 DEF Own
  <2>4. \A j \in {card, View} : \A g \in Entry :
          Used(j, g) /\ g # r.ent => Ent(j, g).sclust # q.sclust
    BY <1>3, <2>1, <2>2 DEF Own
  <2>5. \A g \in Handle :
          WriterIn(files, g) /\ files[g].ent # r.ent => files[g].sclust # q.sclust
    BY <1>3, <2>1, <2>2 DEF Distinct
  <2>6. QED
    BY <2>3, <2>4, <2>5
<1>6. Good(files, {card, View} \cup {SetEnt(View, r.ent, q)})
  BY <1>1, <1>2, <1>5, SetEntGood
<1>7. /\ \A e \in Entry : Ent(SetEnt(View, r.ent, q), e) = IF e = r.ent THEN q ELSE Ent(View, e)
      /\ \A c \in Cluster : Fat(SetEnt(View, r.ent, q), c) = Fat(View, c)
  BY <1>1, <1>2, SetEntCard
<1>8. \A e \in Entry : /\ Used(WithEntry(View, r), e) => Used(View, e)
                       /\ Ent(WithEntry(View, r), e).sclust =
                            IF e = r.ent THEN r.sclust ELSE Ent(View, e).sclust
  BY <1>3, <1>4, <1>7 DEF Used
<1>9. QED
  BY <1>4, <1>6, <1>7, <1>8

(* link_new, the entry: the size of a file that goes on, or the first      *)
(* cluster of one that begins.                                             *)
LEMMA LinkingOK ==
  ASSUME CardInv, pc = "link"
  PROVE  /\ Linking \in Slot /\ Linking.ent = Cur.ent
         /\ Linking.sclust = IF Cur.cclust = 0 THEN NewClust ELSE Cur.sclust
         /\ Linking.flags = Cur.flags \ {"NEWCL"}
<1> DEFINE q == With(Cur, {}, {"NEWCL"})
<1>1. Cur \in Slot
  BY CurOK DEF CardInv
<1>2. /\ q \in Slot /\ q.flags = Cur.flags \ {"NEWCL"} /\ q.ent = Cur.ent
      /\ q.sclust = Cur.sclust
  BY <1>1, WithoutOK
<1>3. NewClust \in Cluster
  BY NewClustOK DEF CardInv
<1>4. Linking = [q EXCEPT !.sclust = IF Cur.cclust = 0 THEN NewClust ELSE @]
  BY DEF Linking
<1> HIDE DEF q
<1>5. QED
  BY <1>2, <1>3, <1>4 DEF Slot

(* A slot in link_new that fails, or goes on. *)
LEMMA LinkedMild ==
  ASSUME NEW r \in Slot, Linked(r) \in Slot
  PROVE  /\ Linked(r).ent = r.ent /\ Linked(r).sclust = r.sclust
         /\ Linked(r).flags = r.flags
         /\ With(Linked(r), {"FAILED"}, {}) \in Slot
         /\ With(Linked(r), {"FAILED"}, {}).flags = r.flags \cup {"FAILED"}
         /\ With(Linked(r), {"FAILED"}, {}).ent = r.ent
         /\ With(Linked(r), {"FAILED"}, {}).sclust = r.sclust
<1> DEFINE q == Linked(r)
<1>1. q.ent = r.ent /\ q.sclust = r.sclust /\ q.flags = r.flags
  BY DEF Linked, Slot
<1>2. {"FAILED"} \in SUBSET Flag
  BY DEF Flag
<1> HIDE DEF q
<1>3. /\ With(q, {"FAILED"}, {}) \in Slot
      /\ With(q, {"FAILED"}, {}).flags = (q.flags \ {}) \cup {"FAILED"}
      /\ With(q, {"FAILED"}, {}).ent = q.ent
      /\ With(q, {"FAILED"}, {}).sclust = q.sclust
  BY <1>2, WithOK DEF q
<1>4. QED
  BY <1>1, <1>3 DEF q

(* Linking that fails leaves a slot that will change its file no more. *)
LEMMA LinkFailsCard ==
  ASSUME CardInv, IndInv', pc \in {"link", "join"}, NEW r \in Slot, LinkFails(r),
         "DIRTY" \in r.flags => "DIRTY" \in Cur.flags,
         "WR" \in Cur.flags => "WR" \in r.flags,
         NEW k, Good(files, {card, View} \cup {k}),
         card' \in {card, View, k}, View' \in {card, View, k}
  PROVE  CardInv'
<1> DEFINE q == With(Linked(r), {"FAILED"}, {})
<1>1. call.fh \in Handle /\ Cur = files[call.fh]
  BY CurOK DEF CardInv
<1>2. q \in Slot /\ q.flags = r.flags \cup {"FAILED"}
  BY LinkedOK, LinkedMild DEF CardInv
<1>3. SetSlot(call.fh, q) /\ pc' \in {"idle", "unmount"}
  BY ReturnOK DEF LinkFails, CardInv, IndInv, CtrlOK
<1> HIDE DEF q
<1>4. /\ files' \in [Handle -> Slot] /\ files'[call.fh] = q
      /\ \A g \in Handle : g # call.fh => files'[g] = files[g]
  BY <1>1, <1>2, <1>3, SetSlotOK DEF CardInv, IndInv, CtrlOK
<1>5. Fewer(files', files)
  BY <1>2, <1>4 DEF Fewer, WriterIn
<1>6. DirtyOK'
  BY <1>1, <1>2, <1>4 DEF CardInv, StepsOK, DirtyOK, Has
<1>7. QED
  BY <1>1, <1>3, <1>4, <1>5, <1>6, RestCardNew

(* The new cluster becomes the first: it is taken on the card by then. *)
LEMMA LinkFirstGood ==
  ASSUME CardInv, pc = "link", Cur.cclust = 0
  PROVE  /\ Good(files, {card, View} \cup {WithEntry(View, Linking)})
         /\ \A c \in Cluster : Fat(WithEntry(View, Linking), c) = Fat(View, c)
         /\ \A e \in Entry : e # Cur.ent =>
              Ent(WithEntry(View, Linking), e) = Ent(View, e)
<1> DEFINE r == Linking
           n == NewClust
           q == [Ent(View, r.ent) EXCEPT !.sclust = r.sclust, !.size = r.fsize]
<1>1. /\ IsCard(View) /\ Good(files, {card, View}) /\ NewOK /\ KeptNoDir /\ Linkable
  BY ViewCard DEF CardInv, IndInv, StepsOK, Linkable
<1>2. r \in Slot /\ r.ent = Cur.ent /\ r.sclust = n /\ n \in Cluster
  BY LinkingOK, NewClustOK DEF CardInv
<1>3. Fat(View, n) # 0 /\ ~Points(View, n) /\ NoWriter(files, n)
  BY <1>1 DEF NewOK
<1> HIDE DEF r, n
<1>4. r.ent \in Entry /\ q \in DirEnt /\ Ent(View, r.ent) \in DirEnt
  BY <1>1, <1>2, WithEntryOK, Entries
<1>5. q.sclust = n
  BY <1>2, <1>4 DEF DirEnt
<1>6. WithEntry(View, r) = SetEnt(View, r.ent, q)
  BY DEF WithEntry
<1> HIDE DEF q
<1>7. \A e \in Entry : Ent(card, e) = Ent(View, e)
  <2>1. \A e \in Entry : DirSect(e) \in Sector /\ DirSect(e) \notin DOMAIN kept
    BY <1>1, Sectors DEF KeptNoDir
  <2>2. QED
    BY <2>1, ViewCard DEF Ent, CardInv, IndInv
<1>8. /\ \A c \in Cluster : Fat(View, c) # n
      /\ \A g \in Entry : Used(View, g) => Ent(View, g).sclust # n
  BY <1>3 DEF Points
<1>9. \A j \in {card, View} : \A g \in Entry :
        Used(j, g) /\ g # r.ent => Ent(j, g).sclust # n
  BY <1>7, <1>8 DEF Used
<1>10. Good(files, {card, View} \cup {SetEnt(View, r.ent, q)})
  BY <1>1, <1>3, <1>4, <1>5, <1>8, <1>9, SetEntGood DEF NoWriter
<1>11. /\ \A e \in Entry : Ent(SetEnt(View, r.ent, q), e) = IF e = r.ent THEN q ELSE Ent(View, e)
       /\ \A c \in Cluster : Fat(SetEnt(View, r.ent, q), c) = Fat(View, c)
  BY <1>1, <1>4, SetEntCard
<1>12. QED
  BY <1>2, <1>6, <1>10, <1>11 DEF r

(* link_new writes the entry of a file that goes on, or that begins. *)
LEMMA LinkCard == ASSUME CardInv, Link PROVE CardInv'
<1> DEFINE r == Linking
           n == NewClust
           k == WithEntry(View, r)
<1>1. IndInv'
  BY LinkInv DEF CardInv
<1>2. pc = "link" /\ UNCHANGED <<lent, mounted, hint>>
  BY DEF Link
<1>3. /\ call.fh \in Handle /\ Cur \in Slot /\ Cur = files[call.fh]
      /\ call.op = "write" /\ WriterIn(files, call.fh) /\ call \in CallType
  BY <1>2, CurOK, WriteByWriter DEF CardInv, IndInv, CtrlOK, HintOK
<1>4. /\ r \in Slot /\ r.ent = Cur.ent
      /\ r.sclust = IF Cur.cclust = 0 THEN n ELSE Cur.sclust
      /\ r.flags = Cur.flags \ {"NEWCL"}
  BY <1>2, LinkingOK
<1>5. /\ Fat(View, n) # 0 /\ ~Points(View, n) /\ NoWriter(files, n) /\ n \in Cluster
      /\ KeptNoDir /\ Linkable
  BY <1>2, NewClustOK DEF CardInv, StepsOK, NewOK, Linkable
<1>6. Linked(r) \in Slot /\ Linked(r).flags = r.flags /\ Linked(r).sclust = r.sclust
      /\ Linked(r).ent = r.ent
  BY <1>2, <1>4, LinkedOK, LinkedMild DEF CardInv
<1> HIDE DEF r, n
<1>7. Good(files, {card, View} \cup {k})
  <2>1. CASE Cur.cclust = 0
    BY <1>2, <2>1, LinkFirstGood DEF r
  <2>2. CASE Cur.cclust # 0
    BY <1>3, <1>4, <2>2, WriterEntGood
  <2>3. QED
    BY <2>1, <2>2
<1>8. CASE DirWrite(r) /\ Cur.cclust # 0 /\ SetSlot(call.fh, r) /\ Goto("join")
  <2>1. View' = k /\ card' \in {card, View, k}
    BY <1>2, <1>4, <1>8, DirWriteOK DEF CardInv, IndInv
  <2>2. Milder(r, Cur)
    BY <1>4, <1>8 DEF Milder
  <2>3. files' \in [Handle -> Slot] /\ Fewer(files', files) /\ DirtyOK'
    BY <1>3, <1>4, <1>8, <2>2, MilderOK
  <2>4. files'[call.fh] = r
    BY <1>3, <1>4, <1>8, SetSlotOK DEF CardInv, IndInv, CtrlOK
  <2>5. WriterIn(files', call.fh)
    BY <1>3, <1>4, <2>4 DEF WriterIn
  <2>6. Good(files', {card', View'})
    BY <1>7, <2>1, <2>3, StepGood
  <2>7. ~Points(k, n) /\ Fat(k, n) # 0
    <3>1. /\ \A c \in Cluster : Fat(k, c) = Fat(View, c)
          /\ \A e \in Entry : /\ Used(k, e) => Used(View, e)
                              /\ Ent(k, e).sclust =
                                   IF e = r.ent THEN r.sclust ELSE Ent(View, e).sclust
      BY <1>3, <1>4, <1>8, WriterEntGood
    <3>2. r.sclust # n
      BY <1>3, <1>4, <1>5, <1>8 DEF NoWriter
    <3> HIDE DEF k
    <3>3. QED
      BY <1>5, <3>1, <3>2 DEF Points
  <2>8. NoWriter(files', n)
    BY <1>5, <2>3, FewerNoWriter
  <2>9. pc' = "join" /\ UNCHANGED call /\ NewClust' = n
    BY <1>2, <1>8 DEF Goto, NewClust, n
  <2>10. NewOK'
    BY <2>1, <2>7, <2>8, <2>9 DEF NewOK
  <2>11. StepsOK'
    BY <2>3, <2>5, <2>9, <2>10
       DEF StepsOK, WriterOK, Linkable, KeptNoDir, CutOK, SizeOK, FreeOK
  <2>12. QED
    BY <1>1, <2>6, <2>11 DEF CardInv
<1>9. CASE DirWrite(r) /\ Cur.cclust = 0 /\ SetSlot(call.fh, Linked(r)) /\ Continue(call.left)
  <2> DEFINE q == Linked(r)
  <2>1. View' = k /\ card' \in {View, k}
    <3>1. View' = k
      BY <1>2, <1>4, <1>9, DirWriteOK DEF CardInv, IndInv
    <3>2. DirSect(r.ent) \notin DOMAIN kept
      BY <1>4, <1>5 DEF KeptNoDir, Slot
    <3>3. card' \in {View, k}
      BY <1>9, <3>2 DEF DirWrite, Put, CardAfterPut, CardAfterLoad
    <3>4. QED
      BY <3>1, <3>3
  <2>2. /\ q \in Slot /\ q.flags = Cur.flags \ {"NEWCL"} /\ q.sclust = n
        /\ q.ent = Cur.ent
    BY <1>4, <1>6, <1>9
  <2>3. SetSlot(call.fh, q) /\ Continue(call.left)
    BY <1>9
  <2> HIDE DEF q
  <2>4. /\ files' \in [Handle -> Slot] /\ files'[call.fh] = q
        /\ \A g \in Handle : g # call.fh => files'[g] = files[g]
    BY <1>3, <2>2, <2>3, SetSlotOK DEF CardInv, IndInv, CtrlOK
  <2>5. WriterIn(files', call.fh)
    BY <1>3, <2>2, <2>4 DEF WriterIn
  <2>6. ASSUME NEW g \in Handle, WriterIn(files', g), g # call.fh
        PROVE  WriterIn(files, g) /\ files'[g] = files[g] /\ files'[g].sclust # n
    BY <1>5, <2>4, <2>6 DEF WriterIn, NoWriter
  <2>7. Distinct(files')
    <3>1. Distinct(files)
      BY DEF CardInv, Good
    <3>2. QED
      BY <2>2, <2>4, <2>6, <3>1 DEF Distinct
  <2>8. ASSUME NEW j \in {View, k} PROVE Own(j, files')
    <3>1. Own(j, files)
      BY <1>7, <2>8 DEF Good
    <3>2. /\ Fat(j, n) # 0 /\ \A c \in Cluster : Fat(j, c) # n
          /\ \A e \in Entry : Used(j, e) /\ e # Cur.ent => Ent(j, e).sclust # n
      <4>1. /\ Fat(View, n) # 0 /\ \A c \in Cluster : Fat(View, c) # n
            /\ \A e \in Entry : Used(View, e) => Ent(View, e).sclust # n
        BY <1>5 DEF Points
      <4>2. /\ \A c \in Cluster : Fat(k, c) = Fat(View, c)
            /\ \A e \in Entry : e # Cur.ent => Ent(k, e) = Ent(View, e)
        BY <1>2, <1>9, LinkFirstGood DEF r
      <4> HIDE DEF k
      <4>3. QED
        BY <1>5, <2>8, <4>1, <4>2 DEF Used
    <3>3. ASSUME NEW g \in Handle, WriterIn(files', g), files'[g].sclust # 0
          PROVE  LET t == files'[g].sclust
                 IN  /\ Fat(j, t) # 0
                     /\ \A c \in Cluster : Fat(j, c) # t
                     /\ \A e \in Entry : Used(j, e) /\ e # files'[g].ent =>
                          Ent(j, e).sclust # t
      <4>1. CASE g = call.fh
        BY <4>1, <2>2, <2>4, <3>2
      <4>2. CASE g # call.fh
        <5>1. WriterIn(files, g) /\ files'[g] = files[g]
          BY <4>2, <3>3, <2>6
        <5>2. QED
          BY <5>1, <3>1, <3>3 DEF Own
      <4>3. QED
        BY <4>1, <4>2
    <3>4. QED
      BY <3>3 DEF Own
  <2>9. Good(files', {card', View'})
    BY <1>7, <2>1, <2>4, <2>7, <2>8 DEF Good
  <2>10. DirtyOK'
    BY <1>3, <2>2, <2>4 DEF CardInv, StepsOK, DirtyOK, Has
  <2>11. StepsOK'
    BY <2>2, <2>3, <2>4, <2>5, <2>10, ContinueSteps
  <2>12. QED
    BY <1>1, <2>9, <2>11 DEF CardInv
<1>10. CASE DirWriteFails(r) /\ LinkFails(r)
  <2>1. View' \in {card, View, k} /\ card' \in {card, View, k}
    BY <1>2, <1>4, <1>10, DirWriteFailsOK DEF CardInv, IndInv
  <2>2. /\ "DIRTY" \in r.flags => "DIRTY" \in Cur.flags
        /\ "WR" \in Cur.flags => "WR" \in r.flags
    BY <1>4
  <2> HIDE DEF k
  <2>3. QED
    BY <1>1, <1>2, <1>4, <1>7, <1>10, <2>1, <2>2, LinkFailsCard
<1>11. QED
  BY <1>8, <1>9, <1>10 DEF Link, r

(* link_new, the FAT. *)
LEMMA JoinCard == ASSUME CardInv, Join PROVE CardInv'
<1> DEFINE n == NewClust
           k == SetFat(View, Cur.cclust, n)
<1>1. IndInv'
  BY JoinInv DEF CardInv
<1>2. pc = "join" /\ UNCHANGED <<lent, mounted, hint>>
  BY DEF Join
<1>3. /\ call.fh \in Handle /\ Cur \in Slot /\ Cur = files[call.fh]
      /\ call.op = "write" /\ WriterIn(files, call.fh)
      /\ "NEWCL" \notin Cur.flags
  BY <1>2, CurOK, WriteByWriter DEF CardInv, IndInv, CtrlOK, HintOK
<1>4. /\ Fat(View, n) # 0 /\ ~Points(View, n) /\ NoWriter(files, n)
      /\ n \in Cluster /\ n \in FatValue
  BY <1>2, NewClustOK, FatValues DEF CardInv, StepsOK, NewOK
<1>5. Cur.cclust \in Cluster
  BY <1>2, <1>3 DEF CardInv, IndInv, CtrlOK, ClustOK, Slot
<1>6. IsCard(View) /\ Good(files, {card, View})
  BY ViewCard DEF CardInv, IndInv
<1> HIDE DEF n
<1>7. Good(files, {card, View} \cup {k})
  BY <1>4, <1>5, <1>6, FatValues, SetFatGood
<1>8. CASE FatPut(Cur.cclust, n) /\ SetSlot(call.fh, Linked(Cur)) /\ Continue(call.left)
  <2> DEFINE q == Linked(Cur)
  <2>1. View' \in {card, View, k} /\ card' \in {card, View, k}
    BY <1>2, <1>4, <1>5, <1>8, FatPutOK DEF CardInv, IndInv
  <2>2. q \in Slot /\ q.flags = Cur.flags /\ q.sclust = Cur.sclust /\ q.ent = Cur.ent
    BY <1>2, <1>3, LinkedOK, LinkedMild DEF CardInv
  <2>3. SetSlot(call.fh, q) /\ Continue(call.left)
    BY <1>8
  <2> HIDE DEF q, k
  <2>4. Milder(q, Cur)
    BY <2>2 DEF Milder
  <2>5. files' \in [Handle -> Slot] /\ Fewer(files', files) /\ DirtyOK'
    BY <1>3, <2>2, <2>3, <2>4, MilderOK
  <2>6. files'[call.fh] = q
    BY <1>3, <2>2, <2>3, SetSlotOK DEF CardInv, IndInv, CtrlOK
  <2>7. WriterIn(files', call.fh)
    BY <1>3, <2>2, <2>6 DEF WriterIn
  <2>8. Good(files', {card', View'})
    BY <1>7, <2>1, <2>5, StepGood
  <2>9. StepsOK'
    BY <1>3, <2>2, <2>3, <2>5, <2>6, <2>7, ContinueSteps
  <2>10. QED
    BY <1>1, <2>8, <2>9 DEF CardInv
<1>9. CASE FatPutFails(Cur.cclust, n) /\ LinkFails(Cur)
  <2>1. View' \in {card, View, k} /\ card' \in {card, View, k}
    BY <1>2, <1>4, <1>5, <1>9, FatPutFailsOK DEF CardInv, IndInv
  <2> HIDE DEF k
  <2>2. QED
    BY <1>1, <1>2, <1>3, <1>7, <1>9, <2>1, LinkFailsCard
<1>10. QED
  BY <1>8, <1>9 DEF Join, n

-----------------------------------------------------------------------------
(* uzefs_truncate.                                                         *)

(* Between the cut of a file's chain and its end only its writer counts,   *)
(* and that the chain cut off hangs on nothing else.                       *)
LEMMA BeginCutCard ==
  ASSUME CardInv, IndInv', NEW f \in Handle, WriterIn(files, f),
         NEW r \in Slot, Milder(r, files[f]), "FAILED" \notin r.flags,
         NEW cl, NEW step \in {"cut", "size"}, BeginCut(f, r, cl, step),
         View' \in {card, View}, card' \in {card, View},
         step = "cut" => cl \in Cluster /\ Fat(View', r.cclust) = cl,
         step = "size" /\ cl # 0 =>
           cl = files[f].sclust /\ r.sclust = 0 /\ View' = View
  PROVE  CardInv'
<1>1. /\ SetSlot(f, r) /\ pc' = step
      /\ call'.fh = f /\ call'.cl = cl
  BY DEF BeginCut, NoCall
<1>2. /\ files' \in [Handle -> Slot] /\ files'[f] = r
      /\ \A g \in Handle : g # f => files'[g] = files[g]
  BY <1>1, SetSlotOK DEF CardInv, IndInv, CtrlOK
<1>3. Fewer(files', files) /\ DirtyOK'
  BY <1>1, MilderOK
<1>4. WriterIn(files', f)
  BY <1>2 DEF WriterIn, Milder
<1>5. Cur' = r
  BY <1>1, <1>2 DEF Cur
<1>6. CutOK'
  BY <1>1, <1>5 DEF CutOK
<1>7. SizeOK'
  <2> SUFFICES ASSUME step = "size", cl # 0
               PROVE  /\ cl \in Cluster
                      /\ \A c \in Cluster : Fat(View', c) # cl
                      /\ \A e \in Entry : Used(View', e) /\ e # r.ent => Ent(View', e).sclust # cl
                      /\ NoWriter(files', cl)
    BY <1>1, <1>5 DEF SizeOK
  <2>1. cl = files[f].sclust /\ r.sclust = 0 /\ View' = View /\ r.ent = files[f].ent
    BY DEF Milder
  <2>2. Own(View, files) /\ Distinct(files) /\ files[f] \in Slot
    BY DEF CardInv, Good
  <2>3. cl \in Cluster
    BY <2>1, <2>2 DEF Slot
  <2>4. /\ \A c \in Cluster : Fat(View, c) # cl
        /\ \A e \in Entry : Used(View, e) /\ e # r.ent => Ent(View, e).sclust # cl
    BY <2>1, <2>2 DEF Own
  <2>5. NoWriter(files', cl)
    BY <1>2, <2>1, <2>2 DEF NoWriter, Distinct, WriterIn
  <2>6. QED
    BY <2>1, <2>3, <2>4, <2>5
<1>8. Good(files', {card', View'})
  BY <1>2, <1>3, StepGood DEF CardInv
<1>9. StepsOK'
  BY <1>1, <1>3, <1>4, <1>6, <1>7
     DEF StepsOK, WriterOK, NewOK, Linkable, KeptNoDir, FreeOK
<1>10. QED
  BY <1>8, <1>9 DEF CardInv

(* uzefs_truncate begins: it finds the chain to cut off, or lets go of all *)
(* of it.                                                                  *)
LEMMA TruncateCard ==
  ASSUME CardInv, NEW f \in Handle, Truncate(f)
  PROVE  CardInv'
<1> DEFINE r == With(files[f], {}, {"CONTIG"})
           nx == FatNext(View, r.cclust)
           c == [r EXCEPT !.fsize = r.fptr]
           z == [r EXCEPT !.sclust = 0, !.fsize = 0]
           S == {FatSect(r.cclust)}
           x == With(c, {"FAILED"}, {})
<1>1. IndInv'
  BY TruncateInv DEF CardInv
<1>2. Ready(f) /\ UNCHANGED <<lent, mounted, hint>> /\ WriterIn(files, f)
  BY DEF Truncate, CanWrite, Ready, WriterIn, Has
<1>3. pc = "idle" /\ files[f] \in Slot /\ "FAILED" \notin files[f].flags
  BY <1>2, ReadyOK DEF CardInv
<1>4. r \in Slot /\ Milder(r, files[f]) /\ "FAILED" \notin r.flags
      /\ r.sclust = files[f].sclust
  <2> DEFINE q == files[f]
  <2> HIDE DEF q
  <2>1. q \in Slot /\ "FAILED" \notin q.flags
    BY <1>3 DEF q
  <2>2. /\ With(q, {}, {"CONTIG"}) \in Slot
        /\ With(q, {}, {"CONTIG"}).flags = q.flags \ {"CONTIG"}
        /\ With(q, {}, {"CONTIG"}).sclust = q.sclust
    BY <2>1, WithoutOK
  <2>3. Milder(With(q, {}, {"CONTIG"}), q)
    BY <2>1, MilderWith
  <2>4. QED
    BY <2>1, <2>2, <2>3 DEF q
<1>5. \/ r.cclust = 0 /\ BeginCut(f, z, r.sclust, "size") /\ UNCHANGED disk
      \/ /\ r.cclust # 0 /\ Load(S, FatSect(r.cclust))
         /\ \/ nx \in Cluster /\ BeginCut(f, c, nx, "cut")
            \/ BeginCut(f, c, 0, "size")
            \/ SetSlot(f, c) /\ UNCHANGED <<pc, call>>
      \/ /\ LoadFails(S)
         /\ SetSlot(f, x) /\ UNCHANGED <<pc, call>>
  BY DEF Truncate
<1>6. nx \in Cluster => Fat(View, r.cclust) = nx
  BY FatValues DEF FatNext
<1> HIDE DEF r
<1>7. /\ c \in Slot /\ Milder(c, r) /\ c.flags = r.flags /\ c.cclust = r.cclust
  BY <1>4 DEF Slot, Milder
<1>8. z \in Slot /\ Milder(z, r) /\ z.flags = r.flags /\ z.sclust = 0
  BY <1>4 DEF Slot, Milder
<1> HIDE DEF c, z
<1>9. x \in Slot /\ Milder(x, c)
  BY <1>7, MilderWith
<1> HIDE DEF x, nx
<1>10. Milder(c, files[f]) /\ Milder(z, files[f]) /\ Milder(x, files[f])
  <2>1. Milder(c, files[f]) /\ Milder(z, files[f])
    BY <1>4, <1>7, <1>8, MilderTrans
  <2>2. QED
    BY <1>9, <2>1, MilderTrans
<1>11. r.cclust # 0 => FatSect(r.cclust) \in Sector
  BY <1>4, Sectors DEF Slot
<1>12. CASE r.cclust = 0 /\ BeginCut(f, z, r.sclust, "size") /\ UNCHANGED disk
  <2>1. View' = View /\ card' = card
    BY <1>2, <1>12, SameDiskOK DEF CardInv, IndInv
  <2>2. QED
    BY <1>1, <1>2, <1>4, <1>8, <1>10, <1>12, <2>1, BeginCutCard
<1>13. CASE /\ r.cclust # 0 /\ Load(S, FatSect(r.cclust))
            /\ \/ nx \in Cluster /\ BeginCut(f, c, nx, "cut")
               \/ BeginCut(f, c, 0, "size")
               \/ SetSlot(f, c) /\ UNCHANGED <<pc, call>>
  <2>1. View' = View /\ card' \in {card, View}
    BY <1>2, <1>11, <1>13, LoadOK DEF CardInv, IndInv
  <2>2. CASE nx \in Cluster /\ BeginCut(f, c, nx, "cut")
    BY <1>1, <1>2, <1>4, <1>6, <1>7, <1>10, <2>1, <2>2, BeginCutCard
  <2>3. CASE BeginCut(f, c, 0, "size")
    BY <1>1, <1>2, <1>4, <1>7, <1>10, <2>1, <2>3, BeginCutCard
  <2>4. CASE SetSlot(f, c) /\ UNCHANGED <<pc, call>>
    BY <1>1, <1>3, <1>7, <1>10, <2>1, <2>4, MildCard
  <2>5. QED
    BY <1>13, <2>2, <2>3, <2>4
<1>14. CASE LoadFails(S) /\ SetSlot(f, x) /\ UNCHANGED <<pc, call>>
  <2>1. View' \in {card, View} /\ card' \in {card, View}
    BY <1>2, <1>14, LoadFailsOK DEF CardInv, IndInv
  <2>2. QED
    BY <1>1, <1>3, <1>9, <1>10, <1>14, <2>1, MildCard
<1>15. QED
  BY <1>5, <1>12, <1>13, <1>14

(* The chain is cut: the rest of it hangs on nothing any more. *)
LEMMA CutCard == ASSUME CardInv, Cut PROVE CardInv'
<1> DEFINE c == Cur.cclust
           cl == call.cl
           k == SetFat(View, c, EOC)
<1>1. IndInv'
  BY CutInv DEF CardInv
<1>2. pc = "cut" /\ UNCHANGED <<lent, mounted, hint>>
  BY DEF Cut
<1>3. /\ call.fh \in Handle /\ Cur \in Slot /\ Cur = files[call.fh]
      /\ WriterIn(files, call.fh) /\ c \in Cluster
      /\ cl \in Cluster /\ Fat(View, c) = cl
  BY <1>2, CurOK DEF CardInv, IndInv, CtrlOK, ClustOK, Slot, StepsOK, WriterOK, CutOK
<1>4. IsCard(View) /\ Good(files, {card, View})
  BY ViewCard DEF CardInv, IndInv
<1> HIDE DEF c, cl
<1>5. Good(files, {card, View} \cup {k})
  BY <1>3, <1>4, FatValues, SetFatGood
<1>6. CASE FatPut(c, EOC) /\ Goto("size") /\ UNCHANGED files
  <2>1. View' = k /\ card' \in {card, View, k}
    BY <1>2, <1>3, <1>6, FatValues, FatPutOK DEF CardInv, IndInv
  <2>2. /\ \A d \in Cluster : Fat(k, d) = IF d = c THEN EOC ELSE Fat(View, d)
        /\ \A e \in Entry : Ent(k, e) = Ent(View, e)
    BY <1>3, <1>4, FatValues, SetFatCard
  <2> HIDE DEF k
  <2>3. files' \in [Handle -> Slot] /\ Fewer(files', files) /\ DirtyOK'
    BY <1>6, SameMild
  <2>4. Good(files', {card', View'})
    BY <1>5, <2>1, <2>3, StepGood
  <2>5. /\ \A d \in Cluster : d # c => Fat(View, d) # cl
        /\ \A e \in Entry : Used(View, e) => Ent(View, e).sclust # cl
        /\ NoWriter(files, cl)
    BY <1>3, LinkedOnce
  <2>6. /\ \A d \in Cluster : Fat(k, d) # cl
        /\ \A e \in Entry : Used(k, e) => Ent(k, e).sclust # cl
    BY <1>3, <2>2, <2>5, FatValues DEF Used
  <2>7. NoWriter(files', cl)
    BY <1>3, <2>3, <2>5, FewerNoWriter
  <2>8. pc' = "size" /\ UNCHANGED call /\ call'.cl = cl
    BY <1>6 DEF Goto, cl
  <2>9. SizeOK'
    BY <1>3, <2>1, <2>6, <2>7, <2>8 DEF SizeOK
  <2>10. WriterIn(files', call'.fh)
    BY <1>3, <1>6, <2>8 DEF WriterIn
  <2>11. StepsOK'
    BY <2>3, <2>8, <2>9, <2>10
       DEF StepsOK, WriterOK, NewOK, Linkable, KeptNoDir, CutOK, FreeOK
  <2>12. QED
    BY <1>1, <2>4, <2>11 DEF CardInv
<1>7. CASE FatPutFails(c, EOC) /\ DiskError
  <2>1. View' \in {card, View, k} /\ card' \in {card, View, k}
    BY <1>2, <1>3, <1>7, FatValues, FatPutFailsOK DEF CardInv, IndInv
  <2> HIDE DEF k
  <2>2. QED
    BY <1>1, <1>5, <1>7, <2>1, DiskErrorCard
<1>8. QED
  BY <1>6, <1>7 DEF Cut, c

(* cut_chain: the entry no longer starts the chain that is cut off. *)
LEMMA CutSizeCard == ASSUME CardInv, CutSize PROVE CardInv'
<1> DEFINE r == With(Cur, {}, {"DIRTY"})
           x == With(r, {"FAILED"}, {})
           cl == call.cl
           k == WithEntry(View, r)
<1>1. IndInv'
  BY CutSizeInv DEF CardInv
<1>2. pc = "size" /\ UNCHANGED <<lent, mounted, hint>>
  BY DEF CutSize
<1>3. /\ call.fh \in Handle /\ Cur \in Slot /\ Cur = files[call.fh]
      /\ WriterIn(files, call.fh) /\ SizeOK
  BY <1>2, CurOK DEF CardInv, StepsOK, WriterOK
<1>4. r \in Slot /\ r.ent = Cur.ent /\ r.sclust = Cur.sclust /\ Milder(r, Cur)
  BY <1>3, WithoutOK, MilderWith, SMTT(30)
<1>5. \/ /\ DirWrite(r) /\ SetSlot(call.fh, r)
         /\ IF cl # 0 THEN Goto("free") ELSE Done
      \/ /\ DirWriteFails(r)
         /\ SetSlot(call.fh, FreeSlot) \/ SetSlot(call.fh, x)
         /\ Return
  BY DEF CutSize
<1> HIDE DEF r
<1>6. x \in Slot /\ Milder(x, Cur)
  BY <1>4, MilderWith, MilderTrans
<1> HIDE DEF x
<1>7. /\ Good(files, {card, View} \cup {k})
      /\ \A c \in Cluster : Fat(k, c) = Fat(View, c)
      /\ \A e \in Entry : /\ Used(k, e) => Used(View, e)
                          /\ Ent(k, e).sclust =
                               IF e = r.ent THEN r.sclust ELSE Ent(View, e).sclust
  BY <1>3, <1>4, WriterEntGood
<1>8. CASE DirWrite(r) /\ SetSlot(call.fh, r) /\ IF cl # 0 THEN Goto("free") ELSE Done
  <2>1. View' = k /\ card' \in {card, View, k}
    BY <1>2, <1>4, <1>8, DirWriteOK DEF CardInv, IndInv
  <2> HIDE DEF k
  <2>2. files' \in [Handle -> Slot] /\ Fewer(files', files) /\ DirtyOK'
    BY <1>3, <1>4, <1>8, MilderOK
  <2>3. CASE cl = 0
    <3>1. pc' \in {"idle", "unmount", "append"}
      BY <1>8, <2>3, DoneOK DEF CardInv
    <3>2. QED
      BY <1>1, <1>7, <2>1, <2>2, <3>1, RestCardNew
  <2>4. CASE cl # 0
    <3>1. pc' = "free" /\ call'.cl = cl
      BY <1>8, <2>4 DEF Goto
    <3>2. /\ cl \in Cluster
          /\ \A c \in Cluster : Fat(View, c) # cl
          /\ \A e \in Entry : Used(View, e) /\ e # Cur.ent => Ent(View, e).sclust # cl
          /\ NoWriter(files, cl)
      BY <1>2, <1>3, <2>4 DEF SizeOK
    <3> HIDE DEF cl
    <3>3. r.sclust # cl
      BY <1>3, <1>4, <3>2 DEF NoWriter
    <3>4. ~Points(k, cl)
      BY <1>4, <1>7, <3>2, <3>3 DEF Points
    <3>5. NoWriter(files', cl)
      BY <2>2, <3>2, FewerNoWriter
    <3>6. FreeOK'
      BY <2>1, <3>1, <3>4, <3>5 DEF FreeOK
    <3>7. StepsOK'
      BY <2>2, <3>1, <3>6 DEF StepsOK, WriterOK, NewOK, Linkable, KeptNoDir, CutOK, SizeOK
    <3>8. Good(files', {card', View'})
      BY <1>7, <2>1, <2>2, StepGood
    <3>9. QED
      BY <1>1, <3>7, <3>8 DEF CardInv
  <2>5. QED
    BY <2>3, <2>4
<1>9. CASE /\ DirWriteFails(r)
           /\ SetSlot(call.fh, FreeSlot) \/ SetSlot(call.fh, x)
           /\ Return
  <2>1. View' \in {card, View, k} /\ card' \in {card, View, k}
    BY <1>2, <1>4, <1>9, DirWriteFailsOK DEF CardInv, IndInv
  <2>2. pc' \in {"idle", "unmount"}
    BY <1>9, ReturnOK DEF CardInv, IndInv, CtrlOK
  <2>3. files' \in [Handle -> Slot] /\ Fewer(files', files) /\ DirtyOK'
    BY <1>3, <1>6, <1>9, FreeSlotOK, MilderOK
  <2> HIDE DEF k
  <2>4. QED
    BY <1>1, <1>7, <2>1, <2>2, <2>3, RestCardNew
<1>10. QED
  BY <1>5, <1>8, <1>9

(* free_chain: what is freed hangs on nothing, and the next cluster of the *)
(* chain hung on it alone.                                                 *)
LEMMA FreeCard == ASSUME CardInv, Free PROVE CardInv'
<1> DEFINE cl == call.cl
           nx == FatNext(View, cl)
           k == SetFat(View, cl, 0)
<1>1. IndInv'
  BY FreeInv DEF CardInv
<1>2. pc = "free" /\ UNCHANGED <<lent, mounted>>
  BY DEF Free
<1>3. nx # Bad => cl \in Cluster /\ nx \in Cluster \cup {0}
  BY FatNextOK
<1>4. IsCard(View) /\ Good(files, {card, View})
  BY ViewCard DEF CardInv, IndInv
<1>5. cl \in Cluster => ~Points(View, cl) /\ NoWriter(files, cl)
  BY <1>2 DEF CardInv, StepsOK, FreeOK
<1>6. nx \in Cluster => Fat(View, cl) = nx
  BY FatValues DEF FatNext
<1>7. \/ /\ nx # Bad
         /\ FatPut(cl, 0)
         /\ IF nx # 0 THEN pc' = pc /\ call' = [call EXCEPT !.cl = nx] ELSE Done
         /\ UNCHANGED files
      \/ /\ IF cl \in Cluster THEN Load({FatSect(cl)}, FatSect(cl)) ELSE UNCHANGED disk
         /\ Corrupt
      \/ /\ cl \in Cluster
         /\ FatPutFails(cl, 0) \/ LoadFails({FatSect(cl)})
         /\ DiskError
  BY DEF Free
<1> HIDE DEF nx
<1>8. cl \in Cluster => Good(files, {card, View} \cup {k})
  BY <1>4, <1>5, FatValues, SetFatGood
<1>9. CASE /\ nx # Bad
           /\ FatPut(cl, 0)
           /\ IF nx # 0 THEN pc' = pc /\ call' = [call EXCEPT !.cl = nx] ELSE Done
           /\ UNCHANGED files
  <2>1. cl \in Cluster
    BY <1>3, <1>9
  <2>2. View' = k /\ card' \in {card, View, k}
    BY <1>2, <1>9, <2>1, FatValues, FatPutOK DEF CardInv, IndInv
  <2>3. /\ \A d \in Cluster : Fat(k, d) = IF d = cl THEN 0 ELSE Fat(View, d)
        /\ \A e \in Entry : Ent(k, e) = Ent(View, e)
    <3> HIDE DEF cl
    <3>1. 0 \in FatValue
      BY FatValues
    <3>2. QED
      BY <1>4, <2>1, <3>1, SetFatCard
  <2> HIDE DEF k
  <2>4. files' \in [Handle -> Slot] /\ Fewer(files', files) /\ DirtyOK'
    BY <1>9, SameMild
  <2>5. CASE nx = 0
    <3>1. pc' \in {"idle", "unmount", "append"}
      BY <1>9, <2>5, DoneOK DEF CardInv
    <3>2. QED
      BY <1>1, <1>8, <2>1, <2>2, <2>4, <3>1, RestCardNew
  <2>6. CASE nx # 0
    <3>1. nx \in Cluster /\ Fat(View, cl) = nx
      BY <1>3, <1>6, <1>9, <2>6
    <3>2. pc' = "free" /\ call'.cl = nx
      BY <1>2, <1>9, <2>6 DEF CardInv, IndInv, CtrlOK, CallType
    <3>3. /\ \A d \in Cluster : d # cl => Fat(View, d) # nx
          /\ \A e \in Entry : Used(View, e) => Ent(View, e).sclust # nx
          /\ NoWriter(files, nx)
      BY <2>1, <3>1, LinkedOnce
    <3>4. ~Points(k, nx)
      BY <2>3, <2>6, <3>3 DEF Points, Used
    <3>5. NoWriter(files', nx)
      BY <2>4, <3>1, <3>3, FewerNoWriter
    <3>6. FreeOK'
      BY <2>2, <3>2, <3>4, <3>5 DEF FreeOK
    <3>7. StepsOK'
      BY <2>4, <3>2, <3>6 DEF StepsOK, WriterOK, NewOK, Linkable, KeptNoDir, CutOK, SizeOK
    <3>8. Good(files', {card', View'})
      BY <1>8, <2>1, <2>2, <2>4, StepGood
    <3>9. QED
      BY <1>1, <3>7, <3>8 DEF CardInv
  <2>7. QED
    BY <2>5, <2>6
<1>10. CASE /\ IF cl \in Cluster THEN Load({FatSect(cl)}, FatSect(cl)) ELSE UNCHANGED disk
            /\ Corrupt
  <2>1. View' \in {card, View} /\ card' \in {card, View}
    BY <1>2, <1>10, Sectors, LoadOK, SameDiskOK DEF CardInv, IndInv
  <2>2. QED
    BY <1>1, <1>10, <2>1, ErrorCard
<1>11. CASE /\ cl \in Cluster
            /\ FatPutFails(cl, 0) \/ LoadFails({FatSect(cl)})
            /\ DiskError
  <2>1. View' \in {card, View, k} /\ card' \in {card, View, k}
    BY <1>2, <1>11, FatValues, FatPutFailsOK, LoadFailsOK DEF CardInv, IndInv
  <2> HIDE DEF k
  <2>2. QED
    BY <1>1, <1>8, <1>11, <2>1, DiskErrorCard
<1>12. QED
  BY <1>7, <1>9, <1>10, <1>11

(* uzefs_sync writes the entry of a writer again. *)
LEMMA SyncEntryCard == ASSUME CardInv, SyncEntry PROVE CardInv'
<1> DEFINE k == WithEntry(View, Cur)
<1>1. IndInv'
  BY SyncEntryInv DEF CardInv
<1>2. pc = "entry" /\ UNCHANGED <<lent, mounted, hint>>
  BY DEF SyncEntry
<1>3. /\ call.fh \in Handle /\ Cur \in Slot /\ Cur = files[call.fh]
      /\ WriterIn(files, call.fh)
  BY <1>2, CurOK DEF CardInv, StepsOK, WriterOK
<1>4. Good(files, {card, View} \cup {k})
  BY <1>3, WriterEntGood
<1>5. View' \in {card, View, k} /\ card' \in {card, View, k}
  BY <1>2, <1>3, DirWriteOK, DirWriteFailsOK DEF SyncEntry, CardInv, IndInv
<1> HIDE DEF k
<1>6. CASE Goto("flush") /\ UNCHANGED files
  BY <1>1, <1>4, <1>5, <1>6, SameMild, RestCardNew DEF Goto
<1>7. CASE DiskError
  BY <1>1, <1>4, <1>5, <1>7, DiskErrorCard
<1>8. QED
  BY <1>6, <1>7 DEF SyncEntry

-----------------------------------------------------------------------------
(* Every step preserves the invariant. *)
LEMMA NextCard == ASSUME CardInv, [Next]_vars PROVE CardInv'
<1>1. CASE VolumeCall
  BY <1>1, MountCard, UnmountCard, LendCard DEF VolumeCall
<1>2. CASE NameCall
  BY <1>2, StatCard, DeleteCard, RenameCard, OpenExistingCard, OpenNewCard DEF NameCall
<1>3. CASE HandleCall
  BY <1>3, ReadCard, WriteCard, SeekCard, TruncateCard, SyncCard, FragmentsCard
     DEF HandleCall
<1>4. CASE Step
  BY <1>4, AppendCard, SameClusterCard, NextClusterCard, AllocCard, AllocFullCard,
     ReadChunkCard, WriteChunkCard, WriteChunkFailsCard, LinkCard, JoinCard, CutCard,
     CutSizeCard, FreeCard, SyncEntryCard, SyncDoneCard, SyncFlushFailsCard,
     UnmountCloseCard, UnmountEndCard DEF Step
<1>5. CASE Crash
  BY <1>5, MountCard
<1>6. CASE UNCHANGED vars
  <2>1. IndInv'
    BY <1>6, NextInv DEF CardInv
  <2>2. View' = View /\ card' = card
    BY <1>6, SameDiskOK DEF vars, disk, CardInv, IndInv
  <2>3. Good(files', {card', View'})
    BY <1>6, <2>2, SameMild, StepGood DEF vars, CardInv
  <2>4. StepsOK'
    BY <1>6, <2>2 DEF vars, CardInv, StepsOK, WriterOK, DirtyOK, NewOK, Linkable,
       KeptNoDir, CutOK, SizeOK, FreeOK, Has, Cur, WriterIn, NoWriter, NewClust
  <2>5. QED
    BY <2>1, <2>3, <2>4 DEF CardInv
<1>7. QED
  BY <1>1, <1>2, <1>3, <1>4, <1>5, <1>6 DEF Next

(* spec-uzefs.md 12.2, for every volume: whatever calls are made, whatever *)
(* command of the card fails and whenever the power goes, no cluster of    *)
(* the card is in two chains, and none is in a chain and marked free.      *)
THEOREM CardIsSound ==
  ASSUME SoundVolumes
  PROVE  Spec => []CardSound
<1>1. Init => CardInv
  BY InitCard
<1>2. CardInv /\ [Next]_vars => CardInv'
  BY NextCard
<1>3. CardInv => CardSound
  BY DEF CardInv, Good, CardSound
<1>4. QED
  BY <1>1, <1>2, <1>3, PTL DEF Spec

=============================================================================
