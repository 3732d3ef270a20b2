-------------------------- MODULE UzeFSSizeProofs --------------------------
(***************************************************************************)
(* What a file's size, its chain and its slot have to do with each other:  *)
(* whenever the power goes no chain on the card is longer than its file's  *)
(* size has it, and between calls the entry of an open file is behind its  *)
(* slot in the last cluster at most.  And the mark uzefs_fragments leaves  *)
(* stays true.  For every geometry, number of files, mode and length of    *)
(* call, from any sound volume whose sizes cover their chains.  And while  *)
(* the card answers and the power stays, no cluster is in use that no file *)
(* has.                                                                    *)
(***************************************************************************)
EXTENDS UzeFSPositionProofs

-----------------------------------------------------------------------------
(***************************************************************************)
(* Walks to the end of a chain.                                            *)
(***************************************************************************)
(* A walk that has left the clusters does not come back. *)
LEMMA WalkOut ==
  ASSUME NEW k, IsCard(k), NEW cl, NEW n \in Nat, NEW m \in Nat, n <= m,
         Walk(k, cl, n) \notin Cluster
  PROVE  Walk(k, cl, m) \notin Cluster
<1>1. n \in 0 .. m
  OBVIOUS
<1>2. QED
  BY <1>1, WalkLinks

(* Where every step is the same, so is every walk. *)
LEMMA WalkNext ==
  ASSUME NEW j, NEW k, \A c : FatNext(j, c) = FatNext(k, c)
  PROVE  \A cl, n : Walk(j, cl, n) = Walk(k, cl, n)
<1> SUFFICES ASSUME NEW cl, NEW n PROVE Walk(j, cl, n) = Walk(k, cl, n)
  OBVIOUS
<1>1. \A f : WalkBody(j, cl, f, n) = WalkBody(k, cl, f, n)
  <2> SUFFICES ASSUME NEW f PROVE WalkBody(j, cl, f, n) = WalkBody(k, cl, f, n)
    OBVIOUS
  <2>1. \A i \in 0 .. n : (IF i = 0 THEN cl ELSE FatNext(j, f[i - 1]))
                        = IF i = 0 THEN cl ELSE FatNext(k, f[i - 1])
    OBVIOUS
  <2>2. QED
    BY <2>1 DEF WalkBody
<1>2. \A f : f = WalkBody(j, cl, f, n) <=> f = WalkBody(k, cl, f, n)
  BY <1>1
<1>3. (CHOOSE f : f = WalkBody(j, cl, f, n)) = CHOOSE f : f = WalkBody(k, cl, f, n)
  BY <1>2, Zenon
<1>4. Walk(j, cl, n) = (CHOOSE f : f = WalkBody(j, cl, f, n))[n]
  BY DEF Walk, WalkBody
<1>5. Walk(k, cl, n) = (CHOOSE f : f = WalkBody(k, cl, f, n))[n]
  BY DEF Walk, WalkBody
<1>6. QED
  BY <1>3, <1>4, <1>5

(* Where the links walked over are the same, so is the walk, to its end. *)
LEMMA WalkSame ==
  ASSUME NEW j, NEW k, NEW cl,
         \A i \in Nat : Walk(k, cl, i) \in Cluster =>
           Fat(j, Walk(k, cl, i)) = Fat(k, Walk(k, cl, i))
  PROVE  \A n \in Nat : Walk(j, cl, n) = Walk(k, cl, n)
<1> DEFINE S == {n \in Nat : Walk(j, cl, n) = Walk(k, cl, n)}
<1>1. 0 \in S
  BY WalkIs
<1>2. ASSUME NEW n \in Nat, n \in S PROVE n + 1 \in S
  <2>1. Walk(j, cl, n) = Walk(k, cl, n)
    BY <1>2
  <2>2. PICK w : w = Walk(k, cl, n)
    OBVIOUS
  <2>3. Walk(j, cl, n + 1) = FatNext(j, w) /\ Walk(k, cl, n + 1) = FatNext(k, w)
    BY <2>1, <2>2, WalkIs
  <2>4. w \in Cluster => Fat(j, w) = Fat(k, w)
    BY <2>2
  <2>5. FatNext(j, w) = FatNext(k, w)
    BY <2>4 DEF FatNext
  <2>6. QED
    BY <2>3, <2>5
<1>3. QED
  <2> HIDE DEF S
  <2>1. \A n \in Nat : n \in S
    BY <1>1, <1>2, NatAll
  <2>2. QED
    BY <2>1 DEF S

(* Where links were only taken away, a walk goes as it went, or ends. *)
LEMMA WalkShorter ==
  ASSUME NEW j, NEW k, NEW cl,
         \A c \in Cluster : Fat(j, c) \in Cluster => Fat(j, c) = Fat(k, c)
  PROVE  \A n \in Nat : Walk(j, cl, n) \in Cluster => Walk(k, cl, n) = Walk(j, cl, n)
<1> DEFINE S == {n \in Nat : Walk(j, cl, n) \in Cluster => Walk(k, cl, n) = Walk(j, cl, n)}
<1>1. 0 \in S
  BY WalkIs
<1>2. ASSUME NEW n \in Nat, n \in S, Walk(j, cl, n + 1) \in Cluster
      PROVE  Walk(k, cl, n + 1) = Walk(j, cl, n + 1)
  <2>1. PICK w : w = Walk(j, cl, n)
    OBVIOUS
  <2>2. FatNext(j, w) \in Cluster /\ Walk(j, cl, n + 1) = FatNext(j, w)
    BY <1>2, <2>1, WalkIs
  <2>3. w \in Cluster => Walk(k, cl, n) = w
    BY <1>2, <2>1
  <2>4. Walk(k, cl, n + 1) = FatNext(k, Walk(k, cl, n))
    BY WalkIs
  <2>5. w \in Cluster /\ Fat(j, w) \in Cluster /\ FatNext(k, w) = FatNext(j, w)
    BY <2>2, FatValues DEF FatNext
  <2>6. QED
    BY <2>2, <2>3, <2>4, <2>5
<1>3. QED
  <2>1. \A n \in Nat : n \in S => n + 1 \in S
    BY <1>2
  <2> HIDE DEF S
  <2>2. \A n \in Nat : n \in S
    BY <1>1, <2>1, NatAll
  <2>3. QED
    BY <2>2 DEF S

(* Clusters for a size, and the steps to its last unit. *)
LEMMA ClustersIs ==
  ASSUME NEW p \in Nat
  PROVE  /\ ClustersFor(p) \in Nat
         /\ p = 0 => ClustersFor(p) = 0
         /\ p > 0 => ClustersFor(p) = Steps(p) + 1
<1>1. UPC \in Nat /\ UPC > 0
  BY UnitsOK
<1> DEFINE w == UPC
<1>2. ClustersFor(p) = (p + w - 1) \div w
  BY DEF ClustersFor
<1>3. p > 0 => Steps(p) = (p - 1) \div w
  BY DEF Steps
<1> HIDE DEF w
<1>4. w \in Nat /\ w > 0
  BY <1>1 DEF w
<1>5. CASE p = 0
  <2>1. w - 1 \in 0 .. w - 1 /\ w * 0 + (w - 1) = p + w - 1 /\ 0 \in Nat
    BY <1>4, <1>5
  <2>2. (w * 0 + (w - 1)) \div w = 0
    BY <1>4, <2>1, DivUnique
  <2>3. QED
    BY <1>2, <1>5, <2>1, <2>2
<1>6. CASE p > 0
  <2>1. PICK a \in Nat : a = p - 1
    BY <1>6
  <2>2. a \div w \in Nat /\ a = w * (a \div w) + (a % w) /\ a % w \in 0 .. w - 1
    BY <1>4, DivIs
  <2>3. PICK t \in Nat, r \in 0 .. w - 1 : t = a \div w /\ r = a % w /\ a = w * t + r
    BY <2>2
  <2>4. p + w - 1 = w * (t + 1) + r
    BY <2>1, <2>3, <1>4
  <2>5. (w * (t + 1) + r) \div w = t + 1
    BY <1>4, DivUnique
  <2>6. QED
    BY <1>2, <1>3, <1>6, <2>1, <2>3, <2>4, <2>5
<1>7. QED
  BY <1>5, <1>6

(* More steps to a position further on. *)
LEMMA DivMono ==
  ASSUME NEW a \in Nat, NEW b \in Nat, a <= b, NEW w \in Nat, w > 0
  PROVE  a \div w <= b \div w
<1>1. PICK s \in Nat, r \in 0 .. w - 1 : s = a \div w /\ a = w * s + r
  BY DivIs
<1>2. PICK t \in Nat, q \in 0 .. w - 1 : t = b \div w /\ b = w * t + q
  BY DivIs
<1>3. SUFFICES ASSUME s > t PROVE FALSE
  BY <1>1, <1>2
<1>4. PICK d \in Nat : s = t + 1 + d
  <2>1. s - t - 1 \in Nat /\ s = t + 1 + (s - t - 1)
    BY <1>3
  <2>2. QED
    BY <2>1
<1>5. w * s = w * t + w + w * d
  BY <1>4
<1>6. w * t \in Nat /\ w * d \in Nat
  OBVIOUS
<1>7. QED
  BY <1>1, <1>2, <1>5, <1>6

(* A larger size takes no fewer clusters. *)
LEMMA ClustersMono ==
  ASSUME NEW p \in Nat, NEW q \in Nat, p <= q
  PROVE  ClustersFor(p) <= ClustersFor(q)
<1>1. UPC \in Nat /\ UPC > 0
  BY UnitsOK
<1>2. p + UPC - 1 \in Nat /\ q + UPC - 1 \in Nat /\ p + UPC - 1 <= q + UPC - 1
  BY <1>1
<1>3. QED
  BY <1>1, <1>2, DivMono DEF ClustersFor

-----------------------------------------------------------------------------
(***************************************************************************)
(* Contents whose sizes cover their chains.                                *)
(***************************************************************************)
(* A file's chain has ended where its size ends, *)
Covered(k) ==
  \A e \in Entry : Used(k, e) =>
    Walk(k, Ent(k, e).sclust, ClustersFor(Ent(k, e).size)) \notin Cluster

(* and no chain runs into a value that may not occur in one. *)
EndsWell(k) == \A c \in Cluster : Points(k, c) => Fat(k, c) # Bad

Ends(k) == Covered(k) /\ EndsWell(k)

(* Data does not matter to it. *)
LEMMA MetaEnds ==
  ASSUME NEW j, NEW k, Meta(j, k), Ends(k)
  PROVE  Ends(j)
<1>1. EndsWell(j)
  BY MetaPoints DEF Ends, EndsWell
<1>2. ASSUME NEW e \in Entry, Used(j, e)
      PROVE  Walk(j, Ent(j, e).sclust, ClustersFor(Ent(j, e).size)) \notin Cluster
  <2>1. Ent(j, e) = Ent(k, e) /\ Used(k, e)
    BY <1>2 DEF Meta, Used
  <2>2. PICK cl, n : cl = Ent(k, e).sclust /\ n = ClustersFor(Ent(k, e).size)
    OBVIOUS
  <2>3. Walk(k, cl, n) \notin Cluster
    BY <2>1, <2>2 DEF Ends, Covered
  <2>4. Walk(j, cl, n) = Walk(k, cl, n)
    <3>1. \A c : FatNext(j, c) = FatNext(k, c)
      BY DEF FatNext, Meta
    <3>2. QED
      BY <3>1, WalkNext
  <2>5. QED
    BY <2>1, <2>2, <2>3, <2>4
<1>3. QED
  BY <1>1, <1>2 DEF Ends, Covered

(* A size of a card is a number of units, and takes a number of clusters. *)
LEMMA SizeNat ==
  ASSUME NEW k, IsCard(k), NEW e \in Entry
  PROVE  Ent(k, e).size \in Nat /\ ClustersFor(Ent(k, e).size) \in Nat
BY Entries, ClustersIs DEF DirEnt

(* Taking a link away, or giving a cluster none, shortens chains. *)
LEMMA FatEnds ==
  ASSUME NEW k, IsCard(k), Ends(k), NEW c \in Cluster, NEW v \in {0, EOC}
  PROVE  Ends(SetFat(k, c, v))
<1>1. PICK j : j = SetFat(k, c, v)
  OBVIOUS
<1>2. /\ IsCard(j)
      /\ \A d \in Cluster : Fat(j, d) = IF d = c THEN v ELSE Fat(k, d)
      /\ \A e \in Entry : Ent(j, e) = Ent(k, e)
      /\ v \notin Cluster /\ v # Bad
  BY <1>1, SetFatCard, FatValues
<1>3. \A d \in Cluster : Fat(j, d) \in Cluster => Fat(j, d) = Fat(k, d)
  BY <1>2
<1>4. Covered(j)
  <2>1. SUFFICES ASSUME NEW e \in Entry, Used(j, e)
                 PROVE  Walk(j, Ent(j, e).sclust, ClustersFor(Ent(j, e).size)) \notin Cluster
    BY DEF Covered
  <2>2. Ent(j, e) = Ent(k, e) /\ Used(k, e)
    BY <1>2, <2>1 DEF Used
  <2>3. PICK cl, n : cl = Ent(k, e).sclust /\ n = ClustersFor(Ent(k, e).size)
    OBVIOUS
  <2>4. Walk(k, cl, n) \notin Cluster /\ n \in Nat
    BY <2>2, <2>3, SizeNat DEF Ends, Covered
  <2>5. Walk(j, cl, n) \in Cluster => Walk(k, cl, n) = Walk(j, cl, n)
    BY <1>3, <2>4, WalkShorter
  <2>6. QED
    BY <2>2, <2>3, <2>4, <2>5
<1>5. EndsWell(j)
  <2>1. SUFFICES ASSUME NEW d \in Cluster, Points(j, d), Fat(j, d) = Bad PROVE FALSE
    BY DEF EndsWell
  <2>2. Points(k, d)
    <3>1. CASE \E e \in Entry : Used(j, e) /\ Ent(j, e).sclust = d
      BY <3>1, <1>2 DEF Points, Used
    <3>2. CASE \E b \in Cluster : Fat(j, b) = d
      BY <3>2, <1>2 DEF Points
    <3>3. QED
      BY <2>1, <3>1, <3>2 DEF Points
  <2>3. QED
    BY <2>1, <2>2, <1>2 DEF Ends, EndsWell
<1>6. QED
  BY <1>1, <1>4, <1>5 DEF Ends

(* Writing an entry that covers its chain, or naming none. *)
LEMMA EntEnds ==
  ASSUME NEW k, IsCard(k), Ends(k), NEW e \in Entry, NEW q \in DirEnt,
         q.name \in Names =>
           /\ Walk(k, q.sclust, ClustersFor(q.size)) \notin Cluster
           /\ q.sclust \in Cluster => Fat(k, q.sclust) # Bad
  PROVE  Ends(SetEnt(k, e, q))
<1>1. PICK j : j = SetEnt(k, e, q)
  OBVIOUS
<1>2. /\ \A g \in Entry : Ent(j, g) = IF g = e THEN q ELSE Ent(k, g)
      /\ \A c \in Cluster : Fat(j, c) = Fat(k, c)
  BY <1>1, SetEntCard
<1>3. \A cl, n : Walk(j, cl, n) = Walk(k, cl, n)
  <2>1. \A c : FatNext(j, c) = FatNext(k, c)
    BY <1>2 DEF FatNext
  <2>2. QED
    BY <2>1, WalkNext
<1>4. Covered(j)
  <2>1. SUFFICES ASSUME NEW g \in Entry, Used(j, g)
                 PROVE  Walk(j, Ent(j, g).sclust, ClustersFor(Ent(j, g).size)) \notin Cluster
    BY DEF Covered
  <2>2. CASE g = e
    <3>1. Ent(j, g) = q /\ q.name \in Names
      BY <2>1, <2>2, <1>2 DEF Used
    <3>2. QED
      BY <3>1, <1>3
  <2>3. CASE g # e
    <3>1. Ent(j, g) = Ent(k, g) /\ Used(k, g)
      BY <2>1, <2>3, <1>2 DEF Used
    <3>2. QED
      BY <3>1, <1>3 DEF Ends, Covered
  <2>4. QED
    BY <2>2, <2>3
<1>5. EndsWell(j)
  <2>1. SUFFICES ASSUME NEW d \in Cluster, Points(j, d) PROVE Fat(k, d) # Bad
    BY <1>2 DEF EndsWell
  <2>2. CASE \E g \in Entry : Used(j, g) /\ Ent(j, g).sclust = d
    <3>1. PICK g \in Entry : Used(j, g) /\ Ent(j, g).sclust = d
      BY <2>2
    <3>2. CASE g = e
      BY <3>1, <3>2, <1>2 DEF Used
    <3>3. CASE g # e
      <4>1. Points(k, d)
        BY <3>1, <3>3, <1>2 DEF Points, Used
      <4>2. QED
        BY <4>1 DEF Ends, EndsWell
    <3>4. QED
      BY <3>2, <3>3
  <2>3. CASE \E b \in Cluster : Fat(j, b) = d
    <3>1. Points(k, d)
      BY <2>3, <1>2 DEF Points
    <3>2. QED
      BY <3>1 DEF Ends, EndsWell
  <2>4. QED
    BY <2>1, <2>2, <2>3 DEF Points
<1>6. QED
  BY <1>1, <1>4, <1>5 DEF Ends

(* dir_write of a slot whose size covers its chain. *)
LEMMA WithEntryEnds ==
  ASSUME NEW k, IsCard(k), Ends(k), NEW r \in Slot,
         Walk(k, r.sclust, ClustersFor(r.fsize)) \notin Cluster,
         r.sclust \in Cluster => Fat(k, r.sclust) # Bad
  PROVE  Ends(WithEntry(k, r))
<1>1. PICK q : q = [Ent(k, r.ent) EXCEPT !.sclust = r.sclust, !.size = r.fsize]
  OBVIOUS
<1>2. r.ent \in Entry /\ q \in DirEnt
  BY <1>1, WithEntryOK
<1>3. q.sclust = r.sclust /\ q.size = r.fsize
  BY <1>1, <1>2, Entries DEF DirEnt
<1>4. QED
  BY <1>1, <1>2, <1>3, EntEnds DEF WithEntry

(* The entry it writes. *)
LEMMA WithEntryIs ==
  ASSUME NEW k, IsCard(k), NEW r \in Slot
  PROVE  LET j == WithEntry(k, r)
         IN  /\ Ent(j, r.ent).sclust = r.sclust /\ Ent(j, r.ent).size = r.fsize
             /\ \A e \in Entry : e # r.ent => Ent(j, e) = Ent(k, e)
             /\ \A c \in Cluster : Fat(j, c) = Fat(k, c)
<1>1. PICK q : q = [Ent(k, r.ent) EXCEPT !.sclust = r.sclust, !.size = r.fsize]
  OBVIOUS
<1>2. r.ent \in Entry /\ q \in DirEnt
  BY <1>1, WithEntryOK
<1>3. q.sclust = r.sclust /\ q.size = r.fsize
  BY <1>1, <1>2, Entries DEF DirEnt
<1>4. PICK j, g : j = SetEnt(k, g, q) /\ g = r.ent
  OBVIOUS
<1>5. /\ \A e \in Entry : Ent(j, e) = IF e = g THEN q ELSE Ent(k, e)
      /\ \A c \in Cluster : Fat(j, c) = Fat(k, c)
  BY <1>2, <1>4, SetEntCard
<1>6. j = WithEntry(k, r)
  BY <1>1, <1>4 DEF WithEntry
<1>7. QED
  BY <1>2, <1>3, <1>4, <1>5, <1>6

-----------------------------------------------------------------------------
(***************************************************************************)
(* The invariant.                                                          *)
(***************************************************************************)
(* The entry of the slot r is behind it by no more than its last cluster. *)
Lags(k, r) ==
  LET size == Ent(k, r.ent).size
  IN  /\ size <= r.fsize
      /\ ClustersFor(size) = ClustersFor(r.fsize)
      /\ size # r.fsize => "DIRTY" \in r.flags

(* How it is at the step at of a call.  While a chain is cut the entry is  *)
(* not the slot's yet, and has not the slot's size before the new cluster  *)
(* is linked.                                                              *)
Sized(k, r, at) ==
  /\ at \notin {"cut", "size", "link", "join"} => Lags(k, r)
  /\ at \in {"join", "flush"} => Ent(k, r.ent).size = r.fsize
  /\ at = "cut" => r.fsize = r.fptr
  /\ at = "size" =>
       IF r.sclust = 0 THEN r.fsize = 0
       ELSE /\ r.fsize = r.fptr
            /\ Ent(k, r.ent).sclust = r.sclust
            /\ FatNext(k, r.cclust) = 0
AllSized == \A f \in Handle : Live(f) => Sized(View, files[f], Phase(f))

(* The clusters of a marked slot follow each other. *)
Piece(k, r) ==
  "CONTIG" \in r.flags =>
    /\ "OPEN" \in r.flags
    /\ Ent(k, r.ent).sclust = r.sclust
    /\ \A i \in 0 .. Steps(r.fsize) - 1 : FatNext(k, r.sclust + i) = (r.sclust + i) + 1
AllInOnePiece == \A f \in Handle : Piece(View, files[f])

(* What a call in progress counts on: its new cluster ends a chain, a read *)
(* stays inside the file, an error at a cut or an entry gives up the slot, *)
(* and what changes a chain took the mark away.                            *)
NewEnds == Linkable \/ pc = "join" => Fat(View, NewClust) = EOC
ReadWithin ==
  pc \in {"chunk", "move"} /\ call.op = "read" => Cur.fptr + call.left <= Cur.fsize
ChangeCall == /\ pc = "cut" => call.op = "truncate"
              /\ pc = "entry" => call.op \in {"sync", "close", "unmount"}
              /\ pc = "unmount" => call.op = "unmount"
NoMark ==
  \/ pc \in {"chunk", "alloc", "move", "link", "join"} /\ call.op = "write"
  \/ pc \in {"cut", "size"}
  => "CONTIG" \notin Cur.flags
Locals == NewEnds /\ ReadWithin /\ ChangeCall /\ NoMark

SizeInv ==
  /\ Ends(card) /\ Ends(View)
  /\ AllSized
  /\ AllInOnePiece
  /\ Locals

(* Data does not matter to a slot's size, *)
LEMMA MetaSized ==
  ASSUME NEW j, NEW k, Meta(j, k), NEW r \in Slot, NEW at, Sized(k, r, at)
  PROVE  Sized(j, r, at)
<1>1. Ent(j, r.ent) = Ent(k, r.ent)
  BY DEF Meta, Slot
<1>2. FatNext(j, r.cclust) = FatNext(k, r.cclust)
  BY DEF FatNext, Meta
<1>3. QED
  BY <1>1, <1>2 DEF Sized, Lags

(* nor to its mark. *)
LEMMA MetaPiece ==
  ASSUME NEW j, NEW k, Meta(j, k), NEW r \in Slot, Piece(k, r)
  PROVE  Piece(j, r)
<1>1. Ent(j, r.ent) = Ent(k, r.ent)
  BY DEF Meta, Slot
<1>2. \A c : FatNext(j, c) = FatNext(k, c)
  BY DEF FatNext, Meta
<1>3. QED
  BY <1>1, <1>2 DEF Piece

(* No step of the call in progress has changed the file of f. *)
Calm(f) == f = call.fh => pc \notin {"cut", "size", "link", "join", "flush"}

(* What the contents j must share with k for another's slot. *)
SameFile(j, k, r) ==
  /\ Ent(j, r.ent) = Ent(k, r.ent)
  /\ Piece(k, r) => Piece(j, r)

(* A step that works on the slot g, and may bring the contents k. *)
LEMMA SizeStep ==
  ASSUME CardInv, CardInv', SizeInv, NEW k, Ends(k), NEW g \in Handle,
         \E i \in {View, k} : Meta(View', i),
         \E i \in {card, View, k} : Meta(card', i),
         \A f \in Handle : f # g => files'[f] = files[f] /\ Calm(f) /\ Calm(f)',
         \A f \in Handle : f # g /\ Has(f, "OPEN") => SameFile(k, View, files[f]),
         Live(g)' => Sized(View', files'[g], Phase(g)'),
         Piece(View', files'[g]),
         Locals'
  PROVE  SizeInv'
<1>1. Ends(View') /\ Ends(card')
  BY MetaEnds DEF SizeInv
<1>2. files \in [Handle -> Slot] /\ files' \in [Handle -> Slot]
  BY DEF CardInv, IndInv, CtrlOK
<1>3. ASSUME NEW f \in Handle, f # g, Has(f, "OPEN") PROVE SameFile(View', View, files[f])
  <2>1. PICK i \in {View, k} : Meta(View', i)
    OBVIOUS
  <2>2. SameFile(i, View, files[f])
    BY <1>3 DEF SameFile
  <2>3. files[f] \in Slot /\ files[f].ent \in Entry
    BY <1>2 DEF Slot
  <2>4. Ent(View', files[f].ent) = Ent(i, files[f].ent)
    BY <2>1, <2>3 DEF Meta
  <2>5. Piece(i, files[f]) => Piece(View', files[f])
    BY <2>1, <2>3, MetaPiece
  <2>6. QED
    BY <2>2, <2>4, <2>5 DEF SameFile
<1>4. AllSized'
  <2>1. SUFFICES ASSUME NEW f \in Handle, Live(f)'
                 PROVE  Sized(View', files'[f], Phase(f)')
    BY DEF AllSized
  <2>2. CASE f = g
    BY <2>1, <2>2
  <2>3. CASE f # g
    <3>1. files'[f] = files[f] /\ Live(f) /\ Has(f, "OPEN")
      BY <2>1, <2>3 DEF Live, Has
    <3>2. Sized(View, files[f], Phase(f))
      BY <3>1 DEF SizeInv, AllSized
    <3>3. Phase(f) \notin {"cut", "size", "link", "join", "flush"}
          /\ Phase(f)' \notin {"cut", "size", "link", "join", "flush"}
      BY <2>3 DEF Calm, Phase
    <3>4. Lags(View, files[f])
      BY <3>2, <3>3 DEF Sized
    <3>5. Lags(View', files[f])
      BY <1>3, <2>3, <3>1, <3>4 DEF SameFile, Lags
    <3>6. QED
      BY <3>1, <3>3, <3>5 DEF Sized
  <2>4. QED
    BY <2>2, <2>3
<1>5. ASSUME NEW f \in Handle PROVE Piece(View', files'[f])
  <2>1. CASE f = g
    BY <1>5, <2>1
  <2>2. CASE f # g
    <3>1. files'[f] = files[f] /\ Piece(View, files[f])
      BY <1>5, <2>2 DEF SizeInv, AllInOnePiece
    <3>2. CASE Has(f, "OPEN")
      BY <1>3, <2>2, <3>1, <3>2 DEF SameFile
    <3>3. CASE ~Has(f, "OPEN")
      BY <3>1, <3>3 DEF Piece, Has
    <3>4. QED
      BY <3>2, <3>3
  <2>3. QED
    BY <2>1, <2>2
<1>6. QED
  BY <1>1, <1>4, <1>5 DEF SizeInv, AllInOnePiece

(* The slot q is r, as far as sizes go, or works no more. *)
Tamer(q, r) ==
  \/ q = FreeSlot
  \/ /\ q.ent = r.ent /\ q.sclust = r.sclust /\ q.fsize = r.fsize
     /\ "OPEN" \in r.flags => "OPEN" \in q.flags
     /\ Able(q) => Able(r) /\ ("DIRTY" \in r.flags => "DIRTY" \in q.flags)
     /\ "CONTIG" \in q.flags => "CONTIG" \in r.flags

(* Its mark is no less true. *)
LEMMA TamerPiece ==
  ASSUME NEW k, NEW q, NEW r, Tamer(q, r), Piece(k, r)
  PROVE  Piece(k, q)
<1>1. CASE q = FreeSlot
  BY <1>1, FreeSlotOK DEF Piece
<1>2. CASE q # FreeSlot
  BY <1>2 DEF Tamer, Piece
<1>3. QED
  BY <1>1, <1>2

(* Its entry is no further behind. *)
LEMMA TamerLags ==
  ASSUME NEW k, NEW q, NEW r, Tamer(q, r), Able(q), Lags(k, r)
  PROVE  Lags(k, q)
<1>1. q # FreeSlot
  BY FreeSlotOK DEF Able
<1>2. QED
  BY <1>1 DEF Tamer, Lags

(* Contents share everything with themselves. *)
LEMMA SameFileRefl == \A k, r : SameFile(k, k, r)
BY DEF SameFile

(* A step that leaves slots as they are, as far as sizes go, and may bring *)
(* the contents k, which are the same for every file that is open.         *)
LEMMA SizeTame ==
  ASSUME CardInv, CardInv', SizeInv, NEW k, Ends(k), NEW g \in Handle,
         \E i \in {View, k} : Meta(View', i),
         \E i \in {card, View, k} : Meta(card', i),
         \A f \in Handle : f # g => files'[f] = files[f],
         \A f \in Handle : Calm(f) /\ Calm(f)',
         \A f \in Handle : Has(f, "OPEN") => SameFile(k, View, files[f]),
         Tamer(files'[g], files[g]),
         Locals'
  PROVE  SizeInv'
<1>1. files[g] \in Slot /\ files'[g] \in Slot
  BY DEF CardInv, IndInv, CtrlOK
<1>2. PICK i \in {View, k} : Meta(View', i)
  OBVIOUS
<1>3. Has(g, "OPEN") => SameFile(i, View, files[g])
  BY SameFileRefl
<1>4. ASSUME Live(g)' PROVE Sized(View', files'[g], Phase(g)')
  <2>1. Able(files'[g])
    BY <1>4, LiveAble
  <2>2. Able(files[g])
    BY <2>1, FreeSlotOK DEF Tamer, Able
  <2>3. Sized(View, files[g], Phase(g)) /\ Has(g, "OPEN")
    BY <2>2, LiveAble DEF SizeInv, AllSized, Able, Has
  <2>4. Phase(g) \notin {"cut", "size", "link", "join", "flush"}
        /\ Phase(g)' \notin {"cut", "size", "link", "join", "flush"}
    BY DEF Calm, Phase
  <2>5. Lags(i, files[g])
    BY <1>3, <2>3, <2>4 DEF Sized, SameFile, Lags
  <2>6. Lags(i, files'[g])
    BY <2>1, <2>5, TamerLags
  <2>7. Sized(i, files'[g], Phase(g)')
    BY <2>4, <2>6 DEF Sized
  <2>8. QED
    BY <1>1, <1>2, <2>7, MetaSized
<1>5. Piece(View', files'[g])
  <2>1. Piece(View, files[g])
    BY DEF SizeInv, AllInOnePiece
  <2>2. Piece(i, files[g])
    BY <2>1, <1>3 DEF SameFile, Piece, Has
  <2>3. Piece(i, files'[g])
    BY <2>2, TamerPiece
  <2>4. QED
    BY <1>1, <1>2, <2>3, MetaPiece
<1>6. QED
  BY <1>4, <1>5, SizeStep

(* A step that leaves the FAT and the directory as they are read, too. *)
LEMMA SizeQuiet ==
  ASSUME CardInv, CardInv', SizeInv, Meta(View', View), NEW g \in Handle,
         \E i \in {card, View} : Meta(card', i),
         \A f \in Handle : f # g => files'[f] = files[f],
         \A f \in Handle : Calm(f) /\ Calm(f)',
         Tamer(files'[g], files[g]),
         Locals'
  PROVE  SizeInv'
<1>1. PICK k : k = View
  OBVIOUS
<1>2. Ends(k) /\ (\E i \in {View, k} : Meta(View', i))
      /\ (\E i \in {card, View, k} : Meta(card', i))
  BY <1>1 DEF SizeInv
<1>3. \A f \in Handle : SameFile(k, View, files[f])
  BY <1>1, SameFileRefl
<1>4. QED
  BY <1>2, <1>3, SizeTame

(* The call is over, or counts on nothing. *)
LEMMA RestLocals ==
  ASSUME \/ pc' \in {"idle", "append", "free", "flush"}
         \/ pc' = "unmount" /\ call'.op = "unmount"
  PROVE  Locals'
BY DEF Locals, NewEnds, Linkable, ReadWithin, ChangeCall, NoMark

(* A call that has returned counts on nothing. *)
LEMMA ReturnLocals == ASSUME Return PROVE Locals'
BY RestLocals DEF Return

(* No slot changes. *)
LEMMA SizeSame ==
  ASSUME CardInv, CardInv', SizeInv, Meta(View', View),
         \E i \in {card, View} : Meta(card', i), UNCHANGED files,
         \A f \in Handle : Calm(f) /\ Calm(f)',
         Locals'
  PROVE  SizeInv'
<1>1. PICK g \in Handle : TRUE
  BY FreeSlotOK
<1>2. Tamer(files'[g], files[g])
  BY DEF Tamer, Able
<1>3. QED
  BY <1>2, SizeQuiet

(* What is read is the same, and no more was written than waited. *)
SameRead == View' = View /\ card' \in {card, View}

(* Then no contents differ. *)
LEMMA SameReadMeta ==
  ASSUME SameRead
  PROVE  Meta(View', View) /\ \E i \in {card, View} : Meta(card', i)
BY MetaRefl DEF SameRead

(* Reading is such a step, also when it fails. *)
LEMMA OnlyReads ==
  ASSUME NothingDropped, CardInv, PosInv, UNCHANGED lent
  PROVE  /\ \A cl, n : LoadWalk(cl, n) => SameRead
         /\ \A S : LoadFails(S) => SameRead
         /\ \A S, s : (S # {} => s \in S /\ s \in Sector) /\ Load(S, s) => SameRead
         /\ UNCHANGED disk => SameRead
         /\ Flush \/ FlushFails => SameRead
<1>1. DiskOK
  BY DEF CardInv, IndInv
<1>2. ASSUME NEW cl, NEW n, LoadWalk(cl, n) PROVE SameRead
  BY <1>1, <1>2, LoadWalkOK DEF SameRead
<1>3. ASSUME NEW S, LoadFails(S) PROVE SameRead
  BY <1>1, <1>3, LoadFailsOK, FailsKeep DEF SameRead
<1>4. ASSUME NEW S, NEW s, S # {} => s \in S /\ s \in Sector, Load(S, s) PROVE SameRead
  BY <1>1, <1>4, LoadOK DEF SameRead
<1>5. UNCHANGED disk => SameRead
  BY <1>1, SameDiskOK DEF SameRead
<1>6. Flush \/ FlushFails => SameRead
  BY <1>1, FlushOK, FlushFailsOK, FailsKeep DEF SameRead
<1>7. QED
  BY <1>2, <1>3, <1>4, <1>5, <1>6

(* A slot with other flags is the slot, as far as sizes go. *)
LEMMA WithTame ==
  ASSUME NEW r \in Slot, NEW on \in SUBSET {"FAILED", "NEWCL", "DIRTY"},
         NEW off \in SUBSET {"CONTIG", "NEWCL", "DIRTY"},
         "DIRTY" \in off => "FAILED" \in on
  PROVE  Tamer(With(r, on, off), r) /\ With(r, on, off) \in Slot
<1>1. on \in SUBSET Flag
  BY DEF Flag
<1>2. /\ With(r, on, off) \in Slot
      /\ With(r, on, off).flags = (r.flags \ off) \cup on
      /\ With(r, on, off).ent = r.ent
      /\ With(r, on, off).sclust = r.sclust
      /\ With(r, on, off).fsize = r.fsize
  BY <1>1, WithOK
<1>3. QED
  BY <1>2 DEF Tamer, Able

(* So is one at another position. *)
LEMMA AtTame ==
  ASSUME NEW q, NEW r, q.ent = r.ent, q.sclust = r.sclust, q.flags = r.flags,
         q.fsize = r.fsize
  PROVE  Tamer(q, r)
BY DEF Tamer, Able

(* What an error leaves of the slot. *)
LEMMA FailSlotTame ==
  ASSUME CardInv, FailSlot
  PROVE  /\ \A f \in Handle : f # call.fh => files'[f] = files[f]
         /\ Tamer(files'[call.fh], Cur)
<1>1. call.fh \in Handle /\ Cur \in Slot /\ Cur = files[call.fh]
      /\ files \in [Handle -> Slot]
  BY CurOK DEF CardInv, IndInv, CtrlOK
<1>2. CASE UNCHANGED files
  BY <1>1, <1>2 DEF Tamer, Able
<1>3. CASE SetSlot(call.fh, FreeSlot)
  BY <1>1, <1>3, FreeSlotOK, SetSlotOK DEF Tamer
<1>4. CASE \E off \in SUBSET {"DIRTY"} : SetSlot(call.fh, With(Cur, {"FAILED"}, off))
  <2>1. PICK off \in SUBSET {"DIRTY"} : SetSlot(call.fh, With(Cur, {"FAILED"}, off))
    BY <1>4
  <2>2. Tamer(With(Cur, {"FAILED"}, off), Cur) /\ With(Cur, {"FAILED"}, off) \in Slot
    BY <1>1, WithTame
  <2>3. QED
    BY <1>1, <2>1, <2>2, SetSlotOK
<1>5. QED
  <2>1. {} \in SUBSET {"DIRTY"} /\ {"DIRTY"} \in SUBSET {"DIRTY"}
    OBVIOUS
  <2>2. QED
    BY <1>2, <1>3, <1>4, <2>1 DEF FailSlot

(* An error of a step that changed data at most. *)
LEMMA SizeErrorMeta ==
  ASSUME CardInv, CardInv', SizeInv, Meta(View', View),
         \E i \in {card, View} : Meta(card', i), DiskError \/ Corrupt,
         pc \notin {"cut", "size", "link", "join", "flush"}
  PROVE  SizeInv'
<1>1. call.fh \in Handle /\ files \in [Handle -> Slot] /\ Return
  BY CurOK DEF CardInv, IndInv, CtrlOK, DiskError, Corrupt
<1>2. pc' \in {"idle", "unmount"}
  BY <1>1 DEF Return
<1>3. /\ \A f \in Handle : f # call.fh => files'[f] = files[f]
      /\ Tamer(files'[call.fh], files[call.fh])
  <2>1. CASE DiskError
    BY <2>1, FailSlotTame DEF DiskError, Cur
  <2>2. CASE Corrupt
    <3>1. CASE UNCHANGED files
      BY <3>1 DEF Tamer, Able
    <3>2. CASE SetSlot(call.fh, FreeSlot)
      BY <1>1, <3>2, FreeSlotOK, SetSlotOK DEF Tamer
    <3>3. QED
      BY <2>2, <3>1, <3>2 DEF Corrupt
  <2>3. QED
    BY <2>1, <2>2
<1>4. Locals' /\ \A f \in Handle : Calm(f) /\ Calm(f)'
  BY <1>1, <1>2, ReturnLocals DEF Calm
<1>5. QED
  BY <1>1, <1>3, <1>4, SizeQuiet

(* An error of a step that only read. *)
LEMMA SizeError ==
  ASSUME CardInv, CardInv', SizeInv, SameRead, DiskError \/ Corrupt,
         pc \notin {"cut", "size", "link", "join", "flush"}
  PROVE  SizeInv'
BY SameReadMeta, SizeErrorMeta

-----------------------------------------------------------------------------
(***************************************************************************)
(* Every action preserves the invariant.                                   *)
(***************************************************************************)
(* Without slots there is nothing to ask. *)
LEMMA SizeMount ==
  ASSUME WholeInv, SizeInv, Mount \/ MountFails \/ Crash
  PROVE  SizeInv'
<1>1. files' = [f \in Handle |-> FreeSlot] /\ card' = card /\ Drop /\ pc' = "idle"
  BY DEF Mount, MountFails, Crash, Drop
<1>2. View' = card'
  BY <1>1, DropOK DEF WholeInv, CardInv, IndInv, DiskOK
<1>3. \A f \in Handle : files'[f].flags = {}
  BY <1>1, FreeSlotOK
<1>4. Locals'
  BY <1>1, RestLocals
<1>5. QED
  BY <1>1, <1>2, <1>3, <1>4 DEF SizeInv, AllSized, Live, Has, AllInOnePiece, Piece

(* Lending writes what waits, and the buffer is read as the card. *)
LEMMA SizeLend ==
  ASSUME NothingDropped, WholeInv, WholeInv', SizeInv, NEW how \in Lendings,
         Lend(how) \/ LendFails(how)
  PROVE  SizeInv'
<1>1. DiskOK /\ DiskOK' /\ CardInv /\ CardInv'
  BY DEF WholeInv, CardInv, IndInv
<1>2. ~LendFails(how)
  <2>1. LendFails(how) => Faults /\ lent = "kept"
    BY <1>1, ViewCard DEF LendFails, FlushFails
  <2>2. QED
    BY <2>1 DEF NothingDropped, WholeInv, PosInv, LoanOK
<1>3. card' = (IF dirty THEN View ELSE card) /\ Drop
      /\ pc = "idle" /\ UNCHANGED <<files, pc, call>>
  BY <1>2 DEF Lend
<1>4. card' = View
  BY <1>1, <1>3, ViewCard
<1>5. View' = View
  BY <1>1, <1>3, <1>4, DropOK DEF DiskOK
<1>6. Meta(View', View) /\ \E i \in {card, View} : Meta(card', i)
  BY <1>4, <1>5, SameReadMeta DEF SameRead
<1>7. Locals' /\ \A f \in Handle : Calm(f) /\ Calm(f)'
  BY <1>3, RestLocals DEF Calm
<1>8. QED
  BY <1>1, <1>3, <1>6, <1>7, SizeSame

(* uzefs_unmount, its loop and its end. *)
LEMMA SizeUnmount ==
  ASSUME NothingDropped, WholeInv, WholeInv', SizeInv, Unmount \/ UnmountEnd
  PROVE  SizeInv'
<1>1. CardInv /\ CardInv' /\ PosInv
  BY DEF WholeInv
<1>2. UNCHANGED <<lent, files>> /\ pc' \in {"idle", "unmount"} /\ pc \in {"idle", "unmount"}
      /\ (pc' = "unmount" => call'.op = "unmount")
  BY DEF Unmount, UnmountEnd, NoCall
<1>3. SameRead
  BY <1>1, <1>2, OnlyReads DEF Unmount, UnmountEnd
<1>4. Locals' /\ \A f \in Handle : Calm(f) /\ Calm(f)'
  BY <1>2, RestLocals DEF Calm
<1>5. QED
  BY <1>1, <1>2, <1>3, <1>4, SameReadMeta, SizeSame

(* A slot closed by that loop: its entry is the slot's, or is to be. *)
LEMMA SizeUnmountClose ==
  ASSUME NothingDropped, WholeInv, WholeInv', SizeInv, NEW f \in Handle, UnmountClose(f)
  PROVE  SizeInv'
<1>1. CardInv /\ CardInv' /\ PosInv
  BY DEF WholeInv
<1>2. pc = "unmount" /\ UNCHANGED disk /\ UNCHANGED lent /\ call.op = "unmount"
      /\ call' = [call EXCEPT !.fh = f] /\ pc' \in {"unmount", "entry", "flush"}
  BY DEF UnmountClose, SizeInv, Locals, ChangeCall
<1>3. call'.fh = f /\ call'.op = "unmount"
  BY <1>1, <1>2 DEF CardInv, IndInv, CtrlOK, CallType
<1>4. View' = View /\ SameRead /\ Meta(View', View) /\ \E i \in {card, View} : Meta(card', i)
  BY <1>1, <1>2, OnlyReads, SameReadMeta DEF SameRead
<1>5. Locals'
  BY <1>2, <1>3 DEF Locals, NewEnds, Linkable, ReadWithin, ChangeCall, NoMark
<1>6. \A g \in Handle : g # f => Calm(g) /\ Calm(g)'
  BY <1>2, <1>3 DEF Calm
<1>7. PICK k : k = View
  OBVIOUS
<1>8. Ends(k) /\ (\E i \in {View, k} : Meta(View', i))
      /\ (\E i \in {card, View, k} : Meta(card', i))
      /\ \A g \in Handle : SameFile(k, View, files[g])
  BY <1>4, <1>7, SameFileRefl DEF SizeInv
<1>9. CASE Has(f, "FAILED")
  <2>1. SetSlot(f, FreeSlot)
    BY <1>9 DEF UnmountClose
  <2>2. files'[f] = FreeSlot /\ \A g \in Handle : g # f => files'[g] = files[g]
    BY <2>1, <1>1, FreeSlotOK, SetSlotIs
  <2>3. ~Live(f)' /\ Piece(View', files'[f])
    BY <2>2, FreeSlotOK, LiveAble DEF Able, Piece
  <2>4. QED
    BY <1>1, <1>5, <1>6, <1>8, <2>2, <2>3, SizeStep
<1>10. CASE ~Has(f, "FAILED")
  <2>1. UNCHANGED files /\ pc' = IF Has(f, "DIRTY") THEN "entry" ELSE "flush"
    BY <1>10 DEF UnmountClose
  <2>2. Live(f) /\ Phase(f) \in {"unmount", "idle"} /\ Phase(f)' = pc'
    BY <1>2, <1>3, <1>10 DEF UnmountClose, Live, Phase
  <2>3. Lags(View, files[f])
    BY <2>2 DEF SizeInv, AllSized, Sized
  <2>4. Sized(View', files'[f], Phase(f)')
    BY <1>4, <2>1, <2>2, <2>3 DEF Sized, Lags, Has
  <2>5. Piece(View', files'[f])
    BY <1>4, <2>1 DEF SizeInv, AllInOnePiece
  <2>6. QED
    BY <1>1, <1>5, <1>6, <1>8, <2>1, <2>4, <2>5, SizeStep
<1>11. QED
  BY <1>9, <1>10

(* A lookup changes nothing that is read. *)
LEMMA SizeStat ==
  ASSUME NothingDropped, WholeInv, WholeInv', SizeInv, NEW nm, NEW e \in Entry, Stat(nm, e)
  PROVE  SizeInv'
<1>1. CardInv /\ CardInv' /\ PosInv
  BY DEF WholeInv
<1>2. pc = "idle" /\ UNCHANGED <<lent, files, pc, call>>
  BY DEF Stat
<1>3. SameRead
  BY <1>1, <1>2, ScannedOK, OnlyReads DEF Stat
<1>4. Locals' /\ \A f \in Handle : Calm(f) /\ Calm(f)'
  BY <1>2, RestLocals DEF Calm
<1>5. QED
  BY <1>1, <1>2, <1>3, <1>4, SameReadMeta, SizeSame

(* A slot uzefs_open fills in has the size of its entry, or none. *)
LEMMA SizeOpenExisting ==
  ASSUME NothingDropped, WholeInv, WholeInv', SizeInv, NEW nm \in Names, NEW mode \in Modes,
         NEW f \in Handle, NEW e \in Entry, OpenExisting(nm, mode, f, e)
  PROVE  SizeInv'
<1> DEFINE r == NewSlot(e, mode, View)
           cut == "TRUNC" \in mode /\ r.sclust # 0
           append == "APPEND" \in mode
           q == IF cut THEN [r EXCEPT !.sclust = 0, !.fsize = 0] ELSE r
<1>1. CardInv /\ CardInv' /\ PosInv
  BY DEF WholeInv
<1>2. View' = View /\ card' \in {card, View}
  BY <1>1, ScanCard DEF OpenExisting, CardInv, IndInv
<1>3. r.ent = e /\ r.fsize = Ent(View, e).size /\ r.flags \subseteq {"OPEN", "RD", "WR"}
  BY NewSlotStands DEF NewSlot, FreeSlot
<1>4. /\ pc = "idle" /\ UNCHANGED lent /\ SetSlot(f, q)
      /\ pc' = IF cut THEN "size" ELSE IF append THEN "append" ELSE "idle"
      /\ call' = IF cut \/ append
                 THEN [NoCall EXCEPT !.op = "open", !.fh = f,
                         !.cl = IF cut THEN r.sclust ELSE 0, !.append = append]
                 ELSE NoCall
  BY DEF OpenExisting, OpenChecks
<1>5. files'[f] = q /\ (\A g \in Handle : g # f => files'[g] = files[g]) /\ q \in Slot
  BY <1>1, <1>4, SetSlotIs
<1>6. r \in Slot
  BY <1>1, ViewCard, Entries, NewSlotOK DEF OpenExisting, CardInv, IndInv, DirEnt
<1> HIDE DEF r
<1>7. /\ q.ent = e /\ "CONTIG" \notin q.flags
      /\ IF cut THEN q.sclust = 0 /\ q.fsize = 0 ELSE q.fsize = Ent(View, e).size
  BY <1>3, <1>6 DEF Slot
<1>8. pc' \in {"size", "append", "idle"} /\ (pc' = "size" => cut /\ call'.fh = f)
      /\ (pc' # "size" => ~cut)
  BY <1>4 DEF NoCall
<1> HIDE DEF q, cut
<1>9. Phase(f)' \in {"size", "append", "idle"} /\ (Phase(f)' = "size" <=> cut)
  BY <1>8 DEF Phase
<1>10. ClustersFor(q.fsize) \in Nat /\ q.fsize \in Nat
  BY <1>5, ClustersIs DEF Slot
<1>11. Sized(View', q, Phase(f)')
  BY <1>2, <1>7, <1>9, <1>10 DEF Sized, Lags
<1>12. Piece(View', q)
  BY <1>7 DEF Piece
<1>13. Locals'
  BY <1>5, <1>7, <1>8 DEF Locals, NewEnds, Linkable, ReadWithin, ChangeCall, NoMark, Cur
<1>14. \A g \in Handle : g # f => Calm(g) /\ Calm(g)'
  BY <1>4, <1>8 DEF Calm
<1>15. PICK k : k = View
  OBVIOUS
<1>16. Ends(k) /\ (\E i \in {View, k} : Meta(View', i))
      /\ (\E i \in {card, View, k} : Meta(card', i))
      /\ \A g \in Handle : SameFile(k, View, files[g])
  BY <1>2, <1>15, MetaRefl, SameFileRefl DEF SizeInv
<1>17. QED
  BY <1>1, <1>5, <1>11, <1>12, <1>13, <1>14, <1>16, SizeStep

(* Another's entry is no part of a file. *)
LEMMA EntFile ==
  ASSUME NEW k, IsCard(k), NEW e \in Entry, NEW q \in DirEnt, NEW r \in Slot, r.ent # e
  PROVE  SameFile(SetEnt(k, e, q), k, r)
<1>1. PICK j : j = SetEnt(k, e, q)
  OBVIOUS
<1>2. /\ \A g \in Entry : g # e => Ent(j, g) = Ent(k, g)
      /\ \A c \in Cluster : Fat(j, c) = Fat(k, c)
  BY <1>1, SetEntCard
<1>3. Ent(j, r.ent) = Ent(k, r.ent)
  BY <1>2 DEF Slot
<1>4. \A c : FatNext(j, c) = FatNext(k, c)
  BY <1>2 DEF FatNext
<1>5. SameFile(j, k, r)
  BY <1>3, <1>4 DEF SameFile, Piece
<1>6. QED
  BY <1>1, <1>5

(* A step that may write an entry that no slot has open. *)
LEMMA SizeEntry ==
  ASSUME WholeInv, WholeInv', SizeInv, NEW e \in Entry, NEW q \in DirEnt,
         \A f \in Handle : Has(f, "OPEN") => files[f].ent # e,
         Ends(SetEnt(View, e, q)),
         View' \in {View, SetEnt(View, e, q)},
         card' \in {card, View, SetEnt(View, e, q)},
         UNCHANGED files, pc = "idle", Locals', pc' \in {"idle", "free"}
  PROVE  SizeInv'
<1>1. CardInv /\ CardInv' /\ PosInv /\ IsCard(View)
  BY ViewCard DEF WholeInv, CardInv, IndInv
<1>2. PICK k : k = SetEnt(View, e, q)
  OBVIOUS
<1>3. \A f \in Handle : Has(f, "OPEN") => SameFile(k, View, files[f])
  BY <1>1, <1>2, EntFile DEF CardInv, IndInv, CtrlOK
<1>4. Ends(k) /\ (\E i \in {View, k} : Meta(View', i))
      /\ (\E i \in {card, View, k} : Meta(card', i))
  BY <1>2, MetaRefl
<1>5. PICK g \in Handle : TRUE
  BY FreeSlotOK
<1>6. Tamer(files'[g], files[g])
  BY DEF Tamer, Able
<1>7. \A f \in Handle : Calm(f) /\ Calm(f)'
  BY DEF Calm
<1>8. QED
  BY <1>1, <1>3, <1>4, <1>6, <1>7, SizeTame

(* uzefs_open creates a file of no size and no chain. *)
LEMMA SizeOpenNew ==
  ASSUME NothingDropped, WholeInv, WholeInv', SizeInv, NEW nm \in Names, NEW mode \in Modes,
         NEW f \in Handle, NEW e \in Entry, NEW last \in Entry,
         OpenNew(nm, mode, f, e, last) \/ OpenNewFails(nm, mode, f, e, last)
  PROVE  SizeInv'
<1> DEFINE r == [name |-> nm, sclust |-> 0, size |-> 0]
           k == Created(View, e, nm)
<1>1. CardInv /\ CardInv' /\ PosInv
  BY DEF WholeInv
<1>2. pc = "idle" /\ UNCHANGED <<lent, pc, call>> /\ ~Used(View, e)
  BY DEF OpenNew, OpenNewFails, CreateChecks, OpenChecks, IsFree
<1>3. r \in DirEnt /\ k = SetEnt(View, e, r) /\ IsCard(View)
  BY <1>1, GeometryAssumption, ViewCard DEF DirEnt, Created, CardInv, IndInv
<1>4. IsCard(k) /\ Ent(k, e) = r
  BY <1>3, SetEntCard
<1>5. Ends(k)
  <2>1. Walk(View, r.sclust, ClustersFor(r.size)) \notin Cluster
    BY ClustersIs, WalkIs, FatValues
  <2>2. r.sclust \notin Cluster
    BY FatValues
  <2> HIDE DEF r
  <2>3. QED
    BY <1>3, <2>1, <2>2, EntEnds DEF SizeInv
<1>6. \A g \in Handle : Has(g, "OPEN") => files[g].ent # e
  BY <1>1, <1>2 DEF PosInv, Named
<1>7. Locals'
  BY <1>2, RestLocals
<1>8. CASE OpenNewFails(nm, mode, f, e, last)
  <2>1. View' \in {View, k} /\ card' \in {card, View, k} /\ UNCHANGED files
    BY <1>1, <1>2, <1>4, <1>8, FailsKeep, PutFailsOK DEF OpenNewFails, CardInv, IndInv
  <2> HIDE DEF r
  <2>2. QED
    BY <1>2, <1>3, <1>5, <1>6, <1>7, <2>1, SizeEntry
<1>9. CASE OpenNew(nm, mode, f, e, last)
  <2> DEFINE q == NewSlot(e, mode, k)
  <2>1. SetSlot(f, q) /\ Put(Scanned(last) \cup {DirSect(e)}, DirSect(e), k)
    BY <1>9 DEF OpenNew
  <2>2. View' = k /\ card' \in {card, View, k}
    BY <1>1, <1>2, <2>1, CreatedOK DEF CardInv, IndInv
  <2>3. q.ent = e /\ q.fsize = 0 /\ "CONTIG" \notin q.flags /\ Ent(k, e).size = 0
    BY <1>4, NewSlotStands DEF NewSlot, FreeSlot
  <2> HIDE DEF q
  <2>4. files'[f] = q /\ (\A g \in Handle : g # f => files'[g] = files[g])
    BY <1>1, <2>1, SetSlotIs
  <2> HIDE DEF r, k
  <2>5. Phase(f)' = "idle" /\ \A g \in Handle : Calm(g) /\ Calm(g)'
    BY <1>2 DEF Phase, Calm
  <2>6. Sized(View', q, Phase(f)') /\ Piece(View', q)
    BY <2>2, <2>3, <2>5 DEF Sized, Lags, Piece
  <2>7. \A g \in Handle : Has(g, "OPEN") => SameFile(k, View, files[g])
    BY <1>1, <1>3, <1>6, EntFile DEF CardInv, IndInv, CtrlOK
  <2>8. (\E i \in {View, k} : Meta(View', i)) /\ (\E i \in {card, View, k} : Meta(card', i))
    BY <2>2, MetaRefl
  <2>9. QED
    BY <1>1, <1>5, <1>7, <2>4, <2>5, <2>6, <2>7, <2>8, SizeStep
<1>10. QED
  BY <1>8, <1>9

(* uzefs_delete: what has no name has no size to cover. *)
LEMMA SizeDelete ==
  ASSUME NothingDropped, WholeInv, WholeInv', SizeInv, NEW nm \in Names, NEW e \in Entry,
         Delete(nm, e)
  PROVE  SizeInv'
<1> DEFINE r == [Ent(View, e) EXCEPT !.name = Removed]
           k == SetEnt(View, e, r)
<1>1. CardInv /\ CardInv' /\ PosInv /\ DiskOK
  BY DEF WholeInv, CardInv, IndInv
<1>2. pc = "idle" /\ UNCHANGED <<lent, files>> /\ pc' \in {"idle", "free"}
      /\ ~Busy(e, FALSE)
  BY DEF Delete, Closed
<1>3. IsCard(View) /\ Ent(View, e) \in DirEnt
  BY <1>1, ViewCard, Entries
<1>4. r \in DirEnt /\ r.name \notin Names
  BY <1>3, NamesAssumption DEF DirEnt
<1>5. Put(Scanned(e), DirSect(e), k) \/ PutFails(Scanned(e), k)
  BY DEF Delete
<1> HIDE DEF r
<1>6. IsCard(k) /\ Ends(k)
  BY <1>3, <1>4, SetEntCard, EntEnds DEF SizeInv
<1>7. View' \in {View, k} /\ card' \in {card, View, k}
  BY <1>1, <1>2, <1>4, <1>5, <1>6, ScannedOK, EntPutOK, EntPutFailsOK, FailsKeep
<1>8. \A g \in Handle : Has(g, "OPEN") => files[g].ent # e
  BY <1>2 DEF Busy
<1>9. Locals'
  BY <1>2, RestLocals
<1>10. QED
  BY <1>2, <1>4, <1>6, <1>7, <1>8, <1>9, SizeEntry

(* uzefs_rename leaves the size and the chain. *)
LEMMA SizeRename ==
  ASSUME NothingDropped, WholeInv, WholeInv', SizeInv, NEW from \in Names, NEW to \in Names,
         NEW e \in Entry, NEW last \in Entry, Rename(from, to, e, last)
  PROVE  SizeInv'
<1> DEFINE r == [Ent(View, e) EXCEPT !.name = to]
           k == SetEnt(View, e, r)
           S == Scanned(e) \cup Scanned(last)
<1>1. CardInv /\ CardInv' /\ PosInv /\ DiskOK
  BY DEF WholeInv, CardInv, IndInv
<1>2. pc = "idle" /\ UNCHANGED <<lent, files, pc, call>> /\ ~Busy(e, FALSE) /\ Used(View, e)
  BY DEF Rename, Closed, IsHit, Used
<1>3. IsCard(View) /\ Ent(View, e) \in DirEnt
  BY <1>1, ViewCard, Entries
<1>4. r \in DirEnt /\ r.sclust = Ent(View, e).sclust /\ r.size = Ent(View, e).size
  BY <1>3 DEF DirEnt
<1>5. Put(S, DirSect(e), k) \/ PutFails(S, k)
  BY DEF Rename
<1>6. DirSect(e) \in S
  BY ScannedOK
<1> HIDE DEF r, S
<1>7. IsCard(k) /\ Ends(k)
  <2>1. Walk(View, r.sclust, ClustersFor(r.size)) \notin Cluster
    BY <1>2, <1>4 DEF SizeInv, Ends, Covered
  <2>2. r.sclust \in Cluster => Fat(View, r.sclust) # Bad
    BY <1>2, <1>4 DEF SizeInv, Ends, EndsWell, Points
  <2>3. QED
    BY <1>3, <1>4, <2>1, <2>2, SetEntCard, EntEnds DEF SizeInv
<1>8. View' \in {View, k} /\ card' \in {card, View, k}
  BY <1>1, <1>2, <1>4, <1>5, <1>6, <1>7, EntPutOK, EntPutFailsOK, FailsKeep
<1>9. \A g \in Handle : Has(g, "OPEN") => files[g].ent # e
  BY <1>2 DEF Busy
<1>10. Locals'
  BY <1>2, RestLocals
<1>11. QED
  BY <1>2, <1>4, <1>7, <1>8, <1>9, <1>10, SizeEntry

(* A slot that changes nothing sizes rest on, with nothing written. *)
LEMMA SizeSlot ==
  ASSUME CardInv, CardInv', SizeInv, SameRead, NEW g \in Handle, NEW q, SetSlot(g, q),
         Tamer(q, files[g]), \A f \in Handle : Calm(f) /\ Calm(f)', Locals'
  PROVE  SizeInv'
<1>1. files'[g] = q /\ \A f \in Handle : f # g => files'[f] = files[f]
  BY SetSlotIs
<1>2. QED
  BY <1>1, SameReadMeta, SizeQuiet

(* A slot like one that is like r. *)
LEMMA TamerTrans ==
  ASSUME NEW p, NEW q, NEW r, Tamer(p, q), Tamer(q, r), "OPEN" \in q.flags
  PROVE  Tamer(p, r)
<1>1. q # FreeSlot
  BY FreeSlotOK
<1>2. QED
  BY <1>1 DEF Tamer

(* A slot without its mark. *)
LEMMA MarkTame ==
  ASSUME NEW r \in Slot
  PROVE  LET q == With(r, {}, {"CONTIG"})
         IN  q \in Slot /\ Tamer(q, r) /\ q.flags = r.flags \ {"CONTIG"}
<1>1. {} \in SUBSET {"FAILED", "NEWCL", "DIRTY"} /\ {"CONTIG"} \in SUBSET {"CONTIG", "NEWCL", "DIRTY"}
      /\ "DIRTY" \notin {"CONTIG"}
  OBVIOUS
<1>2. Tamer(With(r, {}, {"CONTIG"}), r)
  BY <1>1, WithTame
<1>3. QED
  BY <1>2, WithoutOK

(* uzefs_seek; what may write took the mark away. *)
LEMMA SizeSeek ==
  ASSUME NothingDropped, WholeInv, WholeInv', SizeInv, NEW f \in Handle,
         NEW pos \in 0 .. MaxSize, Seek(f, pos)
  PROVE  SizeInv'
<1> DEFINE past == pos > files[f].fsize
           to == IF past THEN files[f].fsize ELSE pos
           r == IF past THEN With(files[f], {}, {"CONTIG"}) ELSE files[f]
<1>1. CardInv /\ CardInv' /\ PosInv
  BY DEF WholeInv
<1>2. /\ UNCHANGED lent /\ Ready(f)
      /\ \/ /\ LoadWalk(r.sclust, Steps(to))
            /\ IF CanReach(r, to)
               THEN IF past THEN Zeros(f, At(r, to), pos - to)
                    ELSE SetSlot(f, At(r, to)) /\ UNCHANGED <<pc, call>>
               ELSE SetSlot(f, r) /\ UNCHANGED <<pc, call>>
         \/ /\ LoadFails(WalkLoads(View, r.sclust, Steps(to)))
            /\ SetSlot(f, With(r, {"FAILED"}, {}))
            /\ UNCHANGED <<pc, call>>
  BY DEF Seek
<1>3. pc = "idle" /\ files[f] \in Slot /\ "OPEN" \in files[f].flags
  BY <1>1, <1>2, ReadyRests
<1>4. SameRead
  BY <1>1, <1>2, OnlyReads
<1>5. to \in Nat
  BY <1>3, FilesAssumption DEF Slot
<1>6. r \in Slot /\ Tamer(r, files[f]) /\ "OPEN" \in r.flags
      /\ (past => "CONTIG" \notin r.flags)
  <2>1. CASE past
    BY <2>1, <1>3, MarkTame
  <2>2. CASE ~past
    BY <2>2, <1>3, AtTame
  <2>3. QED
    BY <2>1, <2>2
<1> HIDE DEF r, to, past
<1>7. CASE SetSlot(f, r) /\ UNCHANGED <<pc, call>>
  <2>1. Locals' /\ \A g \in Handle : Calm(g) /\ Calm(g)'
    BY <1>3, <1>7, RestLocals DEF Calm
  <2>2. QED
    BY <1>1, <1>4, <1>6, <1>7, <2>1, SizeSlot
<1>8. CASE SetSlot(f, With(r, {"FAILED"}, {})) /\ UNCHANGED <<pc, call>>
  <2>1. Locals' /\ \A g \in Handle : Calm(g) /\ Calm(g)'
    BY <1>3, <1>8, RestLocals DEF Calm
  <2>2. Tamer(With(r, {"FAILED"}, {}), r)
    BY <1>6, WithTame
  <2>3. Tamer(With(r, {"FAILED"}, {}), files[f])
    BY <1>6, <2>2, TamerTrans
  <2>4. QED
    BY <1>1, <1>4, <1>8, <2>1, <2>3, SizeSlot
<1>9. CASE /\ CanReach(r, to) /\ SetSlot(f, At(r, to))
           /\ \/ UNCHANGED <<pc, call>>
              \/ past /\ pc' = "chunk"
                 /\ call' = [NoCall EXCEPT !.op = "write", !.fh = f, !.left = pos - to]
  <2> DEFINE q == At(r, to)
  <2>1. /\ q.ent = r.ent /\ q.sclust = r.sclust
        /\ q.flags = r.flags /\ q.fsize = r.fsize
    BY <1>5, <1>6, <1>9, AtStands
  <2> HIDE DEF q
  <2>2. Tamer(q, files[f])
    BY <2>1, <1>6, AtTame, TamerTrans
  <2>3. SetSlot(f, q) /\ files'[f] = q
    BY <1>1, <1>9, SetSlotIs DEF q
  <2>4. \A g \in Handle : Calm(g) /\ Calm(g)'
    BY <1>3, <1>9 DEF Calm
  <2>5. Locals'
    <3>1. CASE UNCHANGED <<pc, call>>
      BY <3>1, <1>3, RestLocals
    <3>2. CASE past /\ pc' = "chunk"
               /\ call' = [NoCall EXCEPT !.op = "write", !.fh = f, !.left = pos - to]
      <4>1. call'.op = "write" /\ call'.fh = f
        BY <3>2 DEF NoCall
      <4>2. QED
        BY <3>2, <4>1, <1>6, <2>1, <2>3
           DEF Locals, NewEnds, Linkable, ReadWithin, ChangeCall, NoMark, Cur
    <3>3. QED
      BY <1>9, <3>1, <3>2
  <2>6. QED
    BY <1>1, <1>4, <2>2, <2>3, <2>4, <2>5, SizeSlot
<1>10. QED
  BY <1>2, <1>7, <1>8, <1>9 DEF Zeros

(* uzefs_read asks for no more than there is, and uzefs_write takes the    *)
(* mark away.                                                              *)
LEMMA SizeBegin ==
  ASSUME NothingDropped, WholeInv, WholeInv', SizeInv, NEW f \in Handle, NEW n \in Nat,
         Read(f, n) \/ Write(f, n)
  PROVE  SizeInv'
<1>1. CardInv /\ CardInv' /\ PosInv
  BY DEF WholeInv
<1>2. Ready(f) /\ UNCHANGED disk /\ UNCHANGED lent /\ pc' = "chunk"
  BY DEF Read, Write, CanWrite, BeginXfer
<1>3. pc = "idle" /\ files[f] \in Slot
  BY <1>1, <1>2, ReadyRests
<1>4. SameRead
  BY <1>1, <1>2, OnlyReads
<1>5. \A g \in Handle : Calm(g) /\ Calm(g)'
  BY <1>2, <1>3 DEF Calm
<1>6. CASE Read(f, n)
  <2> DEFINE rest == files[f].fsize - files[f].fptr
             left == IF n > rest THEN rest ELSE n
  <2>1. UNCHANGED files /\ files[f].fptr < files[f].fsize
        /\ call' = [NoCall EXCEPT !.op = "read", !.fh = f, !.left = left]
    BY <1>6 DEF Read, BeginXfer
  <2>2. call'.op = "read" /\ call'.fh = f /\ call'.left = left
    BY <2>1 DEF NoCall
  <2>3. files[f].fptr \in Nat /\ files[f].fsize \in Nat
    BY <1>3 DEF Slot
  <2>4. files[f].fptr + left <= files[f].fsize
    BY <2>3
  <2>5. Locals'
    BY <1>2, <2>1, <2>2, <2>4 DEF Locals, NewEnds, Linkable, ReadWithin, ChangeCall, NoMark, Cur
  <2>6. QED
    BY <1>1, <1>4, <1>5, <2>1, <2>5, SameReadMeta, SizeSame
<1>7. CASE Write(f, n)
  <2> DEFINE q == With(files[f], {}, {"CONTIG"})
  <2>1. SetSlot(f, q) /\ call' = [NoCall EXCEPT !.op = "write", !.fh = f, !.left = n]
    BY <1>7 DEF Write, BeginXfer
  <2>2. Tamer(q, files[f]) /\ "CONTIG" \notin q.flags
    BY <1>3, MarkTame
  <2> HIDE DEF q
  <2>3. files'[f] = q /\ call'.op = "write" /\ call'.fh = f
    BY <1>1, <2>1, SetSlotIs DEF NoCall
  <2>4. Locals'
    BY <1>2, <2>2, <2>3 DEF Locals, NewEnds, Linkable, ReadWithin, ChangeCall, NoMark, Cur
  <2>5. QED
    BY <1>1, <1>4, <1>5, <2>1, <2>2, <2>4, SizeSlot
<1>8. QED
  BY <1>6, <1>7

-----------------------------------------------------------------------------
(***************************************************************************)
(* What waits in the buffer.  An entry of the FAT that is in use on the    *)
(* card as read is the same on the card itself, or is the end of a chain   *)
(* there: what waits lengthens chains, takes clusters and frees clusters   *)
(* no chain has, and only a cut, until its size is written, shortens one.  *)
(***************************************************************************)
FatFlushed == \A c \in Cluster : Fat(card, c) = Fat(View, c)
KeptLinks ==
  pc # "size" =>
    \A c \in Cluster : Points(View, c) => Fat(card, c) \in {Fat(View, c), EOC}
(* A link is made when the entry has been written, after all that waited. *)
JoinFlushed == pc = "join" => FatFlushed
KeptInv == KeptLinks /\ JoinFlushed

(* Nothing of the FAT waits. *)
LEMMA FlushedKept == FatFlushed' => KeptInv'
BY DEF FatFlushed, KeptInv, KeptLinks, JoinFlushed

(* Nothing does where the buffer was emptied or another sector is in it. *)
LEMMA OthersFlush ==
  /\ Drop => FatFlushed'
  /\ \A s, k : s \notin FatSectors /\ HoldPut(s, k) => FatFlushed'
<1>1. ASSUME NEW c \in Cluster, FatSect(c) \notin DOMAIN kept'
      PROVE  Fat(card, c)' = Fat(View, c)'
  BY <1>1, Sectors DEF View, Fat
<1>2. ASSUME Drop PROVE FatFlushed'
  BY <1>1, <1>2 DEF Drop, Empty, FatFlushed
<1>3. ASSUME NEW s, NEW k, s \notin FatSectors, HoldPut(s, k) PROVE FatFlushed'
  <2>1. \A c \in Cluster : FatSect(c) \in FatSectors
    BY DEF FatSectors
  <2>2. DOMAIN kept' \subseteq {s}
    BY <1>3 DEF HoldPut, Empty
  <2>3. QED
    BY <1>1, <1>3, <2>1, <2>2 DEF FatFlushed
<1>4. QED
  BY <1>2, <1>3

(* No FAT sector holds a directory entry or data. *)
LEMMA NotFat ==
  /\ \A e \in Entry : DirSect(e) \notin FatSectors
  /\ \A n : DataSect(n) \notin FatSectors
BY DEF FatSectors, FatSect, DirSect, DataSect

(* A change of a directory entry or of data leaves nothing of the FAT. *)
LEMMA PutKept ==
  /\ \A S, e, k : e \in Entry /\ Put(S, DirSect(e), k) => KeptInv'
  /\ \A S, n, k : Put(S, DataSect(n), k) => KeptInv'
  /\ \A S, k : PutFails(S, k) => KeptInv'
  /\ \A r : r.ent \in Entry /\ DirWrite(r) => KeptInv'
  /\ \A r : DirWriteFails(r) => KeptInv'
BY NotFat, OthersFlush, FlushedKept DEF Put, PutFails, DirWrite, DirWriteFails

(* Reading changes nothing that waits, and may write it. *)
LEMMA QuietKept ==
  ASSUME KeptInv, Meta(View', View), NEW i \in {card, View}, Meta(card', i),
         pc = "size" => pc' = "size", pc' # "join" \/ pc = "join"
  PROVE  KeptInv'
<1>1. \A c \in Cluster : Points(View, c)' = Points(View, c) /\ Fat(View, c)' = Fat(View, c)
  BY MetaPoints
<1>2. \A c \in Cluster : Fat(card, c)' \in {Fat(card, c), Fat(View, c)}
  BY DEF Meta
<1>3. KeptLinks'
  BY <1>1, <1>2 DEF KeptInv, KeptLinks
<1>4. JoinFlushed'
  BY <1>1, <1>2 DEF KeptInv, JoinFlushed, FatFlushed
<1>5. QED
  BY <1>3, <1>4 DEF KeptInv

(* The same where the library reads. *)
LEMMA ReadKept ==
  ASSUME KeptInv, SameRead, pc = "size" => pc' = "size", pc' # "join"
  PROVE  KeptInv'
BY SameReadMeta, QuietKept

(* An entry no chain has is taken or freed. *)
LEMMA FatKept ==
  ASSUME KeptInv, IsCard(View), pc # "size", pc' # "join",
         NEW cl \in Cluster, ~Points(View, cl), NEW v \in {0, EOC},
         NEW k, k = SetFat(View, cl, v), Meta(View', k),
         NEW i \in {card, View, k}, Meta(card', i)
  PROVE  KeptInv'
<1>1. v \in FatValue /\ v \notin Cluster
  BY FatValues
<1>2. /\ \A d \in Cluster : Fat(k, d) = IF d = cl THEN v ELSE Fat(View, d)
      /\ \A e \in Entry : Ent(k, e) = Ent(View, e)
  BY <1>1, SetFatCard
<1>3. ASSUME NEW c \in Cluster, Points(View, c)'
      PROVE  Points(View, c) /\ c # cl
  <2>1. Points(k, c)
    BY <1>3, MetaPoints
  <2>2. Points(View, c)
    BY <1>1, <1>2, <2>1 DEF Points, Used
  <2>3. QED
    BY <2>2
<1>4. ASSUME NEW c \in Cluster, Points(View, c)'
      PROVE  Fat(card, c)' \in {Fat(View, c)', EOC}
  <2>1. Points(View, c) /\ c # cl /\ Fat(card, c) \in {Fat(View, c), EOC}
    BY <1>3, <1>4 DEF KeptInv, KeptLinks
  <2>2. Fat(View, c)' = Fat(View, c) /\ Fat(k, c) = Fat(View, c)
    BY <1>2, <2>1 DEF Meta
  <2>3. Fat(card, c)' \in {Fat(card, c), Fat(View, c)}
    BY <2>2 DEF Meta
  <2>4. QED
    BY <2>1, <2>2, <2>3
<1>5. QED
  BY <1>4 DEF KeptInv, KeptLinks, JoinFlushed

(* Between calls and at the ends of calls nothing is written but that.     *)
LEMMA KeptVolume ==
  ASSUME NothingDropped, WholeInv, KeptInv, VolumeCall \/ UnmountEnd \/ Crash
  PROVE  KeptInv'
<1>1. CASE Mount \/ MountFails \/ Crash
  BY <1>1, OthersFlush, FlushedKept DEF Mount, MountFails, Crash, Drop
<1>2. CASE \E how \in Lendings : Lend(how) \/ LendFails(how)
  BY <1>2, OthersFlush, FlushedKept DEF Lend, LendFails, FlushFails
<1>3. CASE Unmount \/ UnmountEnd
  <2>1. UNCHANGED lent /\ pc # "size" /\ pc' # "join" /\ (UNCHANGED disk \/ Flush \/ FlushFails)
    BY <1>3 DEF Unmount, UnmountEnd
  <2>2. SameRead
    BY <2>1, OnlyReads DEF WholeInv
  <2>3. QED
    BY <2>1, <2>2, ReadKept
<1>4. QED
  BY <1>1, <1>2, <1>3 DEF VolumeCall

(* Calls on names read, or change one directory entry. *)
LEMMA KeptName ==
  ASSUME NothingDropped, WholeInv, KeptInv, NameCall
  PROVE  KeptInv'
<1>1. PICK nm \in Names, e \in Entry :
        \/ Stat(nm, e)
        \/ Delete(nm, e)
        \/ \E to \in Names, last \in Entry : Rename(nm, to, e, last)
        \/ \E m \in Modes, f \in Handle :
             \/ OpenExisting(nm, m, f, e)
             \/ \E last \in Entry : OpenNew(nm, m, f, e, last)
                                    \/ OpenNewFails(nm, m, f, e, last)
  BY DEF NameCall
<1>2. ASSUME NEW m, NEW f, Stat(nm, e) \/ OpenExisting(nm, m, f, e) PROVE KeptInv'
  <2>1. UNCHANGED lent /\ pc = "idle" /\ pc' # "join"
        /\ (Load(Scanned(e), DirSect(e)) \/ LoadFails(Scanned(e)))
    BY <1>2 DEF Stat, OpenExisting, OpenChecks
  <2>2. SameRead
    BY <2>1, ScannedOK, OnlyReads DEF WholeInv
  <2>3. QED
    BY <2>1, <2>2, ReadKept
<1>3. ASSUME Delete(nm, e) PROVE KeptInv'
  BY <1>3, PutKept DEF Delete
<1>4. ASSUME NEW to, NEW last, Rename(nm, to, e, last) PROVE KeptInv'
  BY <1>4, PutKept DEF Rename
<1>5. ASSUME NEW m, NEW f, NEW last, OpenNew(nm, m, f, e, last) \/ OpenNewFails(nm, m, f, e, last)
      PROVE  KeptInv'
  BY <1>5, PutKept DEF OpenNew, OpenNewFails
<1>6. QED
  BY <1>1, <1>2, <1>3, <1>4, <1>5

(* Calls on handles begin by reading. *)
LEMMA HandleReads ==
  ASSUME NothingDropped, WholeInv, HandleCall
  PROVE  /\ SameRead /\ pc = "idle" /\ pc' # "join"
         /\ pc' \in {"cut", "size", "free"} => \E f \in Handle : Truncate(f)
<1>1. PICK f \in Handle :
        \/ \E n \in 1 .. MaxXfer : Read(f, n) \/ Write(f, n)
        \/ \E pos \in 0 .. MaxSize : Seek(f, pos)
        \/ Truncate(f)
        \/ Sync(f, "sync") \/ Sync(f, "close")
        \/ Fragments(f)
  BY DEF HandleCall
<1>2. files[f] \in Slot
  BY DEF WholeInv, CardInv, IndInv, CtrlOK
<1> DEFINE Begun == SameRead /\ pc = "idle" /\ pc' \in {"idle", "chunk", "entry", "flush"}
<1>3. ASSUME NEW n \in 1 .. MaxXfer, Read(f, n) \/ Write(f, n) PROVE Begun
  BY <1>3, OnlyReads DEF Read, Write, BeginXfer, CanWrite, Ready, WholeInv
<1>4. ASSUME NEW pos \in 0 .. MaxSize, Seek(f, pos) PROVE Begun
  <2>1. pc = "idle" /\ UNCHANGED lent
    BY <1>4 DEF Seek, Ready
  <2>2. \E cl, n, S : (LoadWalk(cl, n) \/ LoadFails(S)) /\ pc' \in {"chunk", "idle"}
    BY <1>4, <2>1 DEF Seek, Zeros
  <2>3. QED
    BY <2>1, <2>2, OnlyReads DEF WholeInv
<1>5. CASE Truncate(f)
  <2>1. pc = "idle" /\ UNCHANGED lent
    BY <1>5 DEF Truncate, CanWrite, Ready
  <2>2. PICK r : r = With(files[f], {}, {"CONTIG"})
    OBVIOUS
  <2>3. r \in Slot
    BY <1>2, <2>2, WithoutOK
  <2>4. pc' \in {"idle", "cut", "size"}
    BY <1>5, <2>1 DEF Truncate, BeginCut
  <2>5. UNCHANGED disk \/ (r.cclust # 0 /\ Load({FatSect(r.cclust)}, FatSect(r.cclust)))
        \/ LoadFails({FatSect(r.cclust)})
    BY <1>5, <2>2 DEF Truncate
  <2>6. r.cclust # 0 => FatSect(r.cclust) \in Sector
    BY <2>3, Sectors DEF Slot
  <2>7. QED
    BY <1>5, <2>1, <2>4, <2>5, <2>6, OnlyReads DEF WholeInv
<1>6. ASSUME Sync(f, "sync") \/ Sync(f, "close") PROVE Begun
  BY <1>6, OnlyReads DEF Sync, WholeInv
<1>7. ASSUME Fragments(f) PROVE Begun
  <2>1. pc = "idle" /\ UNCHANGED <<lent, pc>>
    BY <1>7 DEF Fragments, Ready
  <2>2. (\E cl, n : LoadWalk(cl, n)) \/ (\E S : LoadFails(S)) \/ UNCHANGED disk
    BY <1>7 DEF Fragments
  <2>3. QED
    BY <2>1, <2>2, OnlyReads DEF WholeInv
<1>8. QED
  BY <1>1, <1>3, <1>4, <1>5, <1>6, <1>7

(* So do the steps that find their place and move what is read. *)
LEMMA StepReads ==
  ASSUME NothingDropped, WholeInv,
         \/ Append \/ SameCluster \/ NextCluster \/ AllocFull \/ ReadChunk
         \/ SyncDone \/ SyncFlushFails
         \/ \E f \in Handle : UnmountClose(f)
  PROVE  /\ SameRead
         /\ pc \in {"append", "chunk", "alloc", "move", "flush", "unmount"}
         /\ pc' \notin {"cut", "size", "free", "link", "join"}
<1>1. UNCHANGED lent /\ CardInv /\ PosInv
  BY DEF Append, SameCluster, NextCluster, AllocFull, ReadChunk, SyncDone, SyncFlushFails,
     UnmountClose, WholeInv
<1>2. pc \in {"append", "chunk", "alloc", "move", "flush", "unmount"}
  BY DEF Append, SameCluster, NextCluster, AllocFull, ReadChunk, SyncDone, SyncFlushFails,
     UnmountClose
<1>3. pc' \notin {"cut", "size", "free", "link", "join"}
  BY DEF Append, SameCluster, NextCluster, AllocFull, ReadChunk, SyncDone, SyncFlushFails,
     UnmountClose, Goto, Return, Corrupt, DiskError, Continue
<1>4. SameRead
  <2>1. CASE Append
    BY <1>1, <2>1, OnlyReads DEF Append
  <2>2. CASE SameCluster
    BY <1>1, <2>2, OnlyReads DEF SameCluster
  <2>3. CASE NextCluster
    <3>1. Cur \in Slot
      BY <1>1, <2>3, TransferSlot DEF NextCluster
    <3>2. Cur.cclust # 0 => FatSect(Cur.cclust) \in Sector
      BY <3>1, Sectors DEF Slot
    <3>3. PICK S : /\ S = (IF Cur.cclust # 0 THEN {FatSect(Cur.cclust)} ELSE {})
                   /\ Load(S, FatSect(Cur.cclust)) \/ LoadFails(S)
      BY <2>3 DEF NextCluster
    <3>4. QED
      BY <1>1, <3>2, <3>3, OnlyReads
  <2>4. CASE AllocFull
    BY <1>1, <2>4, LastFatOK, OnlyReads DEF AllocFull
  <2>5. CASE ReadChunk
    <3>1. Cur \in Slot
      BY <1>1, <2>5, TransferSlot DEF ReadChunk
    <3>2. PICK s : s = DataSect(Cur.csect)
      OBVIOUS
    <3>3. s \in Sector
      BY <3>1, <3>2, Sectors DEF Slot
    <3>4. \E S : (S # {} => s \in S) /\ (Load(S, s) \/ LoadFails(S) \/ UNCHANGED disk)
      BY <2>5, <3>2 DEF ReadChunk
    <3>5. QED
      BY <1>1, <3>3, <3>4, OnlyReads
  <2>6. CASE SyncDone \/ SyncFlushFails
    BY <1>1, <2>6, OnlyReads DEF SyncDone, SyncFlushFails
  <2>7. CASE \E f \in Handle : UnmountClose(f)
    BY <1>1, <2>7, OnlyReads DEF UnmountClose
  <2>8. QED
    BY <2>1, <2>2, <2>3, <2>4, <2>5, <2>6, <2>7
<1>5. QED
  BY <1>2, <1>3, <1>4

(* Calls on handles keep the mark, *)
LEMMA KeptHandle ==
  ASSUME NothingDropped, WholeInv, WholeInv', KeptInv, HandleCall
  PROVE  KeptInv'
BY HandleReads, ReadKept

(* and so do the steps that only read. *)
LEMMA KeptRead ==
  ASSUME NothingDropped, WholeInv, WholeInv', KeptInv,
         \/ Append \/ SameCluster \/ NextCluster \/ AllocFull \/ ReadChunk
         \/ SyncDone \/ SyncFlushFails
         \/ \E f \in Handle : UnmountClose(f)
  PROVE  KeptInv'
BY StepReads, ReadKept

(* A chunk written is data. *)
LEMMA KeptWrite ==
  ASSUME WholeInv, WholeInv', KeptInv, WriteChunk \/ WriteChunkFails
  PROVE  KeptInv'
<1>1. UNCHANGED lent /\ CardInv /\ pc = "move" /\ pc' # "join" /\ DiskOK
  BY DEF WriteChunk, WriteChunkFails, LinkNext, Continue, DiskError, Return, WholeInv,
     CardInv, IndInv
<1>2. Cur.csect \in 0 .. NDataSects - 1
  BY <1>1, CurOK DEF CardInv, Slot
<1>3. CASE Chunk = UPS
  <2>1. /\ card' \in {card, SetData(card, Cur.csect, Offsets)}
        /\ IF DataSect(Cur.csect) \in DOMAIN kept THEN Drop ELSE UNCHANGED <<kept, dirty>>
    BY <1>3 DEF WriteChunk, WriteChunkFails, WholeSector, WholeSectorFails
  <2>2. Meta(View', View) /\ Meta(card', card)
    BY <1>1, <1>2, <2>1, WholeSectorOK, DataMeta
  <2>3. QED
    BY <1>1, <2>2, QuietKept
<1>4. CASE Chunk # UPS
  BY <1>4, PutKept DEF WriteChunk, WriteChunkFails
<1>5. QED
  BY <1>3, <1>4

(* alloc_cluster takes a cluster no chain has. *)
LEMMA KeptAlloc ==
  ASSUME NothingDropped, WholeInv, KeptInv, NEW cl \in Cluster, Alloc(cl)
  PROVE  KeptInv'
<1>1. CardInv /\ PosInv /\ DiskOK /\ IsCard(View) /\ IsCard(card)
  BY ViewCard DEF WholeInv, CardInv, IndInv, DiskOK
<1>2. PICK k : k = SetFat(View, cl, EOC)
  OBVIOUS
<1>3. /\ pc = "alloc" /\ UNCHANGED lent /\ pc' # "join"
      /\ \/ /\ card' = Wiped(CardAfterPut(AllocLoads(cl), k), cl)
            /\ HoldPut(FatSect(cl), k)
         \/ LoadFails(AllocLoads(cl))
         \/ PutFails({}, k)
  BY <1>2 DEF Alloc, Goto, DiskError, Return
<1>4. Fat(View, cl) = 0 /\ ~Points(View, cl)
  BY <1>1, FreeUnpointed DEF Alloc, Takable, FreeFrom
<1>5. IsCard(k)
  BY <1>1, <1>2, FatValues, SetFatCard
<1>6. CASE /\ card' = Wiped(CardAfterPut(AllocLoads(cl), k), cl)
           /\ HoldPut(FatSect(cl), k)
  <2>1. FatSect(cl) \in AllocLoads(cl)
    BY <1>1, AllocLoadsOK DEF CardInv, IndInv, CtrlOK
  <2>2. View' = Wiped(k, cl) /\ card' \in {Wiped(card, cl), Wiped(View, cl), Wiped(k, cl)}
    BY <1>1, <1>2, <1>3, <1>6, <2>1, AllocOK
  <2>3. Meta(View', k) /\ \E i \in {card, View, k} : Meta(card', i)
    <3>1. /\ Meta(Wiped(card, cl), card) /\ Meta(Wiped(View, cl), View)
          /\ Meta(Wiped(k, cl), k)
      BY <1>1, <1>5, WipedCard DEF Meta
    <3>2. QED
      BY <2>2, <3>1
  <2>4. QED
    BY <1>1, <1>2, <1>3, <1>4, <2>3, FatKept
<1>7. CASE LoadFails(AllocLoads(cl))
  BY <1>1, <1>3, <1>7, OnlyReads, ReadKept
<1>8. CASE PutFails({}, k)
  BY <1>8, PutKept
<1>9. QED
  BY <1>3, <1>6, <1>7, <1>8

(* free_chain frees one. *)
LEMMA KeptFree ==
  ASSUME NothingDropped, WholeInv, KeptInv, Free
  PROVE  KeptInv'
<1>1. CardInv /\ PosInv /\ DiskOK /\ IsCard(View)
  BY ViewCard DEF WholeInv, CardInv, IndInv
<1>2. PICK cl : cl = call.cl
  OBVIOUS
<1>3. /\ pc = "free" /\ UNCHANGED lent /\ pc' # "join"
      /\ \/ FatNext(View, cl) # Bad /\ FatPut(cl, 0)
         \/ IF cl \in Cluster THEN Load({FatSect(cl)}, FatSect(cl)) ELSE UNCHANGED disk
         \/ LoadFails({FatSect(cl)})
         \/ FatPutFails(cl, 0)
  BY <1>2 DEF Free, Done, Goto, Return, Corrupt, DiskError
<1>4. CASE FatNext(View, cl) # Bad /\ FatPut(cl, 0)
  <2>1. cl \in Cluster
    BY <1>4, FatNextOK
  <2>2. ~Points(View, cl)
    BY <1>1, <1>2, <1>3, <2>1 DEF CardInv, StepsOK, FreeOK
  <2>3. PICK k : k = SetFat(View, cl, 0)
    OBVIOUS
  <2>4. View' = k /\ card' \in {card, View, k}
    BY <1>1, <1>3, <1>4, <2>1, <2>3, FatValues, FatPutOK
  <2>5. Meta(View', k) /\ \E i \in {card, View, k} : Meta(card', i)
    BY <2>4, MetaRefl
  <2>6. QED
    BY <1>1, <1>3, <2>1, <2>2, <2>3, <2>5, FatKept
<1>5. CASE IF cl \in Cluster THEN Load({FatSect(cl)}, FatSect(cl)) ELSE UNCHANGED disk
  <2>1. cl \in Cluster => FatSect(cl) \in Sector
    BY Sectors
  <2>2. SameRead
    BY <1>1, <1>3, <1>5, <2>1, OnlyReads
  <2>3. QED
    BY <1>3, <2>2, ReadKept
<1>6. CASE LoadFails({FatSect(cl)})
  BY <1>1, <1>3, <1>6, OnlyReads, ReadKept
<1>7. CASE FatPutFails(cl, 0)
  BY <1>7, PutKept DEF FatPutFails
<1>8. QED
  BY <1>3, <1>4, <1>5, <1>6, <1>7

(* A link is added where nothing waits, to a cluster that ends its chain. *)
LEMMA KeptJoin == ASSUME WholeInv, KeptInv, Join PROVE KeptInv'
<1>1. CardInv /\ PosInv /\ DiskOK /\ IsCard(View)
  BY ViewCard DEF WholeInv, CardInv, IndInv
<1>2. /\ pc = "join" /\ UNCHANGED lent /\ pc' # "join"
      /\ FatPut(Cur.cclust, NewClust) \/ FatPutFails(Cur.cclust, NewClust)
  BY DEF Join, Continue, Return, LinkFails
<1>3. Cur \in Slot /\ Cur.fptr \in Nat /\ InLink(View, Cur, NewClust) /\ NewClust \in Cluster
  BY <1>1, <1>2, TransferSlot, LinkWriter
<1>4. PICK c \in Cluster : c = Cur.cclust
  BY <1>1, <1>2, <1>3 DEF CardInv, IndInv, CtrlOK, ClustOK, Slot
<1>5. Fat(View, c) = EOC
  BY <1>3, <1>4, FatValues DEF InLink, Extends, AtEnd
<1>6. CASE FatPut(Cur.cclust, NewClust)
  <2>1. PICK new \in FatValue : new = NewClust
    BY <1>3, FatValues
  <2>2. PICK k : k = SetFat(View, c, new)
    OBVIOUS
  <2>3. \A d \in Cluster : d # c => Fat(k, d) = Fat(View, d)
    BY <1>1, <2>2, SetFatCard
  <2>4. View' = k /\ card' \in {card, View, k}
    BY <1>1, <1>2, <1>4, <1>6, <2>1, <2>2, FatPutOK
  <2>5. \A d \in Cluster : Fat(card, d) = Fat(View, d)
    BY <1>2 DEF KeptInv, JoinFlushed, FatFlushed
  <2>6. \A d \in Cluster : Fat(card, d)' \in {Fat(View, d)', EOC}
    BY <1>5, <2>3, <2>4, <2>5
  <2>7. QED
    BY <1>2, <2>6 DEF KeptInv, KeptLinks, JoinFlushed
<1>7. CASE FatPutFails(Cur.cclust, NewClust)
  BY <1>7, PutKept DEF FatPutFails
<1>8. QED
  BY <1>2, <1>6, <1>7

(* Every step preserves it. *)
LEMMA KeptNext ==
  ASSUME NothingDropped, WholeInv, WholeInv', KeptInv, [Next]_vars
  PROVE  KeptInv'
<1>1. CASE Cut
  <2>1. pc' = "size" \/ \E S, k : PutFails(S, k)
    BY <1>1 DEF Cut, Goto, FatPutFails
  <2>2. QED
    BY <2>1, PutKept DEF KeptInv, KeptLinks, JoinFlushed
<1>2. CASE CutSize \/ SyncEntry \/ Link
  <2>1. /\ Cur.ent \in Entry
        /\ \A on, off : With(Cur, on, off).ent = Cur.ent
        /\ Linking.ent = Cur.ent
    <3>1. Cur \in Slot
      BY CurOK DEF WholeInv, CardInv
    <3>2. QED
      BY <3>1 DEF Slot, With, Linking
  <2>2. (\E r : r.ent \in Entry /\ DirWrite(r)) \/ (\E r : DirWriteFails(r))
    BY <1>2, <2>1 DEF CutSize, SyncEntry, Link
  <2>3. QED
    BY <2>2, PutKept
<1>3. CASE UNCHANGED vars
  <2>1. View' = View
    BY <1>3, SameDiskOK DEF vars, disk, WholeInv, CardInv, IndInv
  <2>2. UNCHANGED <<card, pc>>
    BY <1>3 DEF vars
  <2>3. QED
    BY <2>1, <2>2 DEF KeptInv, KeptLinks, JoinFlushed, FatFlushed
<1>4. QED
  BY <1>1, <1>2, <1>3, KeptVolume, KeptName, KeptHandle, KeptRead, KeptWrite, KeptAlloc,
     KeptFree, KeptJoin DEF Next, Step

(* It holds at first. *)
LEMMA KeptInit == ASSUME Init, IndInv PROVE KeptInv
BY ViewCard DEF Init, IndInv, KeptInv, KeptLinks, JoinFlushed, FatFlushed

-----------------------------------------------------------------------------
(* Marks and positions.                                                    *)

(* Entries that count up are links. *)
LEMMA CountLinks ==
  ASSUME NEW k, NEW cl \in Cluster \cup {0}, NEW left \in Nat, NEW n \in 0 .. left,
         cl \in Cluster /\ cl + left < MaxClust => CountsUp(k, cl, n),
         ~(cl \in Cluster /\ cl + left < MaxClust) => n = 0
  PROVE  \A i \in 0 .. n - 1 : FatNext(k, cl + i) = (cl + i) + 1
<1>1. SUFFICES ASSUME NEW i \in 0 .. n - 1 PROVE FatNext(k, cl + i) = (cl + i) + 1
  OBVIOUS
<1>2. cl \in Cluster /\ cl + left < MaxClust /\ CountsUp(k, cl, n)
  OBVIOUS
<1>3. MaxClust \in Nat /\ cl \in Nat /\ cl >= 2
  BY <1>2, GeometryAssumption DEF Cluster
<1>4. cl + i \in Cluster /\ (cl + i) + 1 \in Cluster /\ (cl + i) + 1 # cl + i
  BY <1>2, <1>3 DEF Cluster
<1>5. Fat(k, cl + i) = (cl + i) + 1
  BY <1>2, <1>3 DEF CountsUp
<1>6. QED
  BY <1>4, <1>5, FatValues DEF FatNext

(* Counted on the card from where a chain starts, they count up as read:   *)
(* what waits has changed no link the card has.                            *)
LEMMA CountsRead ==
  ASSUME KeptInv, pc # "size", NEW cl \in Cluster, Points(View, cl),
         NEW left \in Nat, NEW n \in 0 .. left, cl + left < MaxClust, CountsUp(card, cl, n)
  PROVE  CountsUp(View, cl, n)
<1> DEFINE S == {i \in Nat : i < n => Points(View, cl + i) /\ Fat(View, cl + i) = (cl + i) + 1}
<1>1. MaxClust \in Nat /\ cl \in Nat /\ cl >= 2 /\ n \in Nat
  BY GeometryAssumption DEF Cluster
<1>2. ASSUME NEW i \in Nat, i < n, Points(View, cl + i)
      PROVE  Fat(View, cl + i) = (cl + i) + 1
  <2>1. cl + i \in Cluster /\ (cl + i) + 1 # EOC
    BY <1>1, <1>2 DEF Cluster, EOC
  <2>2. Fat(card, cl + i) = (cl + i) + 1
    BY <1>1, <1>2 DEF CountsUp
  <2>3. Fat(card, cl + i) \in {Fat(View, cl + i), EOC}
    BY <1>2, <2>1 DEF KeptInv, KeptLinks
  <2>4. QED
    BY <2>1, <2>2, <2>3
<1>3. 0 \in S
  <2>1. cl + 0 = cl
    BY <1>1
  <2>2. QED
    BY <1>2, <2>1
<1>4. ASSUME NEW i \in Nat, i \in S PROVE i + 1 \in S
  <2> SUFFICES ASSUME i + 1 < n
               PROVE  Points(View, cl + (i + 1)) /\ Fat(View, cl + (i + 1)) = (cl + (i + 1)) + 1
    OBVIOUS
  <2>1. i < n /\ cl + (i + 1) = (cl + i) + 1 /\ cl + i \in Cluster
    BY <1>1 DEF Cluster
  <2>2. Fat(View, cl + i) = (cl + i) + 1
    BY <1>4, <2>1
  <2>3. Points(View, cl + (i + 1))
    BY <2>1, <2>2 DEF Points
  <2>4. QED
    BY <1>2, <2>3
<1> HIDE DEF S
<1>5. \A i \in Nat : i \in S
  BY <1>3, <1>4, NatAll
<1>6. QED
  BY <1>1, <1>5 DEF CountsUp, S

(* More flags, and nothing else. *)
LEMMA MoreFlags ==
  ASSUME NEW r \in Slot, NEW on \in SUBSET Flag
  PROVE  LET v == With(r, on, {})
         IN  /\ v.flags = r.flags \cup on /\ v.ent = r.ent
             /\ v.sclust = r.sclust /\ v.fsize = r.fsize
BY DEF With, Slot

(* uzefs_fragments marks a file whose clusters it has found to follow each *)
(* other; the part of the FAT it counted on the card is what is read.      *)
LEMMA SizeFragments ==
  ASSUME NothingDropped, WholeInv, WholeInv', SizeInv, KeptInv, NEW f \in Handle,
         Fragments(f)
  PROVE  SizeInv'
<1> DEFINE r == files[f]
           left == Steps(r.fsize)
<1>1. CardInv /\ CardInv' /\ PosInv
  BY DEF WholeInv
<1>2. Ready(f) /\ UNCHANGED <<lent, pc, call>>
  BY DEF Fragments
<1>3. pc = "idle" /\ r \in Slot /\ Resting(View, r) /\ "OPEN" \in r.flags
  BY <1>1, <1>2, ReadyRests
<1>4. left \in Nat
  BY <1>3, StepsNat DEF Slot
<1>5. PICK n \in 0 .. left, on \in SUBSET {"CONTIG", "FAILED"} :
        /\ IsCount(r.sclust, left, n)
        /\ \/ LoadWalk(r.sclust + n, left - n)
           \/ LoadFails(WalkLoads(View, r.sclust + n, left - n))
           \/ UNCHANGED disk
        /\ "CONTIG" \in on =>
             \A i \in n .. left - 1 : FatNext(View, r.sclust + i) = r.sclust + i + 1
        /\ SetSlot(f, With(r, on, {}))
  <2>1. {} \in SUBSET {"CONTIG", "FAILED"} /\ {"CONTIG"} \in SUBSET {"CONTIG", "FAILED"}
        /\ {"FAILED"} \in SUBSET {"CONTIG", "FAILED"}
    OBVIOUS
  <2>2. PICK n \in 0 .. left :
          /\ IsCount(r.sclust, left, n)
          /\ \/ /\ LoadWalk(r.sclust + n, left - n)
                /\ LET onePiece == \A i \in n .. left - 1 :
                         FatNext(View, r.sclust + i) = r.sclust + i + 1
                   IN  SetSlot(f, With(r, IF onePiece THEN {"CONTIG"} ELSE {}, {}))
             \/ /\ \/ LoadFails(WalkLoads(View, r.sclust + n, left - n))
                   \/ UNCHANGED disk
                /\ SetSlot(f, With(r, {"FAILED"}, {}))
    BY DEF Fragments
  <2> HIDE DEF left, r
  <2>3. QED
    BY <2>1, <2>2
<1>6. SameRead
  BY <1>1, <1>2, <1>5, OnlyReads
<1> DEFINE q == With(r, on, {})
<1>7. /\ q.flags = r.flags \cup on /\ q.ent = r.ent /\ q.sclust = r.sclust
      /\ q.fsize = r.fsize
  <2>1. on \in SUBSET Flag
    BY DEF Flag
  <2>2. QED
    BY <2>1, <1>3, MoreFlags
<1>8. SetSlot(f, q)
  BY <1>5
<1> HIDE DEF q
<1>9. files'[f] = q /\ \A g \in Handle : g # f => files'[g] = files[g]
  BY <1>1, <1>8, SetSlotIs
<1>10. Locals' /\ \A g \in Handle : Calm(g) /\ Calm(g)'
  BY <1>2, <1>3, RestLocals DEF Calm
<1>11. Sized(View', q, Phase(f)')
  <2>1. Live(f) /\ Phase(f) = "idle" /\ Phase(f)' = "idle"
    BY <1>2, <1>3 DEF Ready, Live, Phase
  <2>2. Lags(View, r)
    BY <2>1 DEF SizeInv, AllSized, Sized
  <2>3. QED
    BY <2>1, <2>2, <1>6, <1>7 DEF Sized, Lags, SameRead
<1>12. Piece(View', q)
  <2>1. Piece(View, r)
    BY DEF SizeInv, AllInOnePiece
  <2>2. CASE "CONTIG" \notin on
    BY <2>1, <2>2, <1>6, <1>7 DEF Piece, SameRead
  <2>3. CASE "CONTIG" \in on
    <3>1. r.sclust \in Cluster => Points(View, r.sclust)
      BY <1>1, <1>3 DEF PosInv, Named, Has, Resting, Points, Slot
    <3>2. \A i \in 0 .. n - 1 : FatNext(View, r.sclust + i) = (r.sclust + i) + 1
      <4>1. r.sclust \in Cluster \cup {0}
        BY <1>3 DEF Slot
      <4>2. PICK cl, m : cl = r.sclust /\ m = left
        OBVIOUS
      <4> HIDE DEF left, r
      <4>3. IF cl \in Cluster /\ cl + m < MaxClust THEN CountsUp(card, cl, n) ELSE n = 0
        BY <1>5, <4>2 DEF IsCount
      <4>4. cl \in Cluster /\ cl + m < MaxClust => CountsUp(View, cl, n)
        BY <1>3, <1>4, <3>1, <4>2, <4>3, CountsRead
      <4>5. \A i \in 0 .. n - 1 : FatNext(View, cl + i) = (cl + i) + 1
        BY <1>4, <4>1, <4>2, <4>3, <4>4, CountLinks
      <4>6. QED
        BY <4>2, <4>5
    <3>3. \A i \in n .. left - 1 : FatNext(View, r.sclust + i) = (r.sclust + i) + 1
      <4>1. r.sclust \in Nat
        BY <1>3, GeometryAssumption DEF Slot, Cluster
      <4>2. QED
        BY <4>1, <2>3, <1>5
    <3>4. \A i \in 0 .. left - 1 : i \in 0 .. n - 1 \/ i \in n .. left - 1
      BY <1>4
    <3>5. Ent(View, r.ent).sclust = r.sclust /\ "OPEN" \in q.flags
      BY <1>3, <1>7 DEF Resting
    <3>6. QED
      BY <3>2, <3>3, <3>4, <3>5, <1>6, <1>7 DEF Piece, SameRead
  <2>4. QED
    BY <2>2, <2>3
<1>13. PICK k : k = View
  OBVIOUS
<1>14. Ends(k) /\ (\E i \in {View, k} : Meta(View', i))
       /\ (\E i \in {card, View, k} : Meta(card', i))
       /\ \A g \in Handle : SameFile(k, View, files[g])
  BY <1>6, <1>13, SameReadMeta, SameFileRefl DEF SizeInv
<1>15. QED
  BY <1>1, <1>9, <1>10, <1>11, <1>12, <1>14, SizeStep

(* uzefs_open with UZEFS_O_APPEND. *)
LEMMA SizeAppend ==
  ASSUME NothingDropped, WholeInv, WholeInv', SizeInv, Append
  PROVE  SizeInv'
<1>1. CardInv /\ CardInv' /\ PosInv
  BY DEF WholeInv
<1>2. pc = "append" /\ UNCHANGED lent
  BY DEF Append
<1>3. SameRead
  BY <1>1, <1>2, OnlyReads DEF Append
<1>4. CASE DiskError \/ Corrupt
  BY <1>1, <1>2, <1>3, <1>4, SizeError
<1>5. CASE /\ CanReach(Cur, Cur.fsize) /\ SetSlot(call.fh, At(Cur, Cur.fsize)) /\ Return
  <2> DEFINE q == At(Cur, Cur.fsize)
  <2>1. call.fh \in Handle /\ Cur \in Slot /\ Cur = files[call.fh] /\ Cur.fsize \in Nat
    BY <1>1, CurOK DEF CardInv, Slot
  <2>2. q.ent = Cur.ent /\ q.sclust = Cur.sclust /\ q.flags = Cur.flags /\ q.fsize = Cur.fsize
    BY <2>1, <1>5, AtStands
  <2>3. SetSlot(call.fh, q)
    BY <1>5
  <2> HIDE DEF q
  <2>4. Tamer(q, files[call.fh])
    BY <2>1, <2>2, AtTame
  <2>5. Locals' /\ \A f \in Handle : Calm(f) /\ Calm(f)'
    BY <1>2, <1>5, ReturnLocals DEF Calm, Return
  <2>6. QED
    BY <1>1, <1>3, <2>1, <2>3, <2>4, <2>5, SizeSlot
<1>6. QED
  BY <1>4, <1>5 DEF Append

(* uzefs_sync and uzefs_close: what is not dirty is the entry's size. *)
LEMMA SizeSync ==
  ASSUME NothingDropped, WholeInv, WholeInv', SizeInv, NEW f \in Handle,
         NEW op \in {"sync", "close"}, Sync(f, op)
  PROVE  SizeInv'
<1>1. CardInv /\ CardInv' /\ PosInv
  BY DEF WholeInv
<1>2. pc = "idle" /\ UNCHANGED disk /\ UNCHANGED lent
  BY DEF Sync
<1>3. SameRead
  BY <1>1, <1>2, OnlyReads
<1>4. CASE Has(f, "FAILED")
  <2>1. SetSlot(f, FreeSlot) /\ UNCHANGED <<pc, call>>
    BY <1>4 DEF Sync
  <2>2. Locals' /\ \A g \in Handle : Calm(g) /\ Calm(g)'
    BY <1>2, <2>1, RestLocals DEF Calm
  <2>3. Tamer(FreeSlot, files[f])
    BY DEF Tamer
  <2>4. QED
    BY <1>1, <1>3, <2>1, <2>2, <2>3, SizeSlot
<1>5. CASE ~Has(f, "FAILED")
  <2>1. /\ UNCHANGED files /\ pc' = IF Has(f, "DIRTY") THEN "entry" ELSE "flush"
        /\ call' = [NoCall EXCEPT !.op = op, !.fh = f]
    BY <1>5 DEF Sync
  <2>2. call'.fh = f /\ call'.op = op
    BY <2>1 DEF NoCall
  <2>3. Live(f) /\ Phase(f) = "idle" /\ Phase(f)' = pc'
    BY <1>2, <1>5, <2>2 DEF Sync, Live, Phase
  <2>4. Lags(View, files[f])
    BY <2>3 DEF SizeInv, AllSized, Sized
  <2>5. Sized(View', files'[f], Phase(f)')
    BY <1>3, <2>1, <2>3, <2>4 DEF Sized, Lags, Has, SameRead
  <2>6. Piece(View', files'[f])
    BY <1>3, <2>1 DEF SizeInv, AllInOnePiece, SameRead
  <2>7. Locals'
    BY <2>1, <2>2 DEF Locals, NewEnds, Linkable, ReadWithin, ChangeCall, NoMark
  <2>8. \A g \in Handle : g # f => Calm(g) /\ Calm(g)'
    BY <1>2, <2>2 DEF Calm
  <2>9. PICK k : k = View
    OBVIOUS
  <2>10. Ends(k) /\ (\E i \in {View, k} : Meta(View', i))
         /\ (\E i \in {card, View, k} : Meta(card', i))
         /\ \A g \in Handle : SameFile(k, View, files[g])
    BY <1>3, <2>9, SameReadMeta, SameFileRefl DEF SizeInv
  <2>11. QED
    BY <1>1, <2>1, <2>5, <2>6, <2>7, <2>8, <2>10, SizeStep
<1>6. QED
  BY <1>4, <1>5

(* A step that fails may have changed the card to no other's harm. *)
LEMMA SizeFail ==
  ASSUME CardInv, CardInv', SizeInv, NEW k, Ends(k), View' \in {View, k},
         card' \in {card, View, k}, DiskError,
         \A f \in Handle : f # call.fh /\ Has(f, "OPEN") => SameFile(k, View, files[f]),
         ~Able(files'[call.fh]) \/ Lags(View', Cur),
         Piece(View', Cur)
  PROVE  SizeInv'
<1>1. call.fh \in Handle /\ Cur \in Slot /\ Cur = files[call.fh]
  BY CurOK DEF CardInv
<1>2. Return /\ pc' \in {"idle", "unmount"} /\ Locals'
  BY ReturnLocals DEF DiskError, Return
<1>3. /\ \A f \in Handle : f # call.fh => files'[f] = files[f]
      /\ Tamer(files'[call.fh], Cur)
  BY FailSlotTame DEF DiskError
<1>4. \A f \in Handle : f # call.fh => Calm(f) /\ Calm(f)'
  BY <1>2 DEF Calm
<1>5. PICK g \in Handle : g = call.fh
  BY <1>1
<1>6. Live(g)' => Sized(View', files'[g], Phase(g)')
  <2>1. SUFFICES ASSUME Live(g)' PROVE Sized(View', files'[g], Phase(g)')
    OBVIOUS
  <2>2. Lags(View', files'[g])
    BY <1>3, <1>5, <2>1, LiveAble, TamerLags
  <2>3. Phase(g)' \in {"idle", "unmount"}
    BY <1>2 DEF Phase
  <2>4. QED
    BY <2>2, <2>3 DEF Sized
<1>7. Piece(View', files'[g])
  BY <1>3, <1>5, TamerPiece
<1>8. (\E i \in {View, k} : Meta(View', i)) /\ (\E i \in {card, View, k} : Meta(card', i))
  BY MetaRefl
<1>9. QED
  BY <1>2, <1>3, <1>4, <1>5, <1>6, <1>7, <1>8, SizeStep

(* Writing an entry leaves other files, and those with its first cluster. *)
LEMMA WithEntryFile ==
  ASSUME NEW k, IsCard(k), NEW r \in Slot
  PROVE  LET j == WithEntry(k, r)
         IN  /\ \A q \in Slot : q.ent # r.ent => SameFile(j, k, q)
             /\ \A q \in Slot : q.ent = r.ent /\ q.sclust = r.sclust /\ Piece(k, q)
                                  => Piece(j, q)
             /\ \A c : FatNext(j, c) = FatNext(k, c)
<1>1. PICK j : j = WithEntry(k, r)
  OBVIOUS
<1>2. /\ Ent(j, r.ent).sclust = r.sclust
      /\ \A e \in Entry : e # r.ent => Ent(j, e) = Ent(k, e)
      /\ \A c \in Cluster : Fat(j, c) = Fat(k, c)
  BY <1>1, WithEntryIs
<1>3. \A c : FatNext(j, c) = FatNext(k, c)
  BY <1>2 DEF FatNext
<1>4. ASSUME NEW q \in Slot, q.ent # r.ent PROVE SameFile(j, k, q)
  <2>1. Ent(j, q.ent) = Ent(k, q.ent)
    BY <1>2, <1>4 DEF Slot
  <2>2. QED
    BY <1>3, <2>1 DEF SameFile, Piece
<1>5. ASSUME NEW q \in Slot, q.ent = r.ent, q.sclust = r.sclust, Piece(k, q)
      PROVE  Piece(j, q)
  BY <1>2, <1>3, <1>5 DEF Piece
<1>6. QED
  BY <1>1, <1>3, <1>4, <1>5

(* The entry of uzefs_sync and uzefs_close. *)
LEMMA SizeSyncEntry ==
  ASSUME NothingDropped, WholeInv, WholeInv', SizeInv, SyncEntry
  PROVE  SizeInv'
<1>1. CardInv /\ CardInv' /\ PosInv /\ DiskOK /\ IsCard(View) /\ files \in [Handle -> Slot]
  BY ViewCard DEF WholeInv, CardInv, IndInv, CtrlOK
<1>2. pc = "entry" /\ UNCHANGED lent
  BY DEF SyncEntry
<1>3. /\ call.fh \in Handle /\ Cur \in Slot /\ Cur = files[call.fh] /\ Live(call.fh)
      /\ Used(View, Cur.ent) /\ Ent(View, Cur.ent).sclust = Cur.sclust
      /\ \A f \in Handle : f # call.fh /\ Has(f, "OPEN") => files[f].ent # Cur.ent
  BY <1>1, <1>2, WriterRests DEF Placed
<1>4. Lags(View, Cur)
  BY <1>2, <1>3 DEF SizeInv, AllSized, Sized, Phase
<1>5. PICK k : k = WithEntry(View, Cur)
  OBVIOUS
<1>6. IsCard(k)
  BY <1>1, <1>3, <1>5, WithEntryOK, SetEntCard DEF WithEntry
<1>7. Ends(k)
  <2>1. Cur.ent \in Entry
    BY <1>3 DEF Slot
  <2>2. Walk(View, Cur.sclust, ClustersFor(Cur.fsize)) \notin Cluster
    BY <1>3, <1>4, <2>1 DEF Lags, SizeInv, Ends, Covered
  <2>3. Cur.sclust \in Cluster => Fat(View, Cur.sclust) # Bad
    BY <1>3, <2>1 DEF SizeInv, Ends, EndsWell, Points
  <2>4. QED
    BY <1>1, <1>3, <1>5, <2>2, <2>3, WithEntryEnds DEF SizeInv
<1>8. DirWrite(Cur) => View' = k /\ card' \in {card, View, k}
  BY <1>1, <1>2, <1>3, <1>5, DirWriteOK
<1>9. DirWriteFails(Cur) => View' \in {View, k} /\ card' \in {card, View, k}
  BY <1>1, <1>2, <1>3, <1>5, <1>6, DirWriteFailsOK, FailsKeep DEF DirWriteFails
<1>10. \A f \in Handle : f # call.fh /\ Has(f, "OPEN") => SameFile(k, View, files[f])
  BY <1>1, <1>3, <1>5, WithEntryFile
<1>11. Ent(k, Cur.ent).size = Cur.fsize /\ Ent(k, Cur.ent).sclust = Cur.sclust
  BY <1>1, <1>3, <1>5, WithEntryIs
<1>12. Lags(k, Cur)
  BY <1>3, <1>11, ClustersIs DEF Lags, Slot
<1>13. Piece(View, Cur) /\ Piece(k, Cur)
  <2>1. Piece(View, Cur)
    BY <1>3 DEF SizeInv, AllInOnePiece
  <2>2. QED
    BY <1>1, <1>3, <1>5, <2>1, WithEntryFile
<1>14. CASE DirWrite(Cur) /\ Goto("flush") /\ UNCHANGED files
  <2>1. pc' = "flush" /\ UNCHANGED <<call, files>> /\ Locals'
    BY <1>14, RestLocals DEF Goto
  <2>2. PICK g \in Handle : g = call.fh
    BY <1>3
  <2>3. Sized(View', files'[g], Phase(g)')
    BY <1>3, <1>8, <1>11, <1>12, <1>14, <2>1, <2>2 DEF Sized, Phase
  <2>4. Piece(View', files'[g])
    BY <1>3, <1>8, <1>13, <1>14, <2>2
  <2>5. \A f \in Handle : f # g => files'[f] = files[f] /\ Calm(f) /\ Calm(f)'
    BY <2>1, <2>2 DEF Calm
  <2>6. (\E i \in {View, k} : Meta(View', i)) /\ (\E i \in {card, View, k} : Meta(card', i))
    BY <1>8, <1>14, MetaRefl
  <2>7. QED
    BY <1>1, <1>7, <1>10, <2>1, <2>2, <2>3, <2>4, <2>5, <2>6, SizeStep
<1>15. CASE DirWriteFails(Cur) /\ DiskError
  <2>1. Lags(View', Cur) /\ Piece(View', Cur)
    BY <1>4, <1>9, <1>12, <1>13, <1>15
  <2>2. QED
    BY <1>1, <1>7, <1>9, <1>10, <1>15, <2>1, SizeFail
<1>16. QED
  BY <1>14, <1>15 DEF SyncEntry

(* Their flush: the entry is the slot's by then. *)
LEMMA SizeSyncDone ==
  ASSUME NothingDropped, WholeInv, WholeInv', SizeInv, SyncDone \/ SyncFlushFails
  PROVE  SizeInv'
<1>1. CardInv /\ CardInv' /\ PosInv
  BY DEF WholeInv
<1>2. pc = "flush" /\ UNCHANGED lent
  BY DEF SyncDone, SyncFlushFails
<1>3. SameRead
  BY <1>1, <1>2, OnlyReads DEF SyncDone, SyncFlushFails
<1>4. PICK g \in Handle : g = call.fh /\ Cur \in Slot /\ Cur = files[g]
  BY <1>1, CurOK DEF CardInv
<1>5. Able(Cur) => Lags(View, Cur) /\ Ent(View, Cur.ent).size = Cur.fsize
  BY <1>2, <1>4, LiveAble DEF SizeInv, AllSized, Sized, Phase
<1>6. Piece(View, Cur)
  BY <1>4 DEF SizeInv, AllInOnePiece
<1>7. Return /\ pc' \in {"idle", "unmount"} /\ Locals'
  BY ReturnLocals DEF SyncDone, SyncFlushFails, DiskError, Return
<1>8. Phase(g)' \in {"idle", "unmount"}
  BY <1>7 DEF Phase
<1>9. PICK k : k = View
  OBVIOUS
<1>10. Ends(k) /\ (\E i \in {View, k} : Meta(View', i))
       /\ (\E i \in {card, View, k} : Meta(card', i))
       /\ \A f \in Handle : SameFile(k, View, files[f])
  BY <1>3, <1>9, SameReadMeta, SameFileRefl DEF SizeInv
<1>11. PICK q : files'[g] = q /\ \A f \in Handle : f # g => files'[f] = files[f]
  <2>1. CASE SyncDone
    BY <2>1, <1>1, <1>4, SetSlotIs DEF SyncDone
  <2>2. CASE SyncFlushFails
    BY <2>2, <1>1, <1>4, FailSlotTame DEF SyncFlushFails, DiskError
  <2>3. QED
    BY <2>1, <2>2
<1>12. Able(q) => Lags(View, q)
  <2>1. CASE SyncDone
    <3>1. q = IF call.op = "sync" THEN With(Cur, {}, {"DIRTY"}) ELSE FreeSlot
      BY <2>1, <1>1, <1>4, <1>11, SetSlotIs DEF SyncDone
    <3>2. CASE call.op = "sync"
      <4>1. q.flags = Cur.flags \ {"DIRTY"} /\ q.ent = Cur.ent /\ q.fsize = Cur.fsize
        BY <3>1, <3>2, <1>4, WithoutOK
      <4>2. Able(q) => Able(Cur)
        BY <4>1 DEF Able
      <4>3. QED
        BY <4>1, <4>2, <1>5 DEF Lags
    <3>3. CASE call.op # "sync"
      BY <3>1, <3>3, FreeSlotOK DEF Able
    <3>4. QED
      BY <3>2, <3>3
  <2>2. CASE SyncFlushFails
    <3>1. Tamer(q, Cur)
      BY <2>2, <1>1, <1>4, <1>11, FailSlotTame DEF SyncFlushFails, DiskError
    <3>2. Able(q) => Able(Cur)
      BY <3>1, FreeSlotOK DEF Tamer, Able
    <3>3. QED
      BY <3>1, <3>2, <1>5, TamerLags
  <2>3. QED
    BY <2>1, <2>2
<1>13. Piece(View, q)
  <2>1. CASE SyncDone
    <3>1. q = IF call.op = "sync" THEN With(Cur, {}, {"DIRTY"}) ELSE FreeSlot
      BY <2>1, <1>1, <1>4, <1>11, SetSlotIs DEF SyncDone
    <3>2. CASE call.op = "sync"
      <4>1. q.flags = Cur.flags \ {"DIRTY"} /\ q.ent = Cur.ent /\ q.fsize = Cur.fsize
            /\ q.sclust = Cur.sclust
        BY <3>1, <3>2, <1>4, WithoutOK
      <4>2. QED
        BY <4>1, <1>6 DEF Piece
    <3>3. CASE call.op # "sync"
      BY <3>1, <3>3, FreeSlotOK DEF Piece
    <3>4. QED
      BY <3>2, <3>3
  <2>2. CASE SyncFlushFails
    <3>1. Tamer(q, Cur)
      BY <2>2, <1>1, <1>4, <1>11, FailSlotTame DEF SyncFlushFails, DiskError
    <3>2. QED
      BY <3>1, <1>6, TamerPiece
  <2>3. QED
    BY <2>1, <2>2
<1>14. Live(g)' => Sized(View', files'[g], Phase(g)')
  BY <1>3, <1>8, <1>11, <1>12, LiveAble DEF Sized, SameRead
<1>15. Piece(View', files'[g])
  BY <1>3, <1>11, <1>13 DEF SameRead
<1>16. \A f \in Handle : f # g => files'[f] = files[f] /\ Calm(f) /\ Calm(f)'
  BY <1>4, <1>7, <1>11 DEF Calm
<1>17. QED
  BY <1>1, <1>7, <1>10, <1>14, <1>15, <1>16, SizeStep


-----------------------------------------------------------------------------
(* Reading and finding the place to read or write.                         *)

(* The slot of a transfer has no cluster to link before one is taken. *)
LEMMA ChunkLocals ==
  ASSUME CardInv, SizeInv, pc \in {"chunk", "alloc"}, pc' \in {"move", "alloc"},
         UNCHANGED call, Cur'.flags = Cur.flags, Cur'.fptr = Cur.fptr,
         Cur'.fsize = Cur.fsize, pc' = "alloc" => call.op = "write"
  PROVE  Locals'
<1>1. "NEWCL" \notin Cur.flags
  BY CurOK DEF CardInv
<1>2. call.op = "write" => "CONTIG" \notin Cur.flags
  BY DEF SizeInv, Locals, NoMark
<1>3. pc' = "move" /\ call.op = "read" => Cur.fptr + call.left <= Cur.fsize
  <2>1. pc = "alloc" => call.op = "write"
    BY DEF CardInv, IndInv, CtrlOK, TransferOK
  <2>2. QED
    BY <2>1 DEF SizeInv, Locals, ReadWithin
<1>4. ~Has(call.fh, "NEWCL")'
  BY <1>1 DEF Has, Cur
<1>5. QED
  BY <1>1, <1>2, <1>3, <1>4 DEF Locals, NewEnds, Linkable, ReadWithin, ChangeCall, NoMark

(* locate, where it needs no card. *)
LEMMA SizeSameCluster ==
  ASSUME NothingDropped, WholeInv, WholeInv', SizeInv, SameCluster
  PROVE  SizeInv'
<1> DEFINE q == IF AtBoundary THEN [Cur EXCEPT !.csect = @ + 1] ELSE Cur
<1>1. CardInv /\ CardInv' /\ PosInv
  BY DEF WholeInv
<1>2. /\ pc = "chunk" /\ SetSlot(call.fh, q) /\ pc' = "move" /\ UNCHANGED call
      /\ UNCHANGED disk /\ UNCHANGED lent
  BY DEF SameCluster, Goto
<1>3. call.fh \in Handle /\ Cur \in Slot /\ Cur = files[call.fh]
  BY <1>1, <1>2, TransferSlot
<1>4. /\ q.flags = Cur.flags /\ q.ent = Cur.ent /\ q.sclust = Cur.sclust
      /\ q.fptr = Cur.fptr /\ q.fsize = Cur.fsize
  BY <1>3 DEF Slot
<1> HIDE DEF q
<1>5. PICK g \in Handle : g = call.fh
  BY <1>3
<1>6. files'[g] = q /\ Cur' = q
  BY <1>1, <1>2, <1>5, SetSlotIs DEF Cur
<1>7. Locals'
  BY <1>1, <1>2, <1>4, <1>6, ChunkLocals
<1>8. Tamer(q, files[g])
  BY <1>3, <1>4, <1>5, AtTame
<1>9. SameRead
  BY <1>1, <1>2, OnlyReads
<1>10. \A f \in Handle : Calm(f) /\ Calm(f)'
  BY <1>2 DEF Calm
<1>11. QED
  BY <1>1, <1>2, <1>5, <1>7, <1>8, <1>9, <1>10, SizeSlot

(* locate, into the next cluster, or finding that there is none. *)
LEMMA SizeNextCluster ==
  ASSUME NothingDropped, WholeInv, WholeInv', SizeInv, NextCluster
  PROVE  SizeInv'
<1> DEFINE nx == IF Cur.cclust # 0 THEN FatNext(View, Cur.cclust) ELSE Cur.sclust
           S == IF Cur.cclust # 0 THEN {FatSect(Cur.cclust)} ELSE {}
           q == [Cur EXCEPT !.cclust = nx, !.csect = ClustSect(nx)]
<1>1. CardInv /\ CardInv' /\ PosInv
  BY DEF WholeInv
<1>2. /\ pc = "chunk" /\ UNCHANGED lent
      /\ \/ /\ Load(S, FatSect(Cur.cclust))
            /\ \/ SetSlot(call.fh, q) /\ Goto("move")
               \/ call.op = "write" /\ UNCHANGED files /\ Goto("alloc")
               \/ Corrupt
         \/ LoadFails(S) /\ DiskError
  BY DEF NextCluster
<1>3. call.fh \in Handle /\ Cur \in Slot /\ Cur = files[call.fh]
  BY <1>1, <1>2, TransferSlot
<1>4. S # {} => FatSect(Cur.cclust) \in S /\ FatSect(Cur.cclust) \in Sector
  BY <1>3, Sectors DEF Slot
<1>5. /\ q.flags = Cur.flags /\ q.ent = Cur.ent /\ q.sclust = Cur.sclust
      /\ q.fptr = Cur.fptr /\ q.fsize = Cur.fsize
  BY <1>3 DEF Slot
<1> HIDE DEF S, q, nx
<1>6. SameRead
  BY <1>1, <1>2, <1>4, OnlyReads
<1>7. PICK g \in Handle : g = call.fh
  BY <1>3
<1>8. CASE SetSlot(call.fh, q) /\ pc' = "move" /\ UNCHANGED call
  <2>1. files'[g] = q /\ Cur' = q
    BY <1>1, <1>7, <1>8, SetSlotIs DEF Cur
  <2>2. Locals'
    BY <1>1, <1>2, <1>5, <1>8, <2>1, ChunkLocals
  <2>3. Tamer(q, files[g])
    BY <1>3, <1>5, <1>7, AtTame
  <2>4. \A f \in Handle : Calm(f) /\ Calm(f)'
    BY <1>2, <1>8 DEF Calm
  <2>5. QED
    BY <1>1, <1>6, <1>7, <1>8, <2>2, <2>3, <2>4, SizeSlot
<1>9. CASE call.op = "write" /\ UNCHANGED files /\ pc' = "alloc" /\ UNCHANGED call
  <2>1. Cur' = Cur
    BY <1>9 DEF Cur
  <2>2. Locals'
    BY <1>1, <1>2, <1>9, <2>1, ChunkLocals
  <2>3. \A f \in Handle : Calm(f) /\ Calm(f)'
    BY <1>2, <1>9 DEF Calm
  <2>4. QED
    BY <1>1, <1>6, <1>9, <2>2, <2>3, SameReadMeta, SizeSame
<1>10. CASE DiskError \/ Corrupt
  BY <1>1, <1>2, <1>6, <1>10, SizeError
<1>11. QED
  BY <1>2, <1>8, <1>9, <1>10 DEF Goto

(* UZEFS_ERR_FULL. *)
LEMMA SizeAllocFull ==
  ASSUME NothingDropped, WholeInv, WholeInv', SizeInv, AllocFull
  PROVE  SizeInv'
<1>1. CardInv /\ CardInv' /\ PosInv
  BY DEF WholeInv
<1>2. /\ pc = "alloc" /\ UNCHANGED lent
      /\ \/ Load(FatRange(2, LastFat), <<"fat", LastFat>>) /\ Return /\ UNCHANGED files
         \/ LoadFails(FatRange(2, LastFat)) /\ DiskError
  BY DEF AllocFull
<1>3. SameRead
  BY <1>1, <1>2, LastFatOK, OnlyReads
<1>4. CASE Return /\ UNCHANGED files
  <2>1. Locals' /\ \A f \in Handle : Calm(f) /\ Calm(f)'
    BY <1>2, <1>4, ReturnLocals DEF Calm, Return
  <2>2. QED
    BY <1>1, <1>3, <1>4, <2>1, SameReadMeta, SizeSame
<1>5. CASE DiskError
  BY <1>1, <1>2, <1>3, <1>5, SizeError
<1>6. QED
  BY <1>2, <1>4, <1>5

(* A chunk read is inside the file, whose size it leaves. *)
LEMMA SizeReadChunk ==
  ASSUME NothingDropped, WholeInv, WholeInv', SizeInv, ReadChunk
  PROVE  SizeInv'
<1> DEFINE s == DataSect(Cur.csect)
           S == IF Chunk = UPS /\ s \notin DOMAIN kept THEN {} ELSE {s}
           q == Moved(Cur)
<1>1. CardInv /\ CardInv' /\ PosInv /\ LeftOK /\ IndInv
  BY DEF WholeInv, CardInv
<1>2. /\ pc = "move" /\ call.op = "read" /\ UNCHANGED lent
      /\ \/ Load(S, s) /\ SetSlot(call.fh, q) /\ Continue(call.left - Chunk)
         \/ (LoadFails(S) \/ UNCHANGED disk) /\ DiskError
  BY DEF ReadChunk
<1>3. call.fh \in Handle /\ Cur \in Slot /\ Cur = files[call.fh]
  BY <1>1, <1>2, TransferSlot
<1>4. s \in Sector /\ (S # {} => s \in S)
  BY <1>3, Sectors DEF Slot
<1> HIDE DEF S, s
<1>5. SameRead
  BY <1>1, <1>2, <1>4, OnlyReads
<1>6. CASE SetSlot(call.fh, q) /\ Continue(call.left - Chunk)
  <2>1. /\ Chunk \in Nat /\ Chunk > 0 /\ q.fptr = Cur.fptr + Chunk
        /\ q.ent = Cur.ent /\ q.sclust = Cur.sclust /\ q.flags = Cur.flags
    BY <1>1, <1>2, ChunkOK, ChunkPositive
  <2>2. call.left \in Nat /\ Chunk <= call.left /\ call \in CallType
    <3>1. call.left \in Nat /\ UPS \in Nat /\ Cur.fptr \in Nat /\ Offset \in Nat
          /\ call \in CallType
      BY <1>1, <1>3, UnitsOK, DivIs DEF IndInv, CtrlOK, CallType, Offset, Slot
    <3>2. QED
      BY <3>1 DEF Chunk
  <2>3. Cur.fptr + call.left <= Cur.fsize
    BY <1>2 DEF SizeInv, Locals, ReadWithin
  <2>4. q.fsize = Cur.fsize
    <3>1. Cur.fptr \in Nat /\ Cur.fsize \in Nat
      BY <1>3 DEF Slot
    <3>2. Cur.fptr + Chunk <= Cur.fsize
      BY <2>1, <2>2, <2>3, <3>1
    <3>3. ~(Cur.fptr + Chunk > Cur.fsize)
      BY <2>1, <3>1, <3>2
    <3>4. QED
      BY <1>3, <3>3 DEF Moved, Slot
  <2> HIDE DEF q
  <2>5. PICK g \in Handle : g = call.fh
    BY <1>3
  <2>6. files'[g] = q
    BY <1>1, <1>6, <2>5, SetSlotIs
  <2>7. Tamer(q, files[g])
    BY <1>3, <2>1, <2>4, <2>5, AtTame
  <2>8. Locals'
    <3>1. CASE Return
      BY <3>1, ReturnLocals
    <3>2. CASE pc' = "chunk" /\ call' = [call EXCEPT !.left = call.left - Chunk]
      <4>1. call'.fh = call.fh /\ call'.op = "read" /\ call'.left = call.left - Chunk
        BY <1>2, <2>2, <3>2 DEF CallType
      <4>2. Cur' = q
        BY <2>5, <2>6, <4>1 DEF Cur
      <4>3. (Cur.fptr + Chunk) + (call.left - Chunk) = Cur.fptr + call.left
        BY <1>3, <2>1, <2>2 DEF Slot
      <4>4. ReadWithin'
        BY <2>1, <2>3, <2>4, <4>1, <4>2, <4>3 DEF ReadWithin
      <4>5. QED
        BY <3>2, <4>1, <4>4 DEF Locals, NewEnds, Linkable, ChangeCall, NoMark
    <3>3. QED
      BY <1>6, <3>1, <3>2 DEF Continue
  <2>9. \A f \in Handle : Calm(f) /\ Calm(f)'
    BY <1>2, <1>6 DEF Calm, Continue, Return
  <2>10. QED
    BY <1>1, <1>5, <1>6, <2>5, <2>7, <2>8, <2>9, SizeSlot
<1>7. CASE DiskError
  BY <1>1, <1>2, <1>5, <1>7, SizeError
<1>8. QED
  BY <1>2, <1>6, <1>7

-----------------------------------------------------------------------------
(* Chunks written, and clusters taken and freed.                           *)

(* A marked slot's run is a walk down its chain. *)
LEMMA PieceRun ==
  ASSUME NEW k, NEW r \in Slot, "CONTIG" \in r.flags, Piece(k, r)
  PROVE  \A i \in Nat : i <= Steps(r.fsize) => Walk(k, r.sclust, i) = r.sclust + i
<1> DEFINE s == r.sclust
           m == Steps(r.fsize)
           S == {i \in Nat : i <= m => Walk(k, s, i) = s + i}
<1>1. s \in Nat /\ m \in Nat /\ \A i \in 0 .. m - 1 : FatNext(k, s + i) = (s + i) + 1
  BY StepsNat, GeometryAssumption DEF Slot, Piece, Cluster
<1> HIDE DEF s, m
<1>2. 0 \in S
  BY <1>1, WalkIs
<1>3. ASSUME NEW i \in Nat, i \in S, i + 1 <= m PROVE Walk(k, s, i + 1) = s + (i + 1)
  <2>1. Walk(k, s, i) = s + i /\ i \in 0 .. m - 1
    BY <1>1, <1>3
  <2>2. Walk(k, s, i + 1) = FatNext(k, Walk(k, s, i))
    BY WalkIs
  <2>3. Walk(k, s, i + 1) = (s + i) + 1
    BY <1>1, <2>1, <2>2
  <2>4. QED
    BY <1>1, <2>3
<1>4. \A i \in Nat : i \in S => i + 1 \in S
  BY <1>3
<1>5. \A i \in Nat : i \in S
  <2> HIDE DEF S
  <2>1. QED
    BY <1>2, <1>4, NatAll
<1>6. QED
  BY <1>5 DEF s, m

(* A FAT entry that is in no walk down a file's chain is no matter to it. *)
LEMMA FatFile ==
  ASSUME NEW k, IsCard(k), NEW c \in Cluster, NEW v \in FatValue, NEW r \in Slot,
         \/ Fat(k, c) \notin Cluster
         \/ \A i \in Nat : Walk(k, Ent(k, r.ent).sclust, i) # c
  PROVE  SameFile(SetFat(k, c, v), k, r)
<1>1. PICK j : j = SetFat(k, c, v)
  OBVIOUS
<1>2. /\ \A d \in Cluster : Fat(j, d) = IF d = c THEN v ELSE Fat(k, d)
      /\ \A e \in Entry : Ent(j, e) = Ent(k, e)
  BY <1>1, SetFatCard
<1>3. Ent(j, r.ent) = Ent(k, r.ent)
  BY <1>2 DEF Slot
<1>4. \A d : d # c => FatNext(j, d) = FatNext(k, d)
  BY <1>2 DEF FatNext
<1>5. ASSUME Piece(k, r), "CONTIG" \in r.flags, NEW i \in 0 .. Steps(r.fsize) - 1
      PROVE  r.sclust + i # c
  <2>1. r.sclust \in Nat /\ Steps(r.fsize) \in Nat /\ i \in Nat
    BY StepsNat, GeometryAssumption DEF Slot, Cluster
  <2>2. FatNext(k, r.sclust + i) = (r.sclust + i) + 1 /\ Ent(k, r.ent).sclust = r.sclust
    BY <1>5 DEF Piece
  <2>3. Walk(k, r.sclust, i) = r.sclust + i
    BY <1>5, <2>1, PieceRun
  <2>4. c \in Nat /\ c >= 2
    BY GeometryAssumption DEF Cluster
  <2>5. CASE Fat(k, c) \notin Cluster
    <3>1. FatNext(k, c) \in {0, Bad}
      BY <2>5 DEF FatNext
    <3>2. FatNext(k, c) # c + 1
      BY <2>4, <3>1 DEF Bad
    <3>3. QED
      BY <2>2, <3>2
  <2>6. CASE \A n \in Nat : Walk(k, Ent(k, r.ent).sclust, n) # c
    BY <2>1, <2>2, <2>3, <2>6
  <2>7. QED
    BY <2>5, <2>6
<1>6. Piece(k, r) => Piece(j, r)
  BY <1>3, <1>4, <1>5 DEF Piece
<1>7. QED
  BY <1>1, <1>3, <1>6 DEF SameFile

(* A chunk that could not be written changes data at most. *)
LEMMA SizeWriteChunkFails ==
  ASSUME NothingDropped, WholeInv, WholeInv', SizeInv, WriteChunkFails
  PROVE  SizeInv'
<1>1. CardInv /\ CardInv' /\ PosInv /\ DiskOK /\ CtrlOK
  BY DEF WholeInv, CardInv, IndInv
<1>2. /\ pc = "move" /\ UNCHANGED lent /\ DiskError
      /\ \/ WholeSectorFails(Cur.csect)
         \/ PutFails({DataSect(Cur.csect)}, Merged(Cur.csect))
  BY DEF WriteChunkFails
<1>3. Cur.csect \in 0 .. NDataSects - 1
  BY <1>1, <1>2, TransferSlot DEF Slot
<1>4. CASE WholeSectorFails(Cur.csect)
  <2>1. Meta(View', View) /\ Meta(card', card)
    BY <1>1, <1>2, <1>3, <1>4, WholeSectorOK, DataMeta DEF WholeSectorFails
  <2>2. QED
    BY <1>1, <1>2, <2>1, SizeErrorMeta
<1>5. CASE PutFails({DataSect(Cur.csect)}, Merged(Cur.csect))
  <2>1. lent # "kept"
    BY <1>1, <1>5 DEF PutFails, NothingDropped, PosInv, LoanOK
  <2>2. View = card
    BY <1>1, <2>1, ViewCard
  <2>3. \A k \in {card', View'} : \E j \in {card, View} :
          \A x \in Sector : x \notin DataSectors => k[x] = j[x]
    BY <1>1, <1>2, <1>5, MergedOK
  <2>4. Meta(View', View) /\ Meta(card', View)
    BY <2>2, <2>3, DataMeta
  <2>5. QED
    BY <1>1, <1>2, <2>4, SizeErrorMeta
<1>6. QED
  BY <1>2, <1>4, <1>5

(* free_chain frees what is in no file. *)
LEMMA SizeFree ==
  ASSUME NothingDropped, WholeInv, WholeInv', SizeInv, Free
  PROVE  SizeInv'
<1> DEFINE cl == call.cl
           nx == FatNext(View, cl)
<1>1. CardInv /\ CardInv' /\ PosInv /\ DiskOK /\ IsCard(View)
      /\ \A f \in Handle : files[f] \in Slot
  BY ViewCard DEF WholeInv, CardInv, IndInv, CtrlOK
<1>2. /\ pc = "free" /\ UNCHANGED lent
      /\ \/ nx # Bad /\ FatPut(cl, 0) /\ UNCHANGED files
            /\ ((pc' = pc /\ call' = [call EXCEPT !.cl = nx]) \/ Done)
         \/ nx = Bad /\ (IF cl \in Cluster THEN Load({FatSect(cl)}, FatSect(cl))
                                           ELSE UNCHANGED disk) /\ Corrupt
         \/ cl \in Cluster /\ LoadFails({FatSect(cl)}) /\ DiskError
         \/ cl \in Cluster /\ FatPutFails(cl, 0) /\ DiskError
  BY DEF Free
<1>3. nx # Bad => cl \in Cluster
  BY FatNextOK
<1>4. cl \in Cluster => ~Points(View, cl)
  BY <1>1, <1>2 DEF CardInv, StepsOK, FreeOK
<1> HIDE DEF cl, nx
<1>5. CASE (IF cl \in Cluster THEN Load({FatSect(cl)}, FatSect(cl)) ELSE UNCHANGED disk)
           /\ Corrupt
  <2>1. cl \in Cluster => FatSect(cl) \in Sector
    BY Sectors
  <2>2. SameRead
    BY <1>1, <1>2, <1>5, <2>1, OnlyReads
  <2>3. QED
    BY <1>1, <1>2, <1>5, <2>2, SizeError
<1>6. CASE LoadFails({FatSect(cl)}) /\ DiskError
  BY <1>1, <1>2, <1>6, OnlyReads, SizeError
<1>7. ASSUME cl \in Cluster, FatPut(cl, 0) \/ FatPutFails(cl, 0),
             NEW g \in Handle, Tamer(files'[g], files[g]),
             \A f \in Handle : f # g => files'[f] = files[f],
             pc' \in {"free", "idle", "append"} \/ (pc' = "unmount" /\ call'.op = "unmount")
      PROVE  SizeInv'
  <2>1. PICK k : k = SetFat(View, cl, 0)
    OBVIOUS
  <2>2. IsCard(k)
    BY <1>1, <1>7, <2>1, FatValues, SetFatCard
  <2>3. FatPut(cl, 0) => View' = k /\ card' \in {card, View, k}
    BY <1>1, <1>2, <1>7, <2>1, FatValues, FatPutOK
  <2>4. FatPutFails(cl, 0) => View' \in {View, k} /\ card' \in {card, View, k}
    BY <1>1, <1>2, <1>7, <2>1, <2>2, FatValues, FatPutFailsOK, FailsKeep DEF FatPutFails
  <2>5. (\E i \in {View, k} : Meta(View', i)) /\ (\E i \in {card, View, k} : Meta(card', i))
    BY <1>7, <2>3, <2>4, MetaRefl
  <2>6. Ends(k)
    BY <1>1, <1>7, <2>1, FatEnds DEF SizeInv
  <2>7. ASSUME NEW f \in Handle, Has(f, "OPEN") PROVE SameFile(k, View, files[f])
    <3>1. files[f] \in Slot /\ files[f].ent \in Entry /\ Used(View, files[f].ent)
      BY <1>1, <2>7 DEF Slot, PosInv, Named
    <3>2. \A i \in Nat : Walk(View, Ent(View, files[f].ent).sclust, i) # cl
      BY <1>1, <1>4, <1>7, <3>1, WalkPointed
    <3>3. QED
      BY <1>1, <1>7, <2>1, <3>1, <3>2, FatValues, FatFile
  <2>8. Locals' /\ \A f \in Handle : Calm(f) /\ Calm(f)'
    BY <1>2, <1>7, RestLocals DEF Calm
  <2>9. QED
    BY <1>1, <1>7, <2>5, <2>6, <2>7, <2>8, SizeTame
<1>8. ASSUME nx # Bad, FatPut(cl, 0), UNCHANGED files,
             (pc' = pc /\ call' = [call EXCEPT !.cl = nx]) \/ Done
      PROVE  SizeInv'
  <2>1. pc' \in {"free", "idle", "append"} \/ (pc' = "unmount" /\ call'.op = "unmount")
    BY <1>2, <1>8 DEF Done, Goto, Return
  <2>2. PICK g \in Handle : TRUE
    BY FreeSlotOK
  <2>3. Tamer(files'[g], files[g])
    BY <1>8, AtTame
  <2>4. QED
    BY <1>3, <1>7, <1>8, <2>1, <2>3
<1>9. CASE cl \in Cluster /\ FatPutFails(cl, 0) /\ DiskError
  <2>1. call.fh \in Handle /\ Cur = files[call.fh] /\ Tamer(files'[call.fh], Cur)
        /\ \A f \in Handle : f # call.fh => files'[f] = files[f]
    BY <1>1, <1>9, FailSlotTame, CurOK DEF CardInv, DiskError
  <2>2. pc' = "idle" \/ (pc' = "unmount" /\ call'.op = "unmount")
    BY <1>9 DEF DiskError, Return
  <2>3. QED
    BY <1>7, <1>9, <2>1, <2>2
<1>10. QED
  BY <1>2, <1>5, <1>6, <1>8, <1>9

(* alloc_cluster takes a cluster that is in no chain, and makes it an end. *)
LEMMA SizeAlloc ==
  ASSUME NothingDropped, WholeInv, WholeInv', SizeInv, NEW cl \in Cluster, Alloc(cl)
  PROVE  SizeInv'
<1> DEFINE v == With(Cur, {"NEWCL"}, {})
           q == [v EXCEPT !.csect = ClustSect(cl)]
<1>1. CardInv /\ CardInv' /\ PosInv /\ DiskOK /\ IsCard(View) /\ IsCard(card)
      /\ \A f \in Handle : files[f] \in Slot
  BY ViewCard DEF WholeInv, CardInv, IndInv, CtrlOK, DiskOK
<1>2. PICK k : k = SetFat(View, cl, EOC)
  OBVIOUS
<1>3. /\ pc = "alloc" /\ UNCHANGED lent
      /\ \/ /\ card' = Wiped(CardAfterPut(AllocLoads(cl), k), cl)
            /\ HoldPut(FatSect(cl), k)
            /\ hint' = cl + 1 /\ SetSlot(call.fh, q) /\ pc' = "move" /\ UNCHANGED call
         \/ LoadFails(AllocLoads(cl)) /\ DiskError
         \/ PutFails({}, k) /\ DiskError
  BY <1>2 DEF Alloc, Goto
<1>4. /\ call.fh \in Handle /\ Cur \in Slot /\ Cur = files[call.fh]
      /\ call.op = "write" /\ "CONTIG" \notin Cur.flags
  BY <1>1, <1>3, TransferSlot DEF CardInv, IndInv, CtrlOK, TransferOK, SizeInv, Locals, NoMark
<1>5. Fat(View, cl) = 0
  BY DEF Alloc, Takable, FreeFrom
<1>6. IsCard(k) /\ Fat(k, cl) = EOC
  BY <1>1, <1>2, FatValues, SetFatCard
<1>7. Ends(k)
  BY <1>1, <1>2, FatEnds DEF SizeInv
<1>8. \A f \in Handle : SameFile(k, View, files[f])
  <2>1. Fat(View, cl) \notin Cluster
    BY <1>5, FatValues
  <2>2. QED
    BY <1>1, <1>2, <2>1, FatValues, FatFile
<1>9. CASE /\ card' = Wiped(CardAfterPut(AllocLoads(cl), k), cl)
           /\ HoldPut(FatSect(cl), k)
           /\ hint' = cl + 1 /\ SetSlot(call.fh, q) /\ pc' = "move" /\ UNCHANGED call
  <2>1. FatSect(cl) \in AllocLoads(cl)
    BY <1>1, AllocLoadsOK DEF CardInv, IndInv, CtrlOK
  <2>2. View' = Wiped(k, cl) /\ card' \in {Wiped(card, cl), Wiped(View, cl), Wiped(k, cl)}
    BY <1>1, <1>2, <1>3, <1>9, <2>1, AllocOK
  <2>3. Meta(View', k) /\ \E i \in {card, View, k} : Meta(card', i)
    <3>1. /\ Meta(Wiped(card, cl), card) /\ Meta(Wiped(View, cl), View)
          /\ Meta(Wiped(k, cl), k)
      BY <1>1, <1>6, WipedCard DEF Meta
    <3>2. QED
      BY <2>2, <3>1
  <2>4. /\ v \in Slot /\ v.flags = Cur.flags \cup {"NEWCL"} /\ v.ent = Cur.ent
        /\ v.sclust = Cur.sclust /\ v.fsize = Cur.fsize
    <3>1. "NEWCL" \in Flag
      BY DEF Flag
    <3>2. QED
      BY <1>4, <3>1, OneFlag
  <2> HIDE DEF v
  <2>5. q.flags = v.flags /\ q.ent = v.ent /\ q.sclust = v.sclust /\ q.fsize = v.fsize
    BY <2>4 DEF Slot
  <2>6. SetSlot(call.fh, q)
    BY <1>9
  <2> HIDE DEF q
  <2>7. PICK g \in Handle : g = call.fh
    BY <1>4
  <2>8. files'[g] = q /\ Cur' = q /\ \A f \in Handle : f # g => files'[f] = files[f]
    BY <1>1, <1>9, <2>6, <2>7, SetSlotIs DEF Cur
  <2>9. Tamer(q, files[g])
    BY <1>4, <2>4, <2>5, <2>7 DEF Tamer, Able
  <2>10. Locals'
    <3>1. NewClust' = cl
      <4>1. hint' = cl + 1 /\ cl \in Nat
        BY <1>9, GeometryAssumption DEF Cluster
      <4>2. QED
        BY <4>1 DEF NewClust
    <3>2. Fat(View', cl) = EOC
      BY <1>6, <2>3 DEF Meta
    <3>3. "CONTIG" \notin q.flags
      BY <1>4, <2>4, <2>5
    <3>4. QED
      BY <1>4, <1>9, <2>8, <3>1, <3>2, <3>3
         DEF Locals, NewEnds, ReadWithin, ChangeCall, NoMark
  <2>11. \A f \in Handle : Calm(f) /\ Calm(f)'
    BY <1>3, <1>9 DEF Calm
  <2>12. QED
    BY <1>1, <1>7, <1>8, <2>3, <2>7, <2>8, <2>9, <2>10, <2>11, SizeTame
<1>10. CASE LoadFails(AllocLoads(cl)) /\ DiskError
  BY <1>1, <1>3, <1>10, OnlyReads, SizeError
<1>11. CASE PutFails({}, k) /\ DiskError
  <2>1. View' \in {View, k} /\ card' \in {card, View, k}
    BY <1>1, <1>3, <1>6, <1>11, FailsKeep, PutFailsOK
  <2>2. Tamer(files'[call.fh], files[call.fh])
        /\ \A f \in Handle : f # call.fh => files'[f] = files[f]
    BY <1>1, <1>4, <1>11, FailSlotTame DEF DiskError
  <2>3. Locals' /\ \A f \in Handle : Calm(f) /\ Calm(f)'
    BY <1>3, <1>11, ReturnLocals DEF Calm, DiskError, Return
  <2>4. (\E i \in {View, k} : Meta(View', i)) /\ (\E i \in {card, View, k} : Meta(card', i))
    BY <2>1, MetaRefl
  <2>5. QED
    BY <1>1, <1>4, <1>7, <1>8, <2>2, <2>3, <2>4, SizeTame
<1>12. QED
  BY <1>3, <1>9, <1>10, <1>11

(* A chunk written into the chain takes the size into no other cluster: it *)
(* is in the same sector as its first byte, and that byte is in a cluster  *)
(* of the chain, which the entry's size reaches.                           *)
LEMMA ChunkClusters ==
  ASSUME NEW k, IsCard(k), Ends(k), NEW r \in Slot, Used(k, r.ent),
         Ent(k, r.ent).sclust = r.sclust, Lags(k, r), Stands(k, r, r.fptr + 1),
         NEW n \in Nat, n > 0, n <= UPS - (r.fptr % UPS), r.fptr + n > r.fsize
  PROVE  ClustersFor(r.fptr + n) = ClustersFor(r.fsize)
<1> DEFINE p == r.fptr
           z == r.fsize
           m == ClustersFor(z)
<1>1. p \in Nat /\ z \in Nat /\ r.ent \in Entry
  BY DEF Slot
<1>2. Walk(k, r.sclust, m) \notin Cluster /\ m \in Nat
  BY <1>1, ClustersIs DEF Ends, Covered, Lags
<1>3. Walk(k, r.sclust, Steps(p + 1)) \in Cluster /\ Steps(p + 1) \in Nat
  <2>1. p + 1 \in Nat /\ p + 1 # 0
    BY <1>1
  <2>2. QED
    BY <2>1, StepsNat DEF Stands
<1>4. ~(m <= Steps(p + 1))
  BY <1>2, <1>3, WalkOut
<1>5. Steps(p + n) = Steps(p + 1)
  <2>1. ((p + n) - 1) \div UPS = p \div UPS
    BY <1>1, ChunkStays
  <2>2. p + n \in Nat /\ p + n > 0 /\ p + 1 \in Nat /\ p + 1 > 0 /\ (p + 1) - 1 = p
    BY <1>1
  <2>3. Steps(p + n) = (((p + n) - 1) \div UPS) \div SPC
    BY <2>2, StepsUnits
  <2>4. Steps(p + 1) = (((p + 1) - 1) \div UPS) \div SPC
    BY <2>2, StepsUnits
  <2>5. QED
    BY <2>1, <2>2, <2>3, <2>4
<1>6. p + n \in Nat /\ p + n > 0 /\ z <= p + n
  BY <1>1
<1>7. ClustersFor(p + n) = Steps(p + 1) + 1 /\ m <= ClustersFor(p + n)
  BY <1>1, <1>5, <1>6, ClustersIs, ClustersMono
<1> HIDE DEF m, p, z
<1>8. Steps(p + 1) + 1 = m
  BY <1>2, <1>3, <1>4, <1>7
<1>9. QED
  BY <1>7, <1>8 DEF p, m, z

(* A chunk written: no cluster more than the entry has it, or one to link. *)
LEMMA SizeWriteChunk ==
  ASSUME NothingDropped, WholeInv, WholeInv', SizeInv, WriteChunk
  PROVE  SizeInv'
<1> DEFINE q == With(Moved(Cur), {"DIRTY"}, {})
           p == Cur.fptr
<1>1. CardInv /\ CardInv' /\ PosInv /\ LeftOK /\ IndInv
  BY DEF WholeInv, CardInv
<1>2. /\ pc = "move" /\ call.op = "write" /\ UNCHANGED lent /\ UNCHANGED hint
      /\ SetSlot(call.fh, q) /\ LinkNext
  BY DEF WriteChunk, Written
<1>3. /\ call.fh \in Handle /\ Cur \in Slot /\ Cur = files[call.fh] /\ p \in Nat
      /\ Cur.fsize \in Nat
      /\ "OPEN" \in Cur.flags => Placed(View, Cur, "move", NewClust)
      /\ IsCard(View) /\ call \in CallType
  BY <1>1, <1>2, TransferSlot DEF IndInv, CtrlOK
<1>4. Meta(View', View) /\ \E i \in {card, View} : Meta(card', i)
  BY <1>1, WriteChunkView, WriteChunkMeta
<1>5. /\ Moved(Cur) \in Slot /\ Moved(Cur).flags = Cur.flags
      /\ Moved(Cur).ent = Cur.ent /\ Moved(Cur).sclust = Cur.sclust
      /\ Chunk \in Nat /\ Chunk > 0 /\ Chunk <= UPS - (p % UPS)
      /\ Moved(Cur).fsize = IF p + Chunk > Cur.fsize THEN p + Chunk ELSE Cur.fsize
  <2>1. Moved(Cur).fsize = IF p + Chunk > Cur.fsize THEN p + Chunk ELSE Cur.fsize
    BY <1>3 DEF Moved, Slot
  <2>2. QED
    BY <1>1, <1>2, <2>1, ChunkOK, ChunkPositive
<1>6. /\ q \in Slot /\ q.flags = Cur.flags \cup {"DIRTY"} /\ q.ent = Cur.ent
      /\ q.sclust = Cur.sclust
      /\ q.fsize = IF p + Chunk > Cur.fsize THEN p + Chunk ELSE Cur.fsize
  <2>1. "DIRTY" \in Flag
    BY DEF Flag
  <2>2. QED
    BY <1>5, <2>1, OneFlag
<1> HIDE DEF q
<1>7. PICK g \in Handle : g = call.fh
  BY <1>3
<1>8. files'[g] = q /\ \A f \in Handle : f # g => files'[f] = files[f]
  BY <1>1, <1>2, <1>7, SetSlotIs
<1>9. "CONTIG" \notin q.flags
  BY <1>2, <1>6 DEF SizeInv, Locals, NoMark
<1>10. /\ pc' \in {"link", "chunk", "idle"} \/ (pc' = "unmount" /\ call'.op = "unmount")
       /\ pc' \in {"link", "chunk"} => call'.fh = g /\ call'.op = "write"
       /\ pc' = "link" <=> "NEWCL" \in Cur.flags
  <2>1. CASE "NEWCL" \in Cur.flags
    <3>1. pc' = "link" /\ call' = [call EXCEPT !.left = @ - Chunk]
      BY <1>2, <1>3, <2>1 DEF LinkNext, Has
    <3>2. QED
      BY <1>2, <1>3, <1>7, <2>1, <3>1 DEF CallType
  <2>2. CASE "NEWCL" \notin Cur.flags
    <3>1. Continue(call.left - Chunk)
      BY <1>2, <1>3, <2>2 DEF LinkNext, Has
    <3>2. CASE Return
      BY <2>2, <3>2 DEF Return
    <3>3. CASE pc' = "chunk" /\ call' = [call EXCEPT !.left = call.left - Chunk]
      BY <1>2, <1>3, <1>7, <2>2, <3>3 DEF CallType
    <3>4. QED
      BY <3>1, <3>2, <3>3 DEF Continue
  <2>3. QED
    BY <2>1, <2>2
<1>11. Live(g)' => Sized(View', q, Phase(g)')
  <2>1. SUFFICES ASSUME Live(g)' PROVE Sized(View', q, Phase(g)')
    OBVIOUS
  <2>2. CASE "NEWCL" \in Cur.flags
    <3>1. Phase(g)' = "link"
      BY <1>7, <1>10, <2>2 DEF Phase
    <3>2. QED
      BY <3>1 DEF Sized
  <2>3. CASE "NEWCL" \notin Cur.flags
    <3>1. Able(q) /\ Able(Cur)
      BY <1>6, <1>8, <2>1, LiveAble DEF Able
    <3>2. Live(g) /\ Phase(g) = "move" /\ files[g] = Cur
      BY <1>2, <1>3, <1>7, <3>1, LiveAble DEF Phase
    <3>3. Lags(View, Cur)
      BY <3>2 DEF SizeInv, AllSized, Sized
    <3>4. Used(View, Cur.ent) /\ Ent(View, Cur.ent).sclust = Cur.sclust
          /\ Stands(View, Cur, p + 1)
      BY <1>1, <1>3, <2>3, <3>1, <3>2 DEF Able, Placed, InMove, PosInv, Named, Has
    <3>5. p + Chunk > Cur.fsize => ClustersFor(p + Chunk) = ClustersFor(Cur.fsize)
      BY <1>3, <1>5, <3>3, <3>4, ChunkClusters DEF SizeInv
    <3>6. Ent(View, Cur.ent).size \in Nat
      BY <1>3, SizeNat DEF Slot
    <3>7. Lags(View, q)
      BY <1>3, <1>5, <1>6, <3>3, <3>5, <3>6 DEF Lags
    <3>8. Phase(g)' \in {"chunk", "idle", "unmount"}
      BY <1>10, <2>3 DEF Phase
    <3>9. Sized(View, q, Phase(g)')
      BY <3>7, <3>8 DEF Sized
    <3>10. QED
      BY <1>4, <1>6, <3>9, MetaSized
  <2>4. QED
    BY <2>2, <2>3
<1>12. Piece(View', q)
  BY <1>9 DEF Piece
<1>13. Locals'
  <2>1. CASE pc' \in {"link", "chunk"}
    <3>1. Cur' = q /\ call'.op = "write"
      BY <1>7, <1>8, <1>10, <2>1 DEF Cur
    <3>2. pc' = "link" => Fat(View', NewClust') = EOC
      <4>1. SUFFICES ASSUME pc' = "link" PROVE Fat(View', NewClust') = EOC
        OBVIOUS
      <4>2. Linkable
        BY <1>2, <1>3, <1>10, <4>1 DEF Linkable, Has
      <4>3. Fat(View, NewClust) = EOC /\ NewClust \in Cluster /\ NewClust' = NewClust
        <5>1. NewClust \in Cluster
          <6>1. hint > 2 /\ hint \in 2 .. MaxClust /\ MaxClust \in Nat
            BY <1>1, <1>2, <4>2, GeometryAssumption DEF IndInv, CtrlOK, HintOK, Linkable
          <6>2. QED
            BY <6>1 DEF NewClust, Cluster
        <5>2. QED
          BY <1>2, <4>2, <5>1 DEF SizeInv, Locals, NewEnds, NewClust
      <4>4. QED
        BY <1>4, <4>3 DEF Meta
    <3>3. QED
      BY <1>9, <2>1, <3>1, <3>2
         DEF Locals, NewEnds, Linkable, ReadWithin, ChangeCall, NoMark
  <2>2. CASE pc' \notin {"link", "chunk"}
    BY <1>10, <2>2, RestLocals
  <2>3. QED
    BY <2>1, <2>2
<1>14. \A f \in Handle : f # g => Calm(f) /\ Calm(f)'
  BY <1>2, <1>7, <1>10 DEF Calm
<1>15. PICK k : k = View
  OBVIOUS
<1>16. Ends(k) /\ (\E i \in {View, k} : Meta(View', i))
       /\ (\E i \in {card, View, k} : Meta(card', i))
       /\ \A f \in Handle : SameFile(k, View, files[f])
  BY <1>4, <1>15, SameFileRefl DEF SizeInv
<1>17. QED
  BY <1>1, <1>8, <1>11, <1>12, <1>13, <1>14, <1>16, SizeStep

-----------------------------------------------------------------------------
(* Chains cut and linked.                                                  *)

(* After the cluster a slot is in, its chain goes on or ends, and turns    *)
(* neither bad nor back to itself.                                         *)
LEMMA RestingNext ==
  ASSUME CardInv, SizeInv, NEW r \in Slot, Resting(View, r), Used(View, r.ent),
         r.cclust # 0
  PROVE  /\ r.cclust \in Cluster /\ r.sclust # 0
         /\ FatNext(View, r.cclust) \in Cluster \cup {0}
<1> DEFINE s == Ent(View, r.ent).sclust
           n == Steps(r.fptr)
<1>1. IsCard(View) /\ SoundChains(View) /\ r.ent \in Entry /\ r.fptr \in Nat
  BY ViewCard DEF CardInv, IndInv, Good, Slot
<1>2. PICK c : c = r.cclust
  OBVIOUS
<1>3. /\ n \in Nat /\ s = r.sclust /\ Walk(View, s, n) = c /\ c \in Cluster
  <2>1. r.fptr # 0
    BY NowhereIsStart DEF Resting
  <2>2. QED
    BY <1>1, <1>2, <2>1, StepsNat DEF Resting, Stands
<1>4. Points(View, c)
  BY <1>1, <1>3, WalkPointed
<1>5. Fat(View, c) # 0 /\ Fat(View, c) # Bad /\ Fat(View, c) \in FatValue
  <2>1. Fat(View, c) # 0
    BY <1>1, <1>3, <1>4 DEF SoundChains, PointedInUse
  <2>2. Fat(View, c) # Bad
    BY <1>3, <1>4 DEF SizeInv, Ends, EndsWell
  <2>3. QED
    BY <1>1, <1>3, <2>1, <2>2, Entries
<1>6. s # 0
  <2>1. s \in Cluster
    BY <1>1, <1>3, WalkLinks, WalkIs
  <2>2. QED
    BY <2>1, FatValues
<1>7. Fat(View, c) # c
  <2>1. CASE n = 0
    <3>1. c = s
      BY <1>3, <2>1, WalkIs
    <3>2. QED
      BY <1>1, <1>3, <3>1 DEF SoundChains, StartUnlinked
  <2>2. CASE n # 0
    <3>1. PICK m \in Nat : n = m + 1
      <4>1. n - 1 \in Nat /\ n = (n - 1) + 1
        BY <1>3, <2>2
      <4>2. QED
        BY <4>1
    <3>2. Walk(View, s, m) \in Cluster /\ Fat(View, Walk(View, s, m)) = Walk(View, s, m + 1)
      <4>1. m \in 0 .. n /\ m \in 0 .. n - 1
        BY <1>3, <3>1
      <4>2. QED
        BY <1>1, <1>3, <4>1, WalkLinks
    <3>3. Walk(View, s, m) # c
      <4>1. m # n
        BY <3>1
      <4>2. QED
        BY <1>1, <1>3, <3>2, <4>1, WalkOnce
    <3>4. Fat(View, Walk(View, s, m)) = c
      BY <1>3, <3>1, <3>2
    <3>5. QED
      BY <1>1, <1>3, <3>2, <3>3, <3>4 DEF SoundChains, LinkInjective
  <2>3. QED
    BY <2>1, <2>2
<1> HIDE DEF s, n
<1>8. FatNext(View, c) \in Cluster \cup {0}
  BY <1>3, <1>5, <1>7 DEF FatNext, FatValue
<1>9. QED
  BY <1>2, <1>3, <1>6, <1>8

(* uzefs_truncate gives the slot the size it will have. *)
LEMMA SizeTruncate ==
  ASSUME NothingDropped, WholeInv, WholeInv', SizeInv, NEW f \in Handle, Truncate(f)
  PROVE  SizeInv'
<1> DEFINE r == With(files[f], {}, {"CONTIG"})
           nx == FatNext(View, r.cclust)
           cutAt == [r EXCEPT !.fsize = r.fptr]
<1>1. CardInv /\ CardInv' /\ PosInv /\ DiskOK
  BY DEF WholeInv, CardInv, IndInv
<1>2. Ready(f) /\ UNCHANGED lent
  BY DEF Truncate, CanWrite
<1>3. /\ pc = "idle" /\ files[f] \in Slot /\ Resting(View, files[f])
      /\ "OPEN" \in files[f].flags
  BY <1>1, <1>2, ReadyRests
<1>4. /\ r \in Slot /\ r.flags = files[f].flags \ {"CONTIG"} /\ r.ent = files[f].ent
      /\ r.sclust = files[f].sclust /\ r.cclust = files[f].cclust
      /\ r.csect = files[f].csect /\ r.fptr = files[f].fptr /\ r.fsize = files[f].fsize
  BY <1>3, WithoutOK
<1>5. Resting(View, r) /\ Used(View, r.ent)
  BY <1>1, <1>3, <1>4, SamePlace DEF PosInv, Named, Has
<1> HIDE DEF r
<1>6. PICK k : k = View
  OBVIOUS
<1>7. Ends(k) /\ \A g \in Handle : SameFile(k, View, files[g])
  BY <1>6, SameFileRefl DEF SizeInv
<1>8. ASSUME NEW q \in Slot, "CONTIG" \notin q.flags, SetSlot(f, q), SameRead,
             \/ pc' = "idle" /\ ~Able(q)
             \/ pc' \in {"cut", "size"} /\ call'.fh = f /\ call'.op = "truncate"
                /\ Sized(View', q, pc')
      PROVE  SizeInv'
  <2>1. files'[f] = q /\ \A g \in Handle : g # f => files'[g] = files[g]
    BY <1>1, <1>8, SetSlotIs
  <2>2. Live(f)' => Sized(View', files'[f], Phase(f)')
    BY <1>8, <2>1, LiveAble DEF Phase
  <2>3. Piece(View', files'[f])
    BY <1>8, <2>1 DEF Piece
  <2>4. Locals'
    BY <1>8, <2>1 DEF Locals, NewEnds, Linkable, ReadWithin, ChangeCall, NoMark, Cur
  <2>5. \A g \in Handle : g # f => Calm(g) /\ Calm(g)'
    BY <1>3, <1>8 DEF Calm
  <2>6. (\E i \in {View, k} : Meta(View', i)) /\ (\E i \in {card, View, k} : Meta(card', i))
    BY <1>8, SameReadMeta
  <2>7. QED
    BY <1>1, <1>7, <2>1, <2>2, <2>3, <2>4, <2>5, <2>6, SizeStep
<1>9. CASE r.cclust = 0
  <2> DEFINE q == [r EXCEPT !.sclust = 0, !.fsize = 0]
  <2>1. BeginCut(f, q, r.sclust, "size") /\ UNCHANGED disk
    BY <1>9 DEF Truncate, r
  <2>2. q \in Slot /\ q.flags = r.flags /\ q.sclust = 0 /\ q.fsize = 0
    BY <1>4 DEF Slot
  <2> HIDE DEF q
  <2>3. SetSlot(f, q) /\ pc' = "size" /\ call'.fh = f /\ call'.op = "truncate"
    BY <2>1 DEF BeginCut, NoCall
  <2>4. Sized(View', q, "size")
    BY <2>2 DEF Sized
  <2>5. SameRead
    BY <1>1, <1>2, <2>1, OnlyReads
  <2>6. QED
    BY <1>4, <1>8, <2>2, <2>3, <2>4, <2>5
<1>10. CASE r.cclust # 0
  <2>1. \/ /\ Load({FatSect(r.cclust)}, FatSect(r.cclust))
           /\ CASE nx \in Cluster -> BeginCut(f, cutAt, nx, "cut")
                [] nx = 0 -> BeginCut(f, cutAt, 0, "size")
                [] OTHER -> SetSlot(f, cutAt) /\ UNCHANGED <<pc, call>>
        \/ /\ LoadFails({FatSect(r.cclust)})
           /\ SetSlot(f, With(cutAt, {"FAILED"}, {}))
           /\ UNCHANGED <<pc, call>>
    BY <1>10 DEF Truncate, r
  <2>2. /\ cutAt \in Slot /\ cutAt.flags = r.flags /\ cutAt.ent = r.ent
        /\ cutAt.fptr = r.fptr /\ cutAt.sclust = r.sclust
        /\ cutAt.cclust = r.cclust /\ cutAt.fsize = r.fptr
    BY <1>4 DEF Slot
  <2>3. FatSect(r.cclust) \in Sector
    BY <1>4, <1>10, Sectors DEF Slot
  <2>4. SameRead
    BY <1>1, <1>2, <2>1, <2>3, OnlyReads
  <2>5. nx \in Cluster \cup {0} /\ r.sclust # 0
    BY <1>1, <1>4, <1>5, <1>10, RestingNext
  <2> HIDE DEF cutAt
  <2>6. ASSUME NEW cl, BeginCut(f, cutAt, cl, "cut") PROVE SizeInv'
    <3>1. SetSlot(f, cutAt) /\ pc' = "cut" /\ call'.fh = f /\ call'.op = "truncate"
      BY <2>6 DEF BeginCut, NoCall
    <3>2. Sized(View', cutAt, "cut")
      BY <2>2 DEF Sized
    <3>3. QED
      BY <1>4, <1>8, <2>2, <2>4, <3>1, <3>2
  <2>7. ASSUME nx = 0, BeginCut(f, cutAt, 0, "size") PROVE SizeInv'
    <3>1. SetSlot(f, cutAt) /\ pc' = "size" /\ call'.fh = f /\ call'.op = "truncate"
      BY <2>7 DEF BeginCut, NoCall
    <3>2. Ent(View, cutAt.ent).sclust = cutAt.sclust /\ FatNext(View, cutAt.cclust) = 0
      BY <1>5, <2>2, <2>7 DEF Resting
    <3>3. Sized(View', cutAt, "size")
      BY <2>2, <2>4, <2>5, <3>2 DEF Sized, SameRead
    <3>4. QED
      BY <1>4, <1>8, <2>2, <2>4, <3>1, <3>3
  <2>8. CASE SetSlot(f, With(cutAt, {"FAILED"}, {})) /\ UNCHANGED <<pc, call>>
    <3>1. "FAILED" \in Flag
      BY DEF Flag
    <3>2. PICK q \in Slot : q = With(cutAt, {"FAILED"}, {}) /\ q.flags = cutAt.flags \cup {"FAILED"}
      BY <2>2, <3>1, OneFlag
    <3>3. "CONTIG" \notin q.flags /\ ~Able(q)
      BY <1>4, <2>2, <3>2 DEF Able
    <3>4. QED
      BY <1>3, <1>8, <2>4, <2>8, <3>2, <3>3
  <2>9. QED
    BY <2>1, <2>5, <2>6, <2>7, <2>8
<1>11. QED
  BY <1>9, <1>10

(* A FAT entry in the chain of one file is no matter to another. *)
LEMMA OtherFile ==
  ASSUME NEW k, IsCard(k), SoundChains(k), NEW v \in FatValue, NEW r \in Slot,
         Used(k, r.ent), NEW e \in Entry, Used(k, e), e # r.ent, NEW n \in Nat,
         NEW c \in Cluster, c = Walk(k, Ent(k, e).sclust, n)
  PROVE  SameFile(SetFat(k, c, v), k, r)
<1>1. r.ent \in Entry
  BY DEF Slot
<1>2. \A i \in Nat : Walk(k, Ent(k, r.ent).sclust, i) # c
  BY <1>1, WalkOnce
<1>3. QED
  BY <1>2, FatFile

(* uzefs_truncate cuts the chain, where the size will end. *)
LEMMA SizeCut ==
  ASSUME NothingDropped, WholeInv, WholeInv', SizeInv, Cut
  PROVE  SizeInv'
<1>1. CardInv /\ CardInv' /\ PosInv /\ DiskOK /\ IsCard(View) /\ SoundChains(View)
      /\ files \in [Handle -> Slot]
  BY ViewCard DEF WholeInv, CardInv, IndInv, CtrlOK, Good
<1>2. pc = "cut" /\ UNCHANGED lent /\ call.op = "truncate" /\ "CONTIG" \notin Cur.flags
  BY DEF Cut, SizeInv, Locals, ChangeCall, NoMark
<1>3. /\ call.fh \in Handle /\ Cur \in Slot /\ Cur = files[call.fh] /\ Live(call.fh)
      /\ Used(View, Cur.ent) /\ Resting(View, Cur)
      /\ \A f \in Handle : f # call.fh /\ Has(f, "OPEN") => files[f].ent # Cur.ent
  BY <1>1, <1>2, WriterRests DEF Placed, Resting
<1>4. Cur.cclust \in Cluster /\ Cur.sclust # 0
  <2>1. Cur.cclust # 0
    BY <1>1, <1>2 DEF CardInv, IndInv, CtrlOK, ClustOK
  <2>2. QED
    BY <1>1, <1>3, <2>1, RestingNext
<1>5. Cur.fsize = Cur.fptr
  BY <1>2, <1>3 DEF SizeInv, AllSized, Sized, Phase
<1>6. PICK c \in Cluster : c = Cur.cclust
  BY <1>4
<1>7. PICK k : k = SetFat(View, c, EOC)
  OBVIOUS
<1>8. IsCard(k) /\ Ends(k) /\ Fat(k, c) = EOC /\ \A e \in Entry : Ent(k, e) = Ent(View, e)
  BY <1>1, <1>7, FatValues, SetFatCard, FatEnds DEF SizeInv
<1>9. FatPut(Cur.cclust, EOC) => View' = k /\ card' \in {card, View, k}
  BY <1>1, <1>2, <1>6, <1>7, FatValues, FatPutOK
<1>10. FatPutFails(Cur.cclust, EOC) => View' \in {View, k} /\ card' \in {card, View, k}
  BY <1>1, <1>2, <1>6, <1>7, <1>8, FatValues, FatPutFailsOK, FailsKeep DEF FatPutFails
<1>11. ASSUME NEW f \in Handle, f # call.fh, Has(f, "OPEN")
       PROVE  SameFile(k, View, files[f])
  <2>1. files[f] \in Slot /\ Used(View, files[f].ent) /\ files[f].ent # Cur.ent
        /\ Cur.ent \in Entry
    BY <1>1, <1>3, <1>11 DEF PosInv, Named, Slot
  <2>2. Cur.fptr \in Nat /\ Cur.fptr # 0
    BY <1>3, <1>4, FatValues, NowhereIsStart DEF Resting, Slot
  <2>3. Steps(Cur.fptr) \in Nat /\ c = Walk(View, Ent(View, Cur.ent).sclust, Steps(Cur.fptr))
    BY <1>3, <1>6, <2>2, StepsNat DEF Resting, Stands
  <2>4. QED
    BY <1>1, <1>3, <1>7, <2>1, <2>3, FatValues, OtherFile
<1>12. CASE FatPut(Cur.cclust, EOC) /\ Goto("size") /\ UNCHANGED files
  <2>1. pc' = "size" /\ UNCHANGED <<call, files>> /\ Cur' = Cur
    BY <1>12 DEF Goto, Cur
  <2>2. Locals'
    BY <1>2, <2>1 DEF Locals, NewEnds, Linkable, ReadWithin, ChangeCall, NoMark
  <2>3. PICK g \in Handle : g = call.fh
    BY <1>3
  <2>4. FatNext(k, Cur.cclust) = 0
    <3>1. FatNext(k, c) = 0
      BY <1>8, FatValues DEF FatNext
    <3>2. QED
      BY <1>6, <3>1
  <2>5. Ent(k, Cur.ent).sclust = Cur.sclust
    BY <1>3, <1>8 DEF Resting, Slot
  <2>6. Sized(View', files'[g], Phase(g)')
    BY <1>3, <1>4, <1>5, <1>9, <1>12, <2>1, <2>3, <2>4, <2>5 DEF Sized, Phase
  <2>7. Piece(View', files'[g])
    BY <1>2, <1>3, <2>1, <2>3 DEF Piece
  <2>8. \A f \in Handle : f # g => files'[f] = files[f] /\ Calm(f) /\ Calm(f)'
    BY <2>1, <2>3 DEF Calm
  <2>9. (\E i \in {View, k} : Meta(View', i)) /\ (\E i \in {card, View, k} : Meta(card', i))
    BY <1>9, <1>12, MetaRefl
  <2>10. QED
    BY <1>1, <1>8, <1>11, <2>2, <2>3, <2>6, <2>7, <2>8, <2>9, SizeStep
<1>13. CASE FatPutFails(Cur.cclust, EOC) /\ DiskError
  <2>1. ~Able(files'[call.fh])
    BY <1>1, <1>2, <1>13, FailSlotDead DEF DiskError
  <2>2. Piece(View', Cur)
    BY <1>2 DEF Piece
  <2>3. QED
    BY <1>1, <1>8, <1>10, <1>11, <1>13, <2>1, <2>2, SizeFail
<1>14. QED
  BY <1>12, <1>13 DEF Cut

(* cut_chain writes the size the chain was cut to. *)
LEMMA SizeCutSize ==
  ASSUME NothingDropped, WholeInv, WholeInv', SizeInv, CutSize
  PROVE  SizeInv'
<1> DEFINE r == With(Cur, {}, {"DIRTY"})
           q == IF call.op = "open" THEN FreeSlot ELSE With(r, {"FAILED"}, {})
<1>1. CardInv /\ CardInv' /\ PosInv /\ DiskOK /\ IsCard(View)
      /\ \A f \in Handle : files[f] \in Slot
  BY ViewCard DEF WholeInv, CardInv, IndInv, CtrlOK
<1>2. /\ pc = "size" /\ UNCHANGED lent
      /\ \/ DirWrite(r) /\ SetSlot(call.fh, r) /\ (Goto("free") \/ Done)
         \/ DirWriteFails(r) /\ SetSlot(call.fh, q) /\ Return
  BY DEF CutSize
<1>3. /\ call.fh \in Handle /\ Cur \in Slot /\ Cur = files[call.fh] /\ Live(call.fh)
      /\ Placed(View, Cur, "size", NewClust) /\ Used(View, Cur.ent)
      /\ \A f \in Handle : f # call.fh /\ Has(f, "OPEN") => files[f].ent # Cur.ent
      /\ "CONTIG" \notin Cur.flags
  BY <1>1, <1>2, WriterRests DEF SizeInv, Locals, NoMark
<1>4. Sized(View, Cur, "size")
  BY <1>2, <1>3 DEF SizeInv, AllSized, Phase
<1>5. /\ r \in Slot /\ r.flags = Cur.flags \ {"DIRTY"} /\ r.ent = Cur.ent
      /\ r.sclust = Cur.sclust /\ r.fsize = Cur.fsize
  BY <1>3, WithoutOK
<1>6. /\ Walk(View, Cur.sclust, ClustersFor(Cur.fsize)) \notin Cluster
      /\ Cur.sclust \in Cluster => Fat(View, Cur.sclust) # Bad
  <2>1. CASE Cur.sclust = 0
    <3>1. Cur.fsize = 0 /\ 0 \in Nat
      BY <1>4, <2>1 DEF Sized
    <3>2. ClustersFor(Cur.fsize) = 0
      BY <3>1, ClustersIs
    <3>3. QED
      BY <2>1, <3>2, WalkIs, FatValues
  <2>2. CASE Cur.sclust # 0
    <3>1. Cur.fsize = Cur.fptr /\ Ent(View, Cur.ent).sclust = Cur.sclust
          /\ FatNext(View, Cur.cclust) = 0
      BY <1>4, <2>2 DEF Sized
    <3>2. Cur.cclust # 0
      BY <3>1, FatValues DEF FatNext
    <3>3. Stands(View, Cur, Cur.fptr) /\ Cur.fptr \in Nat
      BY <1>3 DEF Placed, Slot
    <3>4. Cur.fptr > 0 /\ Cur.fptr # 0
      BY <3>2, <3>3, NowhereIsStart
    <3>5. PICK n \in Nat : n = Steps(Cur.fptr)
      BY <3>3, StepsNat
    <3>6. Walk(View, Cur.sclust, n) = Cur.cclust
      BY <3>3, <3>4, <3>5 DEF Stands
    <3>7. Walk(View, Cur.sclust, n + 1) = 0
      BY <3>1, <3>6, WalkIs
    <3>8. ClustersFor(Cur.fsize) = n + 1
      BY <3>1, <3>3, <3>4, <3>5, ClustersIs
    <3>9. Cur.sclust \in Cluster => Points(View, Cur.sclust)
      BY <1>3, <3>1 DEF Points, Slot
    <3>10. QED
      BY <3>7, <3>8, <3>9, FatValues DEF SizeInv, Ends, EndsWell
  <2>3. QED
    BY <2>1, <2>2
<1> HIDE DEF r
<1>7. PICK k : k = WithEntry(View, r)
  OBVIOUS
<1>8. IsCard(k) /\ Ends(k)
  <2>1. IsCard(k)
    BY <1>1, <1>5, <1>7, WithEntryLeaves
  <2>2. QED
    BY <1>1, <1>5, <1>6, <1>7, <2>1, WithEntryEnds DEF SizeInv
<1>9. DirWrite(r) => View' = k /\ card' \in {card, View, k}
  BY <1>1, <1>2, <1>5, <1>7, DirWriteOK
<1>10. DirWriteFails(r) => View' \in {View, k} /\ card' \in {card, View, k}
  BY <1>1, <1>2, <1>5, <1>7, <1>8, DirWriteFailsOK, FailsKeep DEF DirWriteFails
<1>11. \A f \in Handle : f # call.fh /\ Has(f, "OPEN") => SameFile(k, View, files[f])
  BY <1>1, <1>3, <1>5, <1>7, WithEntryFile
<1>12. Ent(k, r.ent).size = r.fsize
  BY <1>1, <1>5, <1>7, WithEntryIs
<1>13. PICK g \in Handle : g = call.fh
  BY <1>3
<1>14. (\E i \in {View, k} : Meta(View', i)) /\ (\E i \in {card, View, k} : Meta(card', i))
  BY <1>2, <1>9, <1>10, MetaRefl
<1>15. CASE DirWrite(r) /\ SetSlot(call.fh, r) /\ (Goto("free") \/ Done)
  <2>1. pc' \in {"free", "idle", "append"} \/ (pc' = "unmount" /\ call'.op = "unmount")
    BY <1>15 DEF Goto, Done, Return
  <2>2. files'[g] = r /\ \A f \in Handle : f # g => files'[f] = files[f]
    BY <1>1, <1>13, <1>15, SetSlotIs
  <2>3. Phase(g)' \in {"free", "idle", "append", "unmount"}
    BY <2>1 DEF Phase
  <2>4. Lags(k, r)
    BY <1>5, <1>12, ClustersIs DEF Lags, Slot
  <2>5. Sized(View', files'[g], Phase(g)')
    BY <1>9, <1>15, <2>2, <2>3, <2>4 DEF Sized
  <2>6. Piece(View', files'[g])
    BY <1>3, <1>5, <2>2 DEF Piece
  <2>7. Locals' /\ \A f \in Handle : f # g => Calm(f) /\ Calm(f)'
    BY <1>13, <2>1, <1>2, RestLocals DEF Calm
  <2>8. QED
    BY <1>1, <1>8, <1>11, <1>13, <1>14, <2>2, <2>5, <2>6, <2>7, SizeStep
<1>16. CASE DirWriteFails(r) /\ SetSlot(call.fh, q) /\ Return
  <2>1. q \in Slot /\ ~Able(q) /\ "CONTIG" \notin q.flags
    <3>1. CASE call.op = "open"
      BY <3>1, FreeSlotOK DEF Able
    <3>2. CASE call.op # "open"
      <4>1. "FAILED" \in Flag
        BY DEF Flag
      <4>2. With(r, {"FAILED"}, {}) \in Slot
            /\ With(r, {"FAILED"}, {}).flags = r.flags \cup {"FAILED"}
        BY <1>5, <4>1, OneFlag
      <4>3. QED
        BY <1>3, <1>5, <3>2, <4>2 DEF Able
    <3>3. QED
      BY <3>1, <3>2
  <2> HIDE DEF q
  <2>2. files'[g] = q /\ \A f \in Handle : f # g => files'[f] = files[f]
    BY <1>1, <1>13, <1>16, SetSlotIs
  <2>3. ~Live(g)' /\ Piece(View', files'[g])
    BY <2>1, <2>2, LiveAble DEF Piece
  <2>4. pc' \in {"idle", "unmount"} /\ Locals'
    BY <1>16, ReturnLocals DEF Return
  <2>5. \A f \in Handle : f # g => Calm(f) /\ Calm(f)'
    BY <1>13, <2>4 DEF Calm
  <2>6. QED
    BY <1>1, <1>8, <1>11, <1>13, <1>14, <2>2, <2>3, <2>4, <2>5, SizeStep
<1>17. QED
  BY <1>2, <1>15, <1>16

(* At the last cluster of a chain a walk is over. *)
LEMMA EndIsOut ==
  ASSUME NEW k, NEW cl, NEW m \in Nat, NEW c \in Cluster, Walk(k, cl, m) = c,
         Fat(k, c) = EOC
  PROVE  Walk(k, cl, m + 1) \notin Cluster
<1>1. Walk(k, cl, m + 1) = FatNext(k, c)
  BY WalkIs
<1>2. FatNext(k, c) = 0
  BY FatValues DEF FatNext
<1>3. QED
  BY <1>1, <1>2, FatValues

(* What follows link_new, or its failure: the entry has the size, and the  *)
(* slot no mark.                                                           *)
LEMMA SizeLinked ==
  ASSUME CardInv, CardInv', SizeInv, pc \in {"link", "join"}, call.op = "write",
         NEW k, Ends(k), View' \in {View, k}, card' \in {card, View, k},
         \A f \in Handle : f # call.fh /\ Has(f, "OPEN") => SameFile(k, View, files[f]),
         NEW q, SetSlot(call.fh, q), "CONTIG" \notin q.flags,
         \/ ~Able(q) /\ pc' \in {"idle", "unmount"} /\ Return
         \/ /\ Ent(View', q.ent).size = q.fsize
            /\ \/ Continue(call.left)
               \/ pc' = "join" /\ UNCHANGED call /\ Fat(View', NewClust') = EOC
  PROVE  SizeInv'
<1>1. PICK g \in Handle : g = call.fh
  BY CurOK DEF CardInv
<1>2. q \in Slot /\ files'[g] = q /\ \A f \in Handle : f # g => files'[f] = files[f]
  BY <1>1, SetSlotIs
<1>3. call \in CallType
  BY DEF CardInv, IndInv, CtrlOK
<1>4. \/ pc' = "idle" \/ (pc' = "unmount" /\ call'.op = "unmount")
      \/ pc' \in {"chunk", "join"} /\ call'.fh = call.fh /\ call'.op = "write"
  <2>1. Return => pc' = "idle" \/ (pc' = "unmount" /\ call'.op = "unmount")
    BY DEF Return
  <2>2. Continue(call.left) =>
          Return \/ (pc' = "chunk" /\ call' = [call EXCEPT !.left = call.left])
    BY DEF Continue
  <2>3. call' = [call EXCEPT !.left = call.left] =>
          call'.fh = call.fh /\ call'.op = "write"
    BY <1>3 DEF CallType
  <2>4. QED
    BY <2>1, <2>2, <2>3
<1>5. Live(g)' => Sized(View', files'[g], Phase(g)')
  <2>1. SUFFICES ASSUME Live(g)' PROVE Sized(View', q, Phase(g)')
    BY <1>2
  <2>2. Ent(View', q.ent).size = q.fsize
    BY <1>2, <2>1, LiveAble
  <2>3. Lags(View', q)
    BY <1>2, <2>2, ClustersIs DEF Lags, Slot
  <2>4. Phase(g)' \in {"idle", "unmount", "chunk", "join"}
    BY <1>4 DEF Phase
  <2>5. QED
    BY <2>2, <2>3, <2>4 DEF Sized
<1>6. Piece(View', files'[g])
  BY <1>2 DEF Piece
<1>7. Locals'
  <2>1. CASE pc' \in {"chunk", "join"} /\ call'.fh = call.fh /\ call'.op = "write"
    <3>1. Cur' = q
      BY <1>1, <1>2, <2>1 DEF Cur
    <3>2. pc' = "join" => Fat(View', NewClust') = EOC
      <4>1. Return => pc' # "join"
        BY DEF Return
      <4>2. Continue(call.left) => pc' # "join"
        BY <4>1 DEF Continue
      <4>3. QED
        BY <4>1, <4>2
    <3>3. QED
      BY <2>1, <3>1, <3>2 DEF Locals, NewEnds, Linkable, ReadWithin, ChangeCall, NoMark
  <2>2. QED
    BY <1>4, <2>1, RestLocals
<1>8. \A f \in Handle : f # g => Calm(f) /\ Calm(f)'
  BY <1>1, <1>4 DEF Calm
<1>9. (\E i \in {View, k} : Meta(View', i)) /\ (\E i \in {card, View, k} : Meta(card', i))
  BY MetaRefl
<1>10. QED
  BY <1>1, <1>2, <1>5, <1>6, <1>7, <1>8, <1>9, SizeStep

(* The slot a failed link_new leaves. *)
LEMMA LinkFailsSlot ==
  ASSUME CardInv, pc \in {"link", "join"}, NEW r \in Slot, LinkFails(r)
  PROVE  \E q : /\ SetSlot(call.fh, q) /\ ~Able(q) /\ q.flags = r.flags \cup {"FAILED"}
                /\ Return /\ pc' \in {"idle", "unmount"}
<1>1. PICK q : q = With(Linked(r), {"FAILED"}, {})
  OBVIOUS
<1>2. q.flags = r.flags \cup {"FAILED"}
  BY <1>1, LinkedOK, LinkedMild DEF CardInv
<1>3. SetSlot(call.fh, q) /\ Return /\ pc' \in {"idle", "unmount"}
  BY <1>1 DEF LinkFails, Return
<1>4. QED
  BY <1>2, <1>3 DEF Able

(* link_new, the directory entry. *)
LEMMA SizeLink ==
  ASSUME NothingDropped, WholeInv, WholeInv', SizeInv, Link
  PROVE  SizeInv'
<1> DEFINE r == Linking
           new == NewClust
           s == Cur.sclust
           n == Steps(Cur.fptr)
<1>1. CardInv /\ CardInv' /\ PosInv /\ IsCard(View) /\ \A f \in Handle : files[f] \in Slot
  BY ViewCard DEF WholeInv, CardInv, IndInv, CtrlOK
<1>2. pc = "link" /\ UNCHANGED <<lent, hint>>
  BY DEF Link
<1>3. /\ call.fh \in Handle /\ Cur \in Slot /\ Cur = files[call.fh]
      /\ Cur.fptr \in Nat /\ Cur.fsize \in Nat /\ DiskOK
  BY <1>1, <1>2, TransferSlot
<1>4. /\ Cur.ent \in Entry /\ Cur.fptr <= Cur.fsize /\ Used(View, Cur.ent)
      /\ Ent(View, Cur.ent).sclust = s /\ InLink(View, Cur, new) /\ new \in Cluster
      /\ \A f \in Handle : f # call.fh /\ Has(f, "OPEN") => files[f].ent # Cur.ent
  BY <1>1, <1>2, LinkWriter
<1>5. call.op = "write" /\ "CONTIG" \notin Cur.flags /\ Fat(View, new) = EOC
  <2>1. call.op = "write"
    BY <1>1, <1>2 DEF CardInv, IndInv, CtrlOK, HintOK
  <2>2. QED
    BY <1>2, <2>1 DEF SizeInv, Locals, NoMark, NewEnds, Linkable
<1>6. /\ r \in Slot /\ r.ent = Cur.ent /\ r.flags = Cur.flags \ {"NEWCL"}
      /\ r.sclust = (IF Cur.cclust = 0 THEN new ELSE s)
  BY <1>1, <1>2, LinkingOK
<1>7. r.fsize = Cur.fsize
  BY <1>3, LinkingPlace
<1>8. Linked(r) \in Slot /\ Linked(r).ent = r.ent /\ Linked(r).flags = r.flags
      /\ Linked(r).fsize = r.fsize
  BY <1>1, <1>2, <1>4, <1>6, LinkedMild DEF Linked, Slot
<1>9. Cur.fptr > 0 /\ n \in Nat /\ AtEnd(View, Cur, n)
  BY <1>3, <1>4, StepsNat DEF InLink, Extends
<1>10. NewClust' = new
  BY <1>2 DEF NewClust
<1> HIDE DEF r, new, s, n
<1>11. ClustersFor(r.fsize) \in Nat /\ n + 1 <= ClustersFor(r.fsize)
  <2>1. ClustersFor(Cur.fptr) = n + 1
    BY <1>3, <1>9, ClustersIs DEF n
  <2>2. QED
    BY <1>3, <1>4, <1>7, <2>1, ClustersIs, ClustersMono
<1>12. /\ Walk(View, r.sclust, ClustersFor(r.fsize)) \notin Cluster
       /\ r.sclust \in Cluster => Fat(View, r.sclust) # Bad
  <2>1. CASE Cur.cclust = 0
    <3>1. r.sclust = new /\ Walk(View, new, 0) = new /\ 0 \in Nat
      BY <1>6, <2>1, WalkIs
    <3>2. Walk(View, r.sclust, 0 + 1) \notin Cluster
      BY <1>4, <1>5, <3>1, EndIsOut DEF new
    <3>3. 0 + 1 \in Nat /\ 0 + 1 <= ClustersFor(r.fsize)
      BY <1>9, <1>11
    <3>4. QED
      BY <1>1, <1>5, <1>11, <3>1, <3>2, <3>3, WalkOut, FatValues
  <2>2. CASE Cur.cclust # 0
    <3>1. n # 0
      BY <1>9, <2>2 DEF AtEnd
    <3>2. PICK m \in Nat : m = n - 1 /\ n = m + 1
      <4>1. n - 1 \in Nat /\ n = (n - 1) + 1
        BY <1>9, <3>1
      <4>2. QED
        BY <4>1
    <3>3. r.sclust = s /\ Walk(View, s, m) = Cur.cclust /\ Cur.cclust \in Cluster
          /\ Fat(View, Cur.cclust) = EOC
      BY <1>6, <1>9, <2>2, <3>1, <3>2 DEF AtEnd, s
    <3>4. Walk(View, r.sclust, n) \notin Cluster
      BY <3>2, <3>3, EndIsOut
    <3>5. n <= ClustersFor(r.fsize)
      BY <1>9, <1>11
    <3>6. r.sclust \in Cluster => Points(View, r.sclust)
      BY <1>4, <3>3 DEF Points
    <3>7. QED
      BY <1>1, <1>9, <1>11, <3>4, <3>5, <3>6, WalkOut DEF SizeInv, Ends, EndsWell
  <2>3. QED
    BY <2>1, <2>2
<1>13. PICK k : k = WithEntry(View, r)
  OBVIOUS
<1>14. IsCard(k) /\ Ends(k)
  <2>1. IsCard(k)
    BY <1>1, <1>6, <1>13, WithEntryLeaves
  <2>2. QED
    BY <1>1, <1>6, <1>12, <1>13, <2>1, WithEntryEnds DEF SizeInv
<1>15. DirWrite(r) => View' = k /\ card' \in {card, View, k}
  BY <1>2, <1>3, <1>6, <1>13, DirWriteOK
<1>16. DirWriteFails(r) => View' \in {View, k} /\ card' \in {card, View, k}
  BY <1>1, <1>2, <1>3, <1>6, <1>13, <1>14, DirWriteFailsOK, FailsKeep DEF DirWriteFails
<1>17. \A f \in Handle : f # call.fh /\ Has(f, "OPEN") => SameFile(k, View, files[f])
  BY <1>1, <1>4, <1>6, <1>13, WithEntryFile
<1>18. Ent(k, r.ent).size = r.fsize /\ \A c \in Cluster : Fat(k, c) = Fat(View, c)
  BY <1>1, <1>6, <1>13, WithEntryIs
<1>19. CASE DirWrite(r) /\ SetSlot(call.fh, Linked(r)) /\ Continue(call.left)
  <2>1. PICK q : q = Linked(r)
    OBVIOUS
  <2>2. SetSlot(call.fh, q) /\ "CONTIG" \notin q.flags /\ Ent(View', q.ent).size = q.fsize
    BY <1>5, <1>6, <1>8, <1>15, <1>18, <1>19, <2>1
  <2>3. QED
    BY <1>1, <1>2, <1>5, <1>14, <1>15, <1>17, <1>19, <2>2, SizeLinked
<1>20. CASE DirWrite(r) /\ SetSlot(call.fh, r) /\ Goto("join")
  <2>1. pc' = "join" /\ UNCHANGED call
    BY <1>20 DEF Goto
  <2>2. Fat(View', NewClust') = EOC
    BY <1>4, <1>5, <1>10, <1>15, <1>18, <1>20
  <2>3. "CONTIG" \notin r.flags /\ Ent(View', r.ent).size = r.fsize
    BY <1>5, <1>6, <1>15, <1>18, <1>20
  <2>4. QED
    BY <1>1, <1>2, <1>5, <1>14, <1>15, <1>17, <1>20, <2>1, <2>2, <2>3, SizeLinked
<1>21. CASE DirWriteFails(r) /\ LinkFails(r)
  <2>1. PICK q : /\ SetSlot(call.fh, q) /\ ~Able(q) /\ q.flags = r.flags \cup {"FAILED"}
                 /\ Return /\ pc' \in {"idle", "unmount"}
    BY <1>1, <1>2, <1>6, <1>21, LinkFailsSlot
  <2>2. "CONTIG" \notin q.flags
    BY <1>5, <1>6, <2>1
  <2>3. QED
    BY <1>1, <1>2, <1>5, <1>14, <1>16, <1>17, <1>21, <2>1, <2>2, SizeLinked
<1>22. QED
  BY <1>19, <1>20, <1>21 DEF Link, r

(* A cluster taken and in no chain, linked where one ends that the size    *)
(* goes beyond.                                                            *)
LEMMA JoinEnds ==
  ASSUME NEW k, IsCard(k), SoundChains(k), Ends(k), NEW e \in Entry, Used(k, e),
         NEW m \in Nat, NEW c \in Cluster, c = Walk(k, Ent(k, e).sclust, m),
         Fat(k, c) = EOC, NEW new \in Cluster, ~Points(k, new), Fat(k, new) = EOC,
         (m + 1) + 1 <= ClustersFor(Ent(k, e).size)
  PROVE  Ends(SetFat(k, c, new))
<1>1. PICK j : j = SetFat(k, c, new)
  OBVIOUS
<1>2. /\ IsCard(j)
      /\ \A d \in Cluster : Fat(j, d) = IF d = c THEN new ELSE Fat(k, d)
      /\ \A g \in Entry : Ent(j, g) = Ent(k, g)
  <2>1. new \in FatValue
    BY FatValues
  <2>2. QED
    BY <1>1, <2>1, SetFatCard
<1>3. new # c
  BY WalkPointed
<1>4. FatNext(j, c) = new /\ Fat(j, new) = EOC
  BY <1>2, <1>3, FatValues DEF FatNext
<1>5. ASSUME NEW g \in Entry, Used(k, g), g # e
      PROVE  \A n \in Nat : Walk(j, Ent(k, g).sclust, n) = Walk(k, Ent(k, g).sclust, n)
  <2> DEFINE cl == Ent(k, g).sclust
  <2>1. \A i \in Nat : Walk(k, cl, i) # c
    BY <1>5, WalkOnce
  <2> HIDE DEF cl
  <2>2. \A i \in Nat : Walk(k, cl, i) \in Cluster =>
          Fat(j, Walk(k, cl, i)) = Fat(k, Walk(k, cl, i))
    BY <1>2, <2>1
  <2>3. \A n \in Nat : Walk(j, cl, n) = Walk(k, cl, n)
    BY <2>2, WalkSame
  <2>4. QED
    BY <2>3 DEF cl
<1>6. PICK s, z : s = Ent(k, e).sclust /\ z = ClustersFor(Ent(k, e).size)
  OBVIOUS
<1>7. Walk(j, s, m) = c
  <2>1. ASSUME NEW i \in 0 .. m - 1 PROVE Fat(j, Walk(k, s, i)) = Fat(k, Walk(k, s, i))
    <3>1. i \in Nat /\ i # m /\ i \in 0 .. m
      OBVIOUS
    <3>2. Walk(k, s, i) \in Cluster
      BY <1>6, <3>1, WalkLinks
    <3>3. Walk(k, s, i) # c
      BY <1>6, <3>1, <3>2, WalkOnce
    <3>4. QED
      BY <1>2, <3>2, <3>3
  <2>2. m \in 0 .. m /\ SameLinks(j, k, s, m)
    BY <2>1 DEF SameLinks
  <2>3. QED
    BY <1>6, <2>2, WalkFrame
<1>8. Walk(j, s, m + 1) = new
  <2>1. Walk(j, s, m + 1) = FatNext(j, Walk(j, s, m))
    BY WalkIs
  <2>2. QED
    BY ONLY <1>4, <1>7, <2>1
<1>9. Walk(j, s, (m + 1) + 1) \notin Cluster
  <2>1. m + 1 \in Nat
    OBVIOUS
  <2>2. QED
    BY <1>4, <1>8, <2>1, EndIsOut
<1>10. Walk(j, s, z) \notin Cluster
  <2>1. (m + 1) + 1 \in Nat /\ z \in Nat /\ (m + 1) + 1 <= z
    BY <1>6, SizeNat
  <2>2. QED
    BY <1>2, <1>9, <2>1, WalkOut
<1>11. Covered(j)
  <2>1. SUFFICES ASSUME NEW g \in Entry, Used(j, g)
                 PROVE  Walk(j, Ent(j, g).sclust, ClustersFor(Ent(j, g).size)) \notin Cluster
    BY DEF Covered
  <2>2. Ent(j, g) = Ent(k, g) /\ Used(k, g)
    BY <1>2, <2>1 DEF Used
  <2>3. CASE g = e
    BY <1>6, <1>10, <2>2, <2>3
  <2>4. CASE g # e
    <3>1. PICK cl, n : cl = Ent(k, g).sclust /\ n = ClustersFor(Ent(k, g).size)
      OBVIOUS
    <3>2. n \in Nat /\ Walk(k, cl, n) \notin Cluster
      BY <2>2, <3>1, SizeNat DEF Ends, Covered
    <3>3. Walk(j, cl, n) = Walk(k, cl, n)
      BY <1>5, <2>2, <2>4, <3>1, <3>2
    <3>4. QED
      BY <2>2, <3>1, <3>2, <3>3
  <2>5. QED
    BY <2>3, <2>4
<1>12. EndsWell(j)
  <2>1. SUFFICES ASSUME NEW d \in Cluster, Points(j, d), Fat(j, d) = Bad PROVE FALSE
    BY DEF EndsWell
  <2>2. d # c /\ d # new /\ Fat(k, d) = Bad
    BY <1>2, <1>4, <2>1, FatValues
  <2>3. Points(k, d)
    <3>1. CASE \E g \in Entry : Used(j, g) /\ Ent(j, g).sclust = d
      BY <3>1, <1>2 DEF Points, Used
    <3>2. CASE \E b \in Cluster : Fat(j, b) = d
      BY <3>2, <1>2, <2>2 DEF Points
    <3>3. QED
      BY <2>1, <3>1, <3>2 DEF Points
  <2>4. QED
    BY <2>2, <2>3 DEF Ends, EndsWell
<1>13. QED
  BY <1>1, <1>11, <1>12 DEF Ends

(* link_new, the FAT: the entry's size covers the new cluster already. *)
LEMMA SizeJoin ==
  ASSUME NothingDropped, WholeInv, WholeInv', SizeInv, Join
  PROVE  SizeInv'
<1> DEFINE new == NewClust
           s == Cur.sclust
           n == Steps(Cur.fptr)
<1>1. CardInv /\ CardInv' /\ PosInv /\ IsCard(View) /\ SoundChains(View)
      /\ \A f \in Handle : files[f] \in Slot
  BY ViewCard DEF WholeInv, CardInv, IndInv, CtrlOK, Good
<1>2. pc = "join" /\ UNCHANGED lent
  BY DEF Join
<1>3. /\ call.fh \in Handle /\ Cur \in Slot /\ Cur = files[call.fh]
      /\ Cur.fptr \in Nat /\ Cur.fsize \in Nat /\ DiskOK
  BY <1>1, <1>2, TransferSlot
<1>4. /\ Cur.ent \in Entry /\ Cur.fptr <= Cur.fsize /\ Used(View, Cur.ent)
      /\ Ent(View, Cur.ent).sclust = s /\ InLink(View, Cur, new) /\ new \in Cluster
      /\ ~Points(View, new) /\ "OPEN" \in Cur.flags /\ "FAILED" \notin Cur.flags
  BY <1>1, <1>2, LinkWriter
<1>5. call.op = "write" /\ "CONTIG" \notin Cur.flags /\ Fat(View, new) = EOC
  <2>1. call.op = "write"
    BY <1>1, <1>2 DEF CardInv, IndInv, CtrlOK, HintOK
  <2>2. QED
    BY <1>2, <2>1 DEF SizeInv, Locals, NoMark, NewEnds
<1>6. Ent(View, Cur.ent).size = Cur.fsize
  <2>1. Live(call.fh) /\ Phase(call.fh) = "join"
    BY <1>2, <1>3, <1>4, LiveAble DEF Able, Phase
  <2>2. QED
    BY <1>3, <2>1 DEF SizeInv, AllSized, Sized
<1>7. Linked(Cur) \in Slot /\ Linked(Cur).ent = Cur.ent /\ Linked(Cur).flags = Cur.flags
      /\ Linked(Cur).fsize = Cur.fsize
  BY <1>1, <1>2, <1>3, <1>4, LinkedMild DEF Linked, Slot
<1>8. Cur.fptr > 0 /\ n \in Nat /\ AtEnd(View, Cur, n)
  BY <1>3, <1>4, StepsNat DEF InLink, Extends
<1>9. PICK c \in Cluster : c = Cur.cclust
  BY <1>1, <1>2, <1>3 DEF CardInv, IndInv, CtrlOK, ClustOK, Slot
<1> HIDE DEF new, n, s
<1>10. PICK m \in Nat : n = m + 1 /\ c = Walk(View, s, m) /\ Fat(View, c) = EOC
  <2>1. n # 0
    BY <1>8, <1>9, FatValues DEF AtEnd
  <2>2. n - 1 \in Nat /\ n = (n - 1) + 1
    BY <1>8, <2>1
  <2>3. c = Walk(View, s, n - 1) /\ Fat(View, c) = EOC
    BY <1>8, <1>9, <2>1 DEF AtEnd, s
  <2>4. QED
    BY <2>2, <2>3
<1>11. (m + 1) + 1 <= ClustersFor(Ent(View, Cur.ent).size)
  <2>1. ClustersFor(Cur.fptr) = n + 1
    BY <1>3, <1>8, ClustersIs DEF n
  <2>2. ClustersFor(Cur.fptr) <= ClustersFor(Cur.fsize)
    BY <1>3, <1>4, ClustersMono
  <2>3. QED
    BY <1>6, <1>10, <2>1, <2>2
<1>12. PICK k : k = SetFat(View, c, new)
  OBVIOUS
<1>13. IsCard(k) /\ \A e \in Entry : Ent(k, e) = Ent(View, e)
  <2>1. new \in FatValue
    BY <1>4, FatValues
  <2>2. QED
    BY <1>1, <1>12, <2>1, SetFatCard
<1>14. Ends(k)
  BY <1>1, <1>4, <1>5, <1>10, <1>11, <1>12, JoinEnds DEF SizeInv
<1>15. FatPut(Cur.cclust, new) => View' = k /\ card' \in {card, View, k}
  BY <1>2, <1>3, <1>4, <1>9, <1>12, FatValues, FatPutOK
<1>16. FatPutFails(Cur.cclust, new) => View' \in {View, k} /\ card' \in {card, View, k}
  BY <1>1, <1>2, <1>3, <1>4, <1>9, <1>12, <1>13, FatValues, FatPutFailsOK, FailsKeep
     DEF FatPutFails
<1>17. \A f \in Handle : SameFile(k, View, files[f])
  <2>1. Fat(View, c) \notin Cluster /\ new \in FatValue
    BY <1>4, <1>10, FatValues
  <2>2. QED
    BY <1>1, <1>12, <2>1, FatFile
<1>18. CASE FatPut(Cur.cclust, new) /\ SetSlot(call.fh, Linked(Cur)) /\ Continue(call.left)
  <2>1. PICK q : q = Linked(Cur)
    OBVIOUS
  <2>2. SetSlot(call.fh, q) /\ "CONTIG" \notin q.flags /\ Ent(View', q.ent).size = q.fsize
    BY <1>4, <1>5, <1>6, <1>7, <1>13, <1>15, <1>18, <2>1
  <2>3. QED
    BY <1>1, <1>2, <1>5, <1>14, <1>15, <1>17, <1>18, <2>2, SizeLinked
<1>19. CASE FatPutFails(Cur.cclust, new) /\ LinkFails(Cur)
  <2>1. PICK q : /\ SetSlot(call.fh, q) /\ ~Able(q) /\ q.flags = Cur.flags \cup {"FAILED"}
                 /\ Return /\ pc' \in {"idle", "unmount"}
    BY <1>1, <1>2, <1>3, <1>19, LinkFailsSlot
  <2>2. "CONTIG" \notin q.flags
    BY <1>5, <2>1
  <2>3. QED
    BY <1>1, <1>2, <1>5, <1>14, <1>16, <1>17, <1>19, <2>1, <2>2, SizeLinked
<1>20. QED
  BY <1>18, <1>19 DEF Join, new

-----------------------------------------------------------------------------
(***************************************************************************)
(* How many clusters a chain has.                                          *)
(***************************************************************************)
(* A chain whose walk has ended after n steps has n clusters at most. *)
LEMMA LenAtMost ==
  ASSUME NEW k, IsCard(k), NEW cl, NEW n \in Nat, Walk(k, cl, n) \notin Cluster
  PROVE  ChainLen(k, cl) \in Nat /\ ChainLen(k, cl) <= n
<1> DEFINE S == {i \in 0 .. MaxClust - 1 : Walk(k, cl, i) \in Cluster}
<1>1. S \subseteq 0 .. n - 1
  <2> SUFFICES ASSUME NEW i \in S, i >= n PROVE FALSE
    BY GeometryAssumption
  <2>1. i \in Nat /\ n <= i /\ Walk(k, cl, i) \in Cluster
    BY GeometryAssumption
  <2>2. QED
    BY <2>1, WalkOut
<1>2. PICK T : S \subseteq T /\ IsFiniteSet(T) /\ Cardinality(T) = n
  <2>1. IsFiniteSet(0 .. n - 1) /\ Cardinality(0 .. n - 1) = n
    BY FS_Interval
  <2> HIDE DEF S
  <2>2. QED
    BY <1>1, <2>1
<1>3. ChainLen(k, cl) = Cardinality(S)
  BY DEF ChainLen
<1> HIDE DEF S
<1>4. IsFiniteSet(S) /\ Cardinality(S) <= Cardinality(T)
  BY <1>2, FS_Subset
<1>5. QED
  BY <1>2, <1>3, <1>4, FS_CardinalityType

(* A chain without a loop has a cluster for each step that has not left it. *)
LEMMA LenAtLeast ==
  ASSUME NEW k, IsCard(k), SoundChains(k), NEW e \in Entry, Used(k, e), NEW n \in Nat,
         Walk(k, Ent(k, e).sclust, n) \in Cluster
  PROVE  ChainLen(k, Ent(k, e).sclust) > n
<1> DEFINE s == Ent(k, e).sclust
           T == 0 .. n
           S == {i \in 0 .. MaxClust - 1 : Walk(k, s, i) \in Cluster}
           f == [i \in T |-> Walk(k, s, i)]
<1>1. IsFiniteSet(T) /\ Cardinality(T) = n + 1
  BY FS_Interval
<1>2. \A i \in T : Walk(k, s, i) \in Cluster
  BY WalkLinks
<1>3. \A i, j \in T : Walk(k, s, i) = Walk(k, s, j) => i = j
  <2> SUFFICES ASSUME NEW i \in T, NEW j \in T, Walk(k, s, i) = Walk(k, s, j) PROVE i = j
    OBVIOUS
  <2>1. i \in Nat /\ j \in Nat /\ Walk(k, s, i) \in Cluster
    BY <1>2
  <2>2. QED
    BY <2>1, WalkOnce
<1>4. f \in Injection(T, Cluster)
  BY <1>2, <1>3 DEF Injection, IsInjective
<1>5. IsFiniteSet(Cluster) /\ Cardinality(Cluster) <= MaxClust
  <2>1. MaxClust \in Nat /\ MaxClust > 2
    BY GeometryAssumption
  <2>2. IsFiniteSet(2 .. MaxClust - 1) /\ Cardinality(2 .. MaxClust - 1) = MaxClust - 2
    BY <2>1, FS_Interval
  <2>3. QED
    BY <2>1, <2>2 DEF Cluster
<1>6. n + 1 <= MaxClust
  <2> HIDE DEF f, T
  <2>1. Cardinality(T) <= Cardinality(Cluster)
    BY <1>1, <1>4, <1>5, FS_Injection
  <2>2. Cardinality(Cluster) \in Nat /\ MaxClust \in Nat
    BY <1>5, FS_CardinalityType, GeometryAssumption
  <2>3. QED
    BY <1>1, <1>5, <2>1, <2>2
<1>7. T \subseteq S
  BY <1>2, <1>6, GeometryAssumption
<1>8. IsFiniteSet(S)
  <2>1. S \subseteq 0 .. MaxClust - 1 /\ IsFiniteSet(0 .. MaxClust - 1)
    BY FS_Interval, GeometryAssumption
  <2> HIDE DEF S
  <2>2. QED
    BY <2>1, FS_Subset
<1>9. ChainLen(k, s) = Cardinality(S)
  BY DEF ChainLen
<1> HIDE DEF S, T, s, f
<1>10. Cardinality(T) <= Cardinality(S)
  BY <1>7, <1>8, FS_Subset
<1>11. Cardinality(S) \in Nat /\ ChainLen(k, s) > n
  BY <1>1, <1>8, <1>9, <1>10, FS_CardinalityType
<1>12. QED
  BY <1>11 DEF s

(* So the two ways to say that sizes cover chains are the same. *)
LEMMA CoveredIs ==
  ASSUME NEW k, IsCard(k), SoundChains(k)
  PROVE  Covered(k) <=> SizesCover(k)
<1>1. ASSUME NEW e \in Entry, Used(k, e)
      PROVE  (Walk(k, Ent(k, e).sclust, ClustersFor(Ent(k, e).size)) \notin Cluster)
             <=> ChainLen(k, Ent(k, e).sclust) <= ClustersFor(Ent(k, e).size)
  <2>1. PICK cl, n :
          /\ cl = Ent(k, e).sclust /\ n = ClustersFor(Ent(k, e).size) /\ n \in Nat
    BY SizeNat
  <2>2. Walk(k, cl, n) \notin Cluster => ChainLen(k, cl) <= n
    BY <2>1, LenAtMost
  <2>3. Walk(k, cl, n) \in Cluster => ChainLen(k, cl) > n
    BY <1>1, <2>1, LenAtLeast
  <2>4. ChainLen(k, cl) \in Nat
    <3>1. {i \in 0 .. MaxClust - 1 : Walk(k, cl, i) \in Cluster} \subseteq 0 .. MaxClust - 1
      OBVIOUS
    <3>2. IsFiniteSet(0 .. MaxClust - 1)
      BY FS_Interval, GeometryAssumption
    <3>3. QED
      BY <3>1, <3>2, FS_Subset, FS_CardinalityType DEF ChainLen
  <2>5. QED
    BY <2>1, <2>2, <2>3, <2>4
<1>2. QED
  BY <1>1 DEF Covered, SizesCover

-----------------------------------------------------------------------------
(***************************************************************************)
(* The invariant holds of every state.                                     *)
(***************************************************************************)
(* What the theorems ask of the volumes besides soundness: no file's size  *)
(* falls short of its chain, and no chain runs into a bad value.           *)
CoveredVolumes == \A k \in Volumes : SizesCover(k) /\ EndsWell(k)

(* It holds at first. *)
LEMMA SizeInit == ASSUME SoundVolumes, CoveredVolumes, Init PROVE SizeInv
<1>1. WholeInv
  BY PosInit
<1>2. IsCard(card) /\ SoundChains(card) /\ View = card
  BY <1>1, ViewCard DEF Init, WholeInv, CardInv, IndInv, SoundVolumes
<1>3. Ends(card)
  BY <1>2, CoveredIs DEF Init, CoveredVolumes, Ends
<1>4. \A f \in Handle : files[f].flags = {}
  BY FreeSlotOK DEF Init
<1>5. pc = "idle"
  BY DEF Init
<1>6. AllSized
  BY <1>4 DEF AllSized, Live, Has
<1>7. AllInOnePiece
  BY <1>4 DEF AllInOnePiece, Piece
<1>8. Locals
  BY <1>5 DEF Locals, NewEnds, Linkable, ReadWithin, ChangeCall, NoMark
<1>9. QED
  BY <1>2, <1>3, <1>6, <1>7, <1>8 DEF SizeInv

(* Every step preserves it. *)
LEMMA SizeNext ==
  ASSUME NothingDropped, WholeInv, WholeInv', SizeInv, KeptInv, [Next]_vars
  PROVE  SizeInv'
<1>1. CASE VolumeCall
  BY <1>1, SizeMount, SizeUnmount, SizeLend DEF VolumeCall
<1>2. CASE NameCall
  BY <1>2, SizeStat, SizeDelete, SizeRename, SizeOpenExisting, SizeOpenNew DEF NameCall
<1>3. CASE HandleCall
  BY <1>3, SizeBegin, SizeSeek, SizeTruncate, SizeSync, SizeFragments DEF HandleCall
<1>4. CASE Step
  BY <1>4, SizeAppend, SizeSameCluster, SizeNextCluster, SizeAlloc, SizeAllocFull,
     SizeReadChunk, SizeWriteChunk, SizeWriteChunkFails, SizeLink, SizeJoin, SizeCut,
     SizeCutSize, SizeFree, SizeSyncEntry, SizeSyncDone, SizeUnmountClose, SizeUnmount DEF Step
<1>5. CASE Crash
  BY <1>5, SizeMount
<1>6. CASE UNCHANGED vars
  <2>1. View' = View
    BY <1>6, SameDiskOK DEF vars, disk, WholeInv, CardInv, IndInv
  <2>2. UNCHANGED <<card, files, pc, call, hint>>
    BY <1>6 DEF vars
  <2>3. AllSized'
    BY <2>1, <2>2 DEF SizeInv, AllSized, Live, Has, Phase
  <2>4. AllInOnePiece'
    BY <2>1, <2>2 DEF SizeInv, AllInOnePiece
  <2>5. Locals'
    BY <2>1, <2>2 DEF SizeInv, Locals, NewEnds, Linkable, NewClust, ReadWithin, ChangeCall,
       NoMark, Cur, Has
  <2>6. QED
    BY <2>1, <2>2, <2>3, <2>4, <2>5 DEF SizeInv
<1>7. QED
  BY <1>1, <1>2, <1>3, <1>4, <1>5, <1>6 DEF Next

(* All that the steps rely on. *)
SizesInv == WholeInv /\ SizeInv /\ KeptInv

(* It holds of every volume the card may come with, *)
LEMMA SizesInit == ASSUME SoundVolumes, CoveredVolumes, Init PROVE SizesInv
BY PosInit, SizeInit, KeptInit DEF SizesInv, WholeInv, CardInv

(* and every step of the library keeps it. *)
LEMMA SizesNext == ASSUME NothingDropped, SizesInv, [Next]_vars PROVE SizesInv'
BY PosNext, SizeNext, KeptNext DEF SizesInv

(* Between calls no slot is at a step. *)
LEMMA RestingLags == ASSUME SizeInv PROVE LagInLastCluster
<1> SUFFICES ASSUME pc = "idle", NEW f \in Handle, Live(f) PROVE Lags(View, files[f])
  BY DEF LagInLastCluster, Lags, Has
<1>1. Phase(f) \notin {"cut", "size", "link", "join"}
  BY DEF Phase
<1>2. QED
  BY <1>1 DEF SizeInv, AllSized, Sized

(* Between calls, for every volume and every number of files, an open      *)
(* file's entry is behind its slot in the last cluster at most: do_sync    *)
(* has only a size to write, never a chain, and DIRTY says when.  No call  *)
(* that fails leaves it otherwise, short of giving up the handle.          *)
THEOREM LagIsSmall ==
  ASSUME SoundVolumes, CoveredVolumes, NothingDropped
  PROVE  Spec => []LagInLastCluster
<1>1. Init => SizesInv
  BY SizesInit
<1>2. SizesInv /\ [Next]_vars => SizesInv'
  BY SizesNext
<1>3. SizesInv => LagInLastCluster
  BY RestingLags DEF SizesInv
<1>4. QED
  BY <1>1, <1>2, <1>3, PTL DEF Spec

(* Whenever the power goes, whatever has failed before it, no file's size  *)
(* on the card falls short of its chain: link_new and uzefs_truncate write *)
(* the size and the links in the order that keeps it so.                   *)
THEOREM SizesCoverChains ==
  ASSUME SoundVolumes, CoveredVolumes, NothingDropped
  PROVE  Spec => SizeCoversChain
<1>1. Init => SizesInv
  BY SizesInit
<1>2. SizesInv /\ [Next]_vars => SizesInv'
  BY SizesNext
<1>3. SizesInv => SizesCover(card)
  BY CoveredIs DEF SizesInv, WholeInv, CardInv, IndInv, DiskOK, Good, SizeInv, Ends
<1>4. QED
  BY <1>1, <1>2, <1>3, PTL DEF Spec, SizeCoversChain

(* The mark uzefs_fragments leaves on a file stays true until the file     *)
(* changes, whatever is written, cut, freed and created next to it; and it *)
(* was true when it was made, though uzefs_sd_count reads the FAT of the   *)
(* card and not the sector that may wait in the buffer.                    *)
THEOREM MarkStaysTrue ==
  ASSUME SoundVolumes, CoveredVolumes, NothingDropped
  PROVE  Spec => []ContigIsInOnePiece
<1>1. Init => SizesInv
  BY SizesInit
<1>2. SizesInv /\ [Next]_vars => SizesInv'
  BY SizesNext
<1>3. SizesInv => ContigIsInOnePiece
  BY DEF SizesInv, SizeInv, AllInOnePiece, Piece, ContigIsInOnePiece, Has
<1>4. QED
  BY <1>1, <1>2, <1>3, PTL DEF Spec

-----------------------------------------------------------------------------
(***************************************************************************)
(* No cluster is lost.                                                     *)
(***************************************************************************)
(* A set of clusters that no chain of k leaves, *)
Stays(k, S) == \A c \in S : FatNext(k, c) \in Cluster => FatNext(k, c) \in S

(* and that has the first cluster of every file. *)
Starts(k, S) ==
  \A e \in Entry : Used(k, e) /\ Ent(k, e).sclust \in Cluster => Ent(k, e).sclust \in S

(* Every cluster in use is on the way from a file's first one, or from one *)
(* of X: it is in every such set.                                          *)
NoneLost(k, X) ==
  \A S \in SUBSET Cluster :
    Stays(k, S) /\ Starts(k, S) /\ X \cap Cluster \subseteq S =>
      \A c \in Cluster : Fat(k, c) # 0 => c \in S

(* The cluster that the call in progress has taken, or has cut off, and    *)
(* that no file has.                                                       *)
Outside ==
  IF pc \in {"size", "free"} THEN {call.cl}
  ELSE IF Linkable \/ pc = "join" THEN {NewClust} ELSE {}

(* A file cut to nothing has its chain until its entry is written.         *)
CutFirst == pc = "size" /\ Cur.sclust = 0 => Ent(View, Cur.ent).sclust = call.cl

(* What is cut off is freed to its end. *)
FreeEnds ==
  pc \in {"cut", "size", "free"} /\ call.cl \in Cluster => FatNext(View, call.cl) # Bad

(* A card that is not mounted has everything. *)
AtRest == ~mounted => ~dirty /\ pc = "idle" /\ \A f \in Handle : ~Has(f, "OPEN")

LostInv == NoneLost(View, Outside) /\ CutFirst /\ FreeEnds

(* The errors and power cuts that do lose clusters are left out. *)
NothingFails == ~Faults /\ ~Crashes

(* Other entries, and the same FAT: every file that goes, and every        *)
(* cluster that was outside, is another file's or outside.                 *)
LEMMA EntLost ==
  ASSUME NEW j, NEW k, NEW X, NEW Y, NoneLost(k, X),
         \A c \in Cluster : Fat(j, c) = Fat(k, c),
         \A e \in Entry : Used(k, e) /\ Ent(k, e).sclust \in Cluster =>
           \/ Ent(k, e).sclust \in Y
           \/ Used(j, e) /\ Ent(j, e).sclust = Ent(k, e).sclust,
         \A x \in X \cap Cluster :
           x \in Y \/ \E e \in Entry : Used(j, e) /\ Ent(j, e).sclust = x
  PROVE  NoneLost(j, Y)
<1> SUFFICES ASSUME NEW S \in SUBSET Cluster, Stays(j, S), Starts(j, S),
                    Y \cap Cluster \subseteq S, NEW c \in Cluster, Fat(j, c) # 0
             PROVE  c \in S
  BY DEF NoneLost
<1>1. Stays(k, S)
  BY DEF Stays, FatNext
<1>2. Starts(k, S)
  BY DEF Starts
<1>3. X \cap Cluster \subseteq S
  BY DEF Starts
<1>4. QED
  BY <1>1, <1>2, <1>3 DEF NoneLost

(* Data does not matter to it, and the more is outside the less is lost.   *)
LEMMA MetaLost ==
  ASSUME NEW j, NEW k, Meta(j, k), NEW X, NEW Y, NoneLost(k, X),
         X \cap Cluster \subseteq Y
  PROVE  NoneLost(j, Y)
<1>1. \A e \in Entry : Ent(j, e) = Ent(k, e) /\ (Used(k, e) <=> Used(j, e))
  BY DEF Meta, Used
<1>2. QED
  BY <1>1, EntLost DEF Meta

(* A free cluster is taken, *)
LEMMA TakenLost ==
  ASSUME NEW k, IsCard(k), NEW c \in Cluster, Fat(k, c) = 0, NEW X, NoneLost(k, X)
  PROVE  NoneLost(SetFat(k, c, EOC), X \cup {c})
<1>1. PICK j : j = SetFat(k, c, EOC)
  OBVIOUS
<1>2. /\ \A d \in Cluster : Fat(j, d) = IF d = c THEN EOC ELSE Fat(k, d)
      /\ \A e \in Entry : Ent(j, e) = Ent(k, e)
  BY <1>1, SetFatCard, FatValues
<1> SUFFICES ASSUME NEW S \in SUBSET Cluster, Stays(j, S), Starts(j, S),
                    (X \cup {c}) \cap Cluster \subseteq S,
                    NEW d \in Cluster, Fat(j, d) # 0
             PROVE  d \in S
  BY <1>1 DEF NoneLost
<1>3. Stays(k, S)
  <2> SUFFICES ASSUME NEW b \in S, FatNext(k, b) \in Cluster PROVE FatNext(k, b) \in S
    BY DEF Stays
  <2>1. b # c
    BY FatValues DEF FatNext
  <2>2. FatNext(j, b) = FatNext(k, b)
    BY <1>2, <2>1 DEF FatNext
  <2>3. QED
    BY <2>2 DEF Stays
<1>4. Starts(k, S)
  BY <1>2 DEF Starts, Used
<1>5. QED
  BY <1>2, <1>3, <1>4 DEF NoneLost

(* linked after the last one of a chain, *)
LEMMA JoinedLost ==
  ASSUME NEW k, IsCard(k), NEW c \in Cluster, Fat(k, c) = EOC,
         NEW new \in Cluster, Fat(k, new) = EOC, new # c, NoneLost(k, {new})
  PROVE  NoneLost(SetFat(k, c, new), {})
<1>1. PICK j : j = SetFat(k, c, new)
  OBVIOUS
<1>2. /\ \A d \in Cluster : Fat(j, d) = IF d = c THEN new ELSE Fat(k, d)
      /\ \A e \in Entry : Ent(j, e) = Ent(k, e)
  BY <1>1, SetFatCard, FatValues
<1> SUFFICES ASSUME NEW S \in SUBSET Cluster, Stays(j, S), Starts(j, S),
                    NEW d \in Cluster, Fat(j, d) # 0
             PROVE  d \in S
  BY <1>1 DEF NoneLost
<1> DEFINE T == S \cup {new}
<1>3. Stays(k, T)
  <2> SUFFICES ASSUME NEW b \in T, FatNext(k, b) \in Cluster PROVE FatNext(k, b) \in T
    BY DEF Stays
  <2>1. b # c /\ b # new
    BY FatValues DEF FatNext
  <2>2. FatNext(j, b) = FatNext(k, b)
    BY <1>2, <2>1 DEF FatNext
  <2>3. QED
    BY <2>1, <2>2 DEF Stays
<1>4. Starts(k, T)
  BY <1>2 DEF Starts, Used
<1>5. \A b \in Cluster : Fat(k, b) # 0 => b \in T
  <2>1. T \in SUBSET Cluster /\ {new} \cap Cluster \subseteq T
    OBVIOUS
  <2> HIDE DEF T
  <2>2. QED
    BY <1>3, <1>4, <2>1 DEF NoneLost
<1>6. c \in S
  BY <1>5, FatValues
<1>7. FatNext(j, c) = new
  BY <1>2, FatValues DEF FatNext
<1>8. new \in S
  BY <1>6, <1>7 DEF Stays
<1>9. QED
  BY <1>2, <1>5, <1>8, FatValues

(* cut off with what follows it, *)
LEMMA CutOffLost ==
  ASSUME NEW k, IsCard(k), NEW c \in Cluster, NEW nx \in Cluster, Fat(k, c) = nx,
         NEW X, NoneLost(k, X)
  PROVE  NoneLost(SetFat(k, c, EOC), X \cup {nx})
<1>1. PICK j : j = SetFat(k, c, EOC)
  OBVIOUS
<1>2. /\ \A d \in Cluster : Fat(j, d) = IF d = c THEN EOC ELSE Fat(k, d)
      /\ \A e \in Entry : Ent(j, e) = Ent(k, e)
  BY <1>1, SetFatCard, FatValues
<1> SUFFICES ASSUME NEW S \in SUBSET Cluster, Stays(j, S), Starts(j, S),
                    (X \cup {nx}) \cap Cluster \subseteq S,
                    NEW d \in Cluster, Fat(j, d) # 0
             PROVE  d \in S
  BY <1>1 DEF NoneLost
<1>3. Stays(k, S)
  <2> SUFFICES ASSUME NEW b \in S, FatNext(k, b) \in Cluster PROVE FatNext(k, b) \in S
    BY DEF Stays
  <2>1. CASE b = c
    <3>1. FatNext(k, b) = nx
      BY <2>1, FatValues DEF FatNext
    <3>2. QED
      BY <3>1
  <2>2. CASE b # c
    <3>1. FatNext(j, b) = FatNext(k, b)
      BY <1>2, <2>2 DEF FatNext
    <3>2. QED
      BY <3>1 DEF Stays
  <2>3. QED
    BY <2>1, <2>2
<1>4. Starts(k, S)
  BY <1>2 DEF Starts, Used
<1>5. QED
  BY <1>2, <1>3, <1>4, FatValues DEF NoneLost

(* and freed, which leaves the rest of its chain outside. *)
LEMMA FreedLost ==
  ASSUME NEW k, IsCard(k), NEW c \in Cluster, NoneLost(k, {c})
  PROVE  NoneLost(SetFat(k, c, 0), {FatNext(k, c)})
<1>1. PICK j : j = SetFat(k, c, 0)
  OBVIOUS
<1>2. /\ \A d \in Cluster : Fat(j, d) = IF d = c THEN 0 ELSE Fat(k, d)
      /\ \A e \in Entry : Ent(j, e) = Ent(k, e)
  BY <1>1, SetFatCard, FatValues
<1> SUFFICES ASSUME NEW S \in SUBSET Cluster, Stays(j, S), Starts(j, S),
                    {FatNext(k, c)} \cap Cluster \subseteq S,
                    NEW d \in Cluster, Fat(j, d) # 0
             PROVE  d \in S
  BY <1>1 DEF NoneLost
<1> DEFINE T == S \cup {c}
<1>3. Stays(k, T)
  <2> SUFFICES ASSUME NEW b \in T, b # c, FatNext(k, b) \in Cluster
               PROVE  FatNext(k, b) \in T
    BY DEF Stays
  <2>1. FatNext(j, b) = FatNext(k, b)
    BY <1>2 DEF FatNext
  <2>2. QED
    BY <2>1 DEF Stays
<1>4. Starts(k, T)
  BY <1>2 DEF Starts, Used
<1>5. \A b \in Cluster : Fat(k, b) # 0 => b \in T
  <2>1. T \in SUBSET Cluster /\ {c} \cap Cluster \subseteq T
    OBVIOUS
  <2> HIDE DEF T
  <2>2. QED
    BY <1>3, <1>4, <2>1 DEF NoneLost
<1>6. QED
  BY <1>2, <1>5

(* What something else leads to can be followed. *)
LEMMA PointedNext ==
  ASSUME NEW k, IsCard(k), SoundChains(k), EndsWell(k), NEW c \in Cluster,
         \/ \E e \in Entry : Used(k, e) /\ Ent(k, e).sclust = c
         \/ \E d \in Cluster : d # c /\ Fat(k, d) = c
  PROVE  FatNext(k, c) # Bad
<1>1. Points(k, c)
  BY DEF Points
<1>2. Fat(k, c) # 0 /\ Fat(k, c) # Bad /\ Fat(k, c) \in FatValue
  BY <1>1, Entries DEF SoundChains, PointedInUse, EndsWell
<1>3. Fat(k, c) # c
  BY DEF SoundChains, LinkInjective, StartUnlinked
<1>4. QED
  BY <1>2, <1>3, FatValues DEF FatNext, FatValue

(* All of a chain is in a set that has its start and that it does not leave. *)
LEMMA ChainStays ==
  ASSUME NEW k, NEW S, Stays(k, S), NEW s, s \in Cluster => s \in S
  PROVE  \A n \in Nat : Walk(k, s, n) \in Cluster => Walk(k, s, n) \in S
<1> DEFINE W == {n \in Nat : Walk(k, s, n) \in Cluster => Walk(k, s, n) \in S}
<1>1. 0 \in W
  BY WalkIs
<1>2. ASSUME NEW n \in Nat, n \in W, Walk(k, s, n + 1) \in Cluster
      PROVE  Walk(k, s, n + 1) \in S
  <2>1. PICK w : w = Walk(k, s, n)
    OBVIOUS
  <2>2. Walk(k, s, n + 1) = FatNext(k, w)
    BY <2>1, WalkIs
  <2>3. w \in Cluster
    BY <1>2, <2>2, FatNextOK, FatValues
  <2>4. w \in S
    BY <1>2, <2>1, <2>3
  <2>5. QED
    BY <1>2, <2>2, <2>4 DEF Stays
<1>3. QED
  <2>1. \A n \in Nat : n \in W => n + 1 \in W
    BY <1>2
  <2> HIDE DEF W
  <2>2. \A n \in Nat : n \in W
    BY <1>1, <2>1, NatAll
  <2>3. QED
    BY <2>2 DEF W

(* Every cluster in use belongs to a file. *)
AllOwned(k) ==
  \A cl \in Cluster : Fat(k, cl) # 0 =>
    \E e \in Entry : Used(k, e) /\ cl \in Chain(k, Ent(k, e).sclust)

(* It has a number of clusters. *)
LEMMA LenNat == ASSUME NEW k, NEW cl PROVE ChainLen(k, cl) \in Nat
<1>1. {i \in 0 .. MaxClust - 1 : Walk(k, cl, i) \in Cluster} \subseteq 0 .. MaxClust - 1
  OBVIOUS
<1>2. IsFiniteSet(0 .. MaxClust - 1)
  BY FS_Interval, GeometryAssumption
<1>3. QED
  BY <1>1, <1>2, FS_Subset, FS_CardinalityType DEF ChainLen

(* That is what it means that none is lost. *)
LEMMA OwnedIs ==
  ASSUME NEW k, IsCard(k), SoundChains(k)
  PROVE  NoneLost(k, {}) <=> AllOwned(k)
<1>1. ASSUME NoneLost(k, {}), NEW c \in Cluster, Fat(k, c) # 0
      PROVE  \E e \in Entry : Used(k, e) /\ c \in Chain(k, Ent(k, e).sclust)
  <2> DEFINE S == {d \in Cluster : \E e \in Entry, n \in Nat :
                     Used(k, e) /\ Walk(k, Ent(k, e).sclust, n) = d}
  <2>1. Stays(k, S)
    <3> SUFFICES ASSUME NEW d \in S, FatNext(k, d) \in Cluster PROVE FatNext(k, d) \in S
      BY DEF Stays
    <3>1. PICK e \in Entry, n \in Nat : Used(k, e) /\ Walk(k, Ent(k, e).sclust, n) = d
      OBVIOUS
    <3>2. PICK s : s = Ent(k, e).sclust
      OBVIOUS
    <3>3. Walk(k, s, n + 1) = FatNext(k, Walk(k, s, n))
      BY WalkIs
    <3>4. n + 1 \in Nat /\ Walk(k, Ent(k, e).sclust, n + 1) = FatNext(k, d)
      BY <3>1, <3>2, <3>3
    <3>5. QED
      BY <3>1, <3>4
  <2>2. Starts(k, S)
    <3>1. 0 \in Nat /\ \A e \in Entry : Walk(k, Ent(k, e).sclust, 0) = Ent(k, e).sclust
      BY WalkIs
    <3>2. QED
      BY <3>1 DEF Starts
  <2>3. c \in S
    <3>1. S \in SUBSET Cluster
      OBVIOUS
    <3> HIDE DEF S
    <3>2. QED
      BY <1>1, <2>1, <2>2, <3>1 DEF NoneLost
  <2>4. PICK e \in Entry, n \in Nat : Used(k, e) /\ Walk(k, Ent(k, e).sclust, n) = c
    BY <2>3
  <2>5. PICK l, s : l = ChainLen(k, s) /\ s = Ent(k, e).sclust
    OBVIOUS
  <2>6. l > n
    BY <1>1, <2>4, <2>5, LenAtLeast
  <2>7. n \in 0 .. l - 1
    <3>1. l \in Nat
      BY <2>5, LenNat
    <3> HIDE DEF S
    <3>2. QED
      BY <2>6, <3>1
  <2>8. c \in Chain(k, s)
    BY <2>4, <2>5, <2>7 DEF Chain
  <2>9. QED
    BY <2>4, <2>5, <2>8
<1>2. ASSUME AllOwned(k), NEW S \in SUBSET Cluster, Stays(k, S), Starts(k, S),
             NEW c \in Cluster, Fat(k, c) # 0
      PROVE  c \in S
  <2>1. PICK e \in Entry : Used(k, e) /\ c \in Chain(k, Ent(k, e).sclust)
    BY <1>2 DEF AllOwned
  <2>2. PICK s : s = Ent(k, e).sclust
    OBVIOUS
  <2>3. PICK n \in 0 .. ChainLen(k, s) - 1 : c = Walk(k, s, n)
    BY <2>1, <2>2 DEF Chain
  <2>4. s \in Cluster => s \in S
    BY <1>2, <2>1, <2>2 DEF Starts
  <2>5. QED
    BY <1>2, <2>3, <2>4, ChainStays
<1>3. QED
  BY <1>1, <1>2 DEF AllOwned, NoneLost


-----------------------------------------------------------------------------
(* The steps that only read.                                               *)

(* Where nothing fails no command of the card does. *)
LEMMA NoneFails ==
  ASSUME NothingFails
  PROVE  /\ NothingDropped
         /\ \A S : ~LoadFails(S)
         /\ \A S, k : ~PutFails(S, k)
         /\ ~FlushFails
         /\ \A n : ~WholeSectorFails(n)
BY DEF NothingFails, NothingDropped, LoadFails, PutFails, FlushFails, WholeSectorFails

(* Most steps have nothing outside, *)
LEMMA NoneOutside ==
  ASSUME pc \notin {"size", "free", "link", "join"},
         pc = "move" => ~Has(call.fh, "NEWCL")
  PROVE  Outside = {}
BY DEF Outside, Linkable

(* and what only reads loses nothing. *)
LEMMA LostRead ==
  ASSUME LostInv, Meta(View', View), Outside = {}, pc' \notin {"cut", "size", "free"}
  PROVE  LostInv'
<1>1. NoneLost(View', Outside')
  BY MetaLost DEF LostInv
<1>2. QED
  BY <1>1 DEF LostInv, CutFirst, FreeEnds

(* The steps that only read take and free nothing. *)
LEMMA LostStepReads ==
  ASSUME NothingFails, WholeInv, LostInv,
         \/ Append \/ SameCluster \/ NextCluster \/ AllocFull \/ ReadChunk
         \/ SyncDone \/ SyncFlushFails
         \/ \E f \in Handle : UnmountClose(f)
  PROVE  LostInv'
<1>1. /\ SameRead
      /\ pc \in {"append", "chunk", "alloc", "move", "flush", "unmount"}
      /\ pc' \notin {"cut", "size", "free", "link", "join"}
  BY NoneFails, StepReads
<1>2. pc = "move" => ~Has(call.fh, "NEWCL")
  <2>1. pc = "move" => call.op = "read"
    BY DEF Append, SameCluster, NextCluster, AllocFull, ReadChunk, SyncDone, SyncFlushFails,
       UnmountClose
  <2>2. QED
    BY <2>1 DEF WholeInv, CardInv, IndInv, CtrlOK, HintOK
<1>3. Outside = {}
  BY <1>1, <1>2, NoneOutside
<1>4. QED
  BY <1>1, <1>3, SameReadMeta, LostRead

(* Nor do the calls on the volume. *)
LEMMA LostVolume ==
  ASSUME NothingFails, WholeInv, LostInv, AtRest, VolumeCall \/ UnmountEnd
  PROVE  LostInv'
<1>1. DiskOK /\ CardInv /\ PosInv /\ IsCard(card) /\ IsCard(View)
  BY ViewCard DEF WholeInv, CardInv, IndInv, DiskOK
<1>2. pc \in {"idle", "unmount"} /\ pc' \in {"idle", "unmount"}
  BY DEF VolumeCall, Mount, MountFails, Unmount, Lend, LendFails, UnmountEnd
<1>3. CASE Mount
  <2>1. ~dirty /\ Drop /\ card' = card
    BY <1>3 DEF Mount, NothingFails, AtRest, Drop
  <2>2. View' = View
    BY <1>1, <2>1, DropOK, ViewCard
  <2>3. QED
    BY <1>2, <2>2, SameMeta, NoneOutside, LostRead
<1>4. ASSUME NEW how \in Lendings, Lend(how) PROVE LostInv'
  <2>1. card' = View /\ Drop
    BY <1>1, <1>4, ViewCard DEF Lend
  <2>2. View' = View
    BY <1>1, <2>1, DropOK
  <2>3. QED
    BY <1>2, <2>2, SameMeta, NoneOutside, LostRead
<1>5. CASE Unmount \/ UnmountEnd
  <2>1. UNCHANGED lent /\ (UNCHANGED disk \/ Flush \/ FlushFails)
    BY <1>5 DEF Unmount, UnmountEnd
  <2>2. SameRead
    BY <1>1, <2>1, NoneFails, OnlyReads
  <2>3. QED
    BY <1>2, <2>2, SameReadMeta, NoneOutside, LostRead
<1>6. ~MountFails /\ \A how : ~LendFails(how)
  BY NoneFails DEF MountFails, LendFails, NothingFails
<1>7. QED
  BY <1>3, <1>4, <1>5, <1>6 DEF VolumeCall

(* uzefs_truncate leaves the chain as it is for the steps that follow. *)
LEMMA LostTruncate ==
  ASSUME NothingFails, WholeInv, SizeInv, LostInv, NEW f \in Handle, Truncate(f), SameRead
  PROVE  LostInv'
<1> DEFINE r == With(files[f], {}, {"CONTIG"})
           nx == FatNext(View, r.cclust)
           cutAt == [r EXCEPT !.fsize = r.fptr]
<1>1. CardInv /\ PosInv /\ DiskOK /\ IsCard(View) /\ SoundChains(View) /\ EndsWell(View)
      /\ files \in [Handle -> Slot]
  BY ViewCard DEF WholeInv, CardInv, IndInv, Good, SizeInv, Ends
<1>2. Ready(f) /\ View' = View
  BY DEF Truncate, CanWrite, SameRead
<1>3. /\ pc = "idle" /\ files[f] \in Slot /\ Resting(View, files[f])
      /\ "OPEN" \in files[f].flags
  BY <1>1, <1>2, ReadyRests
<1>4. /\ r \in Slot /\ r.flags = files[f].flags \ {"CONTIG"} /\ r.ent = files[f].ent
      /\ r.sclust = files[f].sclust /\ r.cclust = files[f].cclust
      /\ r.csect = files[f].csect /\ r.fptr = files[f].fptr /\ r.fsize = files[f].fsize
  BY <1>3, WithoutOK
<1>5. Resting(View, r) /\ Used(View, r.ent) /\ r.ent \in Entry
  BY <1>1, <1>3, <1>4, SamePlace DEF PosInv, Named, Has, Slot
<1>6. Outside = {}
  BY <1>3, NoneOutside
<1> HIDE DEF r
<1>7. NoneLost(View', Outside')
  BY <1>2, <1>6, SameMeta, MetaLost DEF LostInv
<1>8. CASE r.cclust = 0
  <2> DEFINE q == [r EXCEPT !.sclust = 0, !.fsize = 0]
  <2>1. BeginCut(f, q, r.sclust, "size")
    BY <1>8 DEF Truncate, r
  <2>2. q.ent = r.ent
    BY <1>4 DEF Slot
  <2> HIDE DEF q
  <2>3. SetSlot(f, q) /\ pc' = "size" /\ call'.fh = f /\ call'.cl = r.sclust
    BY <2>1 DEF BeginCut, NoCall
  <2>4. Cur' = q
    BY <1>1, <2>3 DEF Cur, SetSlot
  <2>5. CutFirst'
    BY <1>2, <1>5, <2>2, <2>3, <2>4 DEF CutFirst, Resting
  <2>6. FreeEnds'
    <3>1. r.sclust \in Cluster => FatNext(View, r.sclust) # Bad
      BY <1>1, <1>5, PointedNext DEF Resting
    <3>2. QED
      BY <1>2, <2>3, <3>1 DEF FreeEnds
  <2>7. QED
    BY <1>7, <2>5, <2>6 DEF LostInv
<1>9. CASE r.cclust # 0
  <2>1. (CASE nx \in Cluster -> BeginCut(f, cutAt, nx, "cut")
           [] nx = 0 -> BeginCut(f, cutAt, 0, "size")
           [] OTHER -> SetSlot(f, cutAt) /\ UNCHANGED <<pc, call>>)
    BY <1>9, NoneFails DEF Truncate, r
  <2>2. cutAt.sclust = r.sclust
    BY <1>4 DEF Slot
  <2>3. nx \in Cluster \cup {0} /\ r.sclust # 0 /\ r.cclust \in Cluster
    BY <1>1, <1>4, <1>5, <1>9, RestingNext
  <2> HIDE DEF cutAt
  <2>4. CASE nx \in Cluster
    <3>1. BeginCut(f, cutAt, nx, "cut")
      BY <2>1, <2>4, FatValues
    <3>2. pc' = "cut" /\ call'.cl = nx
      BY <3>1 DEF BeginCut, NoCall
    <3>3. r.cclust # nx /\ Fat(View, r.cclust) = nx
      BY <2>3, <2>4, FatValues DEF FatNext
    <3>4. FatNext(View, nx) # Bad
      BY <1>1, <2>3, <2>4, <3>3, PointedNext
    <3>5. QED
      BY <1>2, <1>7, <3>2, <3>4 DEF LostInv, CutFirst, FreeEnds
  <2>5. CASE nx = 0
    <3>1. BeginCut(f, cutAt, 0, "size")
      BY <2>1, <2>5, FatValues
    <3>2. SetSlot(f, cutAt) /\ pc' = "size" /\ call'.fh = f /\ call'.cl = 0
      BY <3>1 DEF BeginCut, NoCall
    <3>3. Cur' = cutAt
      BY <1>1, <3>2 DEF Cur, SetSlot
    <3>4. QED
      BY <1>7, <2>2, <2>3, <3>2, <3>3, FatValues DEF LostInv, CutFirst, FreeEnds
  <2>6. QED
    BY <2>3, <2>4, <2>5
<1>10. QED
  BY <1>8, <1>9

(* Calls on handles. *)
LEMMA LostHandle ==
  ASSUME NothingFails, WholeInv, SizeInv, LostInv, HandleCall
  PROVE  LostInv'
<1>1. SameRead /\ pc = "idle"
  BY NoneFails, HandleReads
<1>2. Outside = {}
  BY <1>1, NoneOutside
<1>3. CASE \E f \in Handle : Truncate(f)
  BY <1>1, <1>3, LostTruncate
<1>4. CASE ~\E f \in Handle : Truncate(f)
  <2>1. pc' \notin {"cut", "size", "free"}
    BY <1>4, NoneFails, HandleReads
  <2>2. QED
    BY <1>1, <1>2, <2>1, SameReadMeta, LostRead
<1>5. QED
  BY <1>3, <1>4


-----------------------------------------------------------------------------
(* The steps that write.                                                   *)

(* Away from the steps of a cut there is only the set to show. *)
LEMMA LostNow ==
  ASSUME NoneLost(View', Outside'), pc' \notin {"cut", "size", "free"}
  PROVE  LostInv'
BY DEF LostInv, CutFirst, FreeEnds

(* What a step leaves outside. *)
LEMMA OutsideThen ==
  /\ pc' \in {"size", "free"} => Outside' = {call'.cl}
  /\ pc' \in {"idle", "unmount", "append", "chunk", "alloc", "cut", "entry", "flush"} =>
       Outside' = {}
  /\ pc' \in {"link", "join"} => Outside' = {NewClust'}
BY DEF Outside, Linkable

(* An entry is written: its file, and what was outside, stay its file's or *)
(* are outside.                                                            *)
LEMMA EntryLost ==
  ASSUME NEW k, IsCard(k), NEW e \in Entry, NEW q \in DirEnt, NEW X, NEW Y, NoneLost(k, X),
         Used(k, e) /\ Ent(k, e).sclust \in Cluster =>
           \/ Ent(k, e).sclust \in Y
           \/ q.name \in Names /\ q.sclust = Ent(k, e).sclust,
         \A x \in X \cap Cluster : x \in Y \/ (q.name \in Names /\ q.sclust = x)
  PROVE  NoneLost(SetEnt(k, e, q), Y)
<1>1. PICK j : j = SetEnt(k, e, q)
  OBVIOUS
<1>2. /\ \A g \in Entry : Ent(j, g) = IF g = e THEN q ELSE Ent(k, g)
      /\ \A c \in Cluster : Fat(j, c) = Fat(k, c)
  BY <1>1, SetEntCard
<1>3. Used(j, e) <=> q.name \in Names
  BY <1>2 DEF Used
<1>4. ASSUME NEW g \in Entry, Used(k, g), Ent(k, g).sclust \in Cluster
      PROVE  \/ Ent(k, g).sclust \in Y
             \/ Used(j, g) /\ Ent(j, g).sclust = Ent(k, g).sclust
  <2>1. CASE g = e
    BY <1>2, <1>3, <1>4, <2>1
  <2>2. CASE g # e
    BY <1>2, <1>4, <2>2 DEF Used
  <2>3. QED
    BY <2>1, <2>2
<1>5. \A x \in X \cap Cluster : x \in Y \/ \E g \in Entry : Used(j, g) /\ Ent(j, g).sclust = x
  BY <1>2, <1>3
<1>6. NoneLost(j, Y)
  BY <1>2, <1>4, <1>5, EntLost
<1>7. QED
  BY <1>1, <1>6

(* So it is for the slot's entry. *)
LEMMA WithEntryLost ==
  ASSUME NEW k, IsCard(k), NEW r \in Slot, NEW X, NEW Y, NoneLost(k, X), Used(k, r.ent),
         Ent(k, r.ent).sclust \in Cluster =>
           Ent(k, r.ent).sclust \in Y \/ r.sclust = Ent(k, r.ent).sclust,
         \A x \in X \cap Cluster : x \in Y \/ r.sclust = x
  PROVE  NoneLost(WithEntry(k, r), Y)
<1>1. PICK q : q = [Ent(k, r.ent) EXCEPT !.sclust = r.sclust, !.size = r.fsize]
  OBVIOUS
<1>2. r.ent \in Entry /\ q \in DirEnt /\ Ent(k, r.ent) \in DirEnt
  BY <1>1, WithEntryOK, Entries
<1>3. q.name \in Names /\ q.sclust = r.sclust
  BY <1>1, <1>2 DEF Used, DirEnt
<1>4. WithEntry(k, r) = SetEnt(k, r.ent, q)
  BY <1>1 DEF WithEntry
<1>5. QED
  BY <1>2, <1>3, <1>4, EntryLost

(* uzefs_stat takes nothing; *)
LEMMA LostStat ==
  ASSUME NothingFails, WholeInv, LostInv, NEW nm, NEW e \in Entry, Stat(nm, e)
  PROVE  LostInv'
<1>1. CardInv /\ PosInv /\ DiskOK
  BY DEF WholeInv, CardInv, IndInv
<1>2. pc = "idle" /\ UNCHANGED <<lent, pc>>
  BY DEF Stat
<1>3. Load(Scanned(e), DirSect(e)) \/ LoadFails(Scanned(e))
  BY DEF Stat
<1>4. View' = View
  BY <1>1, <1>2, <1>3, NoneFails, ScanCard
<1>5. QED
  BY <1>2, <1>4, SameMeta, NoneOutside, LostRead

(* nor does uzefs_open, which leaves what it cuts off in the entry; *)
LEMMA LostOpenExisting ==
  ASSUME NothingFails, WholeInv, SizeInv, LostInv, NEW nm \in Names, NEW mode \in Modes,
         NEW f \in Handle, NEW e \in Entry, OpenExisting(nm, mode, f, e)
  PROVE  LostInv'
<1> DEFINE r == NewSlot(e, mode, View)
           cut == "TRUNC" \in mode /\ r.sclust # 0
           append == "APPEND" \in mode
           q == IF cut THEN [r EXCEPT !.sclust = 0, !.fsize = 0] ELSE r
<1>1. CardInv /\ DiskOK /\ IsCard(View) /\ SoundChains(View) /\ EndsWell(View)
      /\ files \in [Handle -> Slot]
  BY ViewCard DEF WholeInv, CardInv, IndInv, Good, SizeInv, Ends
<1>2. View' = View
  BY <1>1, ScanCard DEF OpenExisting
<1>3. r.ent = e /\ r.sclust = Ent(View, e).sclust /\ Used(View, e)
  BY NewSlotFlags DEF OpenExisting, IsHit, Used
<1>4. /\ pc = "idle" /\ SetSlot(f, q)
      /\ pc' = IF cut THEN "size" ELSE IF append THEN "append" ELSE "idle"
      /\ call' = IF cut \/ append
                 THEN [NoCall EXCEPT !.op = "open", !.fh = f,
                         !.cl = IF cut THEN r.sclust ELSE 0, !.append = append]
                 ELSE NoCall
  BY DEF OpenExisting, OpenChecks
<1>5. Outside = {}
  BY <1>4, NoneOutside
<1>6. NoneLost(View', Outside')
  BY <1>2, <1>5, SameMeta, MetaLost DEF LostInv
<1>7. CASE ~cut
  <2>1. pc' \notin {"cut", "size", "free"}
    BY <1>4, <1>7
  <2>2. QED
    BY <1>6, <2>1, LostNow
<1>8. CASE cut
  <2>1. pc' = "size" /\ call'.fh = f /\ call'.cl = r.sclust
    BY <1>4, <1>8 DEF NoCall
  <2>2. Cur' = q
    BY <1>1, <1>4, <2>1 DEF Cur, SetSlot
  <2>3. r \in Slot
    BY <1>1, Entries, NewSlotOK DEF OpenExisting, DirEnt
  <2> HIDE DEF r
  <2>4. q.ent = e
    BY <1>3, <1>8, <2>3 DEF Slot
  <2> HIDE DEF q
  <2>5. CutFirst'
    BY <1>2, <1>3, <2>1, <2>2, <2>4 DEF CutFirst
  <2>6. r.sclust \in Cluster => FatNext(View, r.sclust) # Bad
    BY <1>1, <1>3, PointedNext
  <2>7. FreeEnds'
    BY <1>2, <2>1, <2>6 DEF FreeEnds
  <2>8. QED
    BY <1>6, <2>5, <2>7 DEF LostInv
<1>9. QED
  BY <1>7, <1>8

(* a new file has no cluster, and the entry it takes had none in use; *)
LEMMA LostOpenNew ==
  ASSUME NothingFails, WholeInv, LostInv, NEW nm \in Names, NEW mode \in Modes,
         NEW f \in Handle, NEW e \in Entry, NEW last \in Entry,
         OpenNew(nm, mode, f, e, last) \/ OpenNewFails(nm, mode, f, e, last)
  PROVE  LostInv'
<1> DEFINE r == [name |-> nm, sclust |-> 0, size |-> 0]
           k == Created(View, e, nm)
<1>1. IndInv /\ DiskOK /\ IsCard(View)
  BY ViewCard DEF WholeInv, CardInv, IndInv
<1>2. pc = "idle" /\ UNCHANGED <<lent, pc, call>> /\ ~Used(View, e)
  BY DEF OpenNew, OpenNewFails, CreateChecks, OpenChecks, IsFree
<1>3. r \in DirEnt /\ k = SetEnt(View, e, r)
  BY GeometryAssumption DEF DirEnt, Created
<1>4. Put(Scanned(last) \cup {DirSect(e)}, DirSect(e), k)
  BY NoneFails DEF OpenNew, OpenNewFails
<1>5. View' = k
  BY <1>1, <1>2, <1>4, CreatedOK
<1>6. Outside = {} /\ Outside' = {}
  BY <1>2, NoneOutside, OutsideThen
<1> HIDE DEF r
<1>7. NoneLost(k, {})
  BY <1>1, <1>2, <1>3, <1>6, EntryLost DEF LostInv
<1>8. QED
  BY <1>2, <1>5, <1>6, <1>7, LostNow

(* uzefs_delete takes the file away, and frees its chain from then on, *)
LEMMA LostDelete ==
  ASSUME NothingFails, WholeInv, SizeInv, LostInv, NEW nm \in Names, NEW e \in Entry,
         Delete(nm, e)
  PROVE  LostInv'
<1> DEFINE r == [Ent(View, e) EXCEPT !.name = Removed]
           k == SetEnt(View, e, r)
           cl == Ent(View, e).sclust
<1>1. CardInv /\ DiskOK /\ IsCard(View) /\ SoundChains(View) /\ EndsWell(View)
      /\ Ent(View, e) \in DirEnt
  BY ViewCard, Entries DEF WholeInv, CardInv, IndInv, Good, SizeInv, Ends
<1>2. pc = "idle" /\ UNCHANGED lent /\ Used(View, e)
  BY DEF Delete, Closed, IsHit, Used
<1>3. r \in DirEnt
  BY <1>1 DEF DirEnt
<1>4. /\ Put(Scanned(e), DirSect(e), k)
      /\ IF cl # 0
         THEN pc' = "free" /\ call' = [NoCall EXCEPT !.op = "delete", !.cl = cl]
         ELSE UNCHANGED <<pc, call>>
  BY NoneFails DEF Delete
<1> HIDE DEF r
<1>5. View' = k
  BY <1>1, <1>2, <1>3, <1>4, ScannedOK, EntPutOK
<1>6. Outside = {}
  BY <1>2, NoneOutside
<1>7. CASE cl = 0
  <2>1. pc' = "idle"
    BY <1>2, <1>4, <1>7
  <2>2. NoneLost(k, {})
    BY <1>1, <1>3, <1>6, <1>7, FatValues, EntryLost DEF LostInv
  <2>3. QED
    BY <1>5, <2>1, <2>2, OutsideThen, LostNow
<1>8. CASE cl # 0
  <2>1. pc' = "free" /\ call'.cl = cl
    BY <1>4, <1>8 DEF NoCall
  <2>2. NoneLost(k, {cl})
    BY <1>1, <1>3, <1>6, EntryLost DEF LostInv
  <2>3. cl \in Cluster => FatNext(View, cl) # Bad
    BY <1>1, <1>2, PointedNext
  <2>4. \A c \in Cluster : FatNext(k, c) = FatNext(View, c)
    BY <1>1, <1>3, SetEntCard DEF FatNext
  <2> HIDE DEF k, cl
  <2>5. CutFirst' /\ FreeEnds'
    BY <1>5, <2>1, <2>3, <2>4 DEF CutFirst, FreeEnds
  <2>6. QED
    BY <1>5, <2>1, <2>2, <2>5, OutsideThen DEF LostInv
<1>9. QED
  BY <1>7, <1>8

(* and uzefs_rename keeps it. *)
LEMMA LostRename ==
  ASSUME NothingFails, WholeInv, LostInv, NEW from \in Names, NEW to \in Names,
         NEW e \in Entry, NEW last \in Entry, Rename(from, to, e, last)
  PROVE  LostInv'
<1> DEFINE r == [Ent(View, e) EXCEPT !.name = to]
           k == SetEnt(View, e, r)
           S == Scanned(e) \cup Scanned(last)
<1>1. DiskOK /\ IsCard(View) /\ Ent(View, e) \in DirEnt
  BY ViewCard, Entries DEF WholeInv, CardInv, IndInv
<1>2. pc = "idle" /\ UNCHANGED <<lent, pc, call>>
  BY DEF Rename, Closed
<1>3. r \in DirEnt /\ r.sclust = Ent(View, e).sclust /\ r.name \in Names
  BY <1>1 DEF DirEnt
<1>4. Put(S, DirSect(e), k)
  BY NoneFails DEF Rename
<1>5. DirSect(e) \in S
  BY ScannedOK
<1> HIDE DEF r, S
<1>6. View' = k
  BY <1>1, <1>2, <1>3, <1>4, <1>5, EntPutOK
<1>7. Outside = {} /\ Outside' = {}
  BY <1>2, NoneOutside, OutsideThen
<1>8. NoneLost(k, {})
  BY <1>1, <1>3, <1>7, EntryLost DEF LostInv
<1>9. QED
  BY <1>2, <1>6, <1>7, <1>8, LostNow

(* Calls on names. *)
LEMMA LostName ==
  ASSUME NothingFails, WholeInv, SizeInv, LostInv, NameCall
  PROVE  LostInv'
BY LostStat, LostDelete, LostRename, LostOpenExisting, LostOpenNew DEF NameCall


(* The cluster that uzefs_write takes is outside until it is linked, *)
LEMMA LostAlloc ==
  ASSUME NothingFails, WholeInv, LostInv, NEW cl \in Cluster, Alloc(cl)
  PROVE  LostInv'
<1>1. CardInv /\ PosInv /\ DiskOK /\ IsCard(View) /\ IsCard(card)
  BY ViewCard DEF WholeInv, CardInv, IndInv, DiskOK
<1>2. PICK k : k = SetFat(View, cl, EOC)
  OBVIOUS
<1>3. PICK q : q = [With(Cur, {"NEWCL"}, {}) EXCEPT !.csect = ClustSect(cl)]
  OBVIOUS
<1>4. /\ pc = "alloc" /\ UNCHANGED <<lent, call>> /\ pc' = "move" /\ hint' = cl + 1
      /\ card' = Wiped(CardAfterPut(AllocLoads(cl), k), cl)
      /\ HoldPut(FatSect(cl), k)
      /\ SetSlot(call.fh, q)
  BY <1>2, <1>3, NoneFails DEF Alloc, Goto
<1>5. Fat(View, cl) = 0
  BY DEF Alloc, Takable, FreeFrom
<1>6. IsCard(k)
  BY <1>1, <1>2, FatValues, SetFatCard
<1>7. Meta(View', k)
  <2>1. FatSect(cl) \in AllocLoads(cl)
    BY <1>1, AllocLoadsOK DEF CardInv, IndInv, CtrlOK
  <2>2. View' = Wiped(k, cl)
    BY <1>1, <1>2, <1>4, <2>1, AllocOK
  <2>3. QED
    BY <1>6, <2>2, WipedCard DEF Meta
<1>8. Outside = {}
  BY <1>4, NoneOutside
<1>9. Outside' = {cl}
  <2>1. call.fh \in Handle /\ Cur \in Slot /\ files \in [Handle -> Slot]
    BY <1>1, <1>4, TransferSlot DEF CardInv, IndInv, CtrlOK
  <2>2. With(Cur, {"NEWCL"}, {}) \in Slot /\ "NEWCL" \in With(Cur, {"NEWCL"}, {}).flags
    BY <2>1, OneFlag DEF Flag
  <2>3. "NEWCL" \in q.flags
    BY <1>3, <2>2 DEF Slot
  <2>4. files'[call'.fh] = q
    BY <1>4, <2>1 DEF SetSlot
  <2>5. NewClust' = cl
    BY <1>4, FatValues DEF NewClust
  <2>6. QED
    BY <1>4, <2>3, <2>4, <2>5 DEF Outside, Linkable, Has
<1>10. NoneLost(k, {cl})
  <2>1. NoneLost(k, {} \cup {cl})
    BY <1>1, <1>2, <1>5, <1>8, TakenLost DEF LostInv
  <2>2. QED
    BY <2>1
<1>11. QED
  BY <1>4, <1>7, <1>9, <1>10, MetaLost, LostNow

(* while its first data is written, *)
LEMMA LostWriteChunk ==
  ASSUME NothingFails, WholeInv, LostInv, WriteChunk \/ WriteChunkFails
  PROVE  LostInv'
<1>1. WriteChunk
  BY NoneFails DEF WriteChunkFails
<1>2. Meta(View', View)
  BY <1>1, WriteChunkView DEF WholeInv
<1>3. pc = "move" /\ UNCHANGED hint /\ LinkNext
  BY <1>1 DEF WriteChunk
<1>4. CASE Has(call.fh, "NEWCL")
  <2>1. pc' = "link"
    BY <1>3, <1>4 DEF LinkNext
  <2>2. Outside = {NewClust} /\ Outside' = {NewClust}
    BY <1>3, <1>4, <2>1, OutsideThen DEF Outside, Linkable, NewClust
  <2>3. QED
    BY <1>2, <2>1, <2>2, MetaLost, LostNow DEF LostInv
<1>5. CASE ~Has(call.fh, "NEWCL")
  <2>1. pc' \in {"idle", "unmount", "chunk"}
    BY <1>3, <1>5 DEF LinkNext, Continue, Return
  <2>2. Outside = {}
    BY <1>3, <1>5, NoneOutside
  <2>3. QED
    BY <1>2, <2>1, <2>2, LostRead
<1>6. QED
  BY <1>4, <1>5

(* and, unless it is a file's first, its size; *)
LEMMA LostLink ==
  ASSUME NothingFails, WholeInv, LostInv, Link
  PROVE  LostInv'
<1> DEFINE r == Linking
<1>1. CardInv /\ PosInv /\ IsCard(View)
  BY ViewCard DEF WholeInv, CardInv, IndInv
<1>2. pc = "link" /\ UNCHANGED <<lent, hint>> /\ DirWrite(r)
      /\ (IF Cur.cclust = 0 THEN Continue(call.left) ELSE Goto("join"))
  BY NoneFails DEF Link, DirWriteFails
<1>3. Cur \in Slot /\ Cur.fptr \in Nat /\ DiskOK
  BY <1>1, <1>2, TransferSlot
<1>4. /\ Cur.ent \in Entry /\ Used(View, Cur.ent) /\ Ent(View, Cur.ent).sclust = Cur.sclust
      /\ InLink(View, Cur, NewClust) /\ NewClust \in Cluster
  BY <1>1, <1>2, LinkWriter
<1>5. /\ r \in Slot /\ r.ent = Cur.ent
      /\ r.sclust = (IF Cur.cclust = 0 THEN NewClust ELSE Cur.sclust)
  BY <1>1, <1>2, LinkingOK
<1> HIDE DEF r
<1>6. View' = WithEntry(View, r)
  BY <1>2, <1>3, <1>5, DirWriteOK
<1>7. Outside = {NewClust} /\ NewClust' = NewClust
  BY <1>2 DEF Outside, Linkable, NewClust
<1>8. CASE Cur.cclust = 0
  <2>1. Cur.sclust = 0
    <3>1. PICK n \in Nat : AtEnd(View, Cur, n)
      BY <1>3, <1>4, StepsNat DEF InLink, Extends
    <3>2. QED
      BY <1>8, <3>1, FatValues DEF AtEnd
  <2>2. NoneLost(WithEntry(View, r), {})
    BY <1>1, <1>4, <1>5, <1>7, <1>8, <2>1, FatValues, WithEntryLost DEF LostInv
  <2>3. pc' \in {"idle", "unmount", "chunk"}
    BY <1>2, <1>8 DEF Continue, Return
  <2>4. QED
    BY <1>6, <2>2, <2>3, OutsideThen, LostNow
<1>9. CASE Cur.cclust # 0
  <2>1. NoneLost(WithEntry(View, r), {NewClust})
    BY <1>1, <1>4, <1>5, <1>7, <1>9, WithEntryLost DEF LostInv
  <2>2. pc' = "join"
    BY <1>2, <1>9 DEF Goto
  <2>3. QED
    BY <1>6, <1>7, <2>1, <2>2, OutsideThen, LostNow
<1>10. QED
  BY <1>8, <1>9

(* the link gives it to the file. *)
LEMMA LostJoin ==
  ASSUME NothingFails, WholeInv, SizeInv, LostInv, Join
  PROVE  LostInv'
<1> DEFINE new == NewClust
           s == Cur.sclust
           n == Steps(Cur.fptr)
<1>1. CardInv /\ PosInv /\ IsCard(View)
  BY ViewCard DEF WholeInv, CardInv, IndInv
<1>2. pc = "join" /\ UNCHANGED lent /\ FatPut(Cur.cclust, new) /\ Continue(call.left)
  BY NoneFails DEF Join, FatPutFails
<1>3. Cur \in Slot /\ Cur.fptr \in Nat /\ DiskOK
  BY <1>1, <1>2, TransferSlot
<1>4. /\ Cur.ent \in Entry /\ Used(View, Cur.ent) /\ Ent(View, Cur.ent).sclust = s
      /\ InLink(View, Cur, new) /\ new \in Cluster /\ ~Points(View, new)
  BY <1>1, <1>2, LinkWriter
<1>5. Fat(View, new) = EOC
  BY <1>2 DEF SizeInv, Locals, NewEnds
<1>6. PICK c \in Cluster : c = Cur.cclust
  BY <1>1, <1>2, <1>3 DEF CardInv, IndInv, CtrlOK, ClustOK, Slot
<1>7. n \in Nat /\ AtEnd(View, Cur, n)
  BY <1>3, <1>4, StepsNat DEF InLink, Extends
<1>8. Outside = {new}
  BY <1>2 DEF Outside
<1> HIDE DEF new, n, s
<1>9. PICK m \in Nat : c = Walk(View, s, m)
  <2>1. n # 0
    BY <1>6, <1>7, FatValues DEF AtEnd
  <2>2. n - 1 \in Nat /\ c = Walk(View, s, n - 1)
    BY <1>6, <1>7, <2>1 DEF AtEnd, s
  <2>3. QED
    BY <2>2
<1>10. Fat(View, c) = EOC /\ c # new
  <2>1. Fat(View, c) = EOC
    BY <1>6, <1>7, FatValues DEF AtEnd
  <2>2. Points(View, c)
    BY <1>1, <1>4, <1>9, WalkPointed
  <2>3. QED
    BY <1>4, <2>1, <2>2
<1>11. View' = SetFat(View, c, new)
  BY <1>2, <1>3, <1>4, <1>6, FatValues, FatPutOK
<1>12. NoneLost(SetFat(View, c, new), {})
  BY <1>1, <1>4, <1>5, <1>8, <1>10, JoinedLost DEF LostInv
<1>13. pc' \in {"idle", "unmount", "chunk"}
  BY <1>2 DEF Continue, Return
<1>14. QED
  BY <1>11, <1>12, <1>13, OutsideThen, LostNow

(* What uzefs_truncate cuts off is outside, *)
LEMMA LostCut ==
  ASSUME NothingFails, WholeInv, SizeInv, LostInv, Cut
  PROVE  LostInv'
<1>1. CardInv /\ PosInv /\ DiskOK /\ IsCard(View)
  BY ViewCard DEF WholeInv, CardInv, IndInv
<1>2. /\ pc = "cut" /\ UNCHANGED lent /\ FatPut(Cur.cclust, EOC)
      /\ pc' = "size" /\ UNCHANGED <<call, files>>
  BY NoneFails DEF Cut, FatPutFails, Goto
<1>3. /\ call.fh \in Handle /\ Cur \in Slot /\ Used(View, Cur.ent) /\ Resting(View, Cur)
  BY <1>1, <1>2, WriterRests DEF Placed, Resting
<1>4. Cur.cclust \in Cluster /\ Cur.sclust # 0
  <2>1. Cur.cclust # 0
    BY <1>1, <1>2 DEF CardInv, IndInv, CtrlOK, ClustOK
  <2>2. QED
    BY <1>1, <1>3, <2>1, RestingNext
<1>5. PICK c, nx \in Cluster : c = Cur.cclust /\ nx = call.cl /\ Fat(View, c) = nx
  BY <1>1, <1>2, <1>4 DEF CardInv, StepsOK, CutOK
<1>6. View' = SetFat(View, c, EOC)
  BY <1>1, <1>2, <1>5, FatValues, FatPutOK
<1>7. \A d \in Cluster : Fat(View', d) = IF d = c THEN EOC ELSE Fat(View, d)
  BY <1>1, <1>6, FatValues, SetFatCard
<1>8. FatNext(View, nx) # Bad
  BY <1>2, <1>5 DEF LostInv, FreeEnds
<1>9. nx # c
  BY <1>5, <1>8, FatValues DEF FatNext
<1>10. FatNext(View', nx) # Bad
  BY <1>7, <1>8, <1>9 DEF FatNext
<1>11. NoneLost(View', {nx})
  <2>1. Outside = {}
    BY <1>2, NoneOutside
  <2>2. NoneLost(SetFat(View, c, EOC), {} \cup {nx})
    BY <1>1, <1>5, <2>1, CutOffLost DEF LostInv
  <2>3. QED
    BY <1>6, <2>2
<1>12. Outside' = {nx} /\ call'.cl = nx
  BY <1>2, <1>5, OutsideThen
<1>13. Cur'.sclust # 0
  BY <1>2, <1>4 DEF Cur
<1>14. QED
  BY <1>10, <1>11, <1>12, <1>13 DEF LostInv, CutFirst, FreeEnds

(* and so is a whole chain when its file's entry no longer has it, *)
LEMMA LostCutSize ==
  ASSUME NothingFails, WholeInv, SizeInv, LostInv, CutSize
  PROVE  LostInv'
<1> DEFINE r == With(Cur, {}, {"DIRTY"})
           cl == call.cl
<1>1. CardInv /\ PosInv /\ DiskOK /\ IsCard(View)
  BY ViewCard DEF WholeInv, CardInv, IndInv
<1>2. /\ pc = "size" /\ UNCHANGED lent /\ DirWrite(r)
      /\ IF cl # 0 THEN Goto("free") ELSE Done
  BY NoneFails DEF CutSize, DirWriteFails
<1>3. Cur \in Slot /\ Cur = files[call.fh] /\ call.fh \in Handle /\ Live(call.fh)
      /\ Used(View, Cur.ent)
  BY <1>1, <1>2, WriterRests
<1>4. r \in Slot /\ r.ent = Cur.ent /\ r.sclust = Cur.sclust
  BY <1>3, WithoutOK
<1> HIDE DEF r
<1>5. View' = WithEntry(View, r)
  BY <1>1, <1>2, <1>4, DirWriteOK
<1>6. Ent(View, Cur.ent).sclust = IF Cur.sclust = 0 THEN cl ELSE Cur.sclust
  <2>1. Sized(View, Cur, "size")
    BY <1>2, <1>3 DEF SizeInv, AllSized, Phase
  <2>2. QED
    BY <1>2, <2>1 DEF Sized, LostInv, CutFirst
<1>7. Outside = {cl}
  BY <1>2 DEF Outside
<1>8. CASE cl = 0
  <2>1. NoneLost(WithEntry(View, r), {})
    BY <1>1, <1>3, <1>4, <1>6, <1>7, <1>8, FatValues, WithEntryLost DEF LostInv
  <2>2. pc' \in {"idle", "unmount", "append"}
    BY <1>2, <1>8 DEF Done, Goto, Return
  <2>3. QED
    BY <1>5, <2>1, <2>2, OutsideThen, LostNow
<1>9. CASE cl # 0
  <2>1. pc' = "free" /\ call'.cl = cl
    BY <1>2, <1>9 DEF Goto
  <2>2. NoneLost(WithEntry(View, r), {cl})
    BY <1>1, <1>3, <1>4, <1>6, <1>7, WithEntryLost DEF LostInv
  <2>3. FatNext(View', cl) = FatNext(View, cl)
    BY <1>1, <1>4, <1>5, WithEntryFile
  <2>4. cl \in Cluster => FatNext(View, cl) # Bad
    BY <1>2 DEF LostInv, FreeEnds
  <2> HIDE DEF cl
  <2>5. CutFirst' /\ FreeEnds'
    BY <2>1, <2>3, <2>4 DEF CutFirst, FreeEnds
  <2>6. QED
    BY <1>5, <2>1, <2>2, <2>5, OutsideThen DEF LostInv
<1>10. QED
  BY <1>8, <1>9

(* until it is freed, to its end. *)
LEMMA LostFree ==
  ASSUME NothingFails, WholeInv, SizeInv, LostInv, Free
  PROVE  LostInv'
<1> DEFINE cl == call.cl
           nx == FatNext(View, cl)
<1>1. CardInv /\ DiskOK /\ IsCard(View) /\ SoundChains(View) /\ EndsWell(View)
  BY ViewCard DEF WholeInv, CardInv, IndInv, Good, SizeInv, Ends
<1>2. pc = "free" /\ UNCHANGED lent /\ (cl \in Cluster => nx # Bad)
  BY DEF Free, LostInv, FreeEnds
<1>3. /\ nx # Bad => /\ FatPut(cl, 0)
                     /\ IF nx # 0 THEN pc' = pc /\ call' = [call EXCEPT !.cl = nx] ELSE Done
      /\ nx = Bad => UNCHANGED disk /\ Corrupt
  BY <1>2, NoneFails DEF Free, FatPutFails
<1>4. Outside = {cl} /\ call \in CallType
  BY <1>1, <1>2 DEF Outside, CardInv, IndInv, CtrlOK
<1>5. CASE nx = Bad
  <2>1. cl \notin Cluster
    BY <1>2, <1>5
  <2>2. View' = View
    BY <1>1, <1>2, <1>3, <1>5, SameDiskOK
  <2>3. pc' \in {"idle", "unmount"}
    BY <1>3, <1>5 DEF Corrupt, Return
  <2>4. NoneLost(View', {})
    BY <1>4, <2>1, <2>2, SameMeta, MetaLost DEF LostInv
  <2>5. QED
    BY <2>3, <2>4, OutsideThen, LostNow
<1>6. CASE nx # Bad
  <2>1. cl \in Cluster /\ nx \in Cluster \cup {0}
    BY <1>6, FatNextOK
  <2>2. FatPut(cl, 0)
    BY <1>3, <1>6
  <2>3. View' = SetFat(View, cl, 0)
    BY <1>1, <1>2, <2>1, <2>2, FatValues, FatPutOK
  <2>4. NoneLost(View', {nx})
    BY <1>1, <1>4, <2>1, <2>3, FreedLost DEF LostInv
  <2>5. CASE nx = 0
    <3>1. pc' \in {"idle", "unmount", "append"}
      BY <1>3, <2>5, FatValues DEF Done, Goto, Return
    <3>2. NoneLost(View', {})
      BY <2>4, <2>5, FatValues, MetaRefl, MetaLost
    <3>3. QED
      BY <3>1, <3>2, OutsideThen, LostNow
  <2>6. CASE nx # 0
    <3>1. pc' = "free" /\ call' = [call EXCEPT !.cl = nx]
      BY <1>2, <1>3, <1>6, <2>6
    <3>2. call'.cl = nx
      BY <1>4, <3>1 DEF CallType
    <3>3. nx \in Cluster /\ nx # cl /\ Fat(View, cl) = nx
      BY <1>6, <2>1, <2>6, FatValues DEF FatNext
    <3>4. PICK d \in Cluster : d = nx
      BY <3>3
    <3>5. FatNext(View, d) # Bad
      BY <1>1, <2>1, <3>3, <3>4, PointedNext
    <3>6. Fat(View', d) = Fat(View, d)
      <4>1. PICK k : k = View
        OBVIOUS
      <4>2. PICK c \in Cluster : c = cl
        BY <2>1
      <4>3. IsCard(k) /\ d # c /\ View' = SetFat(k, c, 0)
        BY <1>1, <2>3, <3>3, <3>4, <4>1, <4>2
      <4>4. \A b \in Cluster : Fat(SetFat(k, c, 0), b) = IF b = c THEN 0 ELSE Fat(k, b)
        BY <4>3, FatValues, SetFatCard
      <4>5. QED
        BY <4>1, <4>3, <4>4
    <3>7. FatNext(View', d) # Bad
      BY <3>5, <3>6 DEF FatNext
    <3> HIDE DEF nx, cl
    <3>8. CutFirst' /\ FreeEnds'
      BY <3>1, <3>2, <3>4, <3>7 DEF CutFirst, FreeEnds
    <3>9. QED
      BY <2>4, <3>1, <3>2, <3>8, OutsideThen DEF LostInv
  <2>7. QED
    BY <2>5, <2>6
<1>7. QED
  BY <1>5, <1>6

(* A sync writes the first cluster that the entry has. *)
LEMMA LostSyncEntry ==
  ASSUME NothingFails, WholeInv, LostInv, SyncEntry
  PROVE  LostInv'
<1>1. CardInv /\ PosInv /\ DiskOK /\ IsCard(View)
  BY ViewCard DEF WholeInv, CardInv, IndInv
<1>2. pc = "entry" /\ UNCHANGED lent /\ DirWrite(Cur) /\ pc' = "flush"
  BY NoneFails DEF SyncEntry, DirWriteFails, Goto
<1>3. Cur \in Slot /\ Used(View, Cur.ent) /\ Ent(View, Cur.ent).sclust = Cur.sclust
  BY <1>1, <1>2, WriterRests DEF Placed
<1>4. View' = WithEntry(View, Cur)
  BY <1>1, <1>2, <1>3, DirWriteOK
<1>5. Outside = {}
  BY <1>2, NoneOutside
<1>6. NoneLost(WithEntry(View, Cur), {})
  BY <1>1, <1>3, <1>5, WithEntryLost DEF LostInv
<1>7. QED
  BY <1>2, <1>4, <1>6, OutsideThen, LostNow


-----------------------------------------------------------------------------
(* Putting the steps together.                                             *)

(* Only uzefs_mount mounts, and uzefs_unmount leaves all of it on the card. *)
LEMMA AtRestNext == ASSUME NothingFails, AtRest, [Next]_vars PROVE AtRest'
<1>1. CASE Mount
  BY <1>1 DEF Mount, AtRest
<1>2. ASSUME NEW how \in Lendings, Lend(how) PROVE AtRest'
  <2>1. ~dirty' /\ UNCHANGED <<mounted, files, pc>>
    BY <1>2 DEF Lend, Drop
  <2>2. QED
    BY <2>1 DEF AtRest, Has
<1>3. CASE UnmountEnd
  <2>1. ~dirty' /\ UNCHANGED files /\ pc' = "idle" /\ \A f \in Handle : ~Has(f, "OPEN")
    BY <1>3, NoneFails DEF UnmountEnd, Flush
  <2>2. QED
    BY <2>1 DEF AtRest, Has
<1>4. CASE UNCHANGED vars
  BY <1>4 DEF vars, AtRest, Has
<1>5. mounted /\ UNCHANGED mounted => AtRest'
  BY DEF AtRest
<1>6. CASE Unmount \/ NameCall
  <2>1. Unmount => mounted /\ UNCHANGED mounted
    BY DEF Unmount
  <2>2. \A nm, e : Stat(nm, e) \/ Delete(nm, e) => mounted /\ UNCHANGED mounted
    BY DEF Stat, Delete, Closed
  <2>3. \A nm, to, e, last : Rename(nm, to, e, last) => mounted /\ UNCHANGED mounted
    BY DEF Rename, Closed
  <2>4. \A nm, m, f, e : OpenExisting(nm, m, f, e) => mounted /\ UNCHANGED mounted
    BY DEF OpenExisting, OpenChecks
  <2>5. \A nm, m, f, e, last :
          OpenNew(nm, m, f, e, last) \/ OpenNewFails(nm, m, f, e, last) =>
            mounted /\ UNCHANGED mounted
    BY DEF OpenNew, OpenNewFails, CreateChecks, OpenChecks
  <2>6. QED
    BY <1>5, <1>6, <2>1, <2>2, <2>3, <2>4, <2>5 DEF NameCall
<1>7. CASE HandleCall
  <2> DEFINE AtHandle == (\E f \in Handle : Has(f, "OPEN")) /\ UNCHANGED mounted
  <2>1. ASSUME NEW f \in Handle, NEW n, Read(f, n) \/ Write(f, n) PROVE AtHandle
    BY <2>1 DEF Read, Write, BeginXfer, CanWrite, Ready
  <2>2. ASSUME NEW f \in Handle, NEW pos, Seek(f, pos) PROVE AtHandle
    BY <2>2 DEF Seek, Ready
  <2>3. ASSUME NEW f \in Handle, Truncate(f) PROVE AtHandle
    BY <2>3 DEF Truncate, CanWrite, Ready
  <2>4. ASSUME NEW f \in Handle, NEW op, Sync(f, op) PROVE AtHandle
    BY <2>4 DEF Sync
  <2>5. ASSUME NEW f \in Handle, Fragments(f) PROVE AtHandle
    BY <2>5 DEF Fragments, Ready
  <2>6. AtHandle
    BY <1>7, <2>1, <2>2, <2>3, <2>4, <2>5 DEF HandleCall
  <2>7. QED
    BY <1>5, <2>6 DEF AtRest
<1>8. CASE Step /\ ~UnmountEnd
  <2>1. pc # "idle" /\ UNCHANGED mounted
    BY <1>8 DEF Step, Append, SameCluster, NextCluster, Alloc, AllocFull, ReadChunk,
       WriteChunk, WriteChunkFails, Link, Join, Cut, CutSize, Free, SyncEntry, SyncDone,
       SyncFlushFails, UnmountClose
  <2>2. QED
    BY <1>5, <2>1 DEF AtRest
<1>9. ~MountFails /\ ~Crash /\ \A how : ~LendFails(how)
  BY NoneFails DEF NothingFails, MountFails, Crash, LendFails
<1>10. QED
  BY <1>1, <1>2, <1>3, <1>4, <1>6, <1>7, <1>8, <1>9 DEF Next, VolumeCall

(* Every step keeps it. *)
LEMMA LostNext ==
  ASSUME NothingFails, SizesInv, AtRest, LostInv, [Next]_vars
  PROVE  LostInv'
<1>1. WholeInv /\ SizeInv
  BY DEF SizesInv
<1>2. CASE UNCHANGED vars
  <2>1. View' = View
    BY <1>1, <1>2, SameDiskOK DEF vars, disk, WholeInv, CardInv, IndInv
  <2>2. UNCHANGED <<files, pc, call, hint>>
    BY <1>2 DEF vars
  <2>3. Outside' = Outside
    BY <2>2 DEF Outside, Linkable, Has, NewClust
  <2>4. QED
    BY <2>1, <2>2, <2>3 DEF LostInv, CutFirst, FreeEnds, Cur
<1>3. ~Crash
  BY DEF NothingFails, Crash
<1>4. CASE Step
  BY <1>1, <1>4, LostStepReads, LostAlloc, LostWriteChunk, LostLink, LostJoin, LostCut,
     LostCutSize, LostFree, LostSyncEntry, LostVolume DEF Step
<1>5. QED
  BY <1>1, <1>2, <1>3, <1>4, LostVolume, LostName, LostHandle DEF Next

(* The cards a host begins with have no cluster that is lost. *)
OwnedVolumes == \A k \in Volumes : AllOwned(k)

(* Of them the invariant holds. *)
LEMMA LostInit == ASSUME SoundVolumes, OwnedVolumes, Init PROVE LostInv /\ AtRest
<1>1. IsCard(card) /\ SoundChains(card) /\ View = card
  BY PosInit, ViewCard DEF Init, WholeInv, CardInv, IndInv, SoundVolumes
<1>2. pc = "idle" /\ AllOwned(card) /\ \A f \in Handle : files[f].flags = {}
  BY FreeSlotOK DEF Init, OwnedVolumes
<1>3. Outside = {}
  BY <1>2, NoneOutside
<1>4. NoneLost(View, Outside)
  BY <1>1, <1>2, <1>3, OwnedIs
<1>5. AtRest
  BY <1>2 DEF AtRest, Has, Init
<1>6. QED
  BY <1>2, <1>4, <1>5 DEF LostInv, CutFirst, FreeEnds

(* While the card answers and the power stays, no call of a host leaves a  *)
(* cluster that is in use and belongs to no file: not alloc_cluster when   *)
(* the cluster is never linked, not uzefs_truncate, cut_all or             *)
(* uzefs_delete when what they cut off is freed one cluster at a time.     *)
THEOREM NoneIsLost ==
  ASSUME SoundVolumes, CoveredVolumes, OwnedVolumes, NothingFails
  PROVE  Spec => []NoLostCluster
<1> DEFINE Inv == SizesInv /\ AtRest /\ LostInv
<1>1. Init => Inv
  BY SizesInit, LostInit
<1>2. Inv /\ [Next]_vars => Inv'
  BY SizesNext, AtRestNext, LostNext, NoneFails
<1>3. Inv => NoLostCluster
  <2> SUFFICES ASSUME Inv, pc = "idle" PROVE AllOwned(View)
    BY DEF NoLostCluster, AllOwned
  <2>1. IsCard(View) /\ SoundChains(View)
    BY ViewCard DEF SizesInv, WholeInv, CardInv, IndInv, Good
  <2>2. NoneLost(View, {})
    BY NoneOutside DEF LostInv
  <2>3. QED
    BY <2>1, <2>2, OwnedIs
<1> HIDE DEF Inv
<1>4. Inv /\ UNCHANGED vars => Inv'
  BY <1>2
<1>5. QED
  BY <1>1, <1>2, <1>3, PTL DEF Spec
=============================================================================
