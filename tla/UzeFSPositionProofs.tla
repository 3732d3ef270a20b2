------------------------- MODULE UzeFSPositionProofs -------------------------
(***************************************************************************)
(* Open files stay where they are: a handle that writes is the only one of *)
(* its file, and every handle that works is, between calls, in the cluster *)
(* and the sector its position says.  For every geometry, number of files, *)
(* mode and length of call, from any sound volume.                         *)
(*                                                                         *)
(* What a walk down a chain comes to is had by induction, which the first  *)
(* part makes from least elements; the second says what walks rest on, the *)
(* third where a slot is at each step of a call, and the last that every   *)
(* action keeps it there.                                                  *)
(***************************************************************************)
EXTENDS UzeFSCardProofs, FiniteSetTheorems

-----------------------------------------------------------------------------
(***************************************************************************)
(* Induction along a chain.  The library's induction theorems cannot be    *)
(* used, so it is had from least elements.                                 *)
(***************************************************************************)
(* A set of natural numbers that is not empty has a least element: else    *)
(* adding one maps its lower bounds, a finite set, into themselves, one to *)
(* one, and so onto themselves, although nothing is mapped to zero.        *)
LEMMA NatMin ==
  ASSUME NEW T, T \subseteq Nat, T # {}
  PROVE  \E x \in T : \A y \in T : x <= y
<1> SUFFICES ASSUME \A x \in T : \E y \in T : y < x PROVE FALSE
  OBVIOUS
<1> PICK t \in T : TRUE
  OBVIOUS
<1> DEFINE A == {n \in 0 .. t : \A y \in T : n <= y}
           next == [n \in A |-> n + 1]
<1>1. 0 \in A /\ \A n \in A : n + 1 \in A
  OBVIOUS
<1>2. IsFiniteSet(A)
  <2>1. IsFiniteSet(0 .. t)
    BY FS_Interval
  <2>2. A \subseteq 0 .. t
    OBVIOUS
  <2>3. QED
    BY <2>1, <2>2, FS_Subset
<1>3. next \in Injection(A, A)
  BY <1>1 DEF Injection, IsInjective
<1>4. next \in Surjection(A, A)
  <2> HIDE DEF A, next
  <2>1. QED
    BY <1>2, <1>3, FS_Injection
<1>5. PICK n \in A : next[n] = 0
  BY <1>1, <1>4 DEF Surjection
<1>6. QED
  BY <1>5

(* A set that holds zero, and with n also n + 1, holds every number. *)
LEMMA NatAll ==
  ASSUME NEW S, 0 \in S, \A n \in Nat : n \in S => n + 1 \in S
  PROVE  \A n \in Nat : n \in S
<1> SUFFICES ASSUME NEW m \in Nat, m \notin S PROVE FALSE
  OBVIOUS
<1> DEFINE T == {n \in Nat : n \notin S}
<1>1. T \subseteq Nat /\ m \in T
  OBVIOUS
<1>2. PICK x \in T : \A y \in T : x <= y
  <2> HIDE DEF T
  <2>1. QED
    BY <1>1, NatMin
<1>3. x \in Nat /\ x # 0
  BY <1>2
<1>4. x - 1 \in S
  BY <1>2, <1>3
<1>5. x - 1 \in Nat /\ (x - 1) + 1 = x
  BY <1>3
<1>6. QED
  BY <1>2, <1>4, <1>5

-----------------------------------------------------------------------------
(* A walk of n steps, as Walk makes it. *)
WalkBody(k, cl, f, n) ==
  [i \in 0 .. n |-> IF i = 0 THEN cl ELSE FatNext(k, f[i - 1])]

(* There is such a walk, for every number of steps. *)
LEMMA WalkExists ==
  ASSUME NEW k, NEW cl
  PROVE  \A n \in Nat : \E f : f = WalkBody(k, cl, f, n)
<1> DEFINE S == {n \in Nat : \E f : f = WalkBody(k, cl, f, n)}
<1>1. 0 \in S
  <2> DEFINE f == [i \in 0 .. 0 |-> cl]
  <2>1. f = WalkBody(k, cl, f, 0)
    BY DEF WalkBody
  <2>2. QED
    BY <2>1
<1>2. ASSUME NEW n \in Nat, n \in S PROVE n + 1 \in S
  <2>1. PICK f : f = WalkBody(k, cl, f, n)
    BY <1>2
  <2> DEFINE g == [i \in 0 .. n + 1 |-> IF i = n + 1 THEN FatNext(k, f[n]) ELSE f[i]]
             h == WalkBody(k, cl, g, n + 1)
  <2>2. \A i \in 0 .. n + 1 : g[i] = h[i]
    <3> SUFFICES ASSUME NEW i \in 0 .. n + 1 PROVE g[i] = h[i]
      OBVIOUS
    <3>1. h[i] = IF i = 0 THEN cl ELSE FatNext(k, g[i - 1])
      BY DEF WalkBody
    <3>2. CASE i = n + 1
      <4>1. g[i - 1] = f[n]
        BY <3>2
      <4>2. QED
        BY <3>1, <3>2, <4>1
    <3>3. CASE i # n + 1
      <4>1. i \in 0 .. n /\ g[i] = f[i]
        BY <3>3
      <4>2. f[i] = IF i = 0 THEN cl ELSE FatNext(k, f[i - 1])
        BY <2>1, <4>1 DEF WalkBody
      <4>3. i # 0 => g[i - 1] = f[i - 1]
        BY <4>1
      <4>4. QED
        BY <3>1, <4>1, <4>2, <4>3
    <3>4. QED
      BY <3>2, <3>3
  <2>3. g = h
    <3>1. h = [i \in 0 .. n + 1 |-> h[i]]
      BY DEF WalkBody
    <3>2. QED
      BY <2>2, <3>1
  <2>4. QED
    BY <2>3
<1>3. QED
  <2> HIDE DEF S
  <2>1. \A n \in Nat : n \in S
    BY <1>1, <1>2, NatAll
  <2>2. QED
    BY <2>1 DEF S

(* Two walks from one cluster agree as far as both go. *)
LEMMA WalksAgree ==
  ASSUME NEW k, NEW cl, NEW n \in Nat, NEW m \in Nat, NEW f, NEW g,
         f = WalkBody(k, cl, f, n), g = WalkBody(k, cl, g, m)
  PROVE  \A i \in Nat : i <= n /\ i <= m => f[i] = g[i]
<1> DEFINE S == {i \in Nat : i <= n /\ i <= m => f[i] = g[i]}
<1>1. \A i \in 0 .. n : f[i] = IF i = 0 THEN cl ELSE FatNext(k, f[i - 1])
  BY DEF WalkBody
<1>2. \A i \in 0 .. m : g[i] = IF i = 0 THEN cl ELSE FatNext(k, g[i - 1])
  BY DEF WalkBody
<1>3. 0 \in S
  BY <1>1, <1>2
<1>4. ASSUME NEW i \in Nat, i \in S PROVE i + 1 \in S
  <2>1. CASE ~(i + 1 <= n /\ i + 1 <= m)
    BY <2>1
  <2>2. CASE i + 1 <= n /\ i + 1 <= m
    <3>1. f[i] = g[i]
      BY <1>4, <2>2
    <3>2. i + 1 \in 0 .. n /\ i + 1 \in 0 .. m /\ i + 1 # 0 /\ (i + 1) - 1 = i
      BY <2>2
    <3>3. f[i + 1] = FatNext(k, f[i]) /\ g[i + 1] = FatNext(k, g[i])
      BY <1>1, <1>2, <3>2
    <3>4. QED
      BY <3>1, <3>3
  <2>3. QED
    BY <2>1, <2>2
<1>5. QED
  <2> HIDE DEF S
  <2>1. \A i \in Nat : i \in S
    BY <1>3, <1>4, NatAll
  <2>2. QED
    BY <2>1 DEF S

(* Walk, without the function that computes it. *)
LEMMA WalkIs ==
  ASSUME NEW k, NEW cl
  PROVE  /\ Walk(k, cl, 0) = cl
         /\ \A n \in Nat : Walk(k, cl, n + 1) = FatNext(k, Walk(k, cl, n))
<1> DEFINE W(n) == CHOOSE f : f = WalkBody(k, cl, f, n)
<1>1. ASSUME NEW n \in Nat
      PROVE  W(n) = WalkBody(k, cl, W(n), n) /\ Walk(k, cl, n) = W(n)[n]
  <2>1. W(n) = WalkBody(k, cl, W(n), n)
    BY WalkExists
  <2>2. Walk(k, cl, n) = W(n)[n]
    BY DEF Walk, WalkBody
  <2>3. QED
    BY <2>1, <2>2
<1> HIDE DEF W
<1>2. Walk(k, cl, 0) = cl
  BY <1>1 DEF WalkBody
<1>3. ASSUME NEW n \in Nat
      PROVE  Walk(k, cl, n + 1) = FatNext(k, Walk(k, cl, n))
  <2>1. n + 1 \in Nat /\ n + 1 \in 0 .. n + 1 /\ n + 1 # 0 /\ (n + 1) - 1 = n
    OBVIOUS
  <2>2. W(n + 1)[n + 1] = FatNext(k, W(n + 1)[n])
    BY <1>1, <2>1 DEF WalkBody
  <2>3. W(n + 1)[n] = W(n)[n]
    <3>1. n <= n /\ n <= n + 1
      OBVIOUS
    <3>2. QED
      BY <1>1, <2>1, <3>1, WalksAgree
  <2>4. QED
    BY <1>1, <2>1, <2>2, <2>3
<1>4. QED
  BY <1>2, <1>3

(* The clusters walked over are linked each to the next. *)
LEMMA WalkLinks ==
  ASSUME NEW k, IsCard(k), NEW cl, NEW n \in Nat, Walk(k, cl, n) \in Cluster
  PROVE  /\ \A i \in 0 .. n : Walk(k, cl, i) \in Cluster
         /\ \A i \in 0 .. n - 1 : Fat(k, Walk(k, cl, i)) = Walk(k, cl, i + 1)
<1> DEFINE S == {m \in Nat : m <= n => /\ Walk(k, cl, n - m) \in Cluster
                                       /\ m > 0 => Fat(k, Walk(k, cl, n - m))
                                                   = Walk(k, cl, (n - m) + 1)}
<1>1. 0 \in S
  OBVIOUS
<1>2. ASSUME NEW m \in Nat, m \in S PROVE m + 1 \in S
  <2>1. CASE m + 1 > n
    BY <2>1
  <2>2. CASE m + 1 <= n
    <3> DEFINE i == n - (m + 1)
    <3>1. i \in Nat /\ i + 1 = n - m /\ m <= n
      BY <2>2
    <3>2. Walk(k, cl, n - m) \in Cluster
      BY <1>2, <3>1
    <3>3. Walk(k, cl, i + 1) = FatNext(k, Walk(k, cl, i))
      BY <3>1, WalkIs
    <3>4. FatNext(k, Walk(k, cl, i)) \in Cluster
      BY <3>1, <3>2, <3>3
    <3>5. Walk(k, cl, i) \in Cluster
          /\ Fat(k, Walk(k, cl, i)) = FatNext(k, Walk(k, cl, i))
      BY <3>4, FatValues DEF FatNext
    <3>6. Walk(k, cl, i) \in Cluster /\ Fat(k, Walk(k, cl, i)) = Walk(k, cl, i + 1)
      BY <3>3, <3>5
    <3>7. m + 1 \in Nat
      OBVIOUS
    <3>8. QED
      BY <3>6, <3>7
  <2>3. QED
    BY <2>1, <2>2
<1>3. \A m \in Nat : m \in S
  <2> HIDE DEF S
  <2>1. QED
    BY <1>1, <1>2, NatAll
<1>4. ASSUME NEW i \in 0 .. n PROVE Walk(k, cl, i) \in Cluster
  <2>1. n - i \in Nat /\ n - i <= n /\ n - (n - i) = i
    OBVIOUS
  <2>2. n - i \in S
    BY <1>3, <2>1
  <2>3. QED
    BY <2>1, <2>2
<1>5. ASSUME NEW i \in 0 .. n - 1 PROVE Fat(k, Walk(k, cl, i)) = Walk(k, cl, i + 1)
  <2>1. n - i \in Nat /\ n - i <= n /\ n - (n - i) = i /\ n - i > 0
    OBVIOUS
  <2>2. n - i \in S
    BY <1>3, <2>1
  <2>3. QED
    BY <2>1, <2>2
<1>6. QED
  BY <1>4, <1>5

(* The first n clusters of a walk down a chain of k are linked the same    *)
(* in j.                                                                   *)
SameLinks(j, k, cl, n) ==
  \A i \in 0 .. n - 1 : Fat(j, Walk(k, cl, i)) = Fat(k, Walk(k, cl, i))

(* Where the links are the same, so is the walk. *)
LEMMA WalkFrame ==
  ASSUME NEW j, NEW k, NEW cl, NEW n \in Nat, SameLinks(j, k, cl, n)
  PROVE  \A i \in 0 .. n : Walk(j, cl, i) = Walk(k, cl, i)
<1> DEFINE S == {i \in Nat : i <= n => Walk(j, cl, i) = Walk(k, cl, i)}
<1>1. 0 \in S
  BY WalkIs
<1>2. ASSUME NEW i \in Nat, i \in S PROVE i + 1 \in S
  <2>1. CASE i + 1 > n
    BY <2>1
  <2>2. CASE i + 1 <= n
    <3>1. i \in 0 .. n - 1
      BY <2>2
    <3>2. Walk(j, cl, i) = Walk(k, cl, i)
      BY <1>2, <3>1
    <3>3. Fat(j, Walk(k, cl, i)) = Fat(k, Walk(k, cl, i))
      BY <3>1 DEF SameLinks
    <3>4. FatNext(j, Walk(j, cl, i)) = FatNext(k, Walk(k, cl, i))
      BY <3>2, <3>3 DEF FatNext
    <3>5. Walk(j, cl, i + 1) = FatNext(j, Walk(j, cl, i))
      BY WalkIs
    <3>6. Walk(k, cl, i + 1) = FatNext(k, Walk(k, cl, i))
      BY WalkIs
    <3>7. QED
      BY <3>4, <3>5, <3>6
  <2>3. QED
    BY <2>1, <2>2
<1>3. QED
  <2> HIDE DEF S
  <2>1. \A i \in Nat : i \in S
    BY <1>1, <1>2, NatAll
  <2>2. QED
    BY <2>1 DEF S

(* What a walk from an entry's first cluster comes to is pointed to. *)
LEMMA WalkPointed ==
  ASSUME NEW k, IsCard(k), NEW e \in Entry, Used(k, e), NEW n \in Nat,
         Walk(k, Ent(k, e).sclust, n) \in Cluster
  PROVE  Points(k, Walk(k, Ent(k, e).sclust, n))
<1> DEFINE s == Ent(k, e).sclust
<1>1. CASE n = 0
  BY <1>1, WalkIs DEF Points
<1>2. CASE n # 0
  <2>1. n - 1 \in Nat /\ (n - 1) + 1 = n /\ n - 1 \in 0 .. n - 1 /\ n - 1 \in 0 .. n
    BY <1>2
  <2>2. Walk(k, s, n - 1) \in Cluster /\ Fat(k, Walk(k, s, n - 1)) = Walk(k, s, n)
    BY <2>1, WalkLinks
  <2>3. QED
    BY <2>2 DEF Points
<1>3. QED
  BY <1>1, <1>2

(* On a sound card a cluster is walked over once, and from one entry. *)
LEMMA WalkOnce ==
  ASSUME NEW k, IsCard(k), SoundChains(k),
         NEW e \in Entry, NEW g \in Entry, Used(k, e), Used(k, g)
  PROVE  \A i, j \in Nat :
           LET c == Walk(k, Ent(k, e).sclust, i)
           IN  c \in Cluster /\ c = Walk(k, Ent(k, g).sclust, j) => e = g /\ i = j
<1> DEFINE s == Ent(k, e).sclust
           t == Ent(k, g).sclust
           S == {i \in Nat : \A j \in Nat :
                   Walk(k, s, i) \in Cluster /\ Walk(k, s, i) = Walk(k, t, j)
                   => e = g /\ i = j}
<1>1. ASSUME NEW h \in Entry, Used(k, h), NEW j \in Nat, j # 0,
             Walk(k, Ent(k, h).sclust, j) \in Cluster
      PROVE  /\ j - 1 \in Nat
             /\ Walk(k, Ent(k, h).sclust, j - 1) \in Cluster
             /\ Fat(k, Walk(k, Ent(k, h).sclust, j - 1)) = Walk(k, Ent(k, h).sclust, j)
  <2>1. j - 1 \in Nat /\ (j - 1) + 1 = j /\ j - 1 \in 0 .. j - 1 /\ j - 1 \in 0 .. j
    BY <1>1
  <2>2. QED
    BY <1>1, <2>1, WalkLinks
<1>2. 0 \in S
  <2> SUFFICES ASSUME NEW j \in Nat, s \in Cluster, s = Walk(k, t, j)
               PROVE  e = g /\ 0 = j
    BY WalkIs
  <2>1. j = 0
    BY <1>1 DEF SoundChains, StartUnlinked
  <2>2. s = t
    BY <2>1, WalkIs
  <2>3. QED
    BY <2>1, <2>2 DEF SoundChains, StartInjective
<1>3. ASSUME NEW i \in Nat, i \in S PROVE i + 1 \in S
  <2> SUFFICES ASSUME NEW j \in Nat, Walk(k, s, i + 1) \in Cluster,
                      Walk(k, s, i + 1) = Walk(k, t, j)
               PROVE  e = g /\ i + 1 = j
    OBVIOUS
  <2>1. i + 1 \in Nat /\ i + 1 # 0 /\ (i + 1) - 1 = i
    OBVIOUS
  <2>2. Walk(k, s, i) \in Cluster /\ Fat(k, Walk(k, s, i)) = Walk(k, s, i + 1)
    BY <1>1, <2>1
  <2>3. j # 0
    <3>1. SUFFICES ASSUME j = 0 PROVE FALSE
      OBVIOUS
    <3>2. Walk(k, s, i + 1) = t
      BY <3>1, WalkIs
    <3>3. QED
      BY <2>2, <3>2 DEF SoundChains, StartUnlinked
  <2>4. j - 1 \in Nat /\ Walk(k, t, j - 1) \in Cluster
        /\ Fat(k, Walk(k, t, j - 1)) = Walk(k, t, j)
    BY <1>1, <2>3
  <2>5. Walk(k, s, i) = Walk(k, t, j - 1)
    BY <2>2, <2>4 DEF SoundChains, LinkInjective
  <2>6. e = g /\ i = j - 1
    BY <1>3, <2>2, <2>4, <2>5
  <2>7. QED
    BY <2>6
<1>4. QED
  <2> HIDE DEF S
  <2>1. \A i \in Nat : i \in S
    BY <1>2, <1>3, NatAll
  <2>2. QED
    BY <2>1 DEF S

-----------------------------------------------------------------------------
(***************************************************************************)
(* The invariant.                                                          *)
(***************************************************************************)
(* No error makes the library forget a change: the card does not fail, or  *)
(* no host lends the buffer to be kept.                                    *)
NothingDropped == Faults => "kept" \notin Lendings

LoanOK == lent \in Lendings \cup {"none"}

(* The entry of an open slot is in use: no new file is given it. *)
WritersOpen == \A f \in Handle : Has(f, "WR") => Has(f, "OPEN")
Named == \A f \in Handle : Has(f, "OPEN") => Used(View, files[f].ent)

(* The slot r is where a walk down its chain in k to position p ends. *)
Stands(k, r, p) ==
  IF p = 0 THEN r.cclust = 0 /\ r.csect = 0
  ELSE /\ Walk(k, r.sclust, Steps(p)) \in Cluster
       /\ r.cclust = Walk(k, r.sclust, Steps(p))
       /\ r.csect = ClustSect(r.cclust) + (((p - 1) \div UPS) % SPC)

(* It is in the last of the n clusters of its chain. *)
AtEnd(k, r, n) ==
  IF n = 0 THEN r.cclust = 0 /\ r.sclust = 0
  ELSE /\ Walk(k, r.sclust, n - 1) \in Cluster
       /\ r.cclust = Walk(k, r.sclust, n - 1)
       /\ Fat(k, r.cclust) = EOC

(* The cluster new has been taken for it, to be the next of its chain. *)
Extends(k, r, n, new) == AtEnd(k, r, n) /\ r.csect = ClustSect(new)

Resting(k, r) ==
  /\ r.fptr <= r.fsize
  /\ Ent(k, r.ent).sclust = r.sclust
  /\ Stands(k, r, r.fptr)

(* Where a call in progress, at its step at, has got with its slot r. *)
InAlloc(k, r) == (r.fptr % UPC) = 0 /\ AtEnd(k, r, r.fptr \div UPC)
InMove(k, r, new) ==
  IF "NEWCL" \notin r.flags THEN Stands(k, r, r.fptr + 1)
  ELSE (r.fptr % UPC) = 0 /\ Extends(k, r, r.fptr \div UPC, new)
InLink(k, r, new) ==
  /\ r.fptr > 0 /\ (((r.fptr - 1) \div UPS) % SPC) = 0
  /\ Extends(k, r, Steps(r.fptr), new)
Placed(k, r, at, new) ==
  /\ r.fptr <= r.fsize
  /\ at # "size" => Ent(k, r.ent).sclust = r.sclust
  /\ at \notin {"move", "link", "join"} => Stands(k, r, r.fptr)
  /\ at = "alloc" => InAlloc(k, r)
  /\ at = "move" => InMove(k, r, new)
  /\ at \in {"link", "join"} => InLink(k, r, new)

Phase(f) == IF f = call.fh THEN pc ELSE "idle"
AllPlaced ==
  \A f \in Handle : Live(f) => Placed(View, files[f], Phase(f), NewClust)

PosInv == LoanOK /\ WritersOpen /\ Named /\ WriterExcludes /\ AllPlaced

(* A slot that no step of the call in progress has moved on. *)
Rests(f) == f = call.fh => pc \notin {"alloc", "move", "link", "join", "size"}

(* Such a slot is where its position says. *)
LEMMA RestsPlaced ==
  ASSUME NEW f \in Handle, Rests(f)
  PROVE  \A k, r, new : Placed(k, r, Phase(f), new) <=> Resting(k, r)
BY DEF Rests, Phase, Placed, Resting

(* What the contents j must share with k for the slot r to rest in them. *)
Leaves(j, k, r) ==
  /\ Ent(j, r.ent).sclust = Ent(k, r.ent).sclust
  /\ SameLinks(j, k, r.sclust, Steps(r.fptr))

(* Sizes are positive. *)
LEMMA UnitsOK ==
  /\ UPS \in Nat /\ UPS > 0 /\ SPC \in Nat /\ SPC > 0
  /\ UPC \in Nat /\ UPC > 0 /\ UPC = SPC * UPS
<1>1. UPS \in Nat /\ UPS > 0 /\ SPC \in Nat /\ SPC > 0
  BY GeometryAssumption
<1>2. SPC * UPS \in Nat /\ SPC * UPS > 0
  BY <1>1
<1>3. QED
  BY <1>1, <1>2 DEF UPC

(* The steps of a walk to a position. *)
LEMMA StepsNat ==
  ASSUME NEW p \in Nat
  PROVE  Steps(p) \in Nat /\ (p > 0 => Steps(p) = (p - 1) \div UPC)
<1>1. CASE p = 0
  BY <1>1 DEF Steps
<1>2. CASE p > 0
  <2>1. p - 1 \in Nat
    BY <1>2
  <2>2. (p - 1) \div UPC \in Nat
    BY <2>1, UnitsOK
  <2>3. QED
    BY <1>2, <2>2 DEF Steps
<1>3. QED
  BY <1>1, <1>2

(* A slot stands where it stood as long as the links to there are left. *)
LEMMA StandsFrame ==
  ASSUME NEW j, NEW k, NEW r, NEW p \in Nat,
         SameLinks(j, k, r.sclust, Steps(p)), Stands(k, r, p)
  PROVE  Stands(j, r, p)
<1>1. Walk(j, r.sclust, Steps(p)) = Walk(k, r.sclust, Steps(p))
  <2> DEFINE n == Steps(p)
             s == r.sclust
  <2>1. n \in Nat /\ n \in 0 .. n
    BY StepsNat
  <2>2. \A i \in 0 .. n : Walk(j, s, i) = Walk(k, s, i)
    BY <2>1, WalkFrame
  <2>3. QED
    BY <2>1, <2>2
<1>2. QED
  BY <1>1 DEF Stands

(* So does it rest. *)
LEMMA LeavesRests ==
  ASSUME NEW j, NEW k, NEW r \in Slot, Leaves(j, k, r), Resting(k, r)
  PROVE  Resting(j, r)
<1>1. r.fptr \in Nat
  BY DEF Slot
<1>2. QED
  BY <1>1, StandsFrame DEF Leaves, Resting

(* A change of data moves nothing. *)
LEMMA MetaLeaves ==
  ASSUME NEW j, NEW k, Meta(j, k), IsCard(k), NEW r \in Slot
  PROVE  /\ Used(k, r.ent) => Used(j, r.ent)
         /\ Ent(j, r.ent).sclust = Ent(k, r.ent).sclust
         /\ Stands(k, r, r.fptr) => Leaves(j, k, r)
<1>1. r.ent \in Entry /\ r.fptr \in Nat
  BY DEF Slot
<1>2. Ent(j, r.ent) = Ent(k, r.ent)
  BY <1>1 DEF Meta
<1>3. ASSUME Stands(k, r, r.fptr), NEW i \in 0 .. Steps(r.fptr) - 1
      PROVE  Fat(j, Walk(k, r.sclust, i)) = Fat(k, Walk(k, r.sclust, i))
  <2>1. r.fptr # 0 /\ Steps(r.fptr) \in Nat /\ i \in 0 .. Steps(r.fptr)
    BY <1>1, <1>3, StepsNat DEF Steps
  <2>2. Walk(k, r.sclust, Steps(r.fptr)) \in Cluster
    BY <1>3, <2>1 DEF Stands
  <2>3. Walk(k, r.sclust, i) \in Cluster
    BY <2>1, <2>2, WalkLinks
  <2>4. QED
    BY <2>3 DEF Meta
<1>4. QED
  BY <1>2, <1>3 DEF Used, Leaves, SameLinks

-----------------------------------------------------------------------------
(* Steps.                                                                  *)

(* The slot r is that of a handle that still works. *)
Able(r) == "OPEN" \in r.flags /\ "FAILED" \notin r.flags

(* Live speaks of the slot of a handle. *)
LEMMA LiveAble ==
  ASSUME NEW f \in Handle
  PROVE  (Live(f) <=> Able(files[f])) /\ (Live(f)' <=> Able(files'[f]))
BY DEF Live, Able, Has

(* The slot r gives no more rights than q, to the same file. *)
NoMore(r, q) ==
  /\ "OPEN" \in r.flags => "OPEN" \in q.flags /\ r.ent = q.ent
  /\ "WR" \in r.flags => "WR" \in q.flags /\ r.ent = q.ent
  /\ "WR" \in r.flags /\ "OPEN" \in q.flags => "OPEN" \in r.flags

(* A milder slot gives no more, nor does a closed one. *)
LEMMA MilderNoMore ==
  ASSUME NEW r, NEW q, Milder(r, q) \/ r = FreeSlot
  PROVE  NoMore(r, q)
BY FreeSlotOK DEF NoMore, Milder

(* A step that works on the slot g and leaves the others alone. *)
LEMMA PosStep ==
  ASSUME CardInv, CardInv', PosInv, LoanOK', NEW g \in Handle,
         \A f \in Handle : f # g =>
           files'[f] = files[f] /\ Rests(f) /\ Rests(f)',
         \A f \in Handle : f # g /\ Has(f, "OPEN") =>
           /\ Used(View', files[f].ent)
           /\ Live(f) => Leaves(View', View, files[f]),
         "OPEN" \in files'[g].flags => Used(View', files'[g].ent),
         "WR" \in files'[g].flags => "OPEN" \in files'[g].flags,
         \A f \in Handle : f # g =>
           /\ Has(f, "OPEN") /\ "WR" \in files'[g].flags => files[f].ent # files'[g].ent
           /\ Has(f, "WR") /\ "OPEN" \in files'[g].flags => files[f].ent # files'[g].ent,
         Live(g)' => Placed(View', files'[g], Phase(g)', NewClust')
  PROVE  PosInv'
<1>1. Named'
  <2> SUFFICES ASSUME NEW f \in Handle, "OPEN" \in files'[f].flags
               PROVE  Used(View', files'[f].ent)
    BY DEF Named, Has
  <2>1. CASE f = g
    BY <2>1
  <2>2. CASE f # g
    BY <2>2 DEF Has
  <2>3. QED
    BY <2>1, <2>2
<1>2. WriterExcludes'
  <2> SUFFICES ASSUME NEW e \in Handle, NEW f \in Handle, e # f,
                      "WR" \in files'[e].flags, "OPEN" \in files'[f].flags
               PROVE  files'[e].ent # files'[f].ent
    BY DEF WriterExcludes, Has
  <2>1. CASE e = g
    BY <2>1 DEF Has
  <2>2. CASE f = g
    BY <2>2 DEF Has
  <2>3. CASE e # g /\ f # g
    BY <2>3 DEF PosInv, WriterExcludes, Has
  <2>4. QED
    BY <2>1, <2>2, <2>3
<1>3. AllPlaced'
  <2> SUFFICES ASSUME NEW f \in Handle, Live(f)'
               PROVE  Placed(View', files'[f], Phase(f)', NewClust')
    BY DEF AllPlaced
  <2>1. CASE f = g
    BY <2>1
  <2>2. CASE f # g
    <3>1. files'[f] = files[f] /\ Rests(f) /\ Rests(f)'
      BY <2>2
    <3>2. Live(f) /\ Has(f, "OPEN")
      BY <3>1 DEF Live, Has
    <3>3. Resting(View, files[f])
      BY <3>1, <3>2, RestsPlaced DEF PosInv, AllPlaced
    <3>4. files[f] \in Slot
      BY DEF CardInv, IndInv, CtrlOK
    <3>5. Resting(View', files[f])
      BY <2>2, <3>2, <3>3, <3>4, LeavesRests
    <3>6. Phase(f)' \notin {"alloc", "move", "link", "join", "size"}
      BY <3>1 DEF Rests, Phase
    <3>7. QED
      BY <3>1, <3>5, <3>6 DEF Placed, Resting
  <2>3. QED
    BY <2>1, <2>2
<1>4. WritersOpen'
  BY DEF PosInv, WritersOpen, Has
<1>5. QED
  BY <1>1, <1>2, <1>3, <1>4 DEF PosInv

(* What a card changes elsewhere leaves a slot where it stands. *)
LEMMA KeepsLinks ==
  ASSUME NEW j, NEW k, IsCard(k), NEW r \in Slot, Stands(k, r, r.fptr),
         Ent(j, r.ent).sclust = Ent(k, r.ent).sclust,
         \A i \in 0 .. Steps(r.fptr) - 1 :
           Walk(k, r.sclust, i) \in Cluster
           /\ Fat(k, Walk(k, r.sclust, i)) = Walk(k, r.sclust, i + 1)
           /\ Walk(k, r.sclust, i + 1) \in Cluster
           => Fat(j, Walk(k, r.sclust, i)) = Fat(k, Walk(k, r.sclust, i))
  PROVE  Leaves(j, k, r)
<1>1. r.fptr \in Nat /\ Steps(r.fptr) \in Nat
  BY StepsNat DEF Slot
<1>2. SUFFICES ASSUME NEW i \in 0 .. Steps(r.fptr) - 1
               PROVE  Fat(j, Walk(k, r.sclust, i)) = Fat(k, Walk(k, r.sclust, i))
  BY DEF Leaves, SameLinks
<1>3. r.fptr # 0 /\ i \in 0 .. Steps(r.fptr) /\ i + 1 \in 0 .. Steps(r.fptr)
  BY <1>1, <1>2 DEF Steps
<1>4. Walk(k, r.sclust, Steps(r.fptr)) \in Cluster
  BY <1>3 DEF Stands
<1>5. /\ Walk(k, r.sclust, i) \in Cluster /\ Walk(k, r.sclust, i + 1) \in Cluster
      /\ Fat(k, Walk(k, r.sclust, i)) = Walk(k, r.sclust, i + 1)
  BY <1>1, <1>2, <1>3, <1>4, WalkLinks
<1>6. QED
  BY <1>5

(* A directory entry is written, and it is another's. *)
LEMMA EntLeaves ==
  ASSUME NEW k, IsCard(k), NEW e \in Entry, NEW q \in DirEnt,
         NEW r \in Slot, r.ent # e
  PROVE  LET j == SetEnt(k, e, q)
         IN  /\ Used(k, r.ent) => Used(j, r.ent)
             /\ Stands(k, r, r.fptr) => Leaves(j, k, r)
<1> DEFINE j == SetEnt(k, e, q)
<1>1. r.ent \in Entry
  BY DEF Slot
<1>2. Ent(j, r.ent) = Ent(k, r.ent) /\ \A c \in Cluster : Fat(j, c) = Fat(k, c)
  BY <1>1, SetEntCard
<1> HIDE DEF j
<1>3. Stands(k, r, r.fptr) => Leaves(j, k, r)
  BY <1>2, KeepsLinks
<1>4. QED
  BY <1>2, <1>3 DEF j, Used

(* An entry of the FAT is written, and the walk does not go on from there. *)
LEMMA FatLeaves ==
  ASSUME NEW k, IsCard(k), NEW c \in Cluster, NEW v \in FatValue, NEW r \in Slot,
         Stands(k, r, r.fptr),
         \/ Fat(k, c) \notin Cluster
         \/ \A i \in 0 .. Steps(r.fptr) - 1 : Walk(k, r.sclust, i) # c
  PROVE  Leaves(SetFat(k, c, v), k, r)
<1> DEFINE j == SetFat(k, c, v)
<1>1. r.ent \in Entry
  BY DEF Slot
<1>2. /\ Ent(j, r.ent) = Ent(k, r.ent)
      /\ \A d \in Cluster : d # c => Fat(j, d) = Fat(k, d)
  BY <1>1, SetFatCard
<1> HIDE DEF j
<1>3. Leaves(j, k, r)
  BY <1>2, KeepsLinks
<1>4. QED
  BY <1>3 DEF j

(* A change of the FAT leaves the names. *)
LEMMA FatUsed ==
  ASSUME NEW k, IsCard(k), NEW c \in Cluster, NEW v \in FatValue, NEW e \in Entry
  PROVE  Used(SetFat(k, c, v), e) = Used(k, e)
         /\ Ent(SetFat(k, c, v), e) = Ent(k, e)
BY SetFatCard DEF Used

(* A cluster that nothing points to is in no walk. *)
LEMMA UnpointedLeaves ==
  ASSUME NEW k, IsCard(k), NEW c \in Cluster, NEW v \in FatValue, NEW r \in Slot,
         Resting(k, r), Used(k, r.ent), ~Points(k, c)
  PROVE  Leaves(SetFat(k, c, v), k, r)
<1>1. r.ent \in Entry /\ r.fptr \in Nat /\ Steps(r.fptr) \in Nat
  BY StepsNat DEF Slot
<1>2. Ent(k, r.ent).sclust = r.sclust /\ Stands(k, r, r.fptr)
  BY DEF Resting
<1>3. ASSUME NEW i \in 0 .. Steps(r.fptr) - 1 PROVE Walk(k, r.sclust, i) # c
  <2>1. i \in Nat
    BY <1>1
  <2>2. Walk(k, r.sclust, i) \in Cluster => Points(k, Walk(k, r.sclust, i))
    BY <1>1, <1>2, <2>1, WalkPointed
  <2>3. QED
    BY <2>2
<1>4. QED
  BY <1>2, <1>3, FatLeaves

(* A cluster in the chain of one file is in no walk down another's. *)
LEMMA OtherLeaves ==
  ASSUME NEW k, IsCard(k), SoundChains(k), NEW v \in FatValue,
         NEW r \in Slot, Resting(k, r), Used(k, r.ent),
         NEW e \in Entry, Used(k, e), e # r.ent, NEW n \in Nat,
         Walk(k, Ent(k, e).sclust, n) \in Cluster
  PROVE  Leaves(SetFat(k, Walk(k, Ent(k, e).sclust, n), v), k, r)
<1> DEFINE c == Walk(k, Ent(k, e).sclust, n)
<1>1. r.ent \in Entry /\ r.fptr \in Nat /\ Steps(r.fptr) \in Nat
  BY StepsNat DEF Slot
<1>2. Ent(k, r.ent).sclust = r.sclust /\ Stands(k, r, r.fptr)
  BY DEF Resting
<1>3. ASSUME NEW i \in 0 .. Steps(r.fptr) - 1 PROVE Walk(k, r.sclust, i) # c
  <2>1. i \in Nat
    BY <1>1
  <2>2. QED
    BY <1>1, <1>2, <2>1, WalkOnce
<1>4. c \in Cluster
  OBVIOUS
<1> HIDE DEF c
<1>5. Leaves(SetFat(k, c, v), k, r)
  BY <1>2, <1>3, <1>4, FatLeaves
<1>6. QED
  BY <1>5 DEF c

-----------------------------------------------------------------------------
(* The kinds of step.                                                      *)

(* A step that may give up rights of the slot g. *)
LEMMA PosMild ==
  ASSUME CardInv, CardInv', PosInv, LoanOK', NEW g \in Handle,
         \A f \in Handle : f # g =>
           files'[f] = files[f] /\ Rests(f) /\ Rests(f)',
         \A f \in Handle : Has(f, "OPEN") => Used(View', files[f].ent),
         \A f \in Handle : f # g /\ Live(f) => Leaves(View', View, files[f]),
         NoMore(files'[g], files[g]),
         Live(g)' => Placed(View', files'[g], Phase(g)', NewClust')
  PROVE  PosInv'
<1>1. "OPEN" \in files'[g].flags => Used(View', files'[g].ent)
  BY DEF NoMore, Has
<1>2. \A f \in Handle : f # g =>
        /\ Has(f, "OPEN") /\ "WR" \in files'[g].flags => files[f].ent # files'[g].ent
        /\ Has(f, "WR") /\ "OPEN" \in files'[g].flags => files[f].ent # files'[g].ent
  BY DEF NoMore, Has, PosInv, WriterExcludes
<1>3. "WR" \in files'[g].flags => "OPEN" \in files'[g].flags
  BY DEF NoMore, Has, PosInv, WritersOpen
<1>4. QED
  BY <1>1, <1>2, <1>3, PosStep

(* A step that leaves the FAT and the directory as they are read. *)
LEMMA PosQuiet ==
  ASSUME CardInv, CardInv', PosInv, LoanOK', Meta(View', View), NEW g \in Handle,
         \A f \in Handle : f # g =>
           files'[f] = files[f] /\ Rests(f) /\ Rests(f)',
         NoMore(files'[g], files[g]),
         Live(g)' => Placed(View', files'[g], Phase(g)', NewClust')
  PROVE  PosInv'
<1>1. IsCard(View) /\ \A f \in Handle : files[f] \in Slot
  BY ViewCard DEF CardInv, IndInv, CtrlOK
<1>2. \A f \in Handle : Has(f, "OPEN") => Used(View', files[f].ent)
  BY <1>1, MetaLeaves DEF PosInv, Named
<1>3. ASSUME NEW f \in Handle, f # g, Live(f) PROVE Leaves(View', View, files[f])
  <2>1. Stands(View, files[f], files[f].fptr)
    BY <1>3, RestsPlaced DEF PosInv, AllPlaced, Resting
  <2>2. QED
    BY <2>1, <1>1, MetaLeaves
<1>4. QED
  BY <1>2, <1>3, PosMild

(* Contents that are read the same differ in nothing. *)
LEMMA SameMeta == ASSUME View' = View PROVE Meta(View', View)
BY DEF Meta

(* A slot that rests does so where only data differs. *)
LEMMA MetaResting ==
  ASSUME NEW j, NEW k, Meta(j, k), IsCard(k), NEW r \in Slot, Resting(k, r)
  PROVE  Resting(j, r)
BY MetaLeaves, LeavesRests DEF Resting

(* The step of the call in progress works on its own slot. *)
LEMMA OthersRest ==
  ASSUME NEW f \in Handle
  PROVE  /\ f # call.fh => Rests(f)
         /\ pc \notin {"alloc", "move", "link", "join", "size"} => Rests(f)
BY DEF Rests

(* No slot changes, nor what it rests on. *)
LEMMA PosSame ==
  ASSUME CardInv, CardInv', PosInv, LoanOK', UNCHANGED files,
         \A f \in Handle : Rests(f) /\ Rests(f)',
         \A f \in Handle : Has(f, "OPEN") => Used(View', files[f].ent),
         \A f \in Handle : Live(f) => Leaves(View', View, files[f])
  PROVE  PosInv'
<1>1. PICK g \in Handle : TRUE
  BY FreeSlotOK
<1>2. NoMore(files'[g], files[g])
  BY DEF NoMore
<1>3. Live(g)' => Placed(View', files'[g], Phase(g)', NewClust')
  <2> SUFFICES ASSUME Live(g)' PROVE Placed(View', files'[g], Phase(g)', NewClust')
    OBVIOUS
  <2>1. Live(g) /\ files'[g] = files[g] /\ files[g] \in Slot
    BY DEF Live, Has, CardInv, IndInv, CtrlOK
  <2>2. Resting(View, files[g])
    BY <2>1, RestsPlaced DEF PosInv, AllPlaced
  <2>3. Resting(View', files[g])
    BY <2>1, <2>2, LeavesRests
  <2>4. Phase(g)' \notin {"alloc", "move", "link", "join", "size"}
    BY DEF Rests, Phase
  <2>5. QED
    BY <2>1, <2>3, <2>4 DEF Placed, Resting
<1>4. QED
  BY <1>2, <1>3, PosMild

(* The same where only data changes. *)
LEMMA PosSameQuiet ==
  ASSUME CardInv, CardInv', PosInv, LoanOK', UNCHANGED files, Meta(View', View),
         \A f \in Handle : Rests(f) /\ Rests(f)'
  PROVE  PosInv'
<1>1. IsCard(View) /\ \A f \in Handle : files[f] \in Slot
  BY ViewCard DEF CardInv, IndInv, CtrlOK
<1>2. \A f \in Handle : Has(f, "OPEN") => Used(View', files[f].ent)
  BY <1>1, MetaLeaves DEF PosInv, Named
<1>3. ASSUME NEW f \in Handle, Live(f) PROVE Leaves(View', View, files[f])
  <2>1. Stands(View, files[f], files[f].fptr)
    BY <1>3, RestsPlaced DEF PosInv, AllPlaced, Resting
  <2>2. QED
    BY <2>1, <1>1, MetaLeaves
<1>4. QED
  BY <1>2, <1>3, PosSame

(* A step after which the call is over, or goes on with no slot moved on.  *)
LEMMA RestAll ==
  ASSUME NEW f \in Handle
  PROVE  pc' \notin {"alloc", "move", "link", "join", "size"} => Rests(f)'
BY DEF Rests

(* A step that fails gives up its slot. *)
LEMMA FailSlotDead ==
  ASSUME CardInv, FailSlot
  PROVE  \/ UNCHANGED files
            /\ call.op \notin {"read", "write", "truncate", "sync", "open", "close", "unmount"}
         \/ /\ \A f \in Handle : f # call.fh => files'[f] = files[f]
            /\ NoMore(files'[call.fh], files[call.fh])
            /\ ~Able(files'[call.fh])
<1>1. call.fh \in Handle /\ Cur \in Slot /\ Cur = files[call.fh]
  BY CurOK DEF CardInv
<1>2. files \in [Handle -> Slot]
  BY DEF CardInv, IndInv, CtrlOK
<1>3. CASE call.op \in {"read", "write", "truncate", "sync"}
  <2>1. \E off \in SUBSET {"DIRTY"} : SetSlot(call.fh, With(Cur, {"FAILED"}, off))
    BY <1>3 DEF FailSlot
  <2>2. PICK off \in SUBSET {"DIRTY"} : SetSlot(call.fh, With(Cur, {"FAILED"}, off))
    BY <2>1
  <2> DEFINE r == With(Cur, {"FAILED"}, off)
  <2>3. r \in Slot /\ r.flags = (Cur.flags \ off) \cup {"FAILED"} /\ r.ent = Cur.ent
    BY <1>1, WithOK DEF Flag
  <2>4. files'[call.fh] = r /\ \A f \in Handle : f # call.fh => files'[f] = files[f]
    BY <1>1, <1>2, <2>2, <2>3, SetSlotOK
  <2>5. NoMore(r, Cur) /\ "FAILED" \in r.flags
    BY <2>3 DEF NoMore
  <2> HIDE DEF r
  <2>6. QED
    BY <1>1, <2>4, <2>5 DEF Able
<1>4. CASE call.op \in {"open", "close", "unmount"}
  <2>1. SetSlot(call.fh, FreeSlot)
    BY <1>4 DEF FailSlot
  <2>2. files'[call.fh] = FreeSlot
        /\ \A f \in Handle : f # call.fh => files'[f] = files[f]
    BY <1>1, <1>2, <2>1, FreeSlotOK, SetSlotOK
  <2>3. QED
    BY <2>2, FreeSlotOK, MilderNoMore DEF Able
<1>5. CASE call.op \notin {"read", "write", "truncate", "sync", "open", "close", "unmount"}
  BY <1>5 DEF FailSlot
<1>6. QED
  BY <1>3, <1>4, <1>5

(* UZEFS_ERR_DISK after a step that may have changed what others rest on   *)
(* to no harm.                                                             *)
LEMMA PosFail ==
  ASSUME CardInv, CardInv', PosInv, LoanOK', DiskError, pc # "size",
         \A f \in Handle : Has(f, "OPEN") => Used(View', files[f].ent),
         \A f \in Handle : Live(f) /\ Rests(f) => Leaves(View', View, files[f])
  PROVE  PosInv'
<1>1. pc' \in {"idle", "unmount"} /\ FailSlot
  BY ReturnOK DEF DiskError, CardInv, IndInv, CtrlOK
<1>2. call.fh \in Handle
  BY CurOK DEF CardInv
<1>3. \A f \in Handle : Rests(f)'
  BY <1>1, RestAll
<1>4. CASE UNCHANGED files
           /\ call.op \notin {"read", "write", "truncate", "sync", "open", "close", "unmount"}
  <2>1. pc \notin {"alloc", "move", "link", "join"}
    BY <1>4, CurOK DEF CardInv
  <2>2. \A f \in Handle : Rests(f)
    BY <2>1 DEF Rests
  <2>3. QED
    BY <1>3, <1>4, <2>2, PosSame
<1>5. CASE /\ \A f \in Handle : f # call.fh => files'[f] = files[f]
           /\ NoMore(files'[call.fh], files[call.fh])
           /\ ~Able(files'[call.fh])
  <2>1. PICK g \in Handle : g = call.fh
    BY <1>2
  <2>2. \A f \in Handle : f # g => Rests(f)
    BY <2>1 DEF Rests
  <2>3. ~Live(g)'
    BY <2>1, <1>5, LiveAble
  <2>4. QED
    BY <1>3, <1>5, <2>1, <2>2, <2>3, PosMild
<1>6. QED
  BY <1>1, <1>4, <1>5, FailSlotDead

(* The same after a step that only read. *)
LEMMA PosFailQuiet ==
  ASSUME CardInv, CardInv', PosInv, LoanOK', DiskError, pc # "size", Meta(View', View)
  PROVE  PosInv'
<1>1. IsCard(View) /\ \A f \in Handle : files[f] \in Slot
  BY ViewCard DEF CardInv, IndInv, CtrlOK
<1>2. \A f \in Handle : Has(f, "OPEN") => Used(View', files[f].ent)
  BY <1>1, MetaLeaves DEF PosInv, Named
<1>3. ASSUME NEW f \in Handle, Live(f), Rests(f) PROVE Leaves(View', View, files[f])
  <2>1. Stands(View, files[f], files[f].fptr)
    BY <1>3, RestsPlaced DEF PosInv, AllPlaced, Resting
  <2>2. QED
    BY <2>1, <1>1, MetaLeaves
<1>4. QED
  BY <1>2, <1>3, PosFail

(* What a failing command leaves to be read, where no change is forgotten. *)
LEMMA FailsKeep ==
  ASSUME NothingDropped, CardInv, PosInv, UNCHANGED lent
  PROVE  /\ \A S : LoadFails(S) => View' = View
         /\ FlushFails => View' = View
         /\ \A S, k : IsCard(k) /\ PutFails(S, k) => View' \in {View, k}
<1>1. Faults => lent # "kept"
  BY DEF NothingDropped, PosInv, LoanOK
<1>2. DiskOK
  BY DEF CardInv, IndInv
<1>3. ASSUME NEW S, LoadFails(S) PROVE View' = View
  <2>1. UNCHANGED disk
    BY <1>1, <1>3 DEF LoadFails
  <2>2. QED
    BY <2>1, <1>2, SameDiskOK
<1>4. ASSUME FlushFails PROVE View' = View
  <2>1. View = card /\ View' = card' /\ card' \in {card, View}
    BY <1>1, <1>2, <1>4, ViewCard, FlushFailsOK DEF FlushFails
  <2>2. QED
    BY <2>1
<1>5. ASSUME NEW S, NEW k, IsCard(k), PutFails(S, k) PROVE View' \in {View, k}
  <2>1. View = card /\ View' = card' /\ card' \in {card, View, k}
    BY <1>1, <1>2, <1>5, ViewCard, PutFailsOK DEF PutFails
  <2>2. QED
    BY <2>1
<1>6. QED
  BY <1>3, <1>4, <1>5

(* A disk left alone is read as it was. *)
LEMMA IdleKeeps ==
  ASSUME CardInv, PosInv, UNCHANGED disk, UNCHANGED lent
  PROVE  LoanOK' /\ Meta(View', View)
BY SameDiskOK, SameMeta DEF CardInv, IndInv, PosInv, LoanOK

(* The buffer is lent as it was. *)
LEMMA LoanStays == ASSUME PosInv, UNCHANGED lent PROVE LoanOK'
BY DEF PosInv, LoanOK

-----------------------------------------------------------------------------
(***************************************************************************)
(* Every action preserves the invariant.                                   *)
(***************************************************************************)
(* Without slots there is nothing to ask. *)
LEMMA PosMount ==
  ASSUME PosInv, Mount \/ MountFails \/ Crash
  PROVE  PosInv'
<1>1. files' = [f \in Handle |-> FreeSlot]
  BY DEF Mount, MountFails, Crash
<1>2. \A f \in Handle : files'[f].flags = {}
  BY <1>1, FreeSlotOK
<1>3. LoanOK'
  BY DEF PosInv, LoanOK, Mount, MountFails, Crash
<1>4. QED
  BY <1>2, <1>3 DEF PosInv, Named, WritersOpen, WriterExcludes, AllPlaced, Live, Has

(* Lending writes what waits, and the buffer is read as the card. *)
LEMMA PosLend ==
  ASSUME NothingDropped, CardInv, CardInv', PosInv, NEW how \in Lendings,
         Lend(how) \/ LendFails(how)
  PROVE  PosInv'
<1>1. DiskOK /\ DiskOK'
  BY DEF CardInv, IndInv
<1>2. ~LendFails(how)
  <2>1. LendFails(how) => Faults /\ lent = "kept"
    BY <1>1, ViewCard DEF LendFails, FlushFails
  <2>2. QED
    BY <2>1 DEF NothingDropped, PosInv, LoanOK
<1>3. card' = (IF dirty THEN View ELSE card) /\ Drop /\ lent' = how
      /\ pc = "idle" /\ UNCHANGED <<files, pc, call>>
  BY <1>2 DEF Lend
<1>4. card' = View
  BY <1>1, <1>3, ViewCard
<1>5. View' = View
  BY <1>1, <1>3, <1>4, DropOK DEF DiskOK
<1>6. LoanOK' /\ \A f \in Handle : Rests(f) /\ Rests(f)'
  BY <1>3 DEF LoanOK, Rests
<1>7. QED
  BY <1>3, <1>5, <1>6, SameMeta, PosSameQuiet

(* uzefs_unmount, its loop and its end. *)
LEMMA PosUnmount ==
  ASSUME NothingDropped, CardInv, CardInv', PosInv, Unmount \/ UnmountEnd
  PROVE  PosInv'
<1>1. UNCHANGED <<lent, files>> /\ pc' \in {"idle", "unmount"} /\ pc \in {"idle", "unmount"}
  BY DEF Unmount, UnmountEnd
<1>2. View' = View
  <2>1. CASE Unmount
    BY <2>1, SameDiskOK DEF Unmount, CardInv, IndInv
  <2>2. CASE UnmountEnd
    BY <2>2, <1>1, FlushOK, FailsKeep DEF UnmountEnd, CardInv, IndInv
  <2>3. QED
    BY <2>1, <2>2
<1>3. \A f \in Handle : Rests(f) /\ Rests(f)'
  BY <1>1 DEF Rests
<1>4. QED
  BY <1>1, <1>2, <1>3, LoanStays, SameMeta, PosSameQuiet

(* A slot closed by that loop. *)
LEMMA PosUnmountClose ==
  ASSUME CardInv, CardInv', PosInv, NEW f \in Handle, UnmountClose(f)
  PROVE  PosInv'
<1>1. pc = "unmount" /\ UNCHANGED disk /\ UNCHANGED lent
      /\ pc' \in {"unmount", "entry", "flush"}
  BY DEF UnmountClose
<1>2. \A g \in Handle : Rests(g) /\ Rests(g)'
  BY <1>1 DEF Rests
<1>3. CASE Has(f, "FAILED")
  <2>1. SetSlot(f, FreeSlot)
    BY <1>3 DEF UnmountClose
  <2>2. files'[f] = FreeSlot /\ \A g \in Handle : g # f => files'[g] = files[g]
    BY <2>1, FreeSlotOK, SetSlotOK DEF CardInv, IndInv, CtrlOK
  <2>3. NoMore(files'[f], files[f]) /\ ~Live(f)'
    BY <2>2, MilderNoMore, FreeSlotOK, LiveAble DEF Able
  <2>4. QED
    BY <1>1, <1>2, <2>2, <2>3, IdleKeeps, PosQuiet
<1>4. CASE ~Has(f, "FAILED")
  <2>1. UNCHANGED files
    BY <1>4 DEF UnmountClose
  <2>2. QED
    BY <1>1, <1>2, <2>1, IdleKeeps, PosSameQuiet
<1>5. QED
  BY <1>3, <1>4

(* A lookup changes nothing that is read. *)
LEMMA PosStat ==
  ASSUME NothingDropped, CardInv, CardInv', PosInv, NEW nm, NEW e \in Entry, Stat(nm, e)
  PROVE  PosInv'
<1>1. pc = "idle" /\ UNCHANGED <<lent, files, pc, call>>
  BY DEF Stat
<1>2. View' = View
  BY <1>1, ScannedOK, LoadOK, FailsKeep DEF CardInv, IndInv, Stat
<1>3. \A f \in Handle : Rests(f) /\ Rests(f)'
  BY <1>1 DEF Rests
<1>4. QED
  BY <1>1, <1>2, <1>3, LoanStays, SameMeta, PosSameQuiet

(* A slot uzefs_open fills in stands at the start. *)
LEMMA NewSlotStands ==
  ASSUME NEW k, NEW e, NEW mode
  PROVE  LET r == NewSlot(e, mode, k)
         IN  r.fptr = 0 /\ r.cclust = 0 /\ r.csect = 0 /\ r.fsize = Ent(k, e).size
BY DEF NewSlot, FreeSlot

(* uzefs_open refuses an entry that is busy. *)
LEMMA PosOpenExisting ==
  ASSUME CardInv, CardInv', PosInv, NEW nm \in Names, NEW mode \in Modes,
         NEW f \in Handle, NEW e \in Entry, OpenExisting(nm, mode, f, e)
  PROVE  PosInv'
<1> DEFINE r == NewSlot(e, mode, View)
           cut == "TRUNC" \in mode /\ r.sclust # 0
           append == "APPEND" \in mode
           q == IF cut THEN [r EXCEPT !.sclust = 0, !.fsize = 0] ELSE r
<1>1. View' = View
  BY ScanCard DEF OpenExisting, CardInv, IndInv
<1>2. Ent(View, e).sclust \in Cluster \cup {0} /\ Ent(View, e).size \in Nat
  BY ViewCard, Entries DEF OpenExisting, CardInv, IndInv, DirEnt
<1>3. r \in Slot
  BY <1>2, NewSlotOK
<1>4. /\ "WR" \in r.flags <=> "WRITE" \in mode
      /\ "OPEN" \in r.flags
      /\ r.ent = e /\ r.sclust = Ent(View, e).sclust
      /\ r.fptr = 0 /\ r.cclust = 0 /\ r.csect = 0
  BY NewSlotFlags, NewSlotStands
<1>5. /\ pc = "idle" /\ UNCHANGED lent /\ SetSlot(f, q)
      /\ pc' = IF cut THEN "size" ELSE IF append THEN "append" ELSE "idle"
      /\ call' = IF cut \/ append
                 THEN [NoCall EXCEPT !.op = "open", !.fh = f,
                         !.cl = IF cut THEN r.sclust ELSE 0, !.append = append]
                 ELSE NoCall
  BY DEF OpenExisting, OpenChecks
<1>6. ~Busy(e, "WRITE" \notin mode) /\ Used(View, e)
  BY DEF OpenExisting, Takes, IsHit, Used
<1> HIDE DEF r
<1>7. /\ q \in Slot /\ q.flags = r.flags /\ q.ent = e
      /\ q.fptr = 0 /\ q.cclust = 0 /\ q.csect = 0
      /\ ~cut => q.sclust = Ent(View, e).sclust
  BY <1>3, <1>4 DEF Slot
<1>8. q.fsize \in Nat
  BY <1>7 DEF Slot
<1>9. pc' # "size" => ~cut
  BY <1>5
<1>10. pc' \in {"size", "append", "idle"} /\ (pc' = "size" => call'.fh = f)
  BY <1>5 DEF NoCall
<1> HIDE DEF q, cut
<1>11. /\ files'[f] = q
       /\ \A g \in Handle : g # f => files'[g] = files[g]
  BY <1>5, <1>7, SetSlotOK DEF CardInv, IndInv, CtrlOK
<1>12. \A g \in Handle : g # f => Rests(g) /\ Rests(g)'
  BY <1>5, <1>10 DEF Rests
<1>13. \A g \in Handle : g # f /\ Has(g, "OPEN") =>
         /\ Used(View', files[g].ent)
         /\ Live(g) => Leaves(View', View, files[g])
  BY <1>1 DEF PosInv, Named, Leaves, SameLinks
<1>14. \A g \in Handle : g # f =>
         /\ Has(g, "OPEN") /\ "WR" \in q.flags => files[g].ent # q.ent
         /\ Has(g, "WR") /\ "OPEN" \in q.flags => files[g].ent # q.ent
  <2>1. ASSUME NEW g \in Handle, Has(g, "WR") PROVE files[g].ent # e
    <3>1. CASE "WRITE" \in mode
      BY <3>1, <2>1, <1>6 DEF Busy, PosInv, WritersOpen
    <3>2. CASE "WRITE" \notin mode
      BY <3>2, <2>1, <1>6 DEF Busy
    <3>3. QED
      BY <3>1, <3>2
  <2>2. ASSUME NEW g \in Handle, Has(g, "OPEN"), "WRITE" \in mode PROVE files[g].ent # e
    BY <2>2, <1>6 DEF Busy
  <2>3. QED
    BY <2>1, <2>2, <1>4, <1>7
<1>15. Placed(View', q, Phase(f)', NewClust')
  <2>1. Stands(View', q, q.fptr)
    BY <1>7 DEF Stands
  <2>2. Phase(f)' \in {"size", "append", "idle"} /\ (Phase(f)' # "size" => ~cut)
    BY <1>9, <1>10 DEF Phase
  <2>3. q.fptr <= q.fsize
    BY <1>7, <1>8
  <2>4. QED
    BY <1>1, <1>7, <2>1, <2>2, <2>3 DEF Placed
<1>16. QED
  BY <1>1, <1>4, <1>5, <1>6, <1>7, <1>11, <1>12, <1>13, <1>14, <1>15, LoanStays, PosStep

(* An entry that is in use by no open slot may change: no slot rests on it. *)
LEMMA FreeEntry ==
  ASSUME CardInv, PosInv, NEW e \in Entry, NEW q \in DirEnt,
         \A f \in Handle : Has(f, "OPEN") => files[f].ent # e,
         View' = View \/ View' = SetEnt(View, e, q)
  PROVE  /\ \A f \in Handle : Has(f, "OPEN") => Used(View', files[f].ent)
         /\ \A f \in Handle : Live(f) /\ Rests(f) => Leaves(View', View, files[f])
<1>1. IsCard(View) /\ \A f \in Handle : files[f] \in Slot
  BY ViewCard DEF CardInv, IndInv, CtrlOK
<1>2. CASE View' = View
  BY <1>2 DEF PosInv, Named, Leaves, SameLinks
<1>3. CASE View' = SetEnt(View, e, q)
  <2>1. ASSUME NEW f \in Handle, Has(f, "OPEN") PROVE Used(View', files[f].ent)
    BY <1>1, <1>3, <2>1, EntLeaves DEF PosInv, Named
  <2>2. ASSUME NEW f \in Handle, Live(f), Rests(f) PROVE Leaves(View', View, files[f])
    <3>1. Stands(View, files[f], files[f].fptr) /\ Has(f, "OPEN")
      BY <2>2, RestsPlaced DEF PosInv, AllPlaced, Resting, Live
    <3>2. QED
      BY <3>1, <1>1, <1>3, EntLeaves
  <2>3. QED
    BY <2>1, <2>2
<1>4. QED
  BY <1>2, <1>3

(* uzefs_open gives a new file an entry that no open slot has. *)
LEMMA PosOpenNew ==
  ASSUME NothingDropped, CardInv, CardInv', PosInv, NEW nm \in Names, NEW mode \in Modes,
         NEW f \in Handle, NEW e \in Entry, NEW last \in Entry,
         OpenNew(nm, mode, f, e, last) \/ OpenNewFails(nm, mode, f, e, last)
  PROVE  PosInv'
<1> DEFINE r == [name |-> nm, sclust |-> 0, size |-> 0]
           k == Created(View, e, nm)
<1>1. pc = "idle" /\ UNCHANGED <<lent, pc, call>> /\ ~Used(View, e)
  BY DEF OpenNew, OpenNewFails, CreateChecks, OpenChecks, IsFree
<1>2. r \in DirEnt /\ k = SetEnt(View, e, r) /\ IsCard(View)
  BY GeometryAssumption, ViewCard DEF DirEnt, Created, CardInv, IndInv
<1>3. IsCard(k) /\ Ent(k, e) = r
  BY <1>2, SetEntCard
<1>4. \A g \in Handle : Has(g, "OPEN") => files[g].ent # e
  BY <1>1 DEF PosInv, Named
<1>5. \A g \in Handle : Rests(g) /\ Rests(g)'
  BY <1>1 DEF Rests
<1>6. CASE OpenNewFails(nm, mode, f, e, last)
  <2>1. View' \in {View, k} /\ UNCHANGED files
    BY <1>1, <1>3, <1>6, FailsKeep DEF OpenNewFails
  <2> HIDE DEF r
  <2>2. View' = View \/ View' = SetEnt(View, e, r)
    BY <2>1, <1>2
  <2>3. QED
    BY <1>1, <1>2, <1>4, <1>5, <2>1, <2>2, FreeEntry, LoanStays, PosSame
<1>7. CASE OpenNew(nm, mode, f, e, last)
  <2> DEFINE q == NewSlot(e, mode, k)
  <2>1. SetSlot(f, q) /\ Put(Scanned(last) \cup {DirSect(e)}, DirSect(e), k)
    BY <1>7 DEF OpenNew
  <2>2. View' = k
    BY <1>1, <2>1, CreatedOK DEF CardInv, IndInv
  <2>3. Ent(k, e).sclust = 0 /\ Ent(k, e).size = 0 /\ Used(k, e)
    BY <1>3 DEF Used
  <2>4. q \in Slot
    BY <2>3, NewSlotOK
  <2>5. /\ q.ent = e /\ q.sclust = 0 /\ q.fptr = 0 /\ q.cclust = 0 /\ q.csect = 0
        /\ q.fsize = 0 /\ "OPEN" \in q.flags
    BY <2>3, NewSlotFlags, NewSlotStands
  <2> HIDE DEF q
  <2>6. /\ files'[f] = q
        /\ \A g \in Handle : g # f => files'[g] = files[g]
    BY <2>1, <2>4, SetSlotOK DEF CardInv, IndInv, CtrlOK
  <2> HIDE DEF r
  <2>7. View' = SetEnt(View, e, r)
    BY <1>2, <2>2
  <2>8. \A g \in Handle : g # f /\ Has(g, "OPEN") =>
          /\ Used(View', files[g].ent)
          /\ Live(g) => Leaves(View', View, files[g])
    BY <1>2, <1>4, <1>5, <2>7, FreeEntry
  <2>9. \A g \in Handle : Has(g, "WR") => Has(g, "OPEN")
    BY DEF PosInv, WritersOpen
  <2>10. Placed(View', q, Phase(f)', NewClust')
    <3>1. Phase(f)' = "idle"
      BY <1>1 DEF Phase
    <3>2. Stands(View', q, q.fptr) /\ Ent(View', q.ent).sclust = q.sclust
      BY <2>2, <2>3, <2>5 DEF Stands
    <3>3. QED
      BY <3>1, <3>2, <2>5 DEF Placed
  <2> HIDE DEF k
  <2>11. QED
    BY <1>1, <1>4, <1>5, <2>2, <2>3, <2>5, <2>6, <2>8, <2>9, <2>10, LoanStays, PosStep
<1>8. QED
  BY <1>6, <1>7

(* uzefs_delete and uzefs_rename change an entry that no slot has open. *)
LEMMA PosDelete ==
  ASSUME NothingDropped, CardInv, CardInv', PosInv, NEW nm \in Names, NEW e \in Entry,
         Delete(nm, e)
  PROVE  PosInv'
<1> DEFINE r == [Ent(View, e) EXCEPT !.name = Removed]
           k == SetEnt(View, e, r)
<1>1. pc = "idle" /\ UNCHANGED <<lent, files>> /\ pc' \in {"idle", "free"}
      /\ ~Busy(e, FALSE)
  BY DEF Delete, Closed
<1>2. IsCard(View) /\ Ent(View, e) \in DirEnt
  BY ViewCard, Entries DEF CardInv, IndInv
<1>3. r \in DirEnt
  BY <1>2 DEF DirEnt
<1>4. IsCard(k)
  BY <1>2, <1>3, SetEntCard
<1>5. Put(Scanned(e), DirSect(e), k) \/ PutFails(Scanned(e), k)
  BY DEF Delete
<1> HIDE DEF r
<1>6. View' \in {View, k}
  BY <1>1, <1>3, <1>4, <1>5, ScannedOK, EntPutOK, FailsKeep DEF CardInv, IndInv
<1>7. \A g \in Handle : Has(g, "OPEN") => files[g].ent # e
  BY <1>1 DEF Busy
<1>8. \A g \in Handle : Rests(g) /\ Rests(g)'
  BY <1>1 DEF Rests
<1>9. QED
  BY <1>1, <1>3, <1>6, <1>7, <1>8, FreeEntry, LoanStays, PosSame

(* See PosDelete. *)
LEMMA PosRename ==
  ASSUME NothingDropped, CardInv, CardInv', PosInv, NEW from \in Names, NEW to \in Names,
         NEW e \in Entry, NEW last \in Entry, Rename(from, to, e, last)
  PROVE  PosInv'
<1> DEFINE r == [Ent(View, e) EXCEPT !.name = to]
           k == SetEnt(View, e, r)
           S == Scanned(e) \cup Scanned(last)
<1>1. pc = "idle" /\ UNCHANGED <<lent, files, pc, call>> /\ ~Busy(e, FALSE)
  BY DEF Rename, Closed
<1>2. IsCard(View) /\ Ent(View, e) \in DirEnt
  BY ViewCard, Entries DEF CardInv, IndInv
<1>3. r \in DirEnt
  BY <1>2 DEF DirEnt
<1>4. IsCard(k)
  BY <1>2, <1>3, SetEntCard
<1>5. Put(S, DirSect(e), k) \/ PutFails(S, k)
  BY DEF Rename
<1>6. DirSect(e) \in S
  BY ScannedOK
<1> HIDE DEF r, S
<1>7. View' \in {View, k}
  BY <1>1, <1>3, <1>4, <1>5, <1>6, EntPutOK, FailsKeep DEF CardInv, IndInv
<1>8. \A g \in Handle : Has(g, "OPEN") => files[g].ent # e
  BY <1>1 DEF Busy
<1>9. \A g \in Handle : Rests(g) /\ Rests(g)'
  BY <1>1 DEF Rests
<1>10. QED
  BY <1>1, <1>3, <1>7, <1>8, <1>9, FreeEntry, LoanStays, PosSame

(* Where a slot rests depends on its place only. *)
LEMMA SamePlace ==
  ASSUME NEW k, NEW r, NEW q, q.ent = r.ent, q.sclust = r.sclust, q.cclust = r.cclust,
         q.csect = r.csect, q.fptr = r.fptr
  PROVE  /\ \A p : Stands(k, r, p) => Stands(k, q, p)
         /\ Resting(k, r) /\ q.fptr <= q.fsize => Resting(k, q)
         /\ Resting(k, r) /\ q.fsize = r.fsize => Resting(k, q)
BY DEF Stands, Resting

(* A change of flags leaves a slot in its place. *)
LEMMA WithPlace ==
  ASSUME NEW k, NEW r \in Slot, NEW on \in SUBSET Flag, NEW off, Resting(k, r)
  PROVE  Resting(k, With(r, on, off))
<1> DEFINE q == With(r, on, off)
<1>1. /\ q \in Slot /\ q.flags = (r.flags \ off) \cup on
      /\ q.ent = r.ent /\ q.sclust = r.sclust /\ q.cclust = r.cclust
      /\ q.csect = r.csect /\ q.fptr = r.fptr /\ q.fsize = r.fsize
  BY WithOK
<1> HIDE DEF q
<1>2. Resting(k, q)
  BY <1>1, SamePlace
<1>3. QED
  BY <1>2 DEF q

(* A slot that has walked to a position stands there. *)
LEMMA AtStands ==
  ASSUME NEW r \in Slot, NEW p \in Nat, CanReach(r, p)
  PROVE  LET q == At(r, p)
         IN  /\ q \in Slot /\ q.ent = r.ent /\ q.sclust = r.sclust
             /\ q.flags = r.flags /\ q.fsize = r.fsize /\ q.fptr = p
             /\ Stands(View, q, p)
<1> DEFINE q == At(r, p)
           w == Walk(View, r.sclust, Steps(p))
           n == ClustSect(w) + (((p - 1) \div UPS) % SPC)
<1>1. q \in Slot /\ q.ent = r.ent /\ q.sclust = r.sclust /\ q.flags = r.flags
  BY AtOK, MilderAt
<1>2. CASE p = 0
  <2>1. q = [r EXCEPT !.cclust = 0, !.csect = 0, !.fptr = 0]
    BY <1>2 DEF At
  <2>2. q.cclust = 0 /\ q.csect = 0 /\ q.fptr = 0 /\ q.fsize = r.fsize
    BY <2>1 DEF Slot
  <2> HIDE DEF q
  <2>3. Stands(View, q, p)
    BY <1>2, <2>2 DEF Stands
  <2>4. QED
    BY <1>1, <1>2, <2>2, <2>3 DEF q
<1>3. CASE p # 0
  <2>1. q = [r EXCEPT !.cclust = w, !.fptr = p, !.csect = n]
    BY <1>3 DEF At
  <2>2. w \in Cluster
    BY <1>3 DEF CanReach
  <2> HIDE DEF w, n
  <2>3. q.cclust = w /\ q.csect = n /\ q.fptr = p /\ q.fsize = r.fsize
    BY <2>1 DEF Slot
  <2> HIDE DEF q
  <2>4. Stands(View, q, p)
    BY <1>1, <1>3, <2>2, <2>3 DEF Stands, w, n
  <2>5. QED
    BY <1>1, <2>3, <2>4 DEF q
<1>4. QED
  BY <1>2, <1>3

(* A slot that stands nowhere stands at the start. *)
LEMMA NowhereIsStart ==
  ASSUME NEW k, NEW r, Stands(k, r, r.fptr)
  PROVE  r.cclust = 0 <=> r.fptr = 0
BY FatValues DEF Stands

(* A quiet step that leaves the slot g at rest. *)
LEMMA PosSlot ==
  ASSUME CardInv, CardInv', PosInv, LoanOK', View' = View,
         NEW g \in Handle, NEW q \in Slot, SetSlot(g, q), NoMore(q, files[g]),
         Able(q) => Resting(View, q), \A f \in Handle : f # g => Rests(f),
         pc' \notin {"alloc", "move", "link", "join", "size"}
  PROVE  PosInv'
<1>1. files'[g] = q /\ \A f \in Handle : f # g => files'[f] = files[f]
  BY SetSlotOK DEF CardInv, IndInv, CtrlOK
<1>2. \A f \in Handle : Rests(f)'
  BY RestAll
<1>3. Live(g)' => Placed(View', files'[g], Phase(g)', NewClust')
  <2>1. Phase(g)' \notin {"alloc", "move", "link", "join", "size"}
    BY DEF Phase
  <2>2. Live(g)' => Resting(View', q)
    BY <1>1, LiveAble
  <2>3. QED
    BY <1>1, <2>1, <2>2 DEF Placed, Resting
<1>4. QED
  BY <1>1, <1>2, <1>3, SameMeta, PosQuiet

(* UZEFS_ERR_CORRUPT returned. *)
LEMMA PosCorrupt ==
  ASSUME CardInv, CardInv', PosInv, LoanOK', View' = View, Corrupt,
         pc \notin {"alloc", "move", "link", "join", "size"}
  PROVE  PosInv'
<1>1. pc' \in {"idle", "unmount"}
  BY ReturnOK DEF Corrupt, CardInv, IndInv, CtrlOK
<1>2. call.fh \in Handle /\ \A f \in Handle : Rests(f) /\ Rests(f)'
  BY <1>1, CurOK DEF Rests, CardInv
<1>3. CASE call.op = "open"
  <2>1. SetSlot(call.fh, FreeSlot)
    BY <1>3 DEF Corrupt
  <2>2. NoMore(FreeSlot, files[call.fh]) /\ ~Able(FreeSlot) /\ FreeSlot \in Slot
    BY MilderNoMore, FreeSlotOK DEF Able
  <2>3. QED
    BY <1>1, <1>2, <2>1, <2>2, PosSlot
<1>4. CASE call.op # "open"
  BY <1>2, <1>4, SameMeta, PosSameQuiet DEF Corrupt
<1>5. QED
  BY <1>3, <1>4

(* The slot of a handle that is ready rests. *)
LEMMA ReadyRests ==
  ASSUME CardInv, PosInv, NEW f \in Handle, Ready(f)
  PROVE  /\ pc = "idle" /\ files[f] \in Slot /\ Resting(View, files[f])
         /\ "OPEN" \in files[f].flags /\ "FAILED" \notin files[f].flags
         /\ \A g \in Handle : Rests(g)
<1>1. pc = "idle" /\ Live(f) /\ Has(f, "OPEN") /\ ~Has(f, "FAILED")
  BY DEF Ready, Live
<1>2. \A g \in Handle : Rests(g)
  BY <1>1 DEF Rests
<1>3. Resting(View, files[f])
  BY <1>1, <1>2, RestsPlaced DEF PosInv, AllPlaced
<1>4. QED
  BY <1>1, <1>2, <1>3 DEF Has, CardInv, IndInv, CtrlOK

(* A change of flags that opens nothing gives no more. *)
LEMMA WithNoMore ==
  ASSUME NEW r \in Slot, NEW on \in SUBSET {"FAILED", "CONTIG", "NEWCL", "DIRTY"},
         NEW off \in SUBSET {"CONTIG", "NEWCL", "DIRTY"}
  PROVE  NoMore(With(r, on, off), r) /\ With(r, on, off) \in Slot
<1>1. on \in SUBSET Flag
  BY DEF Flag
<1>2. With(r, on, off) \in Slot /\ With(r, on, off).flags = (r.flags \ off) \cup on
      /\ With(r, on, off).ent = r.ent
  BY <1>1, WithOK
<1>3. QED
  BY <1>2 DEF NoMore

(* Rights do not come back. *)
LEMMA NoMoreFlags ==
  ASSUME NEW p, NEW q, NEW r, p.flags = q.flags, p.ent = q.ent, NoMore(q, r)
  PROVE  NoMore(p, r)
BY DEF NoMore

(* uzefs_seek walks to where it sets the position. *)
LEMMA PosSeek ==
  ASSUME NothingDropped, CardInv, CardInv', PosInv, NEW f \in Handle,
         NEW pos \in 0 .. MaxSize, Seek(f, pos)
  PROVE  PosInv'
<1> DEFINE past == pos > files[f].fsize
           to == IF past THEN files[f].fsize ELSE pos
           r == IF past THEN With(files[f], {}, {"CONTIG"}) ELSE files[f]
<1>1. /\ UNCHANGED lent /\ Ready(f)
      /\ \/ /\ LoadWalk(r.sclust, Steps(to))
            /\ IF CanReach(r, to)
               THEN IF past THEN Zeros(f, At(r, to), pos - to)
                    ELSE SetSlot(f, At(r, to)) /\ UNCHANGED <<pc, call>>
               ELSE SetSlot(f, r) /\ UNCHANGED <<pc, call>>
         \/ /\ LoadFails(WalkLoads(View, r.sclust, Steps(to)))
            /\ SetSlot(f, With(r, {"FAILED"}, {}))
            /\ UNCHANGED <<pc, call>>
  BY DEF Seek
<1>2. /\ pc = "idle" /\ files[f] \in Slot /\ Resting(View, files[f])
      /\ \A g \in Handle : Rests(g)
  BY <1>1, ReadyRests
<1>3. View' = View
  BY <1>1, LoadWalkOK, FailsKeep DEF CardInv, IndInv
<1>4. pos \in Nat /\ files[f].fsize \in Nat
  BY <1>2, FilesAssumption DEF Slot
<1>5. to \in Nat /\ to <= files[f].fsize
  BY <1>4
<1>6. r \in Slot /\ Resting(View, r) /\ NoMore(r, files[f]) /\ r.fsize = files[f].fsize
  <2>1. CASE past
    BY <2>1, <1>2, WithoutOK, WithPlace, WithNoMore
  <2>2. CASE ~past
    BY <2>2, <1>2 DEF NoMore
  <2>3. QED
    BY <2>1, <2>2
<1> HIDE DEF r, to, past
<1>7. CASE SetSlot(f, r) /\ UNCHANGED <<pc, call>>
  BY <1>1, <1>2, <1>3, <1>6, <1>7, LoanStays, PosSlot
<1>8. CASE SetSlot(f, With(r, {"FAILED"}, {})) /\ UNCHANGED <<pc, call>>
  <2> DEFINE q == With(r, {"FAILED"}, {})
  <2>1. q \in Slot /\ q.flags = r.flags \cup {"FAILED"} /\ q.ent = r.ent
    BY <1>6, WithOK DEF Flag
  <2>2. NoMore(q, files[f]) /\ ~Able(q)
    BY <2>1, <1>6 DEF NoMore, Able
  <2>3. QED
    BY <1>1, <1>2, <1>3, <1>8, <2>1, <2>2, LoanStays, PosSlot
<1>9. CASE CanReach(r, to) /\ SetSlot(f, At(r, to)) /\ pc' \in {"idle", "chunk"}
  <2> DEFINE q == At(r, to)
  <2>1. /\ q \in Slot /\ q.ent = r.ent /\ q.sclust = r.sclust
        /\ q.flags = r.flags /\ q.fsize = r.fsize /\ q.fptr = to
        /\ Stands(View, q, to)
    BY <1>5, <1>6, <1>9, AtStands
  <2> HIDE DEF q
  <2>2. Resting(View, q)
    BY <2>1, <1>5, <1>6 DEF Resting
  <2>3. NoMore(q, files[f])
    BY <2>1, <1>6, NoMoreFlags
  <2>4. QED
    BY <1>1, <1>2, <1>3, <1>9, <2>1, <2>2, <2>3, LoanStays, PosSlot DEF q
<1>10. QED
  BY <1>1, <1>2, <1>7, <1>8, <1>9 DEF Zeros

(* uzefs_read and uzefs_write begin without moving a slot. *)
LEMMA PosBegin ==
  ASSUME CardInv, CardInv', PosInv, NEW f \in Handle, NEW n, Read(f, n) \/ Write(f, n)
  PROVE  PosInv'
<1>1. Ready(f) /\ UNCHANGED disk /\ UNCHANGED lent /\ pc' = "chunk"
  BY DEF Read, Write, CanWrite, BeginXfer
<1>2. /\ files[f] \in Slot /\ Resting(View, files[f])
      /\ \A g \in Handle : Rests(g)
  BY <1>1, ReadyRests
<1>3. View' = View
  BY <1>1, SameDiskOK DEF CardInv, IndInv
<1>4. CASE Read(f, n)
  <2>1. \A g \in Handle : Rests(g)'
    BY <1>1, RestAll
  <2>2. QED
    BY <1>1, <1>2, <1>4, <2>1, IdleKeeps, PosSameQuiet DEF Read
<1>5. CASE Write(f, n)
  <2> DEFINE q == With(files[f], {}, {"CONTIG"})
  <2>1. SetSlot(f, q)
    BY <1>5 DEF Write
  <2>2. q \in Slot /\ NoMore(q, files[f]) /\ Resting(View, q)
    BY <1>2, WithNoMore, WithPlace
  <2> HIDE DEF q
  <2>3. QED
    BY <1>1, <1>2, <1>3, <2>1, <2>2, LoanStays, PosSlot
<1>6. QED
  BY <1>4, <1>5

(* uzefs_fragments only marks the slot. *)
LEMMA PosFragments ==
  ASSUME NothingDropped, CardInv, CardInv', PosInv, NEW f \in Handle, Fragments(f)
  PROVE  PosInv'
<1>1. Ready(f) /\ UNCHANGED <<lent, pc, call>>
  BY DEF Fragments
<1>2. /\ pc = "idle" /\ files[f] \in Slot /\ Resting(View, files[f])
      /\ \A g \in Handle : Rests(g)
  BY <1>1, ReadyRests
<1>3. PICK n \in 0 .. Steps(files[f].fsize) :
        \/ /\ LoadWalk(files[f].sclust + n, Steps(files[f].fsize) - n)
           /\ \E on \in SUBSET {"CONTIG"} : SetSlot(f, With(files[f], on, {}))
        \/ /\ \/ LoadFails(WalkLoads(View, files[f].sclust + n, Steps(files[f].fsize) - n))
              \/ UNCHANGED disk
           /\ SetSlot(f, With(files[f], {"FAILED"}, {}))
  <2>1. {} \in SUBSET {"CONTIG"} /\ {"CONTIG"} \in SUBSET {"CONTIG"}
    OBVIOUS
  <2>2. QED
    BY <2>1 DEF Fragments
<1>4. View' = View
  BY <1>1, <1>3, LoadWalkOK, FailsKeep, SameDiskOK DEF CardInv, IndInv
<1>5. \E on \in SUBSET {"CONTIG", "FAILED"} : SetSlot(f, With(files[f], on, {}))
  BY <1>3
<1>6. PICK on \in SUBSET {"CONTIG", "FAILED"} : SetSlot(f, With(files[f], on, {}))
  BY <1>5
<1> DEFINE q == With(files[f], on, {})
<1>7. on \in SUBSET {"FAILED", "CONTIG", "NEWCL", "DIRTY"} /\ on \in SUBSET Flag
  BY DEF Flag
<1>8. q \in Slot /\ NoMore(q, files[f]) /\ Resting(View, q)
  BY <1>2, <1>7, WithNoMore, WithPlace
<1> HIDE DEF q
<1>9. SetSlot(f, q)
  BY <1>6 DEF q
<1>10. QED
  BY <1>1, <1>2, <1>4, <1>8, <1>9, LoanStays, PosSlot

(* uzefs_open with UZEFS_O_APPEND. *)
LEMMA PosAppend ==
  ASSUME NothingDropped, CardInv, CardInv', PosInv, Append
  PROVE  PosInv'
<1>1. pc = "append" /\ UNCHANGED lent
  BY DEF Append
<1>2. call.fh \in Handle /\ Cur \in Slot /\ Cur = files[call.fh]
      /\ \A f \in Handle : Rests(f)
  BY <1>1, CurOK DEF CardInv, Rests
<1>3. CASE LoadFails(WalkLoads(View, Cur.sclust, Steps(Cur.fsize))) /\ DiskError
  BY <1>1, <1>3, FailsKeep, SameMeta, LoanStays, PosFailQuiet
<1>4. CASE LoadWalk(Cur.sclust, Steps(Cur.fsize)) /\ ~CanReach(Cur, Cur.fsize) /\ Corrupt
  <2>1. View' = View
    BY <1>1, <1>4, LoadWalkOK DEF CardInv, IndInv
  <2>2. QED
    BY <1>1, <1>4, <2>1, LoanStays, PosCorrupt
<1>5. CASE /\ LoadWalk(Cur.sclust, Steps(Cur.fsize)) /\ CanReach(Cur, Cur.fsize)
           /\ SetSlot(call.fh, At(Cur, Cur.fsize)) /\ Return
  <2>1. View' = View
    BY <1>1, <1>5, LoadWalkOK DEF CardInv, IndInv
  <2>2. pc' \in {"idle", "unmount"}
    BY <1>5, ReturnOK DEF CardInv, IndInv, CtrlOK
  <2> DEFINE q == At(Cur, Cur.fsize)
  <2>3. Cur.fsize \in Nat
    BY <1>2 DEF Slot
  <2>4. /\ q \in Slot /\ q.ent = Cur.ent /\ q.sclust = Cur.sclust
        /\ q.flags = Cur.flags /\ q.fsize = Cur.fsize /\ q.fptr = Cur.fsize
        /\ Stands(View, q, Cur.fsize)
    BY <1>2, <1>5, <2>3, AtStands
  <2> HIDE DEF q
  <2>5. NoMore(q, Cur)
    BY <2>4 DEF NoMore
  <2>6. Able(q) => Resting(View, q)
    <3>1. Able(q) => Resting(View, Cur)
      BY <1>2, <2>4, LiveAble, RestsPlaced DEF PosInv, AllPlaced, Able
    <3>2. QED
      BY <3>1, <2>3, <2>4 DEF Resting
  <2>7. SetSlot(call.fh, q)
    BY <1>5 DEF q
  <2>8. QED
    BY <1>1, <1>2, <2>1, <2>2, <2>4, <2>5, <2>6, <2>7, LoanStays, PosSlot
<1>6. QED
  BY <1>3, <1>4, <1>5 DEF Append

(* uzefs_sync and uzefs_close begin without touching the card. *)
LEMMA PosSync ==
  ASSUME CardInv, CardInv', PosInv, NEW f \in Handle, NEW op, Sync(f, op)
  PROVE  PosInv'
<1>1. pc = "idle" /\ UNCHANGED disk /\ UNCHANGED lent
      /\ pc' \in {"idle", "entry", "flush"}
  BY DEF Sync
<1>2. \A g \in Handle : Rests(g) /\ Rests(g)'
  BY <1>1 DEF Rests
<1>3. View' = View
  BY <1>1, SameDiskOK DEF CardInv, IndInv
<1>4. CASE Has(f, "FAILED")
  <2>1. SetSlot(f, FreeSlot)
    BY <1>4 DEF Sync
  <2>2. NoMore(FreeSlot, files[f]) /\ ~Able(FreeSlot) /\ FreeSlot \in Slot
    BY MilderNoMore, FreeSlotOK DEF Able
  <2>3. QED
    BY <1>1, <1>2, <1>3, <2>1, <2>2, LoanStays, PosSlot
<1>5. CASE ~Has(f, "FAILED")
  BY <1>1, <1>2, <1>5, IdleKeeps, PosSameQuiet DEF Sync
<1>6. QED
  BY <1>4, <1>5

(* Writing a file's size to its entry disturbs nobody. *)
LEMMA SizeLeaves ==
  ASSUME NEW k, IsCard(k), NEW q \in Slot, Ent(k, q.ent).sclust = q.sclust,
         NEW r \in Slot
  PROVE  LET j == WithEntry(k, q)
         IN  /\ Used(k, r.ent) => Used(j, r.ent)
             /\ Stands(k, r, r.fptr) => Leaves(j, k, r)
<1> DEFINE j == WithEntry(k, q)
           v == [Ent(k, q.ent) EXCEPT !.sclust = q.sclust, !.size = q.fsize]
<1>1. q.ent \in Entry /\ v \in DirEnt /\ Ent(k, q.ent) \in DirEnt /\ r.ent \in Entry
  BY WithEntryOK, Entries DEF Slot
<1>2. v.name = Ent(k, q.ent).name /\ v.sclust = Ent(k, q.ent).sclust
  BY <1>1 DEF DirEnt
<1>3. j = SetEnt(k, q.ent, v)
  BY DEF WithEntry
<1> HIDE DEF v, j
<1>4. /\ Ent(j, r.ent) = IF r.ent = q.ent THEN v ELSE Ent(k, r.ent)
      /\ \A c \in Cluster : Fat(j, c) = Fat(k, c)
  BY <1>1, <1>3, SetEntCard
<1>5. Ent(j, r.ent).sclust = Ent(k, r.ent).sclust /\ Ent(j, r.ent).name = Ent(k, r.ent).name
  BY <1>2, <1>4
<1>6. Stands(k, r, r.fptr) => Leaves(j, k, r)
  BY <1>4, <1>5, KeepsLinks
<1>7. QED
  BY <1>5, <1>6 DEF j, Used

(* A writer in a call that changes its file still works. *)
LEMMA WriterRests ==
  ASSUME CardInv, PosInv, pc \in {"cut", "size", "entry"}
  PROVE  /\ call.fh \in Handle /\ Cur \in Slot /\ Cur = files[call.fh]
         /\ Live(call.fh) /\ "WR" \in Cur.flags /\ "OPEN" \in Cur.flags
         /\ "FAILED" \notin Cur.flags /\ Used(View, Cur.ent)
         /\ Placed(View, Cur, pc, NewClust)
         /\ \A f \in Handle : f # call.fh /\ Has(f, "OPEN") => files[f].ent # Cur.ent
<1>1. call.fh \in Handle /\ Cur \in Slot /\ Cur = files[call.fh]
  BY CurOK DEF CardInv
<1>2. WriterIn(files, call.fh)
  BY DEF CardInv, StepsOK, WriterOK
<1>3. "WR" \in Cur.flags /\ "OPEN" \in Cur.flags /\ "FAILED" \notin Cur.flags
  BY <1>1, <1>2 DEF WriterIn
<1>4. Live(call.fh)
  BY <1>1, <1>3 DEF Live, Has
<1>5. Placed(View, Cur, pc, NewClust)
  BY <1>1, <1>4 DEF PosInv, AllPlaced, Phase
<1>6. QED
  BY <1>1, <1>3, <1>4, <1>5 DEF PosInv, Named, WriterExcludes, Has

(* The entry of uzefs_sync and uzefs_close. *)
LEMMA PosSyncEntry ==
  ASSUME NothingDropped, CardInv, CardInv', PosInv, SyncEntry
  PROVE  PosInv'
<1>1. pc = "entry" /\ UNCHANGED lent /\ \A f \in Handle : Rests(f)
  BY DEF SyncEntry, Rests
<1>2. Cur \in Slot /\ Ent(View, Cur.ent).sclust = Cur.sclust
  BY <1>1, WriterRests DEF Placed
<1>3. IsCard(View) /\ DiskOK /\ \A f \in Handle : files[f] \in Slot
  BY ViewCard DEF CardInv, IndInv, CtrlOK
<1> DEFINE k == WithEntry(View, Cur)
<1>4. IsCard(k)
  BY <1>2, <1>3, WithEntryOK, SetEntCard DEF WithEntry
<1>5. DirWrite(Cur) => View' = k
  BY <1>1, <1>2, <1>3, DirWriteOK
<1>6. DirWriteFails(Cur) => View' \in {View, k}
  BY <1>1, <1>4, FailsKeep DEF DirWriteFails
<1>7. View' \in {View, k}
  BY <1>5, <1>6 DEF SyncEntry
<1>8. \A f \in Handle : Has(f, "OPEN") => Used(View', files[f].ent)
  BY <1>2, <1>3, <1>7, SizeLeaves DEF PosInv, Named
<1>9. ASSUME NEW f \in Handle, Live(f) PROVE Leaves(View', View, files[f])
  <2>1. Stands(View, files[f], files[f].fptr)
    BY <1>1, <1>9, RestsPlaced DEF PosInv, AllPlaced, Resting
  <2>2. CASE View' = View
    BY <2>2 DEF Leaves, SameLinks
  <2>3. CASE View' = k
    BY <2>1, <2>3, <1>2, <1>3, SizeLeaves
  <2>4. QED
    BY <2>2, <2>3, <1>7
<1>10. CASE UNCHANGED files /\ pc' = "flush"
  <2>1. \A f \in Handle : Rests(f)'
    BY <1>10, RestAll
  <2>2. QED
    BY <1>1, <1>8, <1>9, <1>10, <2>1, LoanStays, PosSame
<1>11. CASE DiskError
  BY <1>1, <1>8, <1>9, <1>11, LoanStays, PosFail
<1>12. QED
  BY <1>10, <1>11 DEF SyncEntry, Goto

(* Their flush. *)
LEMMA PosSyncDone ==
  ASSUME NothingDropped, CardInv, CardInv', PosInv, SyncDone \/ SyncFlushFails
  PROVE  PosInv'
<1>1. pc = "flush" /\ UNCHANGED lent /\ \A f \in Handle : Rests(f)
  BY DEF SyncDone, SyncFlushFails, Rests
<1>2. CASE SyncFlushFails
  BY <1>1, <1>2, FailsKeep, SameMeta, LoanStays, PosFailQuiet DEF SyncFlushFails
<1>3. CASE SyncDone
  <2> DEFINE q == IF call.op = "sync" THEN With(Cur, {}, {"DIRTY"}) ELSE FreeSlot
  <2>1. View' = View
    BY <1>1, <1>3, FlushOK DEF SyncDone, CardInv, IndInv
  <2>2. call.fh \in Handle /\ Cur \in Slot /\ Cur = files[call.fh]
    BY CurOK DEF CardInv
  <2>3. pc' \in {"idle", "unmount"}
    BY <1>3, ReturnOK DEF SyncDone, CardInv, IndInv, CtrlOK
  <2>4. SetSlot(call.fh, q)
    BY <1>3 DEF SyncDone
  <2>5. q \in Slot /\ NoMore(q, Cur) /\ (Able(q) => Resting(View, q))
    <3>1. CASE call.op = "sync"
      <4>1. With(Cur, {}, {"DIRTY"}).flags = Cur.flags \ {"DIRTY"}
        BY <2>2, WithoutOK
      <4>2. Able(q) => Able(Cur)
        BY <3>1, <4>1 DEF Able
      <4>3. Able(Cur) => Resting(View, Cur)
        BY <1>1, <2>2, LiveAble, RestsPlaced DEF PosInv, AllPlaced
      <4>4. QED
        BY <3>1, <2>2, <4>2, <4>3, WithNoMore, WithPlace
    <3>2. CASE call.op # "sync"
      BY <3>2, MilderNoMore, FreeSlotOK DEF Able
    <3>3. QED
      BY <3>1, <3>2
  <2> HIDE DEF q
  <2>6. QED
    BY <1>1, <2>1, <2>2, <2>3, <2>4, <2>5, LoanStays, PosSlot
<1>4. QED
  BY <1>2, <1>3

(* Where every link that is in use is the same, a slot stands as it stood. *)
KeepsUsed(j, k) == \A c \in Cluster : Fat(k, c) # 0 => Fat(j, c) = Fat(k, c)

(* Such contents have the links a walk goes over. *)
LEMMA KeepsUsedLinks ==
  ASSUME NEW j, NEW k, IsCard(k), KeepsUsed(j, k), NEW cl, NEW n \in Nat,
         Walk(k, cl, n) \in Cluster
  PROVE  SameLinks(j, k, cl, n) /\ Walk(j, cl, n) = Walk(k, cl, n)
<1>1. SameLinks(j, k, cl, n)
  <2> SUFFICES ASSUME NEW i \in 0 .. n - 1
               PROVE  Fat(j, Walk(k, cl, i)) = Fat(k, Walk(k, cl, i))
    BY DEF SameLinks
  <2>1. i \in 0 .. n /\ i + 1 \in 0 .. n
    OBVIOUS
  <2>2. Walk(k, cl, i) \in Cluster /\ Walk(k, cl, i + 1) \in Cluster
        /\ Fat(k, Walk(k, cl, i)) = Walk(k, cl, i + 1)
    BY <2>1, WalkLinks
  <2>3. QED
    BY <2>2, FatValues DEF KeepsUsed
<1>2. QED
  BY <1>1, WalkFrame

(* So it stands anywhere, *)
LEMMA KeepsUsedStands ==
  ASSUME NEW j, NEW k, IsCard(k), KeepsUsed(j, k), NEW r, NEW p \in Nat, Stands(k, r, p)
  PROVE  Stands(j, r, p)
<1>1. CASE p = 0
  BY <1>1 DEF Stands
<1>2. CASE p # 0
  <2>1. Walk(k, r.sclust, Steps(p)) \in Cluster /\ Steps(p) \in Nat
    BY <1>2, StepsNat DEF Stands
  <2>2. SameLinks(j, k, r.sclust, Steps(p))
    BY <2>1, KeepsUsedLinks
  <2>3. QED
    BY <2>2, StandsFrame
<1>3. QED
  BY <1>1, <1>2

(* and in the last cluster of its chain. *)
LEMMA KeepsUsedExtends ==
  ASSUME NEW j, NEW k, IsCard(k), KeepsUsed(j, k), NEW r, NEW n \in Nat, NEW new,
         Extends(k, r, n, new)
  PROVE  Extends(j, r, n, new)
<1>1. CASE n = 0
  BY <1>1 DEF Extends, AtEnd
<1>2. CASE n # 0
  <2>1. n - 1 \in Nat /\ Walk(k, r.sclust, n - 1) \in Cluster
        /\ r.cclust = Walk(k, r.sclust, n - 1) /\ Fat(k, r.cclust) = EOC
    BY <1>2 DEF Extends, AtEnd
  <2>2. Walk(j, r.sclust, n - 1) = Walk(k, r.sclust, n - 1)
    BY <2>1, KeepsUsedLinks
  <2>3. Fat(j, r.cclust) = EOC
    BY <2>1, FatValues DEF KeepsUsed
  <2>4. QED
    BY <1>2, <2>1, <2>2, <2>3 DEF Extends, AtEnd
<1>3. QED
  BY <1>1, <1>2

(* uzefs_truncate finds the slot at rest, and cuts no further than there. *)
LEMMA PosTruncate ==
  ASSUME NothingDropped, CardInv, CardInv', PosInv, NEW f \in Handle, Truncate(f)
  PROVE  PosInv'
<1> DEFINE r == With(files[f], {}, {"CONTIG"})
           nx == FatNext(View, r.cclust)
           cutAt == [r EXCEPT !.fsize = r.fptr]
<1>1. Ready(f) /\ UNCHANGED lent
  BY DEF Truncate, CanWrite
<1>2. /\ pc = "idle" /\ files[f] \in Slot /\ Resting(View, files[f])
      /\ \A g \in Handle : Rests(g)
  BY <1>1, ReadyRests
<1>3. r \in Slot /\ Resting(View, r) /\ NoMore(r, files[f])
  BY <1>2, WithPlace, WithNoMore
<1>4. DiskOK
  BY DEF CardInv, IndInv
<1> HIDE DEF r
<1>5. r.fptr \in Nat
  BY <1>3 DEF Slot
<1>6. CASE r.cclust = 0
  <2> DEFINE q == [r EXCEPT !.sclust = 0, !.fsize = 0]
  <2>1. BeginCut(f, q, r.sclust, "size") /\ UNCHANGED disk
    BY <1>6 DEF Truncate, r
  <2>2. /\ q \in Slot /\ q.flags = r.flags /\ q.ent = r.ent /\ q.fptr = r.fptr
        /\ q.cclust = r.cclust /\ q.csect = r.csect /\ q.fsize = 0
    BY <1>3 DEF Slot
  <2>3. r.fptr = 0 /\ r.csect = 0
    BY <1>3, <1>6, NowhereIsStart DEF Resting, Stands
  <2> HIDE DEF q
  <2>4. SetSlot(f, q) /\ pc' = "size" /\ call'.fh = f
    BY <2>1 DEF BeginCut, NoCall
  <2>5. files'[f] = q /\ \A g \in Handle : g # f => files'[g] = files[g]
    BY <2>2, <2>4, SetSlotOK DEF CardInv, IndInv, CtrlOK
  <2>6. Placed(View', q, "size", NewClust')
    BY <2>2, <2>3, <1>6 DEF Placed, Stands
  <2>7. \A g \in Handle : g # f => Rests(g)'
    BY <2>4 DEF Rests
  <2>8. NoMore(q, files[f])
    BY <2>2, <1>3, NoMoreFlags
  <2>9. Phase(f)' = "size"
    BY <2>4 DEF Phase
  <2>10. QED
    BY <1>1, <1>2, <2>1, <2>5, <2>6, <2>7, <2>8, <2>9, IdleKeeps, PosQuiet
<1>7. CASE r.cclust # 0
  <2>1. \/ /\ Load({FatSect(r.cclust)}, FatSect(r.cclust))
           /\ CASE nx \in Cluster -> BeginCut(f, cutAt, nx, "cut")
                [] nx = 0 -> BeginCut(f, cutAt, 0, "size")
                [] OTHER -> SetSlot(f, cutAt) /\ UNCHANGED <<pc, call>>
        \/ /\ LoadFails({FatSect(r.cclust)})
           /\ SetSlot(f, With(cutAt, {"FAILED"}, {}))
           /\ UNCHANGED <<pc, call>>
    BY <1>7 DEF Truncate, r
  <2>2. /\ cutAt \in Slot /\ cutAt.flags = r.flags /\ cutAt.ent = r.ent
        /\ cutAt.fptr = r.fptr /\ cutAt.sclust = r.sclust
        /\ cutAt.cclust = r.cclust /\ cutAt.csect = r.csect /\ cutAt.fsize = r.fptr
    BY <1>3 DEF Slot
  <2>3. FatSect(r.cclust) \in Sector
    BY <1>3, <1>7, Sectors DEF Slot
  <2>4. View' = View
    BY <1>1, <1>4, <2>1, <2>3, LoadOK, FailsKeep
  <2> HIDE DEF cutAt, nx
  <2>5. Resting(View, cutAt)
    BY <1>3, <1>5, <2>2, SamePlace
  <2>6. NoMore(cutAt, files[f])
    BY <2>2, <1>3, NoMoreFlags
  <2>7. CASE SetSlot(f, cutAt) /\ pc' \in {"idle", "cut", "size"}
             /\ (pc' # "idle" => call'.fh = f)
    <3>1. files'[f] = cutAt /\ \A g \in Handle : g # f => files'[g] = files[g]
      BY <2>2, <2>7, SetSlotOK DEF CardInv, IndInv, CtrlOK
    <3>2. \A g \in Handle : g # f => Rests(g)'
      BY <2>7 DEF Rests
    <3>3. Phase(f)' \notin {"alloc", "move", "link", "join"}
      BY <2>7 DEF Phase
    <3>4. Placed(View', cutAt, Phase(f)', NewClust')
      BY <2>4, <2>5, <3>3 DEF Placed, Resting
    <3>5. QED
      BY <1>1, <1>2, <2>4, <2>6, <3>1, <3>2, <3>4, LoanStays, SameMeta, PosQuiet
  <2>8. CASE SetSlot(f, With(cutAt, {"FAILED"}, {})) /\ UNCHANGED <<pc, call>>
    <3> DEFINE q == With(cutAt, {"FAILED"}, {})
    <3>1. q \in Slot /\ q.flags = cutAt.flags \cup {"FAILED"} /\ q.ent = cutAt.ent
      BY <2>2, WithOK DEF Flag
    <3>2. NoMore(q, files[f]) /\ ~Able(q)
      BY <3>1, <2>6 DEF NoMore, Able
    <3>3. QED
      BY <1>1, <1>2, <2>4, <2>8, <3>1, <3>2, LoanStays, PosSlot
  <2>9. QED
    <3>1. ASSUME NEW cl, NEW step \in {"cut", "size"}, BeginCut(f, cutAt, cl, step)
          PROVE  SetSlot(f, cutAt) /\ pc' \in {"idle", "cut", "size"}
                 /\ (pc' # "idle" => call'.fh = f)
      BY <3>1 DEF BeginCut, NoCall
    <3>2. QED
      BY <1>2, <2>1, <2>7, <2>8, <3>1
<1>8. QED
  BY <1>6, <1>7

(* Cutting a chain where a slot stands leaves it standing there. *)
LEMMA CutLeaves ==
  ASSUME CardInv, PosInv, pc = "cut", NEW f \in Handle, Live(f)
  PROVE  /\ Leaves(SetFat(View, Cur.cclust, EOC), View, files[f])
         /\ Cur.cclust \in Cluster
<1>1. /\ call.fh \in Handle /\ Cur \in Slot /\ Cur = files[call.fh]
      /\ Used(View, Cur.ent) /\ Resting(View, Cur)
      /\ \A g \in Handle : g # call.fh /\ Has(g, "OPEN") => files[g].ent # Cur.ent
  BY WriterRests DEF Placed, Resting
<1>2. IsCard(View) /\ SoundChains(View) /\ files[f] \in Slot
  BY ViewCard DEF CardInv, IndInv, CtrlOK, Good
<1>3. Cur.ent \in Entry /\ Cur.fptr \in Nat /\ Steps(Cur.fptr) \in Nat
  BY <1>1, StepsNat DEF Slot
<1>4. Cur.cclust # 0
  BY DEF CardInv, IndInv, CtrlOK, ClustOK
<1>5. /\ Ent(View, Cur.ent).sclust = Cur.sclust
      /\ Walk(View, Cur.sclust, Steps(Cur.fptr)) \in Cluster
      /\ Cur.cclust = Walk(View, Cur.sclust, Steps(Cur.fptr))
  BY <1>1, <1>4 DEF Resting, Stands
<1>6. CASE f = call.fh
  <2>1. ASSUME NEW i \in 0 .. Steps(Cur.fptr) - 1
        PROVE  Walk(View, Cur.sclust, i) # Cur.cclust
    <3>1. i \in Nat /\ i # Steps(Cur.fptr)
      BY <1>3
    <3>2. QED
      BY <1>1, <1>2, <1>3, <1>5, <3>1, WalkOnce
  <2>2. Stands(View, Cur, Cur.fptr)
    BY <1>1 DEF Resting
  <2>3. QED
    BY <1>1, <1>2, <1>5, <1>6, <2>1, <2>2, FatValues, FatLeaves
<1>7. CASE f # call.fh
  <2>1. Rests(f) /\ Has(f, "OPEN")
    BY DEF Rests, Live
  <2>2. Resting(View, files[f]) /\ Used(View, files[f].ent) /\ files[f].ent # Cur.ent
    BY <1>1, <1>7, <2>1, RestsPlaced DEF PosInv, AllPlaced, Named
  <2>3. Leaves(SetFat(View, Walk(View, Ent(View, Cur.ent).sclust, Steps(Cur.fptr)), EOC),
               View, files[f])
    BY <1>1, <1>2, <1>3, <1>5, <2>2, FatValues, OtherLeaves
  <2>4. QED
    BY <1>5, <2>3
<1>8. QED
  BY <1>5, <1>6, <1>7

(* uzefs_truncate cuts the chain. *)
LEMMA PosCut ==
  ASSUME NothingDropped, CardInv, CardInv', PosInv, Cut
  PROVE  PosInv'
<1> DEFINE k == SetFat(View, Cur.cclust, EOC)
<1>1. pc = "cut" /\ UNCHANGED lent /\ \A f \in Handle : Rests(f)
  BY DEF Cut, Rests
<1>2. call.fh \in Handle /\ Cur = files[call.fh] /\ Live(call.fh) /\ Resting(View, Cur)
      /\ Cur \in Slot
  BY <1>1, WriterRests DEF Placed, Resting
<1>3. DiskOK /\ IsCard(View)
  BY ViewCard DEF CardInv, IndInv
<1>4. Cur.cclust \in Cluster
  BY <1>1, <1>2, CutLeaves
<1>5. IsCard(k) /\ \A e \in Entry : Used(View, e) => Used(k, e)
  BY <1>3, <1>4, FatValues, SetFatCard, FatUsed
<1>6. ASSUME NEW f \in Handle, Live(f) PROVE Leaves(k, View, files[f])
  BY <1>1, <1>6, CutLeaves
<1>7. FatPut(Cur.cclust, EOC) => View' = k
  BY <1>1, <1>3, <1>4, FatValues, FatPutOK
<1>8. FatPutFails(Cur.cclust, EOC) => View' \in {View, k}
  BY <1>1, <1>5, FailsKeep DEF FatPutFails
<1> HIDE DEF k
<1>9. View' \in {View, k}
  BY <1>7, <1>8 DEF Cut
<1>10. \A f \in Handle : Has(f, "OPEN") => Used(View', files[f].ent)
  BY <1>5, <1>9 DEF PosInv, Named, CardInv, IndInv, CtrlOK, Slot
<1>11. \A f \in Handle : Live(f) => Leaves(View', View, files[f])
  BY <1>6, <1>9 DEF Leaves, SameLinks
<1>12. CASE UNCHANGED files /\ pc' = "size" /\ UNCHANGED call
  <2>1. PICK g \in Handle : g = call.fh
    BY <1>2
  <2>2. \A f \in Handle : f # g => Rests(f)'
    BY <1>12, <2>1 DEF Rests
  <2>3. Resting(View', Cur)
    BY <1>2, <1>11, LeavesRests
  <2>4. Placed(View', files'[g], "size", NewClust')
    BY <1>2, <1>12, <2>1, <2>3 DEF Placed, Resting
  <2>5. Phase(g)' = "size"
    BY <1>12, <2>1 DEF Phase
  <2>6. NoMore(files'[g], files[g])
    BY <1>12 DEF NoMore
  <2>7. QED
    BY <1>1, <1>10, <1>11, <1>12, <2>2, <2>4, <2>5, <2>6, LoanStays, PosMild
<1>13. CASE DiskError
  BY <1>1, <1>10, <1>11, <1>13, LoanStays, PosFail
<1>14. QED
  BY <1>12, <1>13 DEF Cut, Goto

(* Writing an entry for the slot r disturbs no slot with another. *)
LEMMA WithEntryLeaves ==
  ASSUME NEW k, IsCard(k), NEW r \in Slot
  PROVE  LET j == WithEntry(k, r)
         IN  /\ IsCard(j)
             /\ Ent(j, r.ent).sclust = r.sclust
             /\ \A e \in Entry : Used(k, e) => Used(j, e)
             /\ KeepsUsed(j, k)
             /\ \A q \in Slot : q.ent # r.ent /\ Stands(k, q, q.fptr) => Leaves(j, k, q)
<1> DEFINE j == WithEntry(k, r)
           v == [Ent(k, r.ent) EXCEPT !.sclust = r.sclust, !.size = r.fsize]
<1>1. r.ent \in Entry /\ v \in DirEnt /\ Ent(k, r.ent) \in DirEnt
  BY WithEntryOK, Entries
<1>2. v.name = Ent(k, r.ent).name /\ v.sclust = r.sclust
  BY <1>1 DEF DirEnt
<1>3. j = SetEnt(k, r.ent, v)
  BY DEF WithEntry
<1> HIDE DEF v, j
<1>4. /\ IsCard(j)
      /\ \A e \in Entry : Ent(j, e) = IF e = r.ent THEN v ELSE Ent(k, e)
      /\ \A c \in Cluster : Fat(j, c) = Fat(k, c)
  BY <1>1, <1>3, SetEntCard
<1>5. \A e \in Entry : Used(k, e) => Used(j, e)
  BY <1>2, <1>4 DEF Used
<1>6. \A q \in Slot : q.ent # r.ent /\ Stands(k, q, q.fptr) => Leaves(j, k, q)
  BY <1>1, <1>3, EntLeaves
<1>7. QED
  BY <1>1, <1>2, <1>4, <1>5, <1>6 DEF j, KeepsUsed

(* cut_chain writes the size. *)
LEMMA PosCutSize ==
  ASSUME NothingDropped, CardInv, CardInv', PosInv, CutSize
  PROVE  PosInv'
<1> DEFINE r == With(Cur, {}, {"DIRTY"})
           k == WithEntry(View, r)
           q == IF call.op = "open" THEN FreeSlot ELSE With(r, {"FAILED"}, {})
<1>1. pc = "size" /\ UNCHANGED lent
      /\ \/ DirWrite(r) /\ SetSlot(call.fh, r) /\ (Goto("free") \/ Done)
         \/ DirWriteFails(r) /\ SetSlot(call.fh, q) /\ Return
  BY DEF CutSize
<1>2. /\ call.fh \in Handle /\ Cur \in Slot /\ Cur = files[call.fh]
      /\ Placed(View, Cur, "size", NewClust)
      /\ \A f \in Handle : f # call.fh /\ Has(f, "OPEN") => files[f].ent # Cur.ent
  BY <1>1, WriterRests
<1>3. /\ r \in Slot /\ r.flags = Cur.flags \ {"DIRTY"} /\ r.ent = Cur.ent
      /\ r.sclust = Cur.sclust /\ r.cclust = Cur.cclust /\ r.csect = Cur.csect
      /\ r.fptr = Cur.fptr /\ r.fsize = Cur.fsize
  BY <1>2, WithoutOK
<1>4. DiskOK /\ IsCard(View) /\ \A f \in Handle : files[f] \in Slot
  BY ViewCard DEF CardInv, IndInv, CtrlOK
<1> HIDE DEF r
<1>5. /\ IsCard(k) /\ Ent(k, r.ent).sclust = r.sclust
      /\ \A e \in Entry : Used(View, e) => Used(k, e)
      /\ KeepsUsed(k, View)
      /\ \A p \in Slot : p.ent # r.ent /\ Stands(View, p, p.fptr) => Leaves(k, View, p)
  BY <1>3, <1>4, WithEntryLeaves
<1>6. DirWrite(r) => View' = k
  BY <1>1, <1>3, <1>4, DirWriteOK
<1>7. DirWriteFails(r) => View' \in {View, k}
  BY <1>1, <1>5, FailsKeep DEF DirWriteFails
<1> HIDE DEF k
<1>8. View' \in {View, k}
  BY <1>1, <1>6, <1>7
<1>9. \A f \in Handle : Has(f, "OPEN") => Used(View', files[f].ent)
  BY <1>5, <1>8 DEF PosInv, Named, CardInv, IndInv, CtrlOK, Slot
<1>10. ASSUME NEW f \in Handle, f # call.fh, Live(f) PROVE Leaves(View', View, files[f])
  <2>1. Rests(f) /\ Has(f, "OPEN")
    BY <1>10 DEF Rests, Live
  <2>2. Stands(View, files[f], files[f].fptr) /\ files[f].ent # r.ent
    BY <1>2, <1>3, <1>10, <2>1, RestsPlaced DEF PosInv, AllPlaced, Resting
  <2>3. Leaves(View, View, files[f])
    BY DEF Leaves, SameLinks
  <2>4. QED
    BY <1>4, <1>5, <1>8, <2>2, <2>3
<1>11. PICK g \in Handle : g = call.fh
  BY <1>2
<1>12. \A f \in Handle : f # g => Rests(f)
  BY <1>11 DEF Rests
<1>13. CASE DirWrite(r) /\ SetSlot(call.fh, r) /\ (Goto("free") \/ Done)
  <2>1. pc' \in {"free", "idle", "unmount", "append"}
    BY <1>13, DoneOK DEF Goto, CardInv
  <2>2. files'[g] = r /\ \A f \in Handle : f # g => files'[f] = files[f]
    BY <1>3, <1>11, <1>13, SetSlotOK DEF CardInv, IndInv, CtrlOK
  <2>3. NoMore(r, files[g])
    BY <1>2, <1>3, <1>11 DEF NoMore
  <2>4. Stands(View, r, r.fptr) /\ r.fptr <= r.fsize /\ r.fptr \in Nat
    BY <1>2, <1>3, SamePlace DEF Placed, Slot
  <2>5. Stands(View', r, r.fptr)
    BY <1>4, <1>5, <1>6, <1>13, <2>4, KeepsUsedStands
  <2>6. Resting(View', r)
    BY <1>5, <1>6, <1>13, <2>4, <2>5 DEF Resting
  <2>7. Phase(g)' \notin {"alloc", "move", "link", "join", "size"}
    BY <2>1 DEF Phase
  <2>8. Placed(View', r, Phase(g)', NewClust')
    BY <2>6, <2>7 DEF Placed, Resting
  <2>9. \A f \in Handle : Rests(f)'
    BY <2>1, RestAll
  <2>10. QED
    BY <1>1, <1>9, <1>10, <1>11, <1>12, <2>2, <2>3, <2>8, <2>9, LoanStays, PosMild
<1>14. CASE DirWriteFails(r) /\ SetSlot(call.fh, q) /\ Return
  <2>1. pc' \in {"idle", "unmount"}
    BY <1>14, ReturnOK DEF CardInv, IndInv, CtrlOK
  <2>2. q \in Slot /\ NoMore(q, files[g]) /\ ~Able(q)
    <3>1. CASE call.op = "open"
      BY <3>1, <1>11, MilderNoMore, FreeSlotOK DEF Able
    <3>2. CASE call.op # "open"
      <4>1. {"FAILED"} \in SUBSET Flag
        BY DEF Flag
      <4>2. With(r, {"FAILED"}, {}) \in Slot
            /\ With(r, {"FAILED"}, {}).flags = (r.flags \ {}) \cup {"FAILED"}
            /\ With(r, {"FAILED"}, {}).ent = r.ent
        BY <1>3, <4>1, WithOK
      <4>3. QED
        BY <1>2, <1>3, <1>11, <3>2, <4>2 DEF NoMore, Able
    <3>3. QED
      BY <3>1, <3>2
  <2> HIDE DEF q
  <2>3. files'[g] = q /\ \A f \in Handle : f # g => files'[f] = files[f]
    BY <1>11, <1>14, <2>2, SetSlotOK DEF CardInv, IndInv, CtrlOK
  <2>4. ~Live(g)'
    BY <2>2, <2>3, LiveAble
  <2>5. \A f \in Handle : Rests(f)'
    BY <2>1, RestAll
  <2>6. QED
    BY <1>1, <1>9, <1>10, <1>11, <1>12, <2>2, <2>3, <2>4, <2>5, LoanStays, PosMild
<1>15. QED
  BY <1>1, <1>13, <1>14

(* free_chain frees what no slot rests on. *)
LEMMA PosFree ==
  ASSUME NothingDropped, CardInv, CardInv', PosInv, Free
  PROVE  PosInv'
<1> DEFINE cl == call.cl
           nx == FatNext(View, cl)
           k == SetFat(View, cl, 0)
<1>1. pc = "free" /\ UNCHANGED lent /\ \A f \in Handle : Rests(f)
  BY DEF Free, Rests
<1>2. \/ nx # Bad /\ FatPut(cl, 0) /\ UNCHANGED files
         /\ ((pc' = pc /\ call' = [call EXCEPT !.cl = nx]) \/ Done)
      \/ nx = Bad /\ (IF cl \in Cluster THEN Load({FatSect(cl)}, FatSect(cl))
                                        ELSE UNCHANGED disk) /\ Corrupt
      \/ cl \in Cluster /\ LoadFails({FatSect(cl)}) /\ DiskError
      \/ cl \in Cluster /\ FatPutFails(cl, 0) /\ DiskError
  BY DEF Free
<1>3. nx # Bad => cl \in Cluster
  BY FatNextOK
<1>4. DiskOK /\ IsCard(View) /\ \A f \in Handle : files[f] \in Slot
  BY ViewCard DEF CardInv, IndInv, CtrlOK
<1> HIDE DEF cl, nx
<1>5. CASE nx = Bad /\ (IF cl \in Cluster THEN Load({FatSect(cl)}, FatSect(cl))
                                          ELSE UNCHANGED disk) /\ Corrupt
  <2>1. cl \in Cluster => FatSect(cl) \in Sector
    BY Sectors
  <2>2. View' = View
    BY <1>1, <1>4, <1>5, <2>1, LoadOK, SameDiskOK
  <2>3. QED
    BY <1>1, <1>5, <2>2, LoanStays, PosCorrupt
<1>6. CASE cl \in Cluster /\ LoadFails({FatSect(cl)}) /\ DiskError
  BY <1>1, <1>6, FailsKeep, SameMeta, LoanStays, PosFailQuiet
<1>7. ASSUME cl \in Cluster, FatPut(cl, 0) \/ FatPutFails(cl, 0)
      PROVE  /\ \A f \in Handle : Has(f, "OPEN") => Used(View', files[f].ent)
             /\ \A f \in Handle : Live(f) => Leaves(View', View, files[f])
  <2>1. ~Points(View, cl)
    BY <1>1, <1>7 DEF CardInv, StepsOK, FreeOK, cl
  <2>2. IsCard(k) /\ \A e \in Entry : Used(View, e) => Used(k, e)
    BY <1>4, <1>7, FatValues, SetFatCard, FatUsed
  <2>3. FatPut(cl, 0) => View' = k
    BY <1>1, <1>4, <1>7, FatValues, FatPutOK
  <2>4. FatPutFails(cl, 0) => View' \in {View, k}
    BY <1>1, <2>2, FailsKeep DEF FatPutFails
  <2>5. View' \in {View, k}
    BY <1>7, <2>3, <2>4
  <2>6. ASSUME NEW f \in Handle, Live(f) PROVE Leaves(k, View, files[f])
    <3>1. Resting(View, files[f]) /\ Used(View, files[f].ent)
      BY <1>1, <2>6, RestsPlaced DEF PosInv, AllPlaced, Named, Live
    <3>2. QED
      BY <1>4, <1>7, <2>1, <3>1, FatValues, UnpointedLeaves
  <2> HIDE DEF k
  <2>7. \A f \in Handle : Has(f, "OPEN") => Used(View', files[f].ent)
    BY <2>2, <2>5 DEF PosInv, Named, CardInv, IndInv, CtrlOK, Slot
  <2>8. \A f \in Handle : Live(f) => Leaves(View', View, files[f])
    BY <2>5, <2>6 DEF Leaves, SameLinks
  <2>9. QED
    BY <2>7, <2>8
<1>8. ASSUME nx # Bad, FatPut(cl, 0), UNCHANGED files,
             (pc' = pc /\ call' = [call EXCEPT !.cl = nx]) \/ Done
      PROVE  PosInv'
  <2>1. pc' \in {"free", "idle", "unmount", "append"}
    BY <1>1, <1>8, DoneOK DEF CardInv
  <2>2. \A f \in Handle : Rests(f)'
    BY <2>1, RestAll
  <2>3. cl \in Cluster
    BY <1>3, <1>8
  <2>4. QED
    BY <1>1, <1>7, <1>8, <2>2, <2>3, LoanStays, PosSame
<1>9. CASE cl \in Cluster /\ FatPutFails(cl, 0) /\ DiskError
  BY <1>1, <1>7, <1>9, LoanStays, PosFail
<1>10. QED
  BY <1>2, <1>5, <1>6, <1>8, <1>9

-----------------------------------------------------------------------------
(***************************************************************************)
(* Positions, sectors and clusters.                                        *)
(***************************************************************************)
(* The quotient and the remainder, *)
LEMMA DivIs ==
  ASSUME NEW x \in Nat, NEW w \in Nat, w > 0
  PROVE  x \div w \in Nat /\ x = w * (x \div w) + (x % w) /\ x % w \in 0 .. w - 1
OBVIOUS

(* which are the only ones. *)
LEMMA DivUnique ==
  ASSUME NEW w \in Nat, w > 0, NEW t \in Nat, NEW r \in 0 .. w - 1
  PROVE  (w * t + r) \div w = t /\ (w * t + r) % w = r
OBVIOUS

(* Dividing twice is dividing by the product. *)
LEMMA DivDiv ==
  ASSUME NEW a \in Nat, NEW u \in Nat, u > 0, NEW s \in Nat, s > 0
  PROVE  a \div (s * u) = (a \div u) \div s
<1> DEFINE q == a \div u
           r == a % u
           t == q \div s
           m == q % s
           w == s * u
           z == u * m + r
<1>1. q \in Nat /\ a = u * q + r /\ r \in 0 .. u - 1
  BY DivIs
<1> HIDE DEF q, r
<1>2. t \in Nat /\ q = s * t + m /\ m \in 0 .. s - 1
  BY <1>1, DivIs
<1> HIDE DEF t, m
<1>3. w \in Nat /\ w > 0
  OBVIOUS
<1>4. z \in 0 .. w - 1
  <2>1. u * m <= u * (s - 1)
    BY <1>2
  <2>2. u * (s - 1) = w - u
    OBVIOUS
  <2>3. u * m \in Nat
    BY <1>2
  <2> DEFINE x == u * m
             y == u * (s - 1)
  <2>4. x <= y /\ y = w - u /\ x \in Nat
    BY <2>1, <2>2, <2>3
  <2> HIDE DEF x, y, w
  <2>5. x + r \in 0 .. w - 1
    BY <1>1, <1>3, <2>4
  <2>6. QED
    BY <2>5 DEF x
<1>5. a = w * t + z
  <2>1. u * q = u * (s * t) + u * m
    BY <1>2
  <2>2. u * (s * t) = w * t
    BY <1>2
  <2> DEFINE b == u * q
             c == w * t
             d == u * m
  <2>3. b = c + d /\ a = b + r /\ c \in Int /\ d \in Int /\ b \in Int
    BY <1>1, <1>2, <2>1, <2>2
  <2> HIDE DEF b, c, d
  <2>4. a = c + (d + r)
    BY <1>1, <2>3
  <2>5. QED
    BY <2>4 DEF c, d
<1> HIDE DEF w, z
<1>6. a \div w = t
  BY <1>2, <1>3, <1>4, <1>5, DivUnique
<1>7. QED
  BY <1>6 DEF w, t, q

(* Going on without reaching a multiple, *)
LEMMA DivStay ==
  ASSUME NEW a \in Nat, NEW w \in Nat, w > 0, NEW n \in Nat, (a % w) + n < w
  PROVE  (a + n) \div w = a \div w /\ (a + n) % w = (a % w) + n
<1> DEFINE q == a \div w
           r == a % w
<1>1. q \in Nat /\ a = w * q + r /\ r \in 0 .. w - 1
  BY DivIs
<1>2. r + n \in 0 .. w - 1
  BY <1>1
<1> HIDE DEF q, r
<1>3. a + n = w * q + (r + n)
  BY <1>1
<1>4. (a + n) \div w = q /\ (a + n) % w = r + n
  BY <1>1, <1>2, <1>3, DivUnique
<1>5. QED
  BY <1>4 DEF q, r

(* and going on to one. *)
LEMMA DivNext ==
  ASSUME NEW a \in Nat, NEW w \in Nat, w > 0, (a + 1) % w = 0
  PROVE  (a + 1) \div w = (a \div w) + 1 /\ a + 1 = w * ((a \div w) + 1)
<1> DEFINE q == a \div w
           r == a % w
<1>1. q \in Nat /\ a = w * q + r /\ r \in 0 .. w - 1
  BY DivIs
<1> HIDE DEF q, r
<1>2. r = w - 1
  <2>1. SUFFICES ASSUME r # w - 1 PROVE FALSE
    OBVIOUS
  <2>2. r + 1 \in 0 .. w - 1 /\ r + 1 # 0
    BY <1>1, <2>1
  <2>3. a + 1 = w * q + (r + 1)
    BY <1>1
  <2>4. (w * q + (r + 1)) % w = r + 1
    BY <1>1, <2>2, DivUnique
  <2>5. QED
    BY <2>2, <2>3, <2>4
<1>3. a + 1 = w * (q + 1)
  BY <1>1, <1>2
<1>4. a + 1 = w * (q + 1) + 0 /\ q + 1 \in Nat /\ 0 \in 0 .. w - 1
  BY <1>1, <1>3
<1>5. (a + 1) \div w = q + 1
  BY <1>4, DivUnique
<1>6. QED
  BY <1>3, <1>5 DEF q

(* A step to what is no multiple. *)
LEMMA DivSame ==
  ASSUME NEW a \in Nat, NEW w \in Nat, w > 0, (a + 1) % w # 0
  PROVE  /\ (a % w) + 1 < w /\ (a + 1) \div w = a \div w
         /\ (a + 1) % w = (a % w) + 1
<1> DEFINE q == a \div w
           r == a % w
<1>1. q \in Nat /\ a = w * q + r /\ r \in 0 .. w - 1
  BY DivIs
<1> HIDE DEF q, r
<1>2. r + 1 < w
  <2>1. SUFFICES ASSUME r = w - 1 PROVE FALSE
    BY <1>1
  <2>2. a + 1 = w * (q + 1) + 0 /\ q + 1 \in Nat /\ 0 \in 0 .. w - 1
    BY <1>1, <2>1
  <2>3. (w * (q + 1) + 0) % w = 0
    BY <2>2, DivUnique
  <2>4. QED
    BY <2>2, <2>3
<1>3. (a % w) + 1 < w
  BY <1>2 DEF r
<1>4. QED
  BY <1>3, DivStay

(* The walk to a position counts the sectors before it. *)
LEMMA StepsUnits ==
  ASSUME NEW p \in Nat, p > 0
  PROVE  LET u == (p - 1) \div UPS
         IN  u \in Nat /\ Steps(p) = u \div SPC
<1>1. p - 1 \in Nat
  OBVIOUS
<1>2. (p - 1) \div UPC = ((p - 1) \div UPS) \div SPC
  BY <1>1, UnitsOK, DivDiv
<1>3. (p - 1) \div UPS \in Nat
  BY <1>1, UnitsOK
<1>4. QED
  BY <1>2, <1>3, StepsNat

(* Where a slot stands depends on the sector. *)
LEMMA SameSectorStands ==
  ASSUME NEW k, NEW r, NEW p \in Nat, NEW q \in Nat, p > 0, q > 0,
         (p - 1) \div UPS = (q - 1) \div UPS, Stands(k, r, p)
  PROVE  Stands(k, r, q)
<1>1. Steps(p) = Steps(q)
  BY StepsUnits
<1>2. QED
  BY <1>1 DEF Stands

(* Inside a sector the next position is in it. *)
LEMMA InSector ==
  ASSUME NEW p \in Nat, p % UPS # 0
  PROVE  p > 0 /\ ((p + 1) - 1) \div UPS = (p - 1) \div UPS
<1>1. p > 0
  BY UnitsOK
<1> DEFINE a == p - 1
<1>2. a \in Nat /\ a + 1 = p
  BY <1>1
<1> HIDE DEF a
<1>3. (a + 1) \div UPS = a \div UPS
  BY <1>2, UnitsOK, DivSame
<1>4. (p + 1) - 1 = p
  OBVIOUS
<1>5. QED
  BY <1>1, <1>2, <1>3, <1>4 DEF a

(* At its end it is in the next one. *)
LEMMA NextSector ==
  ASSUME NEW p \in Nat, p > 0, p % UPS = 0
  PROVE  LET u == (p - 1) \div UPS
         IN  u \in Nat /\ p \div UPS = u + 1 /\ p = UPS * (u + 1)
<1> DEFINE a == p - 1
<1>1. a \in Nat /\ a + 1 = p
  OBVIOUS
<1> HIDE DEF a
<1>2. (a + 1) \div UPS = (a \div UPS) + 1 /\ a + 1 = UPS * ((a \div UPS) + 1)
  BY <1>1, UnitsOK, DivNext
<1>3. a \div UPS \in Nat
  BY <1>1, UnitsOK
<1>4. QED
  BY <1>1, <1>2, <1>3 DEF a

(* A chunk stays in its sector. *)
LEMMA ChunkStays ==
  ASSUME NEW p \in Nat, NEW n \in Nat, n > 0, n <= UPS - (p % UPS)
  PROVE  ((p + n) - 1) \div UPS = p \div UPS
<1> DEFINE m == n - 1
<1>1. m \in Nat /\ (p + n) - 1 = p + m
  OBVIOUS
<1>2. p % UPS \in Nat
  BY UnitsOK
<1>3. (p % UPS) + m < UPS
  BY <1>2, UnitsOK
<1> HIDE DEF m
<1>4. (p + m) \div UPS = p \div UPS
  BY <1>1, <1>3, UnitsOK, DivStay
<1>5. QED
  BY <1>1, <1>4

(* The sector after one of a cluster is in it, or it was the last one. *)
LEMMA SectorAfter ==
  ASSUME NEW c \in Cluster, NEW i \in 0 .. SPC - 1
  PROVE  ((ClustSect(c) + i) + 1) % SPC = 0 <=> (i + 1) % SPC = 0
<1>1. SPC \in Nat /\ SPC > 0 /\ c \in Nat /\ c - 2 \in Nat /\ c - 1 \in Nat
  BY UnitsOK, GeometryAssumption DEF Cluster
<1>2. CASE i + 1 < SPC
  <2>1. i + 1 \in 0 .. SPC - 1 /\ i + 1 # 0
    BY <1>1, <1>2
  <2>2. (SPC * (c - 2) + (i + 1)) % SPC = i + 1 /\ (SPC * 0 + (i + 1)) % SPC = i + 1
    BY <1>1, <2>1, DivUnique
  <2>3. (ClustSect(c) + i) + 1 = SPC * (c - 2) + (i + 1) /\ SPC * 0 + (i + 1) = i + 1
    BY <1>1 DEF ClustSect
  <2>4. QED
    BY <2>1, <2>2, <2>3
<1>3. CASE i + 1 = SPC
  <2>1. 0 \in 0 .. SPC - 1 /\ 1 \in Nat
    BY <1>1
  <2>2. (SPC * (c - 1) + 0) % SPC = 0 /\ (SPC * 1 + 0) % SPC = 0
    BY <1>1, <2>1, DivUnique
  <2>3. SPC * (c - 1) = (c - 2) * SPC + SPC /\ SPC * 1 = SPC
    <3>1. \A s, d \in Nat : s * (d + 1) = d * s + s /\ s * 1 = s
      OBVIOUS
    <3> DEFINE d == c - 2
    <3>2. d \in Nat /\ c - 1 = d + 1
      BY <1>1
    <3> HIDE DEF d
    <3>3. SPC * (d + 1) = d * SPC + SPC /\ SPC * 1 = SPC
      BY <1>1, <3>1, <3>2
    <3>4. QED
      BY <3>2, <3>3 DEF d
  <2> DEFINE x == (c - 2) * SPC
             y == SPC * (c - 1)
             z == SPC * 1
  <2>4. x \in Int /\ y = x + SPC /\ z = SPC
    BY <1>1, <2>3
  <2> HIDE DEF x, y, z
  <2>5. (x + i) + 1 = y + 0 /\ z + 0 = i + 1
    BY <1>1, <1>3, <2>4
  <2>6. QED
    BY <2>2, <2>5 DEF ClustSect, x, y, z
<1>4. QED
  BY <1>1, <1>2, <1>3

(* The last sector of a cluster. *)
LEMMA LastOfCluster ==
  ASSUME NEW i \in 0 .. SPC - 1
  PROVE  (i + 1) % SPC = 0 <=> i + 1 = SPC
<1>1. SPC \in Nat /\ SPC > 0
  BY UnitsOK
<1>2. CASE i + 1 < SPC
  <2>1. i + 1 \in 0 .. SPC - 1 /\ i + 1 # 0 /\ 0 \in Nat
    BY <1>1, <1>2
  <2>2. (SPC * 0 + (i + 1)) % SPC = i + 1
    BY <1>1, <2>1, DivUnique
  <2>3. SPC * 0 + (i + 1) = i + 1
    BY <1>1
  <2>4. QED
    BY <1>2, <2>1, <2>2, <2>3
<1>3. CASE i + 1 = SPC
  <2>1. 0 \in 0 .. SPC - 1 /\ 1 \in Nat
    BY <1>1
  <2>2. (SPC * 1 + 0) % SPC = 0
    BY <1>1, <2>1, DivUnique
  <2>3. SPC * 1 + 0 = SPC
    BY <1>1
  <2>4. QED
    BY <1>3, <2>2, <2>3
<1>4. QED
  BY <1>1, <1>2, <1>3

(* locate, in the sector or the cluster of the last byte. *)
LEMMA StandsOn ==
  ASSUME NEW k, NEW r \in Slot, Stands(k, r, r.fptr),
         NEW q, q.sclust = r.sclust, q.cclust = r.cclust,
         \/ r.fptr % UPS # 0 /\ q.csect = r.csect
         \/ /\ r.fptr % UPS = 0 /\ r.cclust # 0 /\ (r.csect + 1) % SPC # 0
            /\ q.csect = r.csect + 1
  PROVE  Stands(k, q, r.fptr + 1)
<1> DEFINE p == r.fptr
           u == (p - 1) \div UPS
           i == u % SPC
<1>1. p \in Nat /\ p + 1 \in Nat /\ p + 1 > 0 /\ (p + 1) - 1 = p
  BY DEF Slot
<1>2. CASE p % UPS # 0
  <2>1. p > 0 /\ ((p + 1) - 1) \div UPS = (p - 1) \div UPS
    BY <1>1, <1>2, InSector
  <2>2. Stands(k, r, p + 1)
    BY <1>1, <2>1, SameSectorStands
  <2>3. q.csect = r.csect
    BY <1>2
  <2>4. QED
    BY <2>2, <2>3 DEF Stands
<1>3. CASE p % UPS = 0
  <2>1. r.cclust # 0 /\ (r.csect + 1) % SPC # 0 /\ q.csect = r.csect + 1
    BY <1>3
  <2>2. p > 0
    BY <1>1, <2>1 DEF Stands
  <2>3. u \in Nat /\ p \div UPS = u + 1 /\ Steps(p) = u \div SPC
    BY <1>1, <1>3, <2>2, NextSector, StepsUnits
  <2>4. i \in 0 .. SPC - 1
    BY <2>3, UnitsOK, DivIs
  <2>5. /\ Walk(k, r.sclust, Steps(p)) \in Cluster
        /\ r.cclust = Walk(k, r.sclust, Steps(p))
        /\ r.csect = ClustSect(r.cclust) + i
    BY <2>2 DEF Stands
  <2>6. Steps(p + 1) = (p \div UPS) \div SPC
    BY <1>1, StepsUnits
  <2> HIDE DEF p, u, i
  <2>7. (i + 1) % SPC # 0
    BY <2>1, <2>4, <2>5, SectorAfter
  <2>8. i + 1 < SPC
    BY <2>4, <2>7, LastOfCluster, UnitsOK
  <2>9. 1 \in Nat /\ (u % SPC) + 1 < SPC
    BY <2>8 DEF i
  <2>10. (u + 1) \div SPC = u \div SPC /\ (u + 1) % SPC = (u % SPC) + 1
    BY <2>3, <2>9, UnitsOK, DivStay
  <2>11. Steps(p + 1) = Steps(p) /\ (p \div UPS) % SPC = i + 1
    BY <2>3, <2>6, <2>10 DEF i
  <2>12. r.csect + 1 = ClustSect(r.cclust) + (i + 1)
    <3>1. r.cclust \in Nat /\ i \in Nat /\ SPC \in Nat
      BY <2>4, <2>5, UnitsOK, GeometryAssumption DEF Cluster
    <3>2. ClustSect(r.cclust) \in Int
      BY <3>1 DEF ClustSect
    <3>3. QED
      BY <2>5, <3>1, <3>2
  <2>13. p + 1 # 0 /\ (p + 1) - 1 = p
    BY <1>1
  <2>14. Stands(k, q, p + 1)
    BY <2>1, <2>5, <2>11, <2>12, <2>13 DEF Stands
  <2>15. QED
    BY <2>14 DEF p
<1>4. QED
  BY <1>2, <1>3

(* Otherwise the position is at the end of a cluster. *)
LEMMA StandsAtEnd ==
  ASSUME NEW k, NEW r \in Slot, Stands(k, r, r.fptr), r.fptr % UPS = 0,
         ~(r.cclust # 0 /\ (r.csect + 1) % SPC # 0)
  PROVE  LET p == r.fptr
             n == p \div UPC
         IN  /\ n \in Nat /\ p % UPC = 0 /\ Steps(p + 1) = n
             /\ (p \div UPS) % SPC = 0
             /\ n = 0 <=> r.cclust = 0
             /\ n # 0 => /\ n - 1 \in Nat
                         /\ Walk(k, r.sclust, n - 1) \in Cluster
                         /\ r.cclust = Walk(k, r.sclust, n - 1)
<1> DEFINE p == r.fptr
           n == p \div UPC
           u == (p - 1) \div UPS
           i == u % SPC
           t == u \div SPC
<1>1. p \in Nat /\ p + 1 \in Nat /\ p + 1 > 0 /\ (p + 1) - 1 = p
  BY DEF Slot
<1>2. CASE r.cclust = 0
  <2>1. p = 0
    <3>1. p # 0 => r.cclust \in Cluster
      BY DEF Stands
    <3>2. QED
      BY <1>2, <3>1, FatValues
  <2>2. 0 \div UPC = 0 /\ 0 % UPC = 0 /\ 0 \div UPS = 0 /\ 0 % SPC = 0 /\ 0 \div SPC = 0
    BY UnitsOK
  <2>3. Steps(p + 1) = 0
    <3>1. Steps(p + 1) = (p \div UPS) \div SPC
      BY <1>1, StepsUnits
    <3>2. QED
      BY <2>1, <2>2, <3>1
  <2>4. n = 0 /\ p % UPC = 0 /\ (p \div UPS) % SPC = 0
    BY <2>1, <2>2
  <2>5. QED
    BY <1>2, <2>3, <2>4
<1>3. CASE r.cclust # 0
  <2>1. (r.csect + 1) % SPC = 0
    BY <1>3
  <2>2. p > 0
    BY <1>1, <1>3 DEF Stands
  <2>3. u \in Nat /\ p \div UPS = u + 1 /\ p = UPS * (u + 1) /\ Steps(p) = t
    BY <1>1, <2>2, NextSector, StepsUnits
  <2>4. t \in Nat /\ u = SPC * t + i /\ i \in 0 .. SPC - 1
    BY <2>3, UnitsOK, DivIs
  <2>5. /\ Walk(k, r.sclust, Steps(p)) \in Cluster
        /\ r.cclust = Walk(k, r.sclust, Steps(p))
        /\ r.csect = ClustSect(r.cclust) + i
    BY <2>2 DEF Stands
  <2>6. Steps(p + 1) = (p \div UPS) \div SPC
    BY <1>1, StepsUnits
  <2>7. p \div UPC = (p \div UPS) \div SPC
    BY <1>1, UnitsOK, DivDiv
  <2> HIDE DEF p, u, i, t
  <2>8. i + 1 = SPC
    BY <2>1, <2>4, <2>5, SectorAfter, LastOfCluster
  <2>9. u + 1 = SPC * (t + 1) + 0 /\ t + 1 \in Nat /\ 0 \in 0 .. SPC - 1
    <3>1. SPC \in Nat /\ SPC > 0
      BY UnitsOK
    <3>2. SPC * (t + 1) = SPC * t + SPC /\ SPC * t \in Nat
      BY <3>1, <2>4
    <3> DEFINE x == SPC * t
               y == SPC * (t + 1)
    <3>3. y = x + SPC /\ u = x + i /\ x \in Nat
      BY <3>2, <2>4
    <3> HIDE DEF x, y
    <3>4. u + 1 = y + 0
      BY <3>1, <3>3, <2>4, <2>8
    <3>5. QED
      BY <3>1, <3>4, <2>4 DEF y
  <2>10. (u + 1) \div SPC = t + 1 /\ (u + 1) % SPC = 0
    BY <2>9, UnitsOK, DivUnique
  <2>11. p % UPC = 0
    <3>1. p = UPC * (t + 1) + 0
      <4>1. \A a, b, c \in Nat : a * (b * c) = (b * a) * c + 0
        OBVIOUS
      <4>2. UPS * (SPC * (t + 1)) = (SPC * UPS) * (t + 1) + 0
        BY <2>9, <4>1, UnitsOK
      <4>3. u + 1 = SPC * (t + 1)
        BY <2>9, UnitsOK
      <4>4. QED
        BY <2>3, <4>2, <4>3, UnitsOK
    <3>2. 0 \in 0 .. UPC - 1 /\ UPC \in Nat /\ UPC > 0 /\ t + 1 \in Nat
      BY <2>9, UnitsOK
    <3>3. (UPC * (t + 1) + 0) % UPC = 0
      BY ONLY <3>2, DivUnique
    <3>4. QED
      BY ONLY <3>1, <3>3
  <2>12. p \div UPC = t + 1 /\ Steps(p + 1) = t + 1 /\ (p \div UPS) % SPC = 0
    BY <2>3, <2>6, <2>7, <2>10
  <2>13. t + 1 # 0 /\ (t + 1) - 1 = t /\ t + 1 \in Nat
    BY <2>4
  <2>14. QED
    BY <1>3, <2>3, <2>4, <2>5, <2>11, <2>12, <2>13 DEF p
<1>4. QED
  BY <1>2, <1>3

(* What a slot is set to is a slot. *)
LEMMA SetSlotIs ==
  ASSUME CardInv, CardInv', NEW g \in Handle, NEW q, SetSlot(g, q)
  PROVE  /\ q \in Slot /\ files'[g] = q
         /\ \A f \in Handle : f # g => files'[f] = files[f]
BY DEF CardInv, IndInv, CtrlOK, SetSlot

(* The slot of a transfer, if it is still open. *)
LEMMA TransferSlot ==
  ASSUME CardInv, PosInv, pc \in {"chunk", "alloc", "move", "link", "join"}
  PROVE  /\ call.fh \in Handle /\ Cur \in Slot /\ Cur = files[call.fh]
         /\ Cur.fptr \in Nat /\ Cur.fsize \in Nat
         /\ \A f \in Handle : f # call.fh => Rests(f)
         /\ "OPEN" \in Cur.flags => Placed(View, Cur, pc, NewClust)
         /\ IsCard(View) /\ DiskOK
<1>1. call.fh \in Handle /\ Cur \in Slot /\ Cur = files[call.fh] /\ "FAILED" \notin Cur.flags
  BY CurOK DEF CardInv
<1>2. "OPEN" \in Cur.flags => Placed(View, Cur, pc, NewClust)
  BY <1>1 DEF PosInv, AllPlaced, Phase, Live, Has
<1>3. \A f \in Handle : f # call.fh => Rests(f)
  BY DEF Rests
<1>4. IsCard(View) /\ DiskOK
  BY ViewCard DEF CardInv, IndInv
<1>5. QED
  BY <1>1, <1>2, <1>3, <1>4 DEF Slot

(* locate, where it needs no card. *)
LEMMA PosSameCluster ==
  ASSUME CardInv, CardInv', PosInv, SameCluster
  PROVE  PosInv'
<1> DEFINE q == IF AtBoundary THEN [Cur EXCEPT !.csect = @ + 1] ELSE Cur
<1>1. /\ pc = "chunk" /\ (AtBoundary => InCluster) /\ SetSlot(call.fh, q)
      /\ pc' = "move" /\ UNCHANGED call /\ UNCHANGED disk /\ UNCHANGED lent
  BY DEF SameCluster, Goto
<1>2. /\ call.fh \in Handle /\ Cur \in Slot /\ Cur = files[call.fh]
      /\ \A f \in Handle : f # call.fh => Rests(f)
      /\ "OPEN" \in Cur.flags => Placed(View, Cur, "chunk", NewClust)
      /\ DiskOK
  BY <1>1, TransferSlot
<1>3. "NEWCL" \notin Cur.flags
  BY <1>1, CurOK DEF CardInv
<1>4. PICK g \in Handle : g = call.fh
  BY <1>2
<1>5. /\ q.flags = Cur.flags /\ q.ent = Cur.ent /\ q.sclust = Cur.sclust
      /\ q.cclust = Cur.cclust /\ q.fptr = Cur.fptr /\ q.fsize = Cur.fsize
      /\ q.csect = IF AtBoundary THEN Cur.csect + 1 ELSE Cur.csect
  BY <1>2 DEF Slot
<1> HIDE DEF q
<1>6. files'[g] = q /\ \A f \in Handle : f # g => files'[f] = files[f]
  BY <1>1, <1>4, SetSlotIs
<1>7. View' = View
  BY <1>1, <1>2, SameDiskOK
<1>8. "OPEN" \in q.flags => Placed(View', q, "move", NewClust')
  <2> SUFFICES ASSUME "OPEN" \in q.flags PROVE Placed(View', q, "move", NewClust')
    OBVIOUS
  <2>1. /\ Cur.fptr <= Cur.fsize /\ Ent(View, Cur.ent).sclust = Cur.sclust
        /\ Stands(View, Cur, Cur.fptr)
    BY <1>2, <1>5 DEF Placed
  <2>2. \/ Cur.fptr % UPS # 0 /\ q.csect = Cur.csect
        \/ /\ Cur.fptr % UPS = 0 /\ Cur.cclust # 0 /\ (Cur.csect + 1) % SPC # 0
           /\ q.csect = Cur.csect + 1
    BY <1>1, <1>5 DEF AtBoundary, Offset, InCluster
  <2>3. Stands(View, q, Cur.fptr + 1)
    BY <1>2, <1>5, <2>1, <2>2, StandsOn
  <2>4. QED
    BY <1>3, <1>5, <1>7, <2>1, <2>3 DEF Placed, InMove
<1>9. NoMore(q, files[g])
  BY <1>2, <1>4, <1>5 DEF NoMore
<1>10. \A f \in Handle : f # g => Rests(f)'
  BY <1>1, <1>4 DEF Rests
<1>11. Phase(g)' = "move"
  BY <1>1, <1>4 DEF Phase
<1>12. Live(g)' => "OPEN" \in q.flags
  BY <1>6 DEF Live, Has
<1>13. QED
  BY <1>1, <1>2, <1>4, <1>6, <1>7, <1>8, <1>9, <1>10, <1>11, <1>12, LoanStays, SameMeta, PosQuiet

(* locate, into the next cluster, or finding that there is none. *)
LEMMA PosNextCluster ==
  ASSUME NothingDropped, CardInv, CardInv', PosInv, NextCluster
  PROVE  PosInv'
<1> DEFINE nx == IF Cur.cclust # 0 THEN FatNext(View, Cur.cclust) ELSE Cur.sclust
           S == IF Cur.cclust # 0 THEN {FatSect(Cur.cclust)} ELSE {}
           q == [Cur EXCEPT !.cclust = nx, !.csect = ClustSect(nx)]
           p == Cur.fptr
           n == p \div UPC
<1>1. /\ pc = "chunk" /\ AtBoundary /\ ~InCluster /\ UNCHANGED lent
      /\ \/ /\ Load(S, FatSect(Cur.cclust))
            /\ \/ nx \in Cluster /\ SetSlot(call.fh, q) /\ Goto("move")
               \/ nx = 0 /\ UNCHANGED files /\ Goto("alloc")
               \/ Corrupt
         \/ LoadFails(S) /\ DiskError
  BY DEF NextCluster
<1>2. /\ call.fh \in Handle /\ Cur \in Slot /\ Cur = files[call.fh]
      /\ \A f \in Handle : f # call.fh => Rests(f)
      /\ "OPEN" \in Cur.flags => Placed(View, Cur, "chunk", NewClust)
      /\ DiskOK /\ IsCard(View)
  BY <1>1, TransferSlot
<1>3. "NEWCL" \notin Cur.flags
  BY <1>1, CurOK DEF CardInv
<1>4. PICK g \in Handle : g = call.fh
  BY <1>2
<1>5. S # {} => FatSect(Cur.cclust) \in S /\ FatSect(Cur.cclust) \in Sector
  BY <1>2, Sectors DEF Slot
<1>6. "OPEN" \in Cur.flags =>
        /\ Cur.fptr <= Cur.fsize /\ Ent(View, Cur.ent).sclust = Cur.sclust
        /\ Stands(View, Cur, Cur.fptr)
  BY <1>2 DEF Placed
<1>7. "OPEN" \in Cur.flags =>
        /\ n \in Nat /\ (p % UPC) = 0 /\ Steps(p + 1) = n
        /\ (p \div UPS) % SPC = 0
        /\ n = 0 <=> Cur.cclust = 0
        /\ n # 0 => /\ n - 1 \in Nat
                    /\ Walk(View, Cur.sclust, n - 1) \in Cluster
                    /\ Cur.cclust = Walk(View, Cur.sclust, n - 1)
  <2>1. Cur.fptr % UPS = 0 /\ ~(Cur.cclust # 0 /\ (Cur.csect + 1) % SPC # 0)
    BY <1>1 DEF AtBoundary, Offset, InCluster
  <2>2. QED
    BY <1>2, <1>6, <2>1, StandsAtEnd
<1>8. p \in Nat
  BY <1>2 DEF Slot
<1> HIDE DEF S
<1>9. CASE Load(S, FatSect(Cur.cclust)) /\ nx \in Cluster /\ SetSlot(call.fh, q)
           /\ pc' = "move" /\ UNCHANGED call
  <2>1. View' = View
    BY <1>1, <1>2, <1>5, <1>9, LoadOK
  <2>2. /\ q.flags = Cur.flags /\ q.ent = Cur.ent /\ q.sclust = Cur.sclust
        /\ q.cclust = nx /\ q.fptr = Cur.fptr /\ q.fsize = Cur.fsize
        /\ q.csect = ClustSect(nx)
    BY <1>2 DEF Slot
  <2>3. SetSlot(call.fh, q) /\ nx \in Cluster
    BY <1>9
  <2> HIDE DEF q
  <2>4. files'[g] = q /\ \A f \in Handle : f # g => files'[f] = files[f]
    BY <1>4, <2>3, SetSlotIs
  <2>5. "OPEN" \in q.flags => Placed(View', q, "move", NewClust')
    <3> SUFFICES ASSUME "OPEN" \in Cur.flags PROVE Placed(View', q, "move", NewClust')
      BY <2>2
    <3>1. Walk(View, Cur.sclust, n) = nx
      <4>1. CASE n = 0
        <5>1. nx = Cur.sclust
          BY <1>7, <4>1
        <5>2. QED
          BY <4>1, <5>1, WalkIs
      <4>2. CASE n # 0
        <5>1. nx = FatNext(View, Walk(View, Cur.sclust, n - 1)) /\ n - 1 \in Nat
              /\ (n - 1) + 1 = n
          BY <1>7, <4>2
        <5>2. QED
          BY <5>1, WalkIs
      <4>3. QED
        BY <4>1, <4>2
    <3> HIDE DEF nx, n
    <3>2. (p + 1) # 0 /\ (p + 1) - 1 = p
      BY <1>8
    <3>3. nx = Walk(View, q.sclust, Steps(p + 1))
      BY <1>7, <2>2, <3>1
    <3>4. ClustSect(nx) + 0 = ClustSect(nx)
      BY <2>3, UnitsOK, GeometryAssumption DEF ClustSect, Cluster
    <3>5. q.csect = ClustSect(nx) + ((((p + 1) - 1) \div UPS) % SPC)
      BY <1>7, <2>2, <3>2, <3>4
    <3>6. Stands(View, q, p + 1)
      BY <2>2, <2>3, <3>2, <3>3, <3>5 DEF Stands
    <3>7. QED
      BY <1>3, <1>6, <2>1, <2>2, <3>6 DEF Placed, InMove
  <2>6. NoMore(q, files[g])
    BY <1>2, <1>4, <2>2 DEF NoMore
  <2>7. \A f \in Handle : f # g => Rests(f)'
    BY <1>4, <1>9 DEF Rests
  <2>8. Phase(g)' = "move"
    BY <1>4, <1>9 DEF Phase
  <2>9. Live(g)' => "OPEN" \in q.flags
    BY <2>4 DEF Live, Has
  <2>10. QED
    BY <1>1, <1>2, <1>4, <2>1, <2>4, <2>5, <2>6, <2>7, <2>8, <2>9, LoanStays, SameMeta, PosQuiet
<1>10. CASE Load(S, FatSect(Cur.cclust)) /\ nx = 0 /\ UNCHANGED files
            /\ pc' = "alloc" /\ UNCHANGED call
  <2>1. View' = View
    BY <1>1, <1>2, <1>5, <1>10, LoadOK
  <2>2. "OPEN" \in Cur.flags => Placed(View', files'[g], "alloc", NewClust')
    <3> SUFFICES ASSUME "OPEN" \in Cur.flags
                 PROVE  Placed(View', files'[g], "alloc", NewClust')
      OBVIOUS
    <3>1. files'[g] = Cur
      BY <1>2, <1>4, <1>10
    <3>2. AtEnd(View, Cur, n)
      <4>1. CASE n = 0
        BY <1>7, <1>10, <4>1 DEF AtEnd
      <4>2. CASE n # 0
        <5>1. FatNext(View, Cur.cclust) = 0 /\ Cur.cclust \in Cluster
          BY <1>7, <1>10, <4>2
        <5>2. Fat(View, Cur.cclust) = EOC
          BY <5>1, FatValues DEF FatNext
        <5>3. QED
          BY <1>7, <4>2, <5>2 DEF AtEnd
      <4>3. QED
        BY <4>1, <4>2
    <3>3. InAlloc(View, Cur)
      BY <1>7, <3>2 DEF InAlloc
    <3>4. QED
      BY <1>6, <2>1, <3>1, <3>3 DEF Placed
  <2>3. NoMore(files'[g], files[g]) /\ \A f \in Handle : f # g => files'[f] = files[f]
    BY <1>10 DEF NoMore
  <2>4. \A f \in Handle : f # g => Rests(f)'
    BY <1>4, <1>10 DEF Rests
  <2>5. Phase(g)' = "alloc"
    BY <1>4, <1>10 DEF Phase
  <2>6. Live(g)' => "OPEN" \in Cur.flags
    BY <1>2, <1>4, <1>10 DEF Live, Has
  <2>7. QED
    BY <1>1, <1>2, <1>4, <2>1, <2>2, <2>3, <2>4, <2>5, <2>6, LoanStays, SameMeta, PosQuiet
<1>11. CASE Load(S, FatSect(Cur.cclust)) /\ Corrupt
  <2>1. View' = View
    BY <1>1, <1>2, <1>5, <1>11, LoadOK
  <2>2. QED
    BY <1>1, <1>11, <2>1, LoanStays, PosCorrupt
<1>12. CASE LoadFails(S) /\ DiskError
  BY <1>1, <1>12, FailsKeep, SameMeta, LoanStays, PosFailQuiet
<1>13. QED
  BY <1>1, <1>9, <1>10, <1>11, <1>12 DEF Goto

(* Such contents leave every slot where it stands. *)
LEMMA KeepsUsedLeaves ==
  ASSUME NEW j, NEW k, IsCard(k), KeepsUsed(j, k), NEW r \in Slot,
         Ent(j, r.ent).sclust = Ent(k, r.ent).sclust, Stands(k, r, r.fptr)
  PROVE  Leaves(j, k, r)
<1>1. r.fptr \in Nat /\ Steps(r.fptr) \in Nat
  BY StepsNat DEF Slot
<1>2. CASE r.fptr = 0
  <2>1. Steps(r.fptr) = 0
    BY <1>2 DEF Steps
  <2>2. SameLinks(j, k, r.sclust, Steps(r.fptr))
    BY <2>1 DEF SameLinks
  <2>3. QED
    BY <2>2 DEF Leaves
<1>3. CASE r.fptr # 0
  <2>1. Walk(k, r.sclust, Steps(r.fptr)) \in Cluster
    BY <1>3 DEF Stands
  <2>2. SameLinks(j, k, r.sclust, Steps(r.fptr))
    BY <1>1, <2>1, KeepsUsedLinks
  <2>3. QED
    BY <2>2 DEF Leaves
<1>4. QED
  BY <1>2, <1>3

(* alloc_cluster takes a cluster that is in no chain. *)
LEMMA PosAlloc ==
  ASSUME NothingDropped, CardInv, CardInv', PosInv, NEW cl \in Cluster, Alloc(cl)
  PROVE  PosInv'
<1> DEFINE k == SetFat(View, cl, EOC)
           v == With(Cur, {"NEWCL"}, {})
           q == [v EXCEPT !.csect = ClustSect(cl)]
           n == Cur.fptr \div UPC
<1>1. pc = "alloc" /\ UNCHANGED lent
  BY DEF Alloc
<1>2. /\ call.fh \in Handle /\ Cur \in Slot /\ Cur = files[call.fh]
      /\ \A f \in Handle : f # call.fh => Rests(f)
      /\ "OPEN" \in Cur.flags => Placed(View, Cur, "alloc", NewClust)
      /\ DiskOK /\ IsCard(View) /\ Cur.fptr \in Nat
  BY <1>1, TransferSlot
<1>3. "OPEN" \in Cur.flags
  BY <1>1, <1>2, WriteByWriter DEF CardInv, IndInv, CtrlOK, TransferOK, WriterIn
<1>4. /\ Cur.fptr <= Cur.fsize /\ Ent(View, Cur.ent).sclust = Cur.sclust
      /\ (Cur.fptr % UPC) = 0 /\ AtEnd(View, Cur, n)
  BY <1>2, <1>3 DEF Placed, InAlloc
<1>5. Fat(View, cl) = 0
  BY DEF Alloc, Takable, FreeFrom
<1>6. /\ IsCard(k)
      /\ \A d \in Cluster : Fat(k, d) = IF d = cl THEN EOC ELSE Fat(View, d)
      /\ \A e \in Entry : Ent(k, e) = Ent(View, e)
  BY <1>2, FatValues, SetFatCard
<1>7. PICK g \in Handle : g = call.fh
  BY <1>2
<1>8. \A f \in Handle : files[f] \in Slot /\ files[f].ent \in Entry
  BY DEF CardInv, IndInv, CtrlOK, Slot
<1> HIDE DEF k
<1>9. ASSUME NEW j, KeepsUsed(j, View), \A e \in Entry : Ent(j, e) = Ent(View, e)
      PROVE  /\ \A f \in Handle : Has(f, "OPEN") => Used(j, files[f].ent)
             /\ \A f \in Handle : Live(f) /\ Rests(f) => Leaves(j, View, files[f])
  <2>1. \A f \in Handle : Has(f, "OPEN") => Used(j, files[f].ent)
    BY <1>8, <1>9 DEF PosInv, Named, Used
  <2>2. ASSUME NEW f \in Handle, Live(f), Rests(f) PROVE Leaves(j, View, files[f])
    <3>1. Stands(View, files[f], files[f].fptr)
      BY <2>2, RestsPlaced DEF PosInv, AllPlaced, Resting
    <3>2. QED
      BY <1>2, <1>8, <1>9, <3>1, KeepsUsedLeaves
  <2>3. QED
    BY <2>1, <2>2
<1>10. CASE /\ card' = Wiped(CardAfterPut(AllocLoads(cl), k), cl)
            /\ HoldPut(FatSect(cl), k)
            /\ hint' = cl + 1 /\ SetSlot(call.fh, q) /\ pc' = "move" /\ UNCHANGED call
  <2>1. FatSect(cl) \in AllocLoads(cl)
    BY AllocLoadsOK DEF CardInv, IndInv, CtrlOK
  <2>2. View' = Wiped(k, cl)
    BY <1>1, <1>2, <1>10, <2>1, AllocOK DEF k
  <2>3. KeepsUsed(View', View) /\ \A e \in Entry : Ent(View', e) = Ent(View, e)
    BY <1>5, <1>6, <2>2, WipedCard DEF KeepsUsed
  <2>4. {"NEWCL"} \in SUBSET Flag /\ Cur \in Slot
    BY <1>2 DEF Flag
  <2>5. /\ v \in Slot /\ v.flags = (Cur.flags \ {}) \cup {"NEWCL"} /\ v.ent = Cur.ent
        /\ v.sclust = Cur.sclust /\ v.cclust = Cur.cclust /\ v.csect = Cur.csect
        /\ v.fptr = Cur.fptr /\ v.fsize = Cur.fsize
    <3> DEFINE off == {}
    <3>1. With(Cur, {"NEWCL"}, off) = v
      OBVIOUS
    <3> HIDE DEF v, off
    <3>2. /\ v \in Slot /\ v.flags = (Cur.flags \ off) \cup {"NEWCL"} /\ v.ent = Cur.ent
          /\ v.sclust = Cur.sclust /\ v.cclust = Cur.cclust /\ v.csect = Cur.csect
          /\ v.fptr = Cur.fptr /\ v.fsize = Cur.fsize
      BY <2>4, <3>1, WithOK
    <3>3. QED
      BY <3>2 DEF off
  <2> HIDE DEF v
  <2>6. /\ q.flags = v.flags /\ q.ent = v.ent
        /\ q.sclust = v.sclust /\ q.cclust = v.cclust /\ q.fptr = v.fptr
        /\ q.fsize = v.fsize /\ q.csect = ClustSect(cl)
    BY <2>5 DEF Slot
  <2>7. SetSlot(g, q)
    BY <1>7, <1>10
  <2> HIDE DEF q
  <2>8. files'[g] = q /\ \A f \in Handle : f # g => files'[f] = files[f]
    BY <2>7, SetSlotIs
  <2>9. NewClust' = cl
    <3>1. hint' = cl + 1 /\ cl \in Nat
      BY <1>10, GeometryAssumption DEF Cluster
    <3>2. QED
      BY <3>1 DEF NewClust
  <2>10. NoMore(q, files[g])
    BY <1>2, <1>7, <2>5, <2>6 DEF NoMore
  <2>11. n \in Nat
    BY <1>2, UnitsOK, DivIs
  <2>12. Extends(View, q, n, cl)
    BY <1>4, <2>5, <2>6 DEF Extends, AtEnd
  <2> HIDE DEF n
  <2>13. Extends(View', q, n, cl)
    BY <1>2, <2>3, <2>11, <2>12, KeepsUsedExtends
  <2>14. Ent(View', q.ent).sclust = q.sclust /\ q.fptr <= q.fsize /\ "NEWCL" \in q.flags
    <3>1. Cur.ent \in Entry
      BY <1>2 DEF Slot
    <3>2. QED
      BY <1>4, <2>3, <2>5, <2>6, <3>1
  <2>15. InMove(View', q, cl)
    BY <1>4, <2>5, <2>6, <2>13, <2>14 DEF InMove, n
  <2>16. Placed(View', q, "move", cl)
    BY <2>14, <2>15 DEF Placed
  <2>17. Phase(g)' = "move" /\ \A f \in Handle : f # g => Rests(f)'
    BY <1>7, <1>10 DEF Phase, Rests
  <2>18. Live(g)' => Placed(View', files'[g], Phase(g)', NewClust')
    BY <2>8, <2>9, <2>16, <2>17
  <2>19. /\ \A f \in Handle : Has(f, "OPEN") => Used(View', files[f].ent)
         /\ \A f \in Handle : Live(f) /\ Rests(f) => Leaves(View', View, files[f])
    BY <1>9, <2>3
  <2>20. QED
    BY <1>1, <1>2, <1>7, <2>8, <2>10, <2>17, <2>18, <2>19, LoanStays, PosMild
<1>11. CASE LoadFails(AllocLoads(cl)) /\ DiskError
  BY <1>1, <1>11, FailsKeep, SameMeta, LoanStays, PosFailQuiet
<1>12. CASE PutFails({}, k) /\ DiskError
  <2>1. View' \in {View, k}
    BY <1>1, <1>6, <1>12, FailsKeep
  <2>2. KeepsUsed(View', View) /\ \A e \in Entry : Ent(View', e) = Ent(View, e)
    BY <1>5, <1>6, <2>1 DEF KeepsUsed
  <2>3. /\ \A f \in Handle : Has(f, "OPEN") => Used(View', files[f].ent)
        /\ \A f \in Handle : Live(f) /\ Rests(f) => Leaves(View', View, files[f])
    BY <1>9, <2>2
  <2>4. QED
    BY <1>1, <1>12, <2>3, LoanStays, PosFail
<1>13. QED
  BY <1>10, <1>11, <1>12 DEF Alloc, Goto, k

(* UZEFS_ERR_FULL leaves the position as it was. *)
LEMMA PosAllocFull ==
  ASSUME NothingDropped, CardInv, CardInv', PosInv, AllocFull
  PROVE  PosInv'
<1>1. /\ pc = "alloc" /\ UNCHANGED lent
      /\ \/ Load(FatRange(2, LastFat), <<"fat", LastFat>>) /\ Return /\ UNCHANGED files
         \/ LoadFails(FatRange(2, LastFat)) /\ DiskError
  BY DEF AllocFull
<1>2. /\ call.fh \in Handle /\ Cur \in Slot /\ Cur = files[call.fh]
      /\ \A f \in Handle : f # call.fh => Rests(f)
      /\ "OPEN" \in Cur.flags => Placed(View, Cur, "alloc", NewClust)
      /\ DiskOK
  BY <1>1, TransferSlot
<1>3. CASE Load(FatRange(2, LastFat), <<"fat", LastFat>>) /\ Return /\ UNCHANGED files
  <2>1. View' = View
    BY <1>1, <1>2, <1>3, LastFatOK, LoadOK
  <2>2. pc' \in {"idle", "unmount"}
    BY <1>3, ReturnOK DEF CardInv, IndInv, CtrlOK
  <2>3. PICK g \in Handle : g = call.fh
    BY <1>2
  <2>4. \A f \in Handle : Rests(f)'
    BY <2>2, RestAll
  <2>5. Live(g)' => Placed(View', files'[g], Phase(g)', NewClust')
    <3>1. files'[g] = Cur
      BY <1>2, <1>3, <2>3
    <3>2. Live(g)' => Resting(View, Cur)
      BY <1>2, <3>1 DEF Live, Has, Placed, Resting
    <3>3. Phase(g)' \notin {"alloc", "move", "link", "join", "size"}
      BY <2>2 DEF Phase
    <3>4. QED
      BY <2>1, <3>1, <3>2, <3>3 DEF Placed, Resting
  <2>6. NoMore(files'[g], files[g]) /\ \A f \in Handle : f # g => files'[f] = files[f]
    BY <1>3 DEF NoMore
  <2>7. QED
    BY <1>1, <1>2, <2>1, <2>3, <2>4, <2>5, <2>6, LoanStays, SameMeta, PosQuiet
<1>4. CASE LoadFails(FatRange(2, LastFat)) /\ DiskError
  BY <1>1, <1>4, FailsKeep, SameMeta, LoanStays, PosFailQuiet
<1>5. QED
  BY <1>1, <1>3, <1>4

(* A transfer is never begun, or gone on with, for nothing. *)
LeftOK == pc \in {"chunk", "alloc", "move"} => call.left > 0

(* The data moved, in units. *)
LEMMA ChunkPositive ==
  ASSUME IndInv, LeftOK, pc = "move"
  PROVE  /\ Chunk \in Nat /\ Chunk > 0 /\ Chunk <= UPS - (Cur.fptr % UPS)
         /\ Moved(Cur).fptr = Cur.fptr + Chunk
         /\ Moved(Cur).fptr <= Moved(Cur).fsize
         /\ Moved(Cur).ent = Cur.ent /\ Moved(Cur).sclust = Cur.sclust
         /\ Moved(Cur).cclust = Cur.cclust /\ Moved(Cur).csect = Cur.csect
<1>1. Cur \in Slot /\ Cur.fptr \in Nat /\ Cur.fsize \in Nat
  BY CurOK DEF Slot
<1>2. call.left \in Nat /\ call.left > 0
  BY DEF IndInv, CtrlOK, CallType, LeftOK
<1>3. Offset \in Nat /\ Offset < UPS /\ UPS \in Nat
  BY <1>1, GeometryAssumption DEF Offset
<1>4. Chunk \in Nat /\ Chunk > 0 /\ Chunk <= UPS - Offset
  BY <1>2, <1>3 DEF Chunk
<1>5. Cur.fptr + Chunk \in Nat
  BY <1>1, <1>4
<1>6. /\ Moved(Cur).fptr = Cur.fptr + Chunk
      /\ Moved(Cur).fptr <= Moved(Cur).fsize
      /\ Moved(Cur).ent = Cur.ent /\ Moved(Cur).sclust = Cur.sclust
      /\ Moved(Cur).cclust = Cur.cclust /\ Moved(Cur).csect = Cur.csect
  BY <1>1, <1>5 DEF Moved, Slot
<1>7. QED
  BY <1>4, <1>6 DEF Offset

(* After a chunk the slot stands in the sector it moved. *)
LEMMA MovedStands ==
  ASSUME IndInv, LeftOK, pc = "move", NEW k, Stands(k, Cur, Cur.fptr + 1),
         NEW q, q.sclust = Cur.sclust, q.cclust = Cur.cclust, q.csect = Cur.csect
  PROVE  Stands(k, q, Cur.fptr + Chunk)
<1> DEFINE p == Cur.fptr
           c == Chunk
<1>1. p \in Nat /\ c \in Nat /\ c > 0 /\ c <= UPS - (p % UPS)
  BY CurOK, ChunkPositive DEF Slot
<1> HIDE DEF p, c
<1>2. ((p + c) - 1) \div UPS = p \div UPS
  BY <1>1, ChunkStays
<1>3. p + 1 \in Nat /\ p + c \in Nat /\ p + 1 > 0 /\ p + c > 0 /\ (p + 1) - 1 = p
  BY <1>1
<1>4. Stands(k, Cur, p + 1)
  BY DEF p
<1>5. ((p + 1) - 1) \div UPS = ((p + c) - 1) \div UPS
  BY <1>2, <1>3
<1>6. Stands(k, Cur, p + c)
  BY <1>3, <1>4, <1>5, SameSectorStands
<1>7. Stands(k, q, p + c)
  BY <1>6 DEF Stands
<1>8. QED
  BY <1>7 DEF p, c

(* A chunk read. *)
LEMMA PosReadChunk ==
  ASSUME NothingDropped, CardInv, CardInv', PosInv, LeftOK, ReadChunk
  PROVE  PosInv'
<1> DEFINE s == DataSect(Cur.csect)
           S == IF Chunk = UPS /\ s \notin DOMAIN kept THEN {} ELSE {s}
           q == Moved(Cur)
<1>1. pc = "move" /\ call.op = "read" /\ UNCHANGED lent
  BY DEF ReadChunk
<1>2. /\ call.fh \in Handle /\ Cur \in Slot /\ Cur = files[call.fh]
      /\ \A f \in Handle : f # call.fh => Rests(f)
      /\ "OPEN" \in Cur.flags => Placed(View, Cur, "move", NewClust)
      /\ DiskOK /\ "FAILED" \notin Cur.flags
  BY <1>1, TransferSlot, CurOK DEF CardInv
<1>3. "NEWCL" \notin Cur.flags
  BY <1>1, <1>2 DEF CardInv, IndInv, CtrlOK, HintOK, Has
<1>4. s \in Sector /\ (S # {} => s \in S)
  BY <1>2, Sectors DEF Slot
<1>5. \/ Load(S, s) /\ SetSlot(call.fh, q) /\ Continue(call.left - Chunk)
      \/ (LoadFails(S) \/ UNCHANGED disk) /\ DiskError
  BY DEF ReadChunk
<1> HIDE DEF S, s
<1>6. CASE Load(S, s) /\ SetSlot(call.fh, q) /\ Continue(call.left - Chunk)
  <2>1. View' = View
    BY <1>1, <1>2, <1>4, <1>6, LoadOK
  <2>2. pc' \in {"chunk", "idle", "unmount"}
    BY <1>6, ReturnOK DEF Continue, CardInv, IndInv, CtrlOK
  <2>3. /\ q \in Slot /\ q.flags = Cur.flags /\ q.fptr = Cur.fptr + Chunk
        /\ q.fptr <= q.fsize /\ q.ent = Cur.ent /\ q.sclust = Cur.sclust
        /\ q.cclust = Cur.cclust /\ q.csect = Cur.csect
    BY <1>1, ChunkOK, ChunkPositive DEF CardInv
  <2> HIDE DEF q
  <2>4. NoMore(q, Cur)
    BY <2>3 DEF NoMore
  <2>5. Able(q) => Resting(View, q)
    <3> SUFFICES ASSUME "OPEN" \in q.flags PROVE Resting(View, q)
      BY DEF Able
    <3>1. Ent(View, Cur.ent).sclust = Cur.sclust /\ Stands(View, Cur, Cur.fptr + 1)
      BY <1>2, <1>3, <2>3 DEF Placed, InMove
    <3>2. Stands(View, q, Cur.fptr + Chunk)
      BY <1>1, <2>3, <3>1, MovedStands DEF CardInv
    <3>3. QED
      BY <2>3, <3>1, <3>2 DEF Resting
  <2>6. SetSlot(call.fh, q)
    BY <1>6
  <2>7. QED
    BY <1>1, <1>2, <2>1, <2>2, <2>3, <2>4, <2>5, <2>6, LoanStays, PosSlot
<1>7. CASE (LoadFails(S) \/ UNCHANGED disk) /\ DiskError
  <2>1. View' = View
    BY <1>1, <1>2, <1>7, FailsKeep, SameDiskOK
  <2>2. QED
    BY <1>1, <1>7, <2>1, SameMeta, LoanStays, PosFailQuiet
<1>8. QED
  BY <1>5, <1>6, <1>7

(* One flag more. *)
LEMMA OneFlag ==
  ASSUME NEW r \in Slot, NEW x \in Flag
  PROVE  LET v == With(r, {x}, {})
         IN  /\ v \in Slot /\ v.flags = r.flags \cup {x} /\ v.ent = r.ent
             /\ v.sclust = r.sclust /\ v.cclust = r.cclust /\ v.csect = r.csect
             /\ v.fptr = r.fptr /\ v.fsize = r.fsize
<1> DEFINE off == {}
           on == {x}
           v == With(r, {x}, {})
<1>1. With(r, on, off) = v /\ on \in SUBSET Flag
  OBVIOUS
<1> HIDE DEF v, off, on
<1>2. /\ v \in Slot /\ v.flags = (r.flags \ off) \cup on /\ v.ent = r.ent
      /\ v.sclust = r.sclust /\ v.cclust = r.cclust /\ v.csect = r.csect
      /\ v.fptr = r.fptr /\ v.fsize = r.fsize
  BY <1>1, WithOK
<1>3. (r.flags \ off) \cup on = r.flags \cup {x}
  BY DEF off, on
<1>4. QED
  BY <1>2, <1>3 DEF v

(* A cluster begins with its first sector. *)
LEMMA ClusterStart ==
  ASSUME NEW p \in Nat, p % UPC = 0
  PROVE  (p \div UPS) % SPC = 0 /\ (p \div UPS) \div SPC = p \div UPC
<1> DEFINE n == p \div UPC
           s == SPC * n
<1>1. n \in Nat /\ p = UPC * n + (p % UPC)
  BY UnitsOK, DivIs
<1>2. s \in Nat /\ s = SPC * n + 0 /\ 0 \in 0 .. SPC - 1 /\ 0 \in 0 .. UPS - 1
  BY <1>1, UnitsOK
<1>3. UPC * n = UPS * s
  <2>1. \A a, b, c \in Nat : (a * b) * c = b * (a * c)
    OBVIOUS
  <2>2. QED
    BY <1>1, <2>1, UnitsOK
<1>4. p = UPS * s + 0
  <2>1. UPC * n \in Nat
    BY <1>1, UnitsOK
  <2> DEFINE x == UPC * n
  <2>2. p = x + (p % UPC) /\ x \in Nat /\ x = UPS * s
    BY <1>1, <1>3, <2>1
  <2> HIDE DEF x, s, n
  <2>3. QED
    BY <2>2
<1> HIDE DEF n, s
<1>5. p \div UPS = s
  BY <1>2, <1>4, UnitsOK, DivUnique
<1>6. s % SPC = 0
  BY <1>1, <1>2, UnitsOK, DivUnique
<1>7. p \div UPC = (p \div UPS) \div SPC
  BY UnitsOK, DivDiv
<1>8. QED
  BY <1>5, <1>6, <1>7

(* A chunk written, into the cluster it is in or a new one. *)
LEMMA PosWriteChunk ==
  ASSUME NothingDropped, CardInv, CardInv', PosInv, LeftOK, WriteChunk
  PROVE  PosInv'
<1> DEFINE q == With(Moved(Cur), {"DIRTY"}, {})
           p == Cur.fptr
           n == p \div UPC
<1>1. /\ pc = "move" /\ call.op = "write" /\ UNCHANGED lent /\ UNCHANGED hint
      /\ SetSlot(call.fh, q) /\ LinkNext
  BY DEF WriteChunk, Written
<1>2. /\ call.fh \in Handle /\ Cur \in Slot /\ Cur = files[call.fh]
      /\ \A f \in Handle : f # call.fh => Rests(f)
      /\ "OPEN" \in Cur.flags => Placed(View, Cur, "move", NewClust)
      /\ IsCard(View) /\ p \in Nat
  BY <1>1, TransferSlot
<1>3. Meta(View', View)
  BY WriteChunkView
<1>4. KeepsUsed(View', View) /\ \A e \in Entry : Ent(View', e) = Ent(View, e)
  BY <1>3 DEF Meta, KeepsUsed
<1>5. /\ Moved(Cur) \in Slot /\ Moved(Cur).flags = Cur.flags
      /\ Moved(Cur).fptr = p + Chunk /\ Moved(Cur).fptr <= Moved(Cur).fsize
      /\ Moved(Cur).ent = Cur.ent /\ Moved(Cur).sclust = Cur.sclust
      /\ Moved(Cur).cclust = Cur.cclust /\ Moved(Cur).csect = Cur.csect
      /\ Chunk \in Nat /\ Chunk > 0 /\ Chunk <= UPS - (p % UPS)
  BY <1>1, ChunkOK, ChunkPositive DEF CardInv
<1>6. /\ q \in Slot /\ q.flags = Cur.flags \cup {"DIRTY"} /\ q.ent = Cur.ent
      /\ q.fptr = p + Chunk /\ q.fptr <= q.fsize /\ q.sclust = Cur.sclust
      /\ q.cclust = Cur.cclust /\ q.csect = Cur.csect
  <2>1. "DIRTY" \in Flag
    BY DEF Flag
  <2>2. QED
    BY <1>5, <2>1, OneFlag
<1>7. LinkNext <=> IF "NEWCL" \in Cur.flags
                   THEN pc' = "link" /\ call' = [call EXCEPT !.left = @ - Chunk]
                   ELSE Continue(call.left - Chunk)
  BY <1>2 DEF LinkNext, Has
<1> HIDE DEF q
<1>8. PICK g \in Handle : g = call.fh
  BY <1>2
<1>9. files'[g] = q /\ \A f \in Handle : f # g => files'[f] = files[f]
  BY <1>1, <1>8, SetSlotIs
<1>10. NoMore(q, files[g])
  BY <1>2, <1>6, <1>8 DEF NoMore
<1>11. Live(g)' => "OPEN" \in Cur.flags
  BY <1>6, <1>9 DEF Live, Has
<1>12. Cur.ent \in Entry
  BY <1>2 DEF Slot
<1>13. CASE "NEWCL" \in Cur.flags
  <2>1. pc' = "link" /\ call'.fh = call.fh
    <3>1. pc' = "link" /\ call' = [call EXCEPT !.left = @ - Chunk]
      BY <1>1, <1>7, <1>13
    <3>2. call \in CallType
      BY DEF CardInv, IndInv, CtrlOK
    <3>3. QED
      BY <3>1, <3>2 DEF CallType
  <2>2. "OPEN" \in Cur.flags => Placed(View', q, "link", NewClust')
    <3> SUFFICES ASSUME "OPEN" \in Cur.flags PROVE Placed(View', q, "link", NewClust')
      OBVIOUS
    <3>1. /\ Ent(View, Cur.ent).sclust = Cur.sclust
          /\ p % UPC = 0 /\ Extends(View, Cur, n, NewClust)
      BY <1>2, <1>13 DEF Placed, InMove
    <3>2. Extends(View, q, n, NewClust) /\ n \in Nat
      <4>1. n \in Nat
        BY <1>2, UnitsOK, DivIs
      <4>2. QED
        BY <1>6, <3>1, <4>1 DEF Extends, AtEnd
    <3>3. Extends(View', q, n, NewClust)
      BY <1>2, <1>4, <3>2, KeepsUsedExtends
    <3> DEFINE c == Chunk
    <3>4. c \in Nat /\ c > 0 /\ c <= UPS - (p % UPS) /\ q.fptr = p + c
      BY <1>5, <1>6
    <3> HIDE DEF c, p, n
    <3>5. ((p + c) - 1) \div UPS = p \div UPS /\ p + c \in Nat /\ p + c > 0
      BY <1>2, <3>4, ChunkStays
    <3>6. (p \div UPS) % SPC = 0 /\ (p \div UPS) \div SPC = n
      BY <1>2, <3>1, ClusterStart DEF n
    <3>7. Steps(p + c) = n
      BY <3>5, <3>6, StepsUnits
    <3>8. NewClust' = NewClust
      BY <1>1 DEF NewClust
    <3>9. InLink(View', q, NewClust')
      BY <3>3, <3>4, <3>5, <3>6, <3>7, <3>8 DEF InLink
    <3>10. Ent(View', q.ent).sclust = q.sclust
      BY <1>4, <1>6, <1>12, <3>1
    <3>11. QED
      BY <1>6, <3>9, <3>10 DEF Placed
  <2>3. Phase(g)' = "link" /\ \A f \in Handle : f # g => Rests(f)'
    BY <1>8, <2>1 DEF Phase, Rests
  <2>4. QED
    BY <1>1, <1>2, <1>3, <1>8, <1>9, <1>10, <1>11, <2>2, <2>3, LoanStays, PosQuiet
<1>14. CASE "NEWCL" \notin Cur.flags
  <2>1. pc' \in {"chunk", "idle", "unmount"}
    BY <1>1, <1>7, <1>14, ReturnOK DEF Continue, CardInv, IndInv, CtrlOK
  <2>2. "OPEN" \in Cur.flags => Resting(View', q)
    <3> SUFFICES ASSUME "OPEN" \in Cur.flags PROVE Resting(View', q)
      OBVIOUS
    <3>1. /\ Ent(View, Cur.ent).sclust = Cur.sclust
          /\ Stands(View, Cur, p + 1)
      BY <1>2, <1>14 DEF Placed, InMove
    <3>2. Stands(View, q, p + Chunk)
      BY <1>1, <1>6, <3>1, MovedStands DEF CardInv
    <3>3. Resting(View, q)
      BY <1>6, <3>1, <3>2 DEF Resting
    <3>4. QED
      BY <1>2, <1>3, <1>6, <3>3, MetaResting
  <2>3. Phase(g)' \notin {"alloc", "move", "link", "join", "size"}
        /\ \A f \in Handle : Rests(f)'
    BY <2>1, RestAll DEF Phase
  <2>4. Live(g)' => Placed(View', files'[g], Phase(g)', NewClust')
    BY <1>9, <1>11, <2>2, <2>3 DEF Placed, Resting
  <2>5. QED
    BY <1>1, <1>2, <1>3, <1>8, <1>9, <1>10, <2>3, <2>4, LoanStays, PosQuiet
<1>15. QED
  BY <1>13, <1>14

(* A chunk that could not be written. *)
LEMMA PosWriteChunkFails ==
  ASSUME NothingDropped, CardInv, CardInv', PosInv, WriteChunkFails
  PROVE  PosInv'
<1>1. /\ pc = "move" /\ UNCHANGED lent /\ DiskError
      /\ \/ WholeSectorFails(Cur.csect)
         \/ PutFails({DataSect(Cur.csect)}, Merged(Cur.csect))
  BY DEF WriteChunkFails
<1>2. Cur \in Slot /\ DiskOK
  BY <1>1, TransferSlot
<1>3. Cur.csect \in 0 .. NDataSects - 1
  BY <1>2 DEF Slot
<1>4. CASE WholeSectorFails(Cur.csect)
  <2>1. \A x \in Sector : x \notin DataSectors => View'[x] = View[x]
    BY <1>1, <1>2, <1>3, <1>4, WholeSectorOK DEF WholeSectorFails
  <2>2. Meta(View', View)
    BY <2>1, DataMeta
  <2>3. QED
    BY <1>1, <2>2, LoanStays, PosFailQuiet
<1>5. CASE PutFails({DataSect(Cur.csect)}, Merged(Cur.csect))
  <2>1. lent # "kept"
    BY <1>5 DEF PutFails, NothingDropped, PosInv, LoanOK
  <2>2. View = card
    BY <1>2, <2>1, ViewCard
  <2>3. \A k \in {card', View'} : \E j \in {card, View} :
          \A x \in Sector : x \notin DataSectors => k[x] = j[x]
    BY <1>1, <1>2, <1>5, MergedOK DEF CardInv, IndInv
  <2>4. \A x \in Sector : x \notin DataSectors => View'[x] = View[x]
    BY <2>2, <2>3
  <2>5. Meta(View', View)
    BY <2>4, DataMeta
  <2>6. QED
    BY <1>1, <2>5, LoanStays, PosFailQuiet
<1>6. QED
  BY <1>1, <1>4, <1>5

(* The slot of link_new: it may change its file, and no other handle has   *)
(* that file.                                                              *)
LEMMA LinkWriter ==
  ASSUME CardInv, PosInv, pc \in {"link", "join"}
  PROVE  /\ "OPEN" \in Cur.flags /\ "WR" \in Cur.flags /\ "FAILED" \notin Cur.flags
         /\ Cur.ent \in Entry /\ Used(View, Cur.ent)
         /\ Cur.fptr <= Cur.fsize /\ Ent(View, Cur.ent).sclust = Cur.sclust
         /\ InLink(View, Cur, NewClust)
         /\ \A f \in Handle : f # call.fh /\ Has(f, "OPEN") => files[f].ent # Cur.ent
         /\ NewClust \in Cluster /\ Fat(View, NewClust) # 0 /\ ~Points(View, NewClust)
<1>1. call.fh \in Handle /\ Cur \in Slot /\ Cur = files[call.fh]
  BY CurOK DEF CardInv
<1>2. WriterIn(files, call.fh)
  BY WriteByWriter DEF CardInv, IndInv, CtrlOK, HintOK
<1>3. "OPEN" \in Cur.flags /\ "WR" \in Cur.flags /\ "FAILED" \notin Cur.flags
  BY <1>1, <1>2 DEF WriterIn
<1>4. Placed(View, Cur, pc, NewClust)
  BY <1>3, TransferSlot
<1>5. Used(View, Cur.ent)
      /\ \A f \in Handle : f # call.fh /\ Has(f, "OPEN") => files[f].ent # Cur.ent
  BY <1>1, <1>3 DEF PosInv, Named, WriterExcludes, Has
<1>6. NewClust \in Cluster /\ Fat(View, NewClust) # 0 /\ ~Points(View, NewClust)
  BY NewClustOK DEF CardInv, StepsOK, NewOK, Linkable
<1>7. Cur.ent \in Entry
  BY <1>1 DEF Slot
<1>8. QED
  BY <1>3, <1>4, <1>5, <1>6, <1>7 DEF Placed

(* link_new changes a slot's flags and at most its first cluster. *)
LEMMA LinkingPlace ==
  ASSUME NEW r \in Slot, r = Cur
  PROVE  /\ Linking.cclust = r.cclust /\ Linking.csect = r.csect
         /\ Linking.fptr = r.fptr /\ Linking.fsize = r.fsize
<1> DEFINE q == With(r, {}, {"NEWCL"})
<1>1. /\ q \in Slot /\ q.cclust = r.cclust /\ q.csect = r.csect
      /\ q.fptr = r.fptr /\ q.fsize = r.fsize
  BY WithoutOK
<1>2. Linking = [q EXCEPT !.sclust = IF r.cclust = 0 THEN NewClust ELSE @]
  BY DEF Linking
<1> HIDE DEF q
<1>3. QED
  BY <1>1, <1>2 DEF Slot

(* With its new cluster linked the slot is where its position says. *)
LEMMA LinkedRests ==
  ASSUME NEW j, NEW r \in Slot, NewClust \in Cluster, r.fptr <= r.fsize,
         r.fptr > 0, (((r.fptr - 1) \div UPS) % SPC) = 0, r.csect = ClustSect(NewClust),
         Ent(j, r.ent).sclust = r.sclust,
         Walk(j, r.sclust, Steps(r.fptr)) = NewClust
  PROVE  Resting(j, Linked(r))
<1> DEFINE q == Linked(r)
<1>1. /\ q.fptr = r.fptr /\ q.fsize = r.fsize /\ q.ent = r.ent /\ q.sclust = r.sclust
      /\ q.csect = r.csect /\ q.cclust = NewClust
  BY DEF Linked, Slot
<1>2. r.csect = r.csect + 0 /\ r.fptr # 0
  BY DEF Slot
<1> HIDE DEF q
<1>3. Stands(j, q, q.fptr)
  BY <1>1, <1>2 DEF Stands
<1>4. QED
  BY <1>1, <1>3 DEF Resting, q

(* link_new that fails leaves its slot failed, and the others alone. *)
LEMMA PosLinkFails ==
  ASSUME CardInv, CardInv', PosInv, UNCHANGED lent, pc \in {"link", "join"},
         NEW r \in Slot, r.ent = Cur.ent, r.flags = Cur.flags \ {"NEWCL"}, LinkFails(r),
         \A f \in Handle : Has(f, "OPEN") => Used(View', files[f].ent),
         \A f \in Handle : f # call.fh /\ Live(f) => Leaves(View', View, files[f])
  PROVE  PosInv'
<1> DEFINE q == With(Linked(r), {"FAILED"}, {})
<1>1. PICK g \in Handle : g = call.fh
  BY CurOK DEF CardInv
<1>2. q \in Slot /\ q.flags = r.flags \cup {"FAILED"} /\ q.ent = r.ent
  BY LinkedOK, LinkedMild DEF CardInv
<1>3. SetSlot(g, q) /\ pc' \in {"idle", "unmount"}
  BY <1>1, ReturnOK DEF LinkFails, CardInv, IndInv, CtrlOK
<1> HIDE DEF q
<1>4. files'[g] = q /\ \A f \in Handle : f # g => files'[f] = files[f]
  BY <1>3, SetSlotIs
<1>5. NoMore(q, files[g])
  BY <1>1, <1>2 DEF NoMore, Cur
<1>6. ~Live(g)'
  BY <1>2, <1>4, LiveAble DEF Able
<1>7. \A f \in Handle : Rests(f)'
  BY <1>3, RestAll
<1>8. \A f \in Handle : f # g => Rests(f)
  BY <1>1 DEF Rests
<1>9. QED
  BY <1>1, <1>4, <1>5, <1>6, <1>7, <1>8, LoanStays, PosMild

(* What follows link_new. *)
LEMMA PosLinked ==
  ASSUME CardInv, CardInv', PosInv, UNCHANGED lent, pc \in {"link", "join"},
         NEW q \in Slot, q.ent = Cur.ent, q.flags = Cur.flags \ {"NEWCL"},
         SetSlot(call.fh, q),
         \/ /\ pc' \in {"chunk", "idle", "unmount"}
            /\ Resting(View', q)
         \/ /\ pc' = "join" /\ UNCHANGED call
            /\ Placed(View', q, "join", NewClust'),
         \A f \in Handle : Has(f, "OPEN") => Used(View', files[f].ent),
         \A f \in Handle : f # call.fh /\ Live(f) => Leaves(View', View, files[f])
  PROVE  PosInv'
<1>1. PICK g \in Handle : g = call.fh
  BY CurOK DEF CardInv
<1>2. files'[g] = q /\ \A f \in Handle : f # g => files'[f] = files[f]
  BY <1>1, SetSlotIs
<1>3. NoMore(q, files[g])
  BY <1>1 DEF NoMore, Cur
<1>4. \A f \in Handle : f # g => Rests(f)
  BY <1>1 DEF Rests
<1>5. CASE pc' \in {"chunk", "idle", "unmount"} /\ Resting(View', q)
  <2>1. \A f \in Handle : Rests(f)'
    BY <1>5, RestAll
  <2>2. Phase(g)' \notin {"alloc", "move", "link", "join", "size"}
    BY <1>5 DEF Phase
  <2>3. Placed(View', files'[g], Phase(g)', NewClust')
    BY <1>2, <1>5, <2>2 DEF Placed, Resting
  <2>4. QED
    BY <1>1, <1>2, <1>3, <1>4, <2>1, <2>3, LoanStays, PosMild
<1>6. CASE pc' = "join" /\ UNCHANGED call /\ Placed(View', q, "join", NewClust')
  <2>1. Phase(g)' = "join" /\ \A f \in Handle : f # g => Rests(f)'
    BY <1>1, <1>6 DEF Phase, Rests
  <2>2. QED
    BY <1>1, <1>2, <1>3, <1>4, <1>6, <2>1, LoanStays, PosMild
<1>7. QED
  BY <1>5, <1>6

(* Contents that others may rest on, or the old ones. *)
LEMMA LinkOthers ==
  ASSUME CardInv, PosInv, pc \in {"link", "join"}, NEW k, View' \in {View, k},
         \A e \in Entry : Used(View, e) => Used(k, e),
         \A q \in Slot : q.ent # Cur.ent /\ Resting(View, q) /\ Used(View, q.ent)
                         => Leaves(k, View, q)
  PROVE  /\ \A f \in Handle : Has(f, "OPEN") => Used(View', files[f].ent)
         /\ \A f \in Handle : f # call.fh /\ Live(f) => Leaves(View', View, files[f])
<1>1. \A f \in Handle : files[f] \in Slot /\ files[f].ent \in Entry
  BY DEF CardInv, IndInv, CtrlOK, Slot
<1>2. \A f \in Handle : Has(f, "OPEN") => Used(View', files[f].ent)
  BY <1>1 DEF PosInv, Named
<1>3. ASSUME NEW f \in Handle, f # call.fh, Live(f) PROVE Leaves(View', View, files[f])
  <2>1. Rests(f) /\ Has(f, "OPEN")
    BY <1>3 DEF Rests, Live
  <2>2. Resting(View, files[f]) /\ Used(View, files[f].ent)
    BY <1>3, <2>1, RestsPlaced DEF PosInv, AllPlaced, Named
  <2>3. files[f].ent # Cur.ent
    BY <1>3, <2>1, LinkWriter
  <2>4. Leaves(k, View, files[f])
    BY <1>1, <2>2, <2>3
  <2>5. Leaves(View, View, files[f])
    BY DEF Leaves, SameLinks
  <2>6. QED
    BY <2>4, <2>5
<1>4. QED
  BY <1>2, <1>3

(* link_new, the directory entry. *)
LEMMA PosLink ==
  ASSUME NothingDropped, CardInv, CardInv', PosInv, Link
  PROVE  PosInv'
<1> DEFINE r == Linking
           new == NewClust
           k == WithEntry(View, r)
           n == Steps(Cur.fptr)
<1>1. pc = "link" /\ UNCHANGED lent /\ UNCHANGED hint
  BY DEF Link
<1>2. /\ call.fh \in Handle /\ Cur \in Slot /\ Cur = files[call.fh] /\ IsCard(View)
      /\ Cur.fptr \in Nat /\ DiskOK
  BY <1>1, TransferSlot
<1>3. /\ Cur.ent \in Entry /\ Cur.fptr <= Cur.fsize
      /\ Ent(View, Cur.ent).sclust = Cur.sclust /\ InLink(View, Cur, new)
      /\ new \in Cluster
  BY <1>1, LinkWriter
<1>4. /\ r \in Slot /\ r.ent = Cur.ent /\ r.flags = Cur.flags \ {"NEWCL"}
      /\ r.sclust = IF Cur.cclust = 0 THEN new ELSE Cur.sclust
  BY <1>1, LinkingOK
<1>5. /\ r.cclust = Cur.cclust /\ r.csect = Cur.csect
      /\ r.fptr = Cur.fptr /\ r.fsize = Cur.fsize
  BY <1>2, LinkingPlace
<1>6. Linked(r) \in Slot /\ Linked(r).ent = r.ent /\ Linked(r).flags = r.flags
  BY <1>1, <1>4, LinkedOK, LinkedMild DEF CardInv
<1>7. NewClust' = new
  BY <1>1 DEF NewClust
<1> HIDE DEF r
<1>8. /\ IsCard(k) /\ Ent(k, r.ent).sclust = r.sclust
      /\ \A e \in Entry : Used(View, e) => Used(k, e)
      /\ KeepsUsed(k, View)
      /\ \A q \in Slot : q.ent # r.ent /\ Stands(View, q, q.fptr) => Leaves(k, View, q)
  BY <1>2, <1>4, WithEntryLeaves
<1>9. DirWrite(r) => View' = k
  BY <1>1, <1>2, <1>4, DirWriteOK
<1>10. DirWriteFails(r) => View' \in {View, k}
  BY <1>1, <1>8, FailsKeep DEF DirWriteFails
<1> HIDE DEF k
<1>11. View' \in {View, k}
  BY <1>9, <1>10 DEF Link, r
<1>12. /\ \A f \in Handle : Has(f, "OPEN") => Used(View', files[f].ent)
       /\ \A f \in Handle : f # call.fh /\ Live(f) => Leaves(View', View, files[f])
  <2>1. \A q \in Slot : q.ent # Cur.ent /\ Resting(View, q) /\ Used(View, q.ent)
                        => Leaves(k, View, q)
    BY <1>4, <1>8 DEF Resting
  <2>2. QED
    BY <1>1, <1>8, <1>11, <2>1, LinkOthers
<1>13. /\ Cur.fptr > 0 /\ (((Cur.fptr - 1) \div UPS) % SPC) = 0 /\ n \in Nat
       /\ Cur.csect = ClustSect(new) /\ AtEnd(View, Cur, n)
  BY <1>2, <1>3, StepsNat DEF InLink, Extends
<1> HIDE DEF n, new
<1>14. CASE DirWrite(r) /\ Cur.cclust = 0 /\ SetSlot(call.fh, Linked(r))
            /\ Continue(call.left)
  <2> DEFINE q == Linked(r)
  <2>1. n = 0
    <3>1. n # 0 => Cur.cclust = Walk(View, Cur.sclust, n - 1)
                   /\ Walk(View, Cur.sclust, n - 1) \in Cluster
      BY <1>13 DEF AtEnd
    <3>2. 0 \notin Cluster
      BY FatValues
    <3>3. QED
      BY <1>14, <3>1, <3>2
  <2>2. Walk(View', r.sclust, Steps(r.fptr)) = new
    <3>1. Steps(r.fptr) = 0 /\ r.sclust = new
      BY <1>4, <1>5, <1>14, <2>1 DEF n
    <3>2. QED
      BY <3>1, WalkIs
  <2>3. Resting(View', q)
    <3>1. Ent(View', r.ent).sclust = r.sclust
      BY <1>8, <1>9, <1>14
    <3>2. QED
      BY <1>3, <1>4, <1>5, <1>13, <2>2, <3>1, LinkedRests DEF new
  <2>4. pc' \in {"chunk", "idle", "unmount"}
    BY <1>14, ReturnOK DEF Continue, CardInv, IndInv, CtrlOK
  <2>5. SetSlot(call.fh, q) /\ q \in Slot /\ q.ent = Cur.ent /\ q.flags = Cur.flags \ {"NEWCL"}
    BY <1>4, <1>6, <1>14
  <2> HIDE DEF q
  <2>6. QED
    BY <1>1, <1>12, <2>3, <2>4, <2>5, PosLinked
<1>15. CASE DirWrite(r) /\ Cur.cclust # 0 /\ SetSlot(call.fh, r) /\ Goto("join")
  <2>1. r.sclust = Cur.sclust
    BY <1>4, <1>15
  <2>2. Extends(View, r, n, new)
    BY <1>5, <1>13, <2>1 DEF Extends, AtEnd
  <2>3. Extends(View', r, n, new)
    BY <1>2, <1>8, <1>9, <1>13, <1>15, <2>2, KeepsUsedExtends
  <2>4. InLink(View', r, new)
    BY <1>5, <1>13, <2>3 DEF InLink, n
  <2>5. Ent(View', r.ent).sclust = r.sclust
    BY <1>8, <1>9, <1>15
  <2>6. Placed(View', r, "join", NewClust')
    BY <1>3, <1>5, <1>7, <2>4, <2>5 DEF Placed
  <2>7. pc' = "join" /\ UNCHANGED call
    BY <1>15 DEF Goto
  <2>8. QED
    BY <1>1, <1>4, <1>12, <1>15, <2>6, <2>7, PosLinked
<1>16. CASE DirWriteFails(r) /\ LinkFails(r)
  BY <1>1, <1>4, <1>12, <1>16, PosLinkFails
<1>17. QED
  BY <1>14, <1>15, <1>16 DEF Link, r

(* link_new, the FAT. *)
LEMMA PosJoin ==
  ASSUME NothingDropped, CardInv, CardInv', PosInv, Join
  PROVE  PosInv'
<1> DEFINE new == NewClust
           c == Cur.cclust
           k == SetFat(View, c, new)
           n == Steps(Cur.fptr)
           s == Cur.sclust
<1>1. pc = "join" /\ UNCHANGED lent
  BY DEF Join
<1>2. /\ call.fh \in Handle /\ Cur \in Slot /\ Cur = files[call.fh] /\ IsCard(View)
      /\ Cur.fptr \in Nat /\ DiskOK
  BY <1>1, TransferSlot
<1>3. /\ Cur.ent \in Entry /\ Cur.fptr <= Cur.fsize /\ Used(View, Cur.ent)
      /\ Ent(View, Cur.ent).sclust = s /\ InLink(View, Cur, new)
      /\ new \in Cluster /\ ~Points(View, new)
  BY <1>1, LinkWriter
<1>4. "NEWCL" \notin Cur.flags /\ Cur.flags = Cur.flags \ {"NEWCL"}
  BY <1>1, CurOK DEF CardInv
<1>5. c \in Cluster
  BY <1>1, <1>2 DEF CardInv, IndInv, CtrlOK, ClustOK, Slot
<1>6. Linked(Cur) \in Slot /\ Linked(Cur).ent = Cur.ent /\ Linked(Cur).flags = Cur.flags
  BY <1>1, <1>2, LinkedOK, LinkedMild DEF CardInv
<1>7. /\ Cur.fptr > 0 /\ (((Cur.fptr - 1) \div UPS) % SPC) = 0 /\ n \in Nat
      /\ Cur.csect = ClustSect(new) /\ AtEnd(View, Cur, n)
  BY <1>2, <1>3, StepsNat DEF InLink, Extends
<1> HIDE DEF n, new
<1>8. n # 0 /\ n - 1 \in Nat /\ c = Walk(View, s, n - 1) /\ Fat(View, c) = EOC
  <2>1. 0 \notin Cluster
    BY FatValues
  <2>2. n # 0
    BY <1>5, <1>7, <2>1 DEF AtEnd
  <2>3. QED
    BY <1>7, <2>2 DEF AtEnd
<1>9. /\ IsCard(k)
      /\ \A d \in Cluster : Fat(k, d) = IF d = c THEN new ELSE Fat(View, d)
      /\ \A e \in Entry : Ent(k, e) = Ent(View, e)
  BY <1>2, <1>3, <1>5, FatValues, SetFatCard
<1>10. FatPut(c, new) => View' = k
  BY <1>1, <1>2, <1>3, <1>5, FatValues, FatPutOK
<1>11. FatPutFails(c, new) => View' \in {View, k}
  BY <1>1, <1>9, FailsKeep DEF FatPutFails
<1>12. \A q \in Slot : Resting(View, q) => Leaves(k, View, q)
  <2>1. Fat(View, c) \notin Cluster
    BY <1>8, FatValues
  <2>2. QED
    BY <1>2, <1>3, <1>5, <2>1, FatValues, FatLeaves DEF Resting
<1> HIDE DEF k
<1>13. View' \in {View, k}
  BY <1>10, <1>11 DEF Join, new
<1>14. /\ \A f \in Handle : Has(f, "OPEN") => Used(View', files[f].ent)
       /\ \A f \in Handle : f # call.fh /\ Live(f) => Leaves(View', View, files[f])
  BY <1>1, <1>9, <1>12, <1>13, LinkOthers DEF Used
<1>15. CASE FatPut(c, new) /\ SetSlot(call.fh, Linked(Cur)) /\ Continue(call.left)
  <2> DEFINE q == Linked(Cur)
  <2>1. SameLinks(k, View, s, n - 1)
    <3> SUFFICES ASSUME NEW i \in 0 .. (n - 1) - 1
                 PROVE  Fat(k, Walk(View, s, i)) = Fat(View, Walk(View, s, i))
      BY DEF SameLinks
    <3>1. i \in 0 .. n - 1 /\ i + 1 \in 0 .. n - 1
      BY <1>8
    <3>2. /\ Walk(View, s, i) \in Cluster /\ Walk(View, s, i + 1) \in Cluster
          /\ Fat(View, Walk(View, s, i)) = Walk(View, s, i + 1)
      BY <1>2, <1>5, <1>8, <3>1, WalkLinks
    <3>3. Walk(View, s, i) # c
      BY <1>8, <3>2, FatValues
    <3>4. QED
      BY <1>9, <3>2, <3>3
  <2>2. Walk(k, s, n - 1) = c
    <3>1. n - 1 \in 0 .. n - 1
      BY <1>8
    <3>2. QED
      BY <1>8, <2>1, <3>1, WalkFrame
  <2>3. Walk(k, s, n) = new
    <3>1. PICK m \in Nat : m = n - 1
      BY <1>8
    <3>2. n = m + 1
      BY <1>7, <3>1
    <3>3. Walk(k, s, m + 1) = FatNext(k, Walk(k, s, m))
      BY <3>1, WalkIs
    <3>4. new # c
      <4>1. Points(View, Walk(View, Ent(View, Cur.ent).sclust, m))
        BY <1>2, <1>3, <1>5, <1>8, <3>1, WalkPointed
      <4>2. QED
        BY <1>3, <1>8, <3>1, <4>1
    <3>5. new # EOC /\ Fat(k, c) = new
      BY <1>3, <1>5, <1>9, FatValues
    <3>6. FatNext(k, c) = new
      BY <1>3, <1>5, <3>4, <3>5 DEF FatNext
    <3>7. Walk(k, s, m) = c /\ Walk(k, s, n) = Walk(k, s, m + 1)
      BY <2>2, <3>1, <3>2
    <3>8. QED
      BY ONLY <3>3, <3>6, <3>7
  <2>4. Resting(View', q)
    <3>1. View' = k
      BY <1>10, <1>15
    <3>2. Walk(k, Cur.sclust, Steps(Cur.fptr)) = new
      BY <2>3 DEF n
    <3>3. Ent(k, Cur.ent).sclust = Cur.sclust
      BY <1>3, <1>9
    <3>4. Resting(k, q)
      BY <1>2, <1>3, <1>7, <3>2, <3>3, LinkedRests DEF new
    <3>5. QED
      BY <3>1, <3>4
  <2>5. pc' \in {"chunk", "idle", "unmount"}
    BY <1>15, ReturnOK DEF Continue, CardInv, IndInv, CtrlOK
  <2>6. SetSlot(call.fh, q) /\ q \in Slot /\ q.ent = Cur.ent /\ q.flags = Cur.flags \ {"NEWCL"}
    BY <1>4, <1>6, <1>15
  <2> HIDE DEF q
  <2>7. QED
    BY <1>1, <1>14, <2>4, <2>5, <2>6, PosLinked
<1>16. CASE FatPutFails(c, new) /\ LinkFails(Cur)
  BY <1>1, <1>2, <1>4, <1>14, <1>16, PosLinkFails
<1>17. QED
  BY <1>15, <1>16 DEF Join, new

-----------------------------------------------------------------------------
(***************************************************************************)
(* A transfer that goes on has something left to move.                     *)
(***************************************************************************)
(* A call that is over, or is none of a transfer's loop. *)
LEMMA LeftDone ==
  ASSUME pc' \notin {"chunk", "alloc", "move"} PROVE LeftOK'
BY DEF LeftOK

(* Errors end the call. *)
LEMMA LeftReturn ==
  ASSUME IndInv, Return \/ DiskError \/ Corrupt PROVE LeftOK'
BY ReturnOK, LeftDone DEF DiskError, Corrupt, IndInv, CtrlOK

(* The loop goes on only with units left. *)
LEMMA LeftContinue ==
  ASSUME IndInv, NEW n \in Nat, Continue(n) PROVE LeftOK'
<1>1. CASE n = 0
  BY <1>1, LeftReturn DEF Continue
<1>2. CASE n # 0
  <2>1. call' = [call EXCEPT !.left = n] /\ call \in CallType
    BY <1>2 DEF Continue, IndInv, CtrlOK
  <2>2. call'.left = n
    BY <2>1 DEF CallType
  <2>3. QED
    BY <1>2, <2>2 DEF LeftOK
<1>3. QED
  BY <1>1, <1>2

(* A transfer begins with something to move. *)
LEMMA LeftBegin ==
  ASSUME IndInv, NEW op, NEW f, NEW n \in Nat, n > 0,
         call' = [NoCall EXCEPT !.op = op, !.fh = f, !.left = n]
  PROVE  LeftOK'
<1>1. call'.left = n
  BY DEF NoCall
<1>2. QED
  BY <1>1 DEF LeftOK

(* uzefs_read, uzefs_write and uzefs_seek begin one. *)
LEMMA LeftHandle == ASSUME IndInv, LeftOK, HandleCall PROVE LeftOK'
<1>1. ASSUME NEW f \in Handle, NEW n \in 1 .. MaxXfer, Read(f, n) PROVE LeftOK'
  <2>1. /\ files[f].fptr \in Nat /\ files[f].fsize \in Nat /\ files[f].fptr < files[f].fsize
    BY <1>1 DEF Read, IndInv, CtrlOK, Slot
  <2> DEFINE rest == files[f].fsize - files[f].fptr
             m == IF n > rest THEN rest ELSE n
  <2>2. m \in Nat /\ m > 0
    BY <2>1
  <2>3. call' = [NoCall EXCEPT !.op = "read", !.fh = f, !.left = m]
    BY <1>1 DEF Read, BeginXfer
  <2> HIDE DEF m
  <2>4. QED
    BY <2>2, <2>3, LeftBegin
<1>2. ASSUME NEW f \in Handle, NEW n \in 1 .. MaxXfer, Write(f, n) PROVE LeftOK'
  <2>1. call' = [NoCall EXCEPT !.op = "write", !.fh = f, !.left = n]
    BY <1>2 DEF Write, BeginXfer
  <2>2. n \in Nat /\ n > 0
    OBVIOUS
  <2>3. QED
    BY <2>1, <2>2, LeftBegin
<1>3. ASSUME NEW f \in Handle, NEW pos \in 0 .. MaxSize, Seek(f, pos) PROVE LeftOK'
  <2>1. files[f].fsize \in Nat /\ pos \in Nat /\ pc = "idle"
    BY <1>3 DEF Seek, Ready, IndInv, CtrlOK, Slot
  <2> DEFINE m == pos - files[f].fsize
  <2>2. \/ UNCHANGED <<pc, call>>
        \/ /\ pos > files[f].fsize
           /\ call' = [NoCall EXCEPT !.op = "write", !.fh = f, !.left = m]
    BY <1>3 DEF Seek, Zeros
  <2>3. pos > files[f].fsize => m \in Nat /\ m > 0
    BY <2>1
  <2> HIDE DEF m
  <2>4. CASE UNCHANGED <<pc, call>>
    BY <2>1, <2>4, LeftDone
  <2>5. CASE /\ pos > files[f].fsize
             /\ call' = [NoCall EXCEPT !.op = "write", !.fh = f, !.left = m]
    BY <2>3, <2>5, LeftBegin
  <2>6. QED
    BY <2>2, <2>4, <2>5
<1>4. ASSUME NEW f \in Handle, NEW op,
             Truncate(f) \/ Sync(f, op) \/ Fragments(f)
      PROVE  LeftOK'
  <2>1. pc' \notin {"chunk", "alloc", "move"}
    BY <1>4 DEF Truncate, BeginCut, CanWrite, Ready, Sync, Fragments
  <2>2. QED
    BY <2>1, LeftDone
<1>5. QED
  BY <1>1, <1>2, <1>3, <1>4 DEF HandleCall

(* The steps of a transfer. *)
LEMMA LeftTransfer ==
  ASSUME IndInv, LeftOK,
         \/ SameCluster \/ NextCluster \/ (\E cl \in Cluster : Alloc(cl))
         \/ AllocFull \/ ReadChunk \/ WriteChunk \/ WriteChunkFails \/ Link \/ Join
  PROVE  LeftOK'
<1>1. call \in CallType /\ call.left \in Nat
  BY DEF IndInv, CtrlOK, CallType
<1>2. ASSUME UNCHANGED call, pc \in {"chunk", "alloc"} PROVE LeftOK'
  BY <1>2 DEF LeftOK
<1>3. CASE SameCluster \/ NextCluster \/ \E cl \in Cluster : Alloc(cl)
  BY <1>2, <1>3, LeftReturn DEF SameCluster, NextCluster, Alloc, Goto
<1>4. CASE AllocFull \/ WriteChunkFails
  BY <1>4, LeftReturn DEF AllocFull, WriteChunkFails
<1>5. CASE ReadChunk \/ WriteChunk
  <2>1. pc = "move" /\ call.left > 0
    BY <1>5 DEF ReadChunk, WriteChunk, LeftOK
  <2>2. Chunk \in Nat /\ Chunk <= call.left
    <3>1. Chunk \in Nat
      BY <2>1, ChunkPositive
    <3>2. Chunk = IF call.left < UPS - Offset THEN call.left ELSE UPS - Offset
      BY DEF Chunk
    <3>3. Offset \in Nat /\ UPS \in Nat
      BY CurOK, GeometryAssumption DEF Offset, Slot
    <3>4. QED
      BY <1>1, <3>1, <3>2, <3>3
  <2>3. call.left - Chunk \in Nat
    BY <1>1, <2>2
  <2>4. \/ DiskError \/ Continue(call.left - Chunk) \/ pc' = "link"
    BY <1>5 DEF ReadChunk, WriteChunk, LinkNext
  <2>5. QED
    BY <2>3, <2>4, LeftReturn, LeftContinue, LeftDone
<1>6. CASE Link \/ Join
  <2>1. Continue(call.left) \/ pc' = "join" \/ Return
    BY <1>6 DEF Link, Join, Goto, LinkFails
  <2>2. QED
    BY <1>1, <2>1, LeftReturn, LeftContinue, LeftDone
<1>7. QED
  BY <1>3, <1>4, <1>5, <1>6

(* Every step keeps it. *)
LEMMA LeftNext == ASSUME IndInv, LeftOK, [Next]_vars PROVE LeftOK'
<1>1. CASE VolumeCall \/ Crash
  <2>1. pc' \in {"idle", "unmount"}
    BY <1>1 DEF VolumeCall, Crash, Mount, MountFails, Unmount, Lend, LendFails
  <2>2. QED
    BY <2>1, LeftDone
<1>2. CASE NameCall
  <2>1. pc' \in {"idle", "size", "append", "free"}
    <3>1. ASSUME NEW nm, NEW e, Stat(nm, e) \/ Delete(nm, e) PROVE pc' \in {"idle", "free"}
      BY <3>1 DEF Stat, Delete, Closed
    <3>2. ASSUME NEW nm, NEW to, NEW e, NEW last, Rename(nm, to, e, last)
          PROVE  pc' = "idle"
      BY <3>2 DEF Rename, Closed
    <3>3. ASSUME NEW nm, NEW m, NEW f, NEW e, OpenExisting(nm, m, f, e)
          PROVE  pc' \in {"idle", "size", "append"}
      BY <3>3 DEF OpenExisting
    <3>4. ASSUME NEW nm, NEW m, NEW f, NEW e, NEW last,
                 OpenNew(nm, m, f, e, last) \/ OpenNewFails(nm, m, f, e, last)
          PROVE  pc' = "idle"
      BY <3>4 DEF OpenNew, OpenNewFails, CreateChecks, OpenChecks
    <3>5. QED
      BY <1>2, <3>1, <3>2, <3>3, <3>4 DEF NameCall
  <2>2. QED
    BY <2>1, LeftDone
<1>3. CASE HandleCall
  BY <1>3, LeftHandle
<1>4. CASE \/ Append \/ Cut \/ CutSize \/ Free \/ SyncEntry \/ SyncDone \/ SyncFlushFails
           \/ (\E f \in Handle : UnmountClose(f)) \/ UnmountEnd
  <2>1. \/ Return \/ DiskError \/ Corrupt
        \/ pc' \in {"idle", "unmount", "size", "free", "append", "entry", "flush"}
    BY <1>4 DEF Append, Cut, CutSize, Free, SyncEntry, SyncDone, SyncFlushFails,
       UnmountClose, UnmountEnd, Done, Goto
  <2>2. QED
    BY <2>1, LeftReturn, LeftDone
<1>5. CASE \/ SameCluster \/ NextCluster \/ (\E cl \in Cluster : Alloc(cl))
           \/ AllocFull \/ ReadChunk \/ WriteChunk \/ WriteChunkFails \/ Link \/ Join
  BY <1>5, LeftTransfer
<1>6. CASE UNCHANGED vars
  BY <1>6 DEF vars, LeftOK
<1>7. QED
  BY <1>1, <1>2, <1>3, <1>4, <1>5, <1>6 DEF Next, Step

-----------------------------------------------------------------------------
(***************************************************************************)
(* The theorems.                                                           *)
(***************************************************************************)
WholeInv == CardInv /\ LeftOK /\ PosInv

(* At first nothing is open. *)
LEMMA PosInit == ASSUME SoundVolumes, Init PROVE WholeInv
<1>1. CardInv
  BY InitCard
<1>2. \A f \in Handle : files[f].flags = {}
  BY FreeSlotOK DEF Init
<1>3. PosInv
  BY <1>2 DEF Init, PosInv, LoanOK, Named, WritersOpen, WriterExcludes, AllPlaced, Live, Has
<1>4. LeftOK
  BY DEF Init, LeftOK
<1>5. QED
  BY <1>1, <1>3, <1>4 DEF WholeInv

(* Every step preserves the invariant. *)
LEMMA PosNext == ASSUME NothingDropped, WholeInv, [Next]_vars PROVE WholeInv'
<1>1. CardInv /\ CardInv' /\ LeftOK /\ LeftOK' /\ PosInv
  BY NextCard, LeftNext DEF WholeInv, CardInv
<1> SUFFICES PosInv'
  BY <1>1 DEF WholeInv
<1>2. CASE VolumeCall
  BY <1>1, <1>2, PosMount, PosUnmount, PosLend DEF VolumeCall
<1>3. CASE NameCall
  BY <1>1, <1>3, PosStat, PosDelete, PosRename, PosOpenExisting, PosOpenNew DEF NameCall
<1>4. CASE HandleCall
  BY <1>1, <1>4, PosBegin, PosSeek, PosTruncate, PosSync, PosFragments DEF HandleCall
<1>5. CASE Step
  BY <1>1, <1>5, PosAppend, PosSameCluster, PosNextCluster, PosAlloc, PosAllocFull,
     PosReadChunk, PosWriteChunk, PosWriteChunkFails, PosLink, PosJoin, PosCut,
     PosCutSize, PosFree, PosSyncEntry, PosSyncDone, PosUnmountClose, PosUnmount DEF Step
<1>6. CASE Crash
  BY <1>1, <1>6, PosMount
<1>7. CASE UNCHANGED vars
  <2>1. View' = View
    BY <1>1, <1>7, SameDiskOK DEF vars, disk, CardInv, IndInv
  <2>2. QED
    BY <1>1, <1>7, <2>1 DEF vars, PosInv, LoanOK, Named, WritersOpen, WriterExcludes,
       AllPlaced, Live, Has, Phase, NewClust
<1>8. QED
  BY <1>1, <1>2, <1>3, <1>4, <1>5, <1>6, <1>7 DEF Next

(* Between calls a slot at rest is where At would put it. *)
LEMMA RestingAgrees == ASSUME WholeInv PROVE PositionsAgree
<1> SUFFICES ASSUME pc = "idle", NEW f \in Handle, Live(f)
             PROVE  LET r == files[f]
                    IN  /\ Used(View, r.ent) /\ Ent(View, r.ent).sclust = r.sclust
                        /\ r.fptr <= r.fsize /\ CanReach(r, r.fptr)
                        /\ At(r, r.fptr).cclust = r.cclust
                        /\ At(r, r.fptr).csect = r.csect
  BY DEF PositionsAgree
<1> DEFINE r == files[f]
<1>1. r \in Slot /\ r.fptr \in Nat
  BY DEF WholeInv, CardInv, IndInv, CtrlOK, Slot
<1>2. Used(View, r.ent)
  BY DEF WholeInv, PosInv, Named, Live
<1>3. Resting(View, r)
  BY RestsPlaced DEF WholeInv, PosInv, AllPlaced, Rests
<1> HIDE DEF r
<1>4. CanReach(r, r.fptr)
  BY <1>1, <1>3 DEF Resting, Stands, CanReach
<1>5. At(r, r.fptr).cclust = r.cclust /\ At(r, r.fptr).csect = r.csect
  <2> DEFINE q == At(r, r.fptr)
  <2>1. Stands(View, q, r.fptr) /\ q.sclust = r.sclust
    BY <1>1, <1>4, AtStands
  <2> HIDE DEF q
  <2>2. q.cclust = r.cclust /\ q.csect = r.csect
    BY <1>3, <2>1 DEF Resting, Stands
  <2>3. QED
    BY <2>2 DEF q
<1>6. QED
  BY <1>2, <1>3, <1>4, <1>5 DEF Resting, r

(* spec-uzefs.md 7.3, for every volume and every number of files: a handle *)
(* open for writing is the only one of its file.  The names of open files  *)
(* stay taken, so that no second handle is made by creating one: this is   *)
(* why the theorem needs that no error drops a change of the directory.    *)
THEOREM OneWriter ==
  ASSUME SoundVolumes, NothingDropped
  PROVE  Spec => []WriterExcludes
<1>1. Init => WholeInv
  BY PosInit
<1>2. WholeInv /\ [Next]_vars => WholeInv'
  BY PosNext
<1>3. WholeInv => WriterExcludes
  BY DEF WholeInv, PosInv
<1>4. QED
  BY <1>1, <1>2, <1>3, PTL DEF Spec

(* Between calls every handle that works is in the cluster and the sector  *)
(* that a walk down its file's chain, from the entry on the card, leads to *)
(* (uzefs_seek): what truncates, frees and link_new did to other files has *)
(* not cut it off, and nothing it reads or writes there is another's.      *)
THEOREM PositionsHold ==
  ASSUME SoundVolumes, NothingDropped
  PROVE  Spec => []PositionsAgree
<1>1. Init => WholeInv
  BY PosInit
<1>2. WholeInv /\ [Next]_vars => WholeInv'
  BY PosNext
<1>3. WholeInv => PositionsAgree
  BY RestingAgrees
<1>4. QED
  BY <1>1, <1>2, <1>3, PTL DEF Spec

=============================================================================
