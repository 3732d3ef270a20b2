---------------------------- MODULE DeviceProofs ----------------------------
(***************************************************************************)
(* Devices that answer late.  The keyboard's bytes are decoded by an       *)
(* automaton that lags behind the keys, and every key is returned once, in *)
(* order, with the shift it was typed with.  The card's bytes of a song    *)
(* come in lines of the picture and between them, and every sample is      *)
(* played once, in order, to the song's end.  The bytes of a song in SPI   *)
(* RAM wait in a ring that is filled past the loop's end, and the player   *)
(* finds there what the song plays next.  The EEPROM is written a byte at  *)
(* a time and keeps what was saved when the power goes between two.        *)
(***************************************************************************)
EXTENDS WstStream, SongStream, Keyboard, EepromBlocks, FiniteSetTheorems, SequenceTheorems, TLAPS

-----------------------------------------------------------------------------
(***************************************************************************)
(* The keyboard.  What the bytes under way will do to the decoder is told  *)
(* by a run of it over them, which counts the keys it gives.               *)
(***************************************************************************)
Decoder(u, e0, p, m, n) == [up |-> u, extended |-> e0, pause |-> p, modifiers |-> m, n |-> n]
Decoders == [up : BOOLEAN, extended : BOOLEAN, pause : Nat,
             modifiers : SUBSET {"shift", "ctrl", "win"}, n : Int]

(* ModifierOf and KeyOf of a decoder that is not the present one. *)
ModifierFor(s, sc) ==
  IF sc \in {18, 89} THEN {"shift"} ELSE IF sc = 20 THEN {"ctrl"}
  ELSE IF sc = 31 /\ s.extended THEN {"win"} ELSE {}
KeyFor(s, sc) ==
  IF s.pause > 0 THEN IF s.pause = 1 THEN "pause" ELSE "none"
  ELSE IF s.up THEN "none"
  ELSE IF sc = 28 /\ ~s.extended THEN "a"
  ELSE IF sc = 107 /\ s.extended THEN "left" ELSE "none"

(* _Decode, with a key it gives counted. *)
Decoded(s, sc) ==
  IF s.pause > 0
  THEN Decoder(s.up, s.extended, s.pause - 1, s.modifiers, IF s.pause = 1 THEN s.n + 1 ELSE s.n)
  ELSE IF sc \in {E0, E1}
  THEN Decoder(s.up, s.extended \/ sc = E0, IF sc = E1 THEN 7 ELSE 0, s.modifiers, s.n)
  ELSE IF ~s.up
  THEN Decoder(sc = F0, s.extended, 0, s.modifiers \cup ModifierFor(s, sc),
               IF KeyFor(s, sc) = "none" THEN s.n ELSE s.n + 1)
  ELSE Decoder(FALSE, FALSE, 0, s.modifiers \ ModifierFor(s, sc), s.n)

(* The keys it gives over the bytes q are those of keys, from the one its  *)
(* count says on, each by the shift it finds.                              *)
RunsOver(run, q, keys, checked) ==
  /\ DOMAIN run = 0 .. Len(q)
  /\ \A i \in 0 .. Len(q) : run[i] \in Decoders /\ \A j \in 0 .. i : run[j].n <= run[i].n
  /\ \A i \in 1 .. Len(q) : run[i] = Decoded(run[i - 1], q[i])
  /\ checked => \A i \in 1 .. Len(q) :
       KeyFor(run[i - 1], q[i]) # "none" =>
         /\ run[i].n \in 1 .. Len(keys)
         /\ keys[run[i].n] = Typed(KeyFor(run[i - 1], q[i]), "shift" \in run[i].modifiers)

Decodes(s, q, keys, checked, t) ==
  \E run : RunsOver(run, q, keys, checked) /\ run[0] = s /\ run[Len(q)] = t

Present == Decoder(up, extended, pause, modifiers, IF buffered = "none" THEN 0 ELSE 1)

(* Where the decoder comes to when it has caught up with the keys that are *)
(* down.                                                                   *)
CaughtUp(t) ==
  /\ ~t.up /\ t.pause = 0
  /\ t.extended => held \cap Extended # {}
  /\ "shift" \in t.modifiers => held \cap Shifts # {}
  /\ "ctrl" \in t.modifiers => "rctrl" \in held
  /\ "win" \in t.modifiers => "win" \in held
  /\ ~overlap => /\ t.n = Len(typed)
                 /\ held \cap Shifts # {} => "shift" \in t.modifiers
                 /\ ~ Shifts \subseteq held

KeyRecord == [key : {"a", "left", "pause"}, shifted : BOOLEAN]

KeyInv ==
  /\ queue \in Seq(Nat) /\ typed \in Seq(KeyRecord)
  /\ held \subseteq Keys /\ overlap \in BOOLEAN /\ buffered \in {"none", "a", "left", "pause"}
  /\ taking # <<>> => buffered # "none" /\ taking = <<Typed(buffered, "shift" \in modifiers)>>
  /\ ~overlap /\ buffered # "none" =>
       typed # <<>> /\ Head(typed) = Typed(buffered, "shift" \in modifiers)
  /\ \E t : Decodes(Present, queue, typed, ~overlap, t) /\ CaughtUp(t)

(* A byte decoded leaves a decoder, with at most one key more.             *)
LEMMA DecodedOK ==
  ASSUME NEW s \in Decoders, NEW b \in Nat
  PROVE  Decoded(s, b) \in Decoders /\ Decoded(s, b).n >= s.n
BY DEF Decoded, Decoder, Decoders, ModifierFor

(* A byte more, and the key it gives. *)
LEMMA DecodesByte ==
  ASSUME NEW q \in Seq(Nat), NEW b \in Nat, NEW s, NEW t, NEW checked \in BOOLEAN,
         NEW keys \in Seq(KeyRecord), NEW more \in Seq(KeyRecord),
         Decodes(s, q, keys, checked, t),
         checked => IF KeyFor(t, b) = "none" THEN more = keys
                    ELSE /\ t.n = Len(keys)
                         /\ more = Append(keys, Typed(KeyFor(t, b), "shift" \in Decoded(t, b).modifiers))
  PROVE  Decodes(s, Append(q, b), more, checked, Decoded(t, b)) /\ t \in Decoders
<1>1. PICK run : RunsOver(run, q, keys, checked) /\ run[0] = s /\ run[Len(q)] = t
  BY DEF Decodes
<1> DEFINE l == Len(q)
           qq == Append(q, b)
           u == Decoded(t, b)
           longer == [i \in 0 .. l + 1 |-> IF i = l + 1 THEN u ELSE run[i]]
<1>2. l \in Nat /\ Len(qq) = l + 1 /\ qq[l + 1] = b /\ \A i \in 1 .. l : qq[i] = q[i]
  OBVIOUS
<1>3. t \in Decoders /\ \A j \in 0 .. l : run[j] \in Decoders /\ run[j].n <= t.n
  BY <1>1, <1>2 DEF RunsOver
<1>4. u \in Decoders /\ u.n >= t.n
  BY <1>3, DecodedOK
<1>5. longer[0] = s /\ longer[l] = t /\ longer[l + 1] = u
  BY <1>1, <1>2
<1>6. \A i \in 0 .. l : longer[i] = run[i]
  BY <1>2
<1>7. checked => Len(keys) <= Len(more) /\ \A i \in 1 .. Len(keys) : more[i] = keys[i]
  OBVIOUS
<1>8. DOMAIN longer = 0 .. l + 1
  OBVIOUS
<1> HIDE DEF l, qq, u, longer
<1>9. RunsOver(longer, qq, more, checked)
  <2>1. ASSUME NEW i \in 0 .. l + 1
        PROVE  longer[i] \in Decoders /\ \A j \in 0 .. i : longer[j].n <= longer[i].n
    <3>1. CASE i = l + 1
      <4>1. longer[i] = u /\ \A j \in 0 .. i : j = i \/ j \in 0 .. l
        BY <3>1, <1>2, <1>5
      <4>2. \A j \in 0 .. l : longer[j].n <= u.n
        <5> SUFFICES ASSUME NEW j \in 0 .. l PROVE longer[j].n <= u.n
          OBVIOUS
        <5>1. run[j].n <= t.n /\ t.n <= u.n /\ run[j].n \in Int /\ t.n \in Int /\ u.n \in Int
          BY <1>3, <1>4 DEF Decoders
        <5>2. QED
          BY <5>1, <1>6
      <4>3. u.n <= u.n
        BY <1>4 DEF Decoders
      <4>4. QED
        BY <4>1, <4>2, <4>3, <1>4
    <3>2. CASE i # l + 1
      <4>1. i \in 0 .. l /\ \A j \in 0 .. i : j \in 0 .. l
        BY <3>2, <1>2
      <4>2. QED
        BY <4>1, <1>1, <1>6 DEF RunsOver, l
    <3>3. QED
      BY <3>1, <3>2
  <2>2. ASSUME NEW i \in 1 .. l + 1
        PROVE  /\ longer[i] = Decoded(longer[i - 1], qq[i])
               /\ checked /\ KeyFor(longer[i - 1], qq[i]) # "none" =>
                    /\ longer[i].n \in 1 .. Len(more)
                    /\ more[longer[i].n] = Typed(KeyFor(longer[i - 1], qq[i]),
                                                 "shift" \in longer[i].modifiers)
    <3>1. CASE i = l + 1
      <4>1. longer[i] = u /\ longer[i - 1] = t /\ qq[i] = b
        BY <3>1, <1>2, <1>5
      <4>2. u = Decoded(t, b)
        BY DEF u
      <4>3. ASSUME checked, KeyFor(t, b) # "none"
            PROVE  u.n \in 1 .. Len(more)
                   /\ more[u.n] = Typed(KeyFor(t, b), "shift" \in u.modifiers)
        <5>1. u.n = t.n + 1
          <6>1. t.n \in Int
            BY <1>3 DEF Decoders
          <6>2. QED
            BY <6>1, <4>3, <4>2 DEF Decoded, Decoder, KeyFor, E0, E1
        <5>2. QED
          BY <5>1, <4>2, <4>3
      <4>4. QED
        BY <4>1, <4>2, <4>3
    <3>2. CASE i # l + 1
      <4>1. i \in 1 .. l /\ i \in 0 .. l /\ i - 1 \in 0 .. l
        BY <3>2, <1>2
      <4>2. longer[i] = run[i] /\ longer[i - 1] = run[i - 1] /\ qq[i] = q[i]
        BY <4>1, <1>2, <1>6
      <4>3. run[i] = Decoded(run[i - 1], q[i])
        BY <4>1, <1>1 DEF RunsOver, l
      <4>4. checked /\ KeyFor(run[i - 1], q[i]) # "none" =>
              /\ run[i].n \in 1 .. Len(keys)
              /\ keys[run[i].n] = Typed(KeyFor(run[i - 1], q[i]), "shift" \in run[i].modifiers)
        BY <4>1, <1>1 DEF RunsOver, l
      <4>5. QED
        BY <4>2, <4>3, <4>4, <1>7
    <3>3. QED
      BY <3>1, <3>2
  <2>3. QED
    BY <2>1, <2>2, <1>2, <1>8 DEF RunsOver
<1>10. QED
  BY <1>2, <1>3, <1>5, <1>9 DEF Decodes, u, qq

(* What is not checked holds of any keys. *)
LEMMA DecodesFreely ==
  ASSUME NEW s, NEW q, NEW keys, NEW checked, NEW t, NEW more, Decodes(s, q, keys, checked, t)
  PROVE  Decodes(s, q, more, FALSE, t)
<1>1. PICK run : RunsOver(run, q, keys, checked) /\ run[0] = s /\ run[Len(q)] = t
  BY DEF Decodes
<1>2. RunsOver(run, q, more, FALSE)
  BY <1>1 DEF RunsOver
<1>3. QED
  BY <1>1, <1>2 DEF Decodes

(* Nothing changes the decoder where nothing is under way. *)
LEMMA DecodesNothing ==
  ASSUME NEW s, NEW keys, NEW checked, NEW t
  PROVE  /\ Decodes(s, <<>>, keys, checked, t) => s = t
         /\ s \in Decoders => Decodes(s, <<>>, keys, checked, s)
<1>1. Decodes(s, <<>>, keys, checked, t) => s = t
  BY DEF Decodes
<1>2. ASSUME s \in Decoders PROVE Decodes(s, <<>>, keys, checked, s)
  <2> DEFINE run == [i \in 0 .. 0 |-> s]
  <2>1. RunsOver(run, <<>>, keys, checked)
    BY <1>2 DEF RunsOver, Decoders
  <2>2. QED
    BY <2>1 DEF Decodes
<1>3. QED
  BY <1>1, <1>2

(* The next byte is decoded, and gives the next key if it gives one. *)
LEMMA DecodesNext ==
  ASSUME NEW s, NEW q \in Seq(Nat), NEW keys, NEW checked, NEW t, q # <<>>,
         Decodes(s, q, keys, checked, t)
  PROVE  /\ s \in Decoders
         /\ Decodes(Decoded(s, Head(q)), Tail(q), keys, checked, t)
         /\ checked /\ KeyFor(s, Head(q)) # "none" =>
              /\ Decoded(s, Head(q)).n \in 1 .. Len(keys)
              /\ keys[Decoded(s, Head(q)).n] =
                   Typed(KeyFor(s, Head(q)), "shift" \in Decoded(s, Head(q)).modifiers)
<1>1. PICK run : RunsOver(run, q, keys, checked) /\ run[0] = s /\ run[Len(q)] = t
  BY DEF Decodes
<1> DEFINE b == Head(q)
           rest == Tail(q)
           later == [i \in 0 .. Len(rest) |-> run[i + 1]]
<1>2. /\ Len(q) \in Nat /\ Len(q) > 0 /\ Len(rest) = Len(q) - 1 /\ b = q[1]
      /\ \A i \in 1 .. Len(rest) : rest[i] = q[i + 1]
  OBVIOUS
<1>3. s \in Decoders /\ run[1] = Decoded(s, b) /\ b \in Nat
  BY <1>1, <1>2 DEF RunsOver
<1>4. checked /\ KeyFor(s, b) # "none" =>
        /\ run[1].n \in 1 .. Len(keys)
        /\ keys[run[1].n] = Typed(KeyFor(s, b), "shift" \in run[1].modifiers)
  BY <1>1, <1>2 DEF RunsOver
<1>5. /\ later[0] = Decoded(s, b) /\ later[Len(rest)] = t
      /\ \A i \in 0 .. Len(rest) : later[i] = run[i + 1]
  BY <1>1, <1>2, <1>3
<1>6. DOMAIN later = 0 .. Len(rest)
  OBVIOUS
<1> HIDE DEF b, rest, later
<1>7. \A i \in 1 .. Len(q) : run[i] \in Decoders /\ run[i] = Decoded(run[i - 1], q[i])
  <2>1. /\ \A i \in 0 .. Len(q) : run[i] \in Decoders
        /\ \A i \in 1 .. Len(q) : run[i] = Decoded(run[i - 1], q[i])
    BY <1>1 DEF RunsOver
  <2>2. \A i \in 1 .. Len(q) : i \in 0 .. Len(q)
    BY <1>2
  <2>3. QED
    BY <2>1, <2>2
<1>8. RunsOver(later, rest, keys, checked)
  <2>1. ASSUME NEW i \in 1 .. Len(rest)
        PROVE  /\ later[i] = Decoded(later[i - 1], rest[i])
               /\ checked /\ KeyFor(later[i - 1], rest[i]) # "none" =>
                    /\ later[i].n \in 1 .. Len(keys)
                    /\ keys[later[i].n] = Typed(KeyFor(later[i - 1], rest[i]),
                                                "shift" \in later[i].modifiers)
    <3>1. i + 1 \in 1 .. Len(q) /\ (i + 1) - 1 = i /\ (i - 1) + 1 = i
          /\ i \in 0 .. Len(rest) /\ i - 1 \in 0 .. Len(rest)
      BY <1>2
    <3>2. later[i] = run[i + 1] /\ later[i - 1] = run[i] /\ rest[i] = q[i + 1]
      BY <3>1, <1>2, <1>5
    <3>3. QED
      BY <3>1, <3>2, <1>1 DEF RunsOver
  <2>2. \A i \in 0 .. Len(rest) : later[i] \in Decoders
    <3> SUFFICES ASSUME NEW i \in 0 .. Len(rest) PROVE later[i] \in Decoders
      OBVIOUS
    <3>1. i + 1 \in 1 .. Len(q)
      BY <1>2
    <3>2. QED
      BY <3>1, <1>5, <1>7
  <2>3. ASSUME NEW i \in 0 .. Len(rest), NEW j \in 0 .. i PROVE later[j].n <= later[i].n
    <3>1. i + 1 \in 0 .. Len(q) /\ j + 1 \in 0 .. i + 1 /\ j \in 0 .. Len(rest)
      BY <1>2
    <3>2. later[i] = run[i + 1] /\ later[j] = run[j + 1]
      BY <3>1, <1>5
    <3>3. QED
      BY <3>1, <3>2, <1>1 DEF RunsOver
  <2>4. QED
    BY <2>1, <2>2, <2>3, <1>6 DEF RunsOver
<1>9. Decodes(Decoded(s, b), rest, keys, checked, t)
  BY <1>5, <1>8 DEF Decodes
<1>10. QED
  BY <1>3, <1>4, <1>9 DEF b, rest

(* The first of the keys is taken, and the counts start one lower. *)
Less(s) == Decoder(s.up, s.extended, s.pause, s.modifiers, s.n - 1)

(* A decoder with a lower count decodes as it did.                         *)
LEMMA LessOK ==
  ASSUME NEW s \in Decoders
  PROVE  /\ Less(s) \in Decoders /\ Less(s).n = s.n - 1 /\ Less(s).modifiers = s.modifiers
         /\ Less(s).up = s.up /\ Less(s).extended = s.extended /\ Less(s).pause = s.pause
         /\ \A b : KeyFor(Less(s), b) = KeyFor(s, b) /\ ModifierFor(Less(s), b) = ModifierFor(s, b)
<1>1. /\ Less(s) \in Decoders /\ Less(s).n = s.n - 1 /\ Less(s).modifiers = s.modifiers
      /\ Less(s).up = s.up /\ Less(s).extended = s.extended /\ Less(s).pause = s.pause
  BY DEF Less, Decoder, Decoders
<1>2. QED
  BY <1>1 DEF KeyFor, ModifierFor

(* The count is all that changes.                                          *)
LEMMA LessOf == \A u, e0, p, m, n : Less(Decoder(u, e0, p, m, n)) = Decoder(u, e0, p, m, n - 1)
BY DEF Less, Decoder

(* A run stays one when the first of the keys is taken.                    *)
LEMMA DecodesLess ==
  ASSUME NEW s, NEW q \in Seq(Nat), NEW keys \in Seq(KeyRecord), NEW checked, NEW t,
         Decodes(s, q, keys, checked, t), s.n = 1
  PROVE  /\ Decodes(Less(s), q, IF keys = <<>> THEN <<>> ELSE Tail(keys), checked, Less(t))
         /\ t \in Decoders
<1>1. PICK run : RunsOver(run, q, keys, checked) /\ run[0] = s /\ run[Len(q)] = t
  BY DEF Decodes
<1> DEFINE l == Len(q)
           rest == IF keys = <<>> THEN <<>> ELSE Tail(keys)
           lower == [i \in 0 .. l |-> Less(run[i])]
<1>2. l \in Nat
  OBVIOUS
<1>3. lower[0] = Less(s) /\ lower[l] = Less(t) /\ DOMAIN lower = 0 .. l
  BY <1>1, <1>2
<1>4. keys # <<>> => /\ Len(keys) > 0 /\ Len(rest) = Len(keys) - 1
                     /\ \A i \in 2 .. Len(keys) : rest[i - 1] = keys[i]
  OBVIOUS
<1>5. \A i \in 0 .. l : lower[i] = Less(run[i])
  OBVIOUS
<1> HIDE DEF lower, rest, l
<1>6. ASSUME NEW i \in 0 .. l
      PROVE  run[i] \in Decoders /\ run[i].n >= 1 /\ \A j \in 0 .. i : run[j].n <= run[i].n
  <2>1. run[i] \in Decoders /\ \A j \in 0 .. i : run[j].n <= run[i].n
    BY <1>1 DEF RunsOver, l
  <2>2. run[0].n = 1 /\ 0 \in 0 .. i
    BY <1>1, <1>2
  <2>3. QED
    BY <2>1, <2>2 DEF Decoders
<1>7. \A i \in 0 .. l : lower[i] \in Decoders
  BY <1>5, <1>6, LessOK
<1>8. ASSUME NEW i \in 0 .. l, NEW j \in 0 .. i PROVE lower[j].n <= lower[i].n
  <2>1. j \in 0 .. l /\ run[j].n <= run[i].n /\ run[j].n \in Int /\ run[i].n \in Int
    BY <1>2, <1>6 DEF Decoders
  <2>2. lower[i].n = run[i].n - 1 /\ lower[j].n = run[j].n - 1
    BY <2>1, <1>5, <1>6, LessOK
  <2>3. QED
    BY <2>1, <2>2
<1>9. ASSUME NEW i \in 1 .. l
      PROVE  /\ lower[i] = Decoded(lower[i - 1], q[i])
             /\ checked /\ KeyFor(lower[i - 1], q[i]) # "none" =>
                  /\ lower[i].n \in 1 .. Len(rest)
                  /\ rest[lower[i].n] = Typed(KeyFor(lower[i - 1], q[i]),
                                              "shift" \in lower[i].modifiers)
  <2> DEFINE a == run[i - 1]
             z == run[i]
  <2>1. /\ i \in 0 .. l /\ i - 1 \in 0 .. l /\ i - 1 \in 0 .. i
        /\ a \in Decoders /\ z \in Decoders /\ a.n >= 1 /\ a.n <= z.n
        /\ z = Decoded(a, q[i])
        /\ checked /\ KeyFor(a, q[i]) # "none" =>
             /\ z.n \in 1 .. Len(keys)
             /\ keys[z.n] = Typed(KeyFor(a, q[i]), "shift" \in z.modifiers)
    <3>1. i \in 0 .. l /\ i - 1 \in 0 .. l /\ i - 1 \in 0 .. i
      BY <1>2
    <3>2. QED
      BY <3>1, <1>1, <1>6 DEF RunsOver, l
  <2>2. lower[i] = Less(z) /\ lower[i - 1] = Less(a)
    BY <2>1, <1>5
  <2> HIDE DEF a, z
  <2>3. KeyFor(Less(a), q[i]) = KeyFor(a, q[i])
    BY <2>1, LessOK
  <2>4. Less(z) = Decoded(Less(a), q[i])
    <3> DEFINE b == q[i]
    <3>1. a.n \in Int /\ (a.n + 1) - 1 = (a.n - 1) + 1
      BY <2>1 DEF Decoders
    <3>2. Less(a).pause = a.pause /\ Less(a).up = a.up /\ Less(a).extended = a.extended
          /\ Less(a).modifiers = a.modifiers /\ Less(a).n = a.n - 1
          /\ KeyFor(Less(a), b) = KeyFor(a, b) /\ ModifierFor(Less(a), b) = ModifierFor(a, b)
      BY <2>1, LessOK
    <3>3. z = Decoded(a, b)
      BY <2>1
    <3> HIDE DEF b
    <3>4. CASE a.pause > 0
      <4> DEFINE u == a.up
                 e0 == a.extended
                 p == a.pause - 1
                 m == a.modifiers
                 n == IF a.pause = 1 THEN a.n + 1 ELSE a.n
                 n1 == IF a.pause = 1 THEN (a.n - 1) + 1 ELSE a.n - 1
      <4>1. z = Decoder(u, e0, p, m, n)
        BY <3>3, <3>4 DEF Decoded
      <4>2. Decoded(Less(a), b) = Decoder(u, e0, p, m, n1)
        BY <3>2, <3>4 DEF Decoded
      <4>3. n1 = n - 1
        BY <3>1
      <4> HIDE DEF u, e0, p, m, n, n1
      <4>4. Less(z) = Decoder(u, e0, p, m, n - 1)
        BY <4>1, LessOf
      <4>5. QED
        BY <4>2, <4>3, <4>4 DEF b
    <3>5. CASE ~(a.pause > 0) /\ b \in {E0, E1}
      <4> DEFINE u == a.up
                 e0 == a.extended \/ b = E0
                 p == IF b = E1 THEN 7 ELSE 0
                 m == a.modifiers
                 n == a.n
                 n1 == a.n - 1
      <4>1. z = Decoder(u, e0, p, m, n)
        BY <3>3, <3>5 DEF Decoded
      <4>2. Decoded(Less(a), b) = Decoder(u, e0, p, m, n1)
        BY <3>2, <3>5 DEF Decoded
      <4>3. n1 = n - 1
        BY <3>1
      <4> HIDE DEF u, e0, p, m, n, n1
      <4>4. Less(z) = Decoder(u, e0, p, m, n - 1)
        BY <4>1, LessOf
      <4>5. QED
        BY <4>2, <4>3, <4>4 DEF b
    <3>6. CASE ~(a.pause > 0) /\ b \notin {E0, E1} /\ ~a.up
      <4> DEFINE u == b = F0
                 e0 == a.extended
                 p == 0
                 m == a.modifiers \cup ModifierFor(a, b)
                 n == IF KeyFor(a, b) = "none" THEN a.n ELSE a.n + 1
                 n1 == IF KeyFor(a, b) = "none" THEN a.n - 1 ELSE (a.n - 1) + 1
      <4>1. z = Decoder(u, e0, p, m, n)
        BY <3>3, <3>6 DEF Decoded
      <4>2. Decoded(Less(a), b) = Decoder(u, e0, p, m, n1)
        BY <3>2, <3>6 DEF Decoded
      <4>3. n1 = n - 1
        BY <3>1
      <4> HIDE DEF u, e0, p, m, n, n1
      <4>4. Less(z) = Decoder(u, e0, p, m, n - 1)
        BY <4>1, LessOf
      <4>5. QED
        BY <4>2, <4>3, <4>4 DEF b
    <3>7. CASE ~(a.pause > 0) /\ b \notin {E0, E1} /\ a.up
      <4> DEFINE u == FALSE
                 e0 == FALSE
                 p == 0
                 m == a.modifiers \ ModifierFor(a, b)
                 n == a.n
                 n1 == a.n - 1
      <4>1. z = Decoder(u, e0, p, m, n)
        BY <3>3, <3>7 DEF Decoded
      <4>2. Decoded(Less(a), b) = Decoder(u, e0, p, m, n1)
        BY <3>2, <3>7 DEF Decoded
      <4>3. n1 = n - 1
        BY <3>1
      <4> HIDE DEF u, e0, p, m, n, n1
      <4>4. Less(z) = Decoder(u, e0, p, m, n - 1)
        BY <4>1, LessOf
      <4>5. QED
        BY <4>2, <4>3, <4>4 DEF b
    <3>8. QED
      BY <3>4, <3>5, <3>6, <3>7 DEF b
  <2>5. ASSUME checked, KeyFor(a, q[i]) # "none"
        PROVE  /\ z.n - 1 \in 1 .. Len(rest)
               /\ rest[z.n - 1] = Typed(KeyFor(a, q[i]), "shift" \in z.modifiers)
    <3>1. z.n = a.n + 1
      BY <2>1, <2>5, SMTT(30) DEF Decoded, Decoder, KeyFor, E0, E1
    <3>2. z.n \in 2 .. Len(keys) /\ Len(keys) \in Nat
      BY <2>1, <2>5, <3>1 DEF Decoders
    <3>3. keys # <<>>
      BY <3>2
    <3>4. QED
      BY <2>1, <2>5, <3>2, <3>3, <1>4
  <2>6. Less(z).n = z.n - 1 /\ Less(z).modifiers = z.modifiers
    BY <2>1, LessOK
  <2>7. QED
    BY <2>1, <2>2, <2>3, <2>4, <2>5, <2>6
<1>10. RunsOver(lower, q, rest, checked)
  BY <1>3, <1>7, <1>8, <1>9 DEF RunsOver, l
<1>11. t \in Decoders
  BY <1>1, <1>2, <1>6 DEF l
<1>12. QED
  BY <1>3, <1>10, <1>11 DEF Decodes, rest, l

(* Both ends of a run are decoders. *)
LEMMA DecodesEnds ==
  ASSUME NEW s, NEW q \in Seq(Nat), NEW keys, NEW checked, NEW t, Decodes(s, q, keys, checked, t)
  PROVE  s \in Decoders /\ t \in Decoders
<1>1. Len(q) \in Nat
  OBVIOUS
<1>2. QED
  BY <1>1 DEF Decodes, RunsOver

(* A prefix, where a decoder is between two codes or after another one. *)
LEMMA DecoderIs ==
  \A r, u, e0, p, m, n : r = Decoder(u, e0, p, m, n) =>
    r.up = u /\ r.extended = e0 /\ r.pause = p /\ r.modifiers = m /\ r.n = n
BY DEF Decoder

(* The prefixes of extended and of released codes only set their flags.    *)
LEMMA DecodedPrefix ==
  ASSUME NEW t \in Decoders, NEW b \in {E0, E1, F0}, t.pause = 0, ~t.up
  PROVE  /\ KeyFor(t, b) = "none"
         /\ Decoded(t, b).n = t.n /\ Decoded(t, b).modifiers = t.modifiers
         /\ (Decoded(t, b).up <=> b = F0)
         /\ (Decoded(t, b).extended <=> (t.extended \/ b = E0))
         /\ Decoded(t, b).pause = IF b = E1 THEN 7 ELSE 0
<1>1. KeyFor(t, b) = "none" /\ (b = F0 => ModifierFor(t, b) = {})
  BY DEF KeyFor, ModifierFor, E0, E1, F0
<1>2. t.modifiers \cup {} = t.modifiers
  OBVIOUS
<1>3. CASE b \in {E0, E1}
  <2>1. b # F0
    BY <1>3 DEF E0, E1, F0
  <2>2. Decoded(t, b) = Decoder(t.up, t.extended \/ b = E0, IF b = E1 THEN 7 ELSE 0, t.modifiers, t.n)
    BY <1>3 DEF Decoded
  <2>3. Decoded(t, b).up = t.up /\ Decoded(t, b).extended = (t.extended \/ b = E0)
        /\ Decoded(t, b).pause = (IF b = E1 THEN 7 ELSE 0)
        /\ Decoded(t, b).modifiers = t.modifiers /\ Decoded(t, b).n = t.n
    BY <2>2, DecoderIs
  <2>4. QED
    BY <1>1, <2>1, <2>3
<1>4. CASE b = F0
  <2>1. b \notin {E0, E1}
    BY <1>4 DEF E0, E1, F0
  <2>2. Decoded(t, b) = Decoder(b = F0, t.extended, 0, t.modifiers \cup ModifierFor(t, b), t.n)
    BY <1>1, <2>1 DEF Decoded
  <2>3. Decoded(t, b).up = (b = F0) /\ Decoded(t, b).extended = t.extended
        /\ Decoded(t, b).pause = 0
        /\ Decoded(t, b).modifiers = t.modifiers \cup ModifierFor(t, b) /\ Decoded(t, b).n = t.n
    BY <2>2, DecoderIs
  <2>4. QED
    BY <1>1, <1>2, <1>4, <2>1, <2>3
<1>5. QED
  BY <1>3, <1>4

(* A byte of Pause, the last of which gives the key. *)
LEMMA DecodedPause ==
  ASSUME NEW t \in Decoders, NEW b, t.pause > 0
  PROVE  /\ KeyFor(t, b) = IF t.pause = 1 THEN "pause" ELSE "none"
         /\ Decoded(t, b).n = IF t.pause = 1 THEN t.n + 1 ELSE t.n
         /\ Decoded(t, b).pause = t.pause - 1 /\ Decoded(t, b).up = t.up
         /\ Decoded(t, b).extended = t.extended /\ Decoded(t, b).modifiers = t.modifiers
BY DEF Decoded, Decoder, KeyFor

(* A key's own code, when it is pressed and when it is released. *)
Codes == {28, 107, 18, 89, 20, 31}

(* A code alone gives the key or sets the modifier it is of.               *)
LEMMA DecodedMake ==
  ASSUME NEW t \in Decoders, NEW b \in Codes, t.pause = 0, ~t.up
  PROVE  /\ Decoded(t, b).pause = 0 /\ ~Decoded(t, b).up
         /\ Decoded(t, b).extended = t.extended
         /\ Decoded(t, b).modifiers = t.modifiers \cup ModifierFor(t, b)
         /\ Decoded(t, b).n = IF KeyFor(t, b) = "none" THEN t.n ELSE t.n + 1
         /\ KeyFor(t, b) = IF b = 28 /\ ~t.extended THEN "a"
                           ELSE IF b = 107 /\ t.extended THEN "left" ELSE "none"
<1>1. b \notin {E0, E1} /\ b # F0
  BY DEF Codes, E0, E1, F0
<1>2. Decoded(t, b) = Decoder(b = F0, t.extended, 0, t.modifiers \cup ModifierFor(t, b),
                             IF KeyFor(t, b) = "none" THEN t.n ELSE t.n + 1)
  BY <1>1 DEF Decoded
<1>3. Decoded(t, b).up = (b = F0) /\ Decoded(t, b).extended = t.extended
      /\ Decoded(t, b).pause = 0
      /\ Decoded(t, b).modifiers = t.modifiers \cup ModifierFor(t, b)
      /\ Decoded(t, b).n = IF KeyFor(t, b) = "none" THEN t.n ELSE t.n + 1
  BY <1>2, DecoderIs
<1>4. KeyFor(t, b) = IF b = 28 /\ ~t.extended THEN "a"
                    ELSE IF b = 107 /\ t.extended THEN "left" ELSE "none"
  BY DEF KeyFor
<1>5. QED
  BY <1>1, <1>3, <1>4

(* After the prefix of a release it gives no key and clears the modifier.  *)
LEMMA DecodedBreak ==
  ASSUME NEW t \in Decoders, NEW b \in Codes, t.pause = 0, t.up
  PROVE  /\ Decoded(t, b).pause = 0 /\ ~Decoded(t, b).up
         /\ ~Decoded(t, b).extended
         /\ Decoded(t, b).modifiers = t.modifiers \ ModifierFor(t, b)
         /\ Decoded(t, b).n = t.n /\ KeyFor(t, b) = "none"
<1>1. b \notin {E0, E1}
  BY DEF Codes, E0, E1
<1>2. Decoded(t, b) = Decoder(FALSE, FALSE, 0, t.modifiers \ ModifierFor(t, b), t.n)
  BY <1>1 DEF Decoded
<1>3. /\ Decoded(t, b).pause = 0 /\ ~Decoded(t, b).up /\ ~Decoded(t, b).extended
      /\ Decoded(t, b).modifiers = t.modifiers \ ModifierFor(t, b)
      /\ Decoded(t, b).n = t.n
  BY <1>2 DEF Decoder
<1>4. KeyFor(t, b) = "none"
  BY DEF KeyFor
<1>5. QED
  BY <1>3, <1>4

(* A key with its shift is a record. *)
LEMMA TypedOK ==
  ASSUME NEW k \in {"a", "left", "pause"}, NEW shift
  PROVE  Typed(k, shift) \in KeyRecord
BY DEF Typed, KeyRecord

(* A run that goes on over a prefix, over the code of a key that is        *)
(* pressed or released, and over a byte of Pause.                          *)
LEMMA GoesOnPrefix ==
  ASSUME NEW s, NEW t, NEW q \in Seq(Nat), NEW keys \in Seq(KeyRecord), NEW checked \in BOOLEAN,
         Decodes(s, q, keys, checked, t), NEW b \in {E0, E1, F0}, t.pause = 0, ~t.up
  PROVE  \E u \in Decoders :
           /\ Decodes(s, Append(q, b), keys, checked, u) /\ Append(q, b) \in Seq(Nat)
           /\ u.n = t.n /\ u.modifiers = t.modifiers /\ u.pause = (IF b = E1 THEN 7 ELSE 0)
           /\ (u.up <=> b = F0) /\ (u.extended <=> (t.extended \/ b = E0))
<1>1. t \in Decoders /\ b \in Nat /\ Append(q, b) \in Seq(Nat)
  <2>1. t \in Decoders
    BY DecodesEnds
  <2>2. b \in Nat
    BY DEF E0, E1, F0
  <2>3. QED
    BY <2>1, <2>2
<1>2. KeyFor(t, b) = "none"
  BY <1>1, DecodedPrefix
<1>3. Decodes(s, Append(q, b), keys, checked, Decoded(t, b))
  BY <1>1, <1>2, DecodesByte
<1>4. Decoded(t, b) \in Decoders
  BY <1>1, DecodedOK
<1>5. /\ Decoded(t, b).n = t.n /\ Decoded(t, b).modifiers = t.modifiers
      /\ (Decoded(t, b).up <=> b = F0)
      /\ (Decoded(t, b).extended <=> (t.extended \/ b = E0))
      /\ Decoded(t, b).pause = IF b = E1 THEN 7 ELSE 0
  BY <1>1, DecodedPrefix
<1>6. QED
  BY <1>1, <1>3, <1>4, <1>5

Gives(checked, t, b, keys, more) ==
  checked => IF KeyFor(t, b) = "none" THEN more = keys
             ELSE /\ t.n = Len(keys)
                  /\ more = Append(keys, Typed(KeyFor(t, b),
                                              "shift" \in t.modifiers \cup ModifierFor(t, b)))

Made(t, b, u) ==
  /\ u.pause = 0 /\ ~u.up /\ u.extended = t.extended
  /\ u.modifiers = t.modifiers \cup ModifierFor(t, b)
  /\ u.n = IF KeyFor(t, b) = "none" THEN t.n ELSE t.n + 1

(* A run goes on over the code of a key that is pressed.                   *)
LEMMA GoesOnMake ==
  ASSUME NEW s, NEW t, NEW q \in Seq(Nat), NEW keys \in Seq(KeyRecord), NEW checked \in BOOLEAN,
         NEW more \in Seq(KeyRecord),
         Decodes(s, q, keys, checked, t), NEW b \in Codes, t.pause = 0, ~t.up,
         Gives(checked, t, b, keys, more)
  PROVE  \E u \in Decoders : Decodes(s, Append(q, b), more, checked, u) /\ Made(t, b, u)
<1>1. t \in Decoders /\ b \in Nat
  <2>1. t \in Decoders
    BY DecodesEnds
  <2>2. b \in Nat
    BY DEF Codes
  <2>3. QED
    BY <2>1, <2>2
<1>2. Made(t, b, Decoded(t, b))
  BY <1>1, DecodedMake DEF Made
<1>3. Decodes(s, Append(q, b), more, checked, Decoded(t, b))
  BY <1>1, <1>2, DecodesByte DEF Gives, Made
<1>4. Decoded(t, b) \in Decoders
  BY <1>1, DecodedOK
<1>5. QED
  BY <1>2, <1>3, <1>4

AfterBreak(s, q, keys, checked, t, b) ==
  \E u \in Decoders : /\ Decodes(s, q, keys, checked, u)
                      /\ u.pause = 0 /\ ~u.up /\ ~u.extended
                      /\ u.modifiers = t.modifiers \ ModifierFor(t, b) /\ u.n = t.n

(* And over that of a key that is released.                                *)
LEMMA GoesOnBreak ==
  ASSUME NEW s, NEW t, NEW q \in Seq(Nat), NEW keys \in Seq(KeyRecord), NEW checked \in BOOLEAN,
         Decodes(s, q, keys, checked, t), NEW b \in Codes, t.pause = 0, t.up
  PROVE  AfterBreak(s, Append(q, b), keys, checked, t, b)
<1>1. t \in Decoders /\ b \in Nat
  <2>1. t \in Decoders
    BY DecodesEnds
  <2>2. b \in Nat
    BY DEF Codes
  <2>3. QED
    BY <2>1, <2>2
<1>2. /\ Decoded(t, b).pause = 0 /\ ~Decoded(t, b).up /\ ~Decoded(t, b).extended
      /\ Decoded(t, b).modifiers = t.modifiers \ ModifierFor(t, b)
      /\ Decoded(t, b).n = t.n /\ KeyFor(t, b) = "none"
  BY <1>1, DecodedBreak
<1>3. Decodes(s, Append(q, b), keys, checked, Decoded(t, b))
  BY <1>1, <1>2, DecodesByte
<1>4. Decoded(t, b) \in Decoders
  BY <1>1, DecodedOK
<1>5. QED
  BY <1>2, <1>3, <1>4 DEF AfterBreak

InPause(s, t, q, keys, checked, p, u) ==
  /\ Decodes(s, q, keys, checked, u) /\ q \in Seq(Nat) /\ u.pause = p
  /\ ~u.up /\ u.extended = t.extended /\ u.modifiers = t.modifiers /\ u.n = t.n
StillPause(s, t, q, keys, checked, p) ==
  \E u \in Decoders : InPause(s, t, q, keys, checked, p, u)

(* And over a byte of Pause that is not its last.                          *)
LEMMA GoesOnPause ==
  ASSUME NEW s, NEW t, NEW q, NEW keys \in Seq(KeyRecord), NEW checked \in BOOLEAN,
         NEW p \in 2 .. 7, StillPause(s, t, q, keys, checked, p), NEW b \in Nat
  PROVE  StillPause(s, t, Append(q, b), keys, checked, p - 1)
<1>1. PICK u \in Decoders : InPause(s, t, q, keys, checked, p, u)
  BY DEF StillPause
<1>2. /\ q \in Seq(Nat) /\ Append(q, b) \in Seq(Nat) /\ u.pause > 0 /\ u.pause # 1
      /\ Decodes(s, q, keys, checked, u)
  BY <1>1 DEF InPause
<1>3. /\ KeyFor(u, b) = "none" /\ Decoded(u, b).n = u.n
      /\ Decoded(u, b).pause = u.pause - 1 /\ Decoded(u, b).up = u.up
      /\ Decoded(u, b).extended = u.extended /\ Decoded(u, b).modifiers = u.modifiers
  BY <1>2, DecodedPause
<1>4. Decodes(s, Append(q, b), keys, checked, Decoded(u, b))
  BY <1>2, <1>3, DecodesByte
<1>5. Decoded(u, b) \in Decoders
  BY DecodedOK
<1>6. QED
  BY <1>1, <1>2, <1>3, <1>4, <1>5 DEF InPause, StillPause

(* Four bytes at the end of a queue. *)
LEMMA FourBytes ==
  ASSUME NEW q \in Seq(Nat), NEW a \in Nat, NEW b \in Nat, NEW c \in Nat, NEW d \in Nat
  PROVE  /\ q \o <<a, b, c, d>> = Append(Append(Append(Append(q, a), b), c), d)
         /\ q \o <<a, b, c, d>> \in Seq(Nat)
BY SMTT(30)

(* The eight bytes of Pause. *)
LEMMA PauseBytes ==
  ASSUME NEW q \in Seq(Nat)
  PROVE  q \o Pause = Append(Append(Append(Append(Append(Append(Append(Append(
                        q, E1), 20), 119), E1), F0), 20), F0), 119)
<1> DEFINE one == <<E1, 20, 119, E1>>
           two == <<F0, 20, F0, 119>>
           half == q \o one
<1>1. E1 \in Nat /\ F0 \in Nat
  BY DEF E1, F0
<1>2. half = Append(Append(Append(Append(q, E1), 20), 119), E1) /\ half \in Seq(Nat)
  BY <1>1, FourBytes, ZenonT(40)
<1>3. Pause = one \o two
  BY <1>1 DEF Pause
<1>4. one \in Seq(Nat) /\ two \in Seq(Nat)
  BY <1>1
<1>5. q \o Pause = half \o two
  <2> HIDE DEF one, two
  <2>1. q \o (one \o two) = (q \o one) \o two
    BY <1>4, SMTT(30)
  <2>2. QED
    BY <1>3, <2>1
<1>6. ASSUME NEW h \in Seq(Nat)
      PROVE  h \o two = Append(Append(Append(Append(h, F0), 20), F0), 119)
  <2>1. h \o <<F0, 20, F0, 119>> = Append(Append(Append(Append(h, F0), 20), F0), 119)
    BY <1>1, SMTT(30)
  <2>2. QED
    BY <2>1
<1>7. half \o two = Append(Append(Append(Append(half, F0), 20), F0), 119)
  <2> HIDE DEF half, two
  <2>1. QED
    BY <1>2, <1>6
<1>8. QED
  BY <1>2, <1>5, <1>7

(* The last byte of Pause. *)
LastOfPause(t) == t.pause = 1
GivesPause(checked, t, keys, more) ==
  checked => t.n = Len(keys) /\ more = Append(keys, Typed("pause", "shift" \in t.modifiers))

Paused(t, u) == /\ u.pause = 0 /\ u.up = t.up /\ u.extended = t.extended
                /\ u.modifiers = t.modifiers /\ u.n = t.n + 1

AfterPause(s, q, keys, checked, t) ==
  \E u \in Decoders : Decodes(s, q, keys, checked, u) /\ Paused(t, u)

(* And over Pause's last byte.                                             *)
LEMMA EndsPause ==
  ASSUME NEW s, NEW t, NEW q \in Seq(Nat), NEW keys \in Seq(KeyRecord), NEW checked \in BOOLEAN,
         NEW more \in Seq(KeyRecord),
         Decodes(s, q, keys, checked, t), NEW b \in Nat, LastOfPause(t),
         GivesPause(checked, t, keys, more)
  PROVE  AfterPause(s, Append(q, b), more, checked, t)
<1>1. t \in Decoders /\ t.pause > 0 /\ t.pause = 1
  <2>1. t \in Decoders
    BY DecodesEnds
  <2>2. QED
    BY <2>1 DEF LastOfPause
<1>2. /\ KeyFor(t, b) = "pause" /\ Decoded(t, b).n = t.n + 1
      /\ Decoded(t, b).pause = t.pause - 1 /\ Decoded(t, b).up = t.up
      /\ Decoded(t, b).extended = t.extended /\ Decoded(t, b).modifiers = t.modifiers
  BY <1>1, DecodedPause
<1>3. Decodes(s, Append(q, b), more, checked, Decoded(t, b))
  BY <1>1, <1>2, DecodesByte DEF GivesPause
<1>4. Decoded(t, b) \in Decoders
  BY <1>1, DecodedOK
<1>5. QED
  BY <1>1, <1>2, <1>3, <1>4 DEF Paused, AfterPause

(* The keys that are down, and what is checked from then on. *)
LEMMA PressChecks ==
  ASSUME KeyInv, NEW k \in Keys, Press(k)
  PROVE  \E t : Decodes(Present, queue, typed, ~overlap', t) /\ CaughtUp(t) /\ t \in Decoders
<1>1. PICK t : Decodes(Present, queue, typed, ~overlap, t) /\ CaughtUp(t)
  BY DEF KeyInv
<1>2. t \in Decoders
  BY <1>1, DecodesEnds DEF KeyInv
<1>3. CASE overlap' = overlap
  BY <1>1, <1>2, <1>3
<1>4. CASE overlap' # overlap
  <2>1. overlap' = TRUE
    BY <1>4 DEF Press, KeyInv
  <2>2. Decodes(Present, queue, typed, FALSE, t)
    BY <1>1, DecodesFreely
  <2>3. (~overlap') = FALSE
    BY <2>1
  <2>4. QED
    BY <1>1, <1>2, <2>2, <2>3
<1>5. QED
  BY <1>3, <1>4

(* What the code of a key pressed does to a decoder that has caught up. *)
LEMMA Pressed ==
  ASSUME KeyInv, NEW k \in Keys, Press(k)
  PROVE  \E u : Decodes(Present, queue', typed', ~overlap', u) /\ CaughtUp(u)'
<1>1. PICK t : Decodes(Present, queue, typed, ~overlap', t) /\ CaughtUp(t) /\ t \in Decoders
  BY PressChecks
<1> DEFINE checked == ~overlap'
           s == Present
<1>2. /\ queue \in Seq(Nat) /\ typed \in Seq(KeyRecord) /\ held \subseteq Keys /\ checked \in BOOLEAN
      /\ held' = (IF k = "pause" THEN held ELSE held \cup {k}) /\ queue' = queue \o Make(k)
      /\ typed' = IF k \in Modifiers THEN typed
                  ELSE Append(typed, Typed(k, held \cap Shifts # {}))
      /\ checked => ~overlap /\ ~Confuses(k)
      /\ overlap' \in BOOLEAN
  BY DEF KeyInv, Press, Confuses
<1>3. /\ t.pause = 0 /\ ~t.up /\ t.n \in Int /\ t.extended \in BOOLEAN
      /\ t.modifiers \subseteq {"shift", "ctrl", "win"}
  BY <1>1 DEF CaughtUp, Decoders
<1>4. Decodes(s, queue, typed, checked, t)
  BY <1>1
<1> DEFINE Down(u) ==
             /\ ~u.up /\ u.pause = 0
             /\ u.extended => held' \cap Extended # {}
             /\ "shift" \in u.modifiers => held' \cap Shifts # {}
             /\ "ctrl" \in u.modifiers => "rctrl" \in held'
             /\ "win" \in u.modifiers => "win" \in held'
             /\ checked => /\ u.n = Len(typed')
                           /\ held' \cap Shifts # {} => "shift" \in u.modifiers
                           /\ ~ Shifts \subseteq held'
<1>5. \A u : Down(u) => CaughtUp(u)'
  BY DEF CaughtUp
<1>6. /\ t.extended => held \cap Extended # {}
      /\ "shift" \in t.modifiers => held \cap Shifts # {}
      /\ "ctrl" \in t.modifiers => "rctrl" \in held
      /\ "win" \in t.modifiers => "win" \in held
      /\ checked => /\ t.n = Len(typed)
                    /\ held \cap Shifts # {} => "shift" \in t.modifiers
                    /\ ~ Shifts \subseteq held
  BY <1>1, <1>2 DEF CaughtUp
<1> HIDE DEF checked, s
<1>7. SUFFICES \E u : Decodes(s, queue', typed', checked, u) /\ Down(u)
  BY <1>5 DEF s, checked
<1>8. CASE k = "a"
  <2>1. /\ queue' = Append(queue, 28) /\ ModifierFor(t, 28) = {} /\ 28 \in Codes
        /\ t.modifiers \cup {} = t.modifiers
    BY <1>2, <1>8 DEF Make, Prefix, Extended, Code, ModifierFor, Codes
  <2>2. typed' = Append(typed, Typed("a", held \cap Shifts # {}))
    BY <1>2, <1>8 DEF Modifiers, Shifts
  <2>3. checked => ~t.extended /\ (("shift" \in t.modifiers) = (held \cap Shifts # {}))
    BY <1>2, <1>3, <1>6, <1>8 DEF Confuses, Extended, Shifts
  <2>4. typed' \in Seq(KeyRecord) /\ Len(typed') = Len(typed) + 1
    BY <1>2, <2>2, TypedOK
  <2>5. KeyFor(t, 28) = IF t.extended THEN "none" ELSE "a"
    BY <1>3 DEF KeyFor
  <2>6. (checked => KeyFor(t, 28) # "none") /\ Gives(checked, t, 28, typed, typed')
    BY <1>6, <2>1, <2>2, <2>3, <2>5 DEF Gives
  <2>7. PICK u \in Decoders :
           /\ Decodes(s, queue', typed', checked, u)
           /\ u.pause = 0 /\ ~u.up /\ u.extended = t.extended
           /\ u.modifiers = t.modifiers \cup ModifierFor(t, 28)
           /\ u.n = IF KeyFor(t, 28) = "none" THEN t.n ELSE t.n + 1
    <3>1. /\ queue \in Seq(Nat) /\ typed \in Seq(KeyRecord) /\ checked \in BOOLEAN
          /\ typed' \in Seq(KeyRecord) /\ Decodes(s, queue, typed, checked, t)
          /\ 28 \in Codes /\ t.pause = 0 /\ ~t.up
          /\ Gives(checked, t, 28, typed, typed')
      BY <1>2, <1>3, <1>4, <2>1, <2>4, <2>6
    <3>2. \E u \in Decoders : Decodes(s, Append(queue, 28), typed', checked, u) /\ Made(t, 28, u)
      BY <3>1, GoesOnMake
    <3>3. QED
      BY <3>2, <2>1 DEF Made
  <2>8. held' = held \cup {"a"} /\ "a" \notin Shifts
    BY <1>2, <1>8 DEF Shifts
  <2>9. Down(u)
    BY <1>2, <1>6, <2>1, <2>3, <2>4, <2>6, <2>7, <2>8
  <2>10. QED
    BY <2>7, <2>9
<1>9. CASE k \in Shifts
  <2> DEFINE b == Code[k]
  <2>1. b \in {18, 89} /\ queue' = Append(queue, b) /\ typed' = typed /\ b \in Codes
    BY <1>2, <1>9 DEF Make, Prefix, Extended, Code, Codes, Shifts, Modifiers
  <2> HIDE DEF b
  <2>2. KeyFor(t, b) = "none" /\ ModifierFor(t, b) = {"shift"} /\ Gives(checked, t, b, typed, typed')
    BY <1>3, <2>1 DEF KeyFor, ModifierFor, Gives
  <2>3. PICK u \in Decoders :
           /\ Decodes(s, queue', typed', checked, u)
           /\ u.pause = 0 /\ ~u.up /\ u.extended = t.extended
           /\ u.modifiers = t.modifiers \cup ModifierFor(t, b)
           /\ u.n = IF KeyFor(t, b) = "none" THEN t.n ELSE t.n + 1
    <3>1. /\ queue \in Seq(Nat) /\ typed \in Seq(KeyRecord) /\ checked \in BOOLEAN
          /\ typed' \in Seq(KeyRecord) /\ Decodes(s, queue, typed, checked, t)
          /\ b \in Codes /\ t.pause = 0 /\ ~t.up
          /\ Gives(checked, t, b, typed, typed')
      BY <1>2, <1>3, <1>4, <2>1, <2>2
    <3>2. \E u \in Decoders : Decodes(s, Append(queue, b), typed', checked, u) /\ Made(t, b, u)
      BY <3>1, GoesOnMake
    <3>3. QED
      BY <3>2, <2>1 DEF Made
  <2>4. held' = held \cup {k} /\ (checked => held \cap Shifts = {})
    BY <1>2, <1>9 DEF Shifts, Confuses
  <2>5. Down(u)
    BY <1>2, <1>6, <1>9, <2>1, <2>2, <2>3, <2>4 DEF Shifts
  <2>6. QED
    BY <2>3, <2>5
<1>10. CASE k \in Extended
  <2> DEFINE b == Code[k]
             q == Append(queue, E0)
  <2>1. /\ queue' = Append(q, b) /\ b \in {107, 20, 31} /\ b \in Codes
        /\ (b = 107 <=> k = "left") /\ (b = 20 <=> k = "rctrl")
    BY <1>2, <1>10, SMTT(30) DEF Make, Prefix, Extended, Code, Codes
  <2> HIDE DEF b
  <2>2. PICK v \in Decoders :
           /\ Decodes(s, q, typed, checked, v) /\ q \in Seq(Nat)
           /\ v.n = t.n /\ v.modifiers = t.modifiers /\ v.pause = 0
           /\ ~v.up /\ v.extended
    <3>1. E0 \in {E0, E1, F0} /\ E0 # E1 /\ E0 # F0
      BY DEF E0, E1, F0
    <3>2. QED
      BY <3>1, <1>2, <1>3, <1>4, GoesOnPrefix, SMTT(30)
  <2> HIDE DEF q
  <2>3. /\ KeyFor(v, b) = (IF k = "left" THEN "left" ELSE "none")
        /\ ModifierFor(v, b) = IF k = "left" THEN {} ELSE IF k = "rctrl" THEN {"ctrl"} ELSE {"win"}
    BY <2>1, <2>2, SMTT(30) DEF KeyFor, ModifierFor
  <2>4. /\ typed' = (IF k = "left" THEN Append(typed, Typed("left", FALSE)) ELSE typed)
        /\ Typed("left", "shift" \in v.modifiers \cup ModifierFor(v, b)) = Typed("left", FALSE)
    BY <1>2, <1>10 DEF Modifiers, Shifts, Typed, Extended
  <2>5. typed' \in Seq(KeyRecord) /\ Len(typed') = IF k = "left" THEN Len(typed) + 1 ELSE Len(typed)
    <3>1. CASE k = "left"
      BY <1>2, <2>4, <3>1, TypedOK
    <3>2. CASE k # "left"
      BY <1>2, <2>4, <3>2
    <3>3. QED
      BY <3>1, <3>2
  <2>6. Gives(checked, v, b, typed, typed')
    BY <1>6, <2>2, <2>3, <2>4 DEF Gives
  <2>7. PICK u \in Decoders :
           /\ Decodes(s, Append(q, b), typed', checked, u)
           /\ u.pause = 0 /\ ~u.up /\ u.extended = v.extended
           /\ u.modifiers = v.modifiers \cup ModifierFor(v, b)
           /\ u.n = IF KeyFor(v, b) = "none" THEN v.n ELSE v.n + 1
    <3>1. /\ q \in Seq(Nat) /\ typed \in Seq(KeyRecord) /\ checked \in BOOLEAN
          /\ typed' \in Seq(KeyRecord) /\ Decodes(s, q, typed, checked, v)
          /\ b \in Codes /\ v.pause = 0 /\ ~v.up
          /\ Gives(checked, v, b, typed, typed')
      BY <1>2, <2>1, <2>2, <2>5, <2>6
    <3>2. \E u \in Decoders : Decodes(s, Append(q, b), typed', checked, u) /\ Made(v, b, u)
      BY <3>1, GoesOnMake
    <3>3. QED
      BY <3>2, <2>1 DEF Made
  <2>8. held' = held \cup {k} /\ k \notin Shifts
    BY <1>2, <1>10 DEF Shifts, Extended
  <2>9. /\ "shift" \in u.modifiers <=> "shift" \in t.modifiers
        /\ "ctrl" \in u.modifiers => "ctrl" \in t.modifiers \/ k = "rctrl"
        /\ "win" \in u.modifiers => "win" \in t.modifiers \/ k = "win"
        /\ u.n = IF k = "left" THEN t.n + 1 ELSE t.n
    BY <1>10, <2>2, <2>3, <2>7 DEF Extended
  <2>10. Down(u)
    BY <1>2, <1>6, <1>10, <2>5, <2>7, <2>8, <2>9
  <2>11. QED
    BY <2>1, <2>7, <2>10
<1>11. CASE k = "pause"
  <2>1. typed' = Append(typed, Typed("pause", held \cap Shifts # {})) /\ held' = held
        /\ \A x, y : Typed("pause", x) = Typed("pause", y)
    BY <1>2, <1>11 DEF Modifiers, Shifts, Typed
  <2>2. typed' \in Seq(KeyRecord) /\ Len(typed') = Len(typed) + 1
    BY <1>2, <2>1, TypedOK
  <2> DEFINE q1 == Append(queue, E1)
             q2 == Append(q1, 20)
             q3 == Append(q2, 119)
             q4 == Append(q3, E1)
             q5 == Append(q4, F0)
             q6 == Append(q5, 20)
             q7 == Append(q6, F0)
  <2>3. E1 \in Nat /\ F0 \in Nat
    BY DEF E1, F0
  <2>4. queue' = Append(q7, 119)
    <3>1. queue' = queue \o Pause
      BY <1>2, <1>11 DEF Make
    <3>2. QED
      BY <1>2, <3>1, PauseBytes
  <2>5. StillPause(s, t, q1, typed, checked, 7)
    <3>1. E1 \in {E0, E1, F0} /\ E1 # E0 /\ E1 # F0
      BY DEF E0, E1, F0
    <3>2. \E u \in Decoders :
           /\ Decodes(s, q1, typed, checked, u) /\ q1 \in Seq(Nat)
           /\ u.n = t.n /\ u.modifiers = t.modifiers /\ u.pause = (IF E1 = E1 THEN 7 ELSE 0)
           /\ (u.up <=> E1 = F0) /\ (u.extended <=> (t.extended \/ E1 = E0))
      BY <1>2, <1>3, <1>4, <3>1, GoesOnPrefix
    <3>3. QED
      BY <1>3, <3>1, <3>2 DEF StillPause, InPause, Decoders
  <2> HIDE DEF q1, q2, q3, q4, q5, q6, q7
  <2>6. PICK v \in Decoders : InPause(s, t, q7, typed, checked, 1, v)
    <3>1. \A q, p, b : p \in 2 .. 7 /\ b \in Nat /\ StillPause(s, t, q, typed, checked, p)
                       => StillPause(s, t, Append(q, b), typed, checked, p - 1)
      BY <1>2, GoesOnPause
    <3>2. StillPause(s, t, q2, typed, checked, 7 - 1)
      BY <2>5, <3>1 DEF q2
    <3>3. StillPause(s, t, q3, typed, checked, 6 - 1)
      BY <3>2, <3>1 DEF q3
    <3>4. StillPause(s, t, q4, typed, checked, 5 - 1)
      BY <3>3, <3>1, <2>3 DEF q4
    <3>5. StillPause(s, t, q5, typed, checked, 4 - 1)
      BY <3>4, <3>1, <2>3 DEF q5
    <3>6. StillPause(s, t, q6, typed, checked, 3 - 1)
      BY <3>5, <3>1 DEF q6
    <3>7. StillPause(s, t, q7, typed, checked, 2 - 1)
      BY <3>6, <3>1, <2>3 DEF q7
    <3>8. QED
      BY <3>7 DEF StillPause
  <2>7. /\ Decodes(s, q7, typed, checked, v) /\ q7 \in Seq(Nat) /\ v.pause = 1
        /\ ~v.up /\ v.extended = t.extended /\ v.modifiers = t.modifiers /\ v.n = t.n
    BY <2>6 DEF InPause
  <2>8. PICK u \in Decoders :
           /\ Decodes(s, queue', typed', checked, u)
           /\ u.pause = 0 /\ u.up = v.up /\ u.extended = v.extended
           /\ u.modifiers = v.modifiers /\ u.n = v.n + 1
    <3>1. GivesPause(checked, v, typed, typed')
      BY <1>6, <2>1, <2>7 DEF GivesPause
    <3>2. \E u \in Decoders : Decodes(s, Append(q7, 119), typed', checked, u) /\ Paused(v, u)
      <4>1. /\ q7 \in Seq(Nat) /\ typed \in Seq(KeyRecord) /\ checked \in BOOLEAN
            /\ typed' \in Seq(KeyRecord) /\ Decodes(s, q7, typed, checked, v)
            /\ LastOfPause(v) /\ GivesPause(checked, v, typed, typed')
        BY <3>1, <1>2, <2>2, <2>7 DEF LastOfPause
      <4>2. AfterPause(s, Append(q7, 119), typed', checked, v)
        BY <4>1, EndsPause
      <4>3. QED
        BY <4>2 DEF AfterPause
    <3>3. QED
      BY <3>2, <2>4 DEF Paused
  <2>9. Down(u)
    BY <1>2, <1>6, <2>1, <2>2, <2>7, <2>8
  <2>10. QED
    BY <2>8, <2>9
<1>12. k = "a" \/ k \in Shifts \/ k \in Extended \/ k = "pause"
  BY DEF Keys, Shifts, Extended
<1>13. QED
  BY <1>8, <1>9, <1>10, <1>11, <1>12

(* What the code of a key let go does to it. *)
LEMMA Released ==
  ASSUME KeyInv, NEW k \in Keys, LetGo(k)
  PROVE  \E u : Decodes(Present, queue', typed', ~overlap', u) /\ CaughtUp(u)'
<1>1. PICK t : Decodes(Present, queue, typed, ~overlap, t) /\ CaughtUp(t)
  BY DEF KeyInv
<1> DEFINE checked == ~overlap
           s == Present
<1>2. /\ queue \in Seq(Nat) /\ typed \in Seq(KeyRecord) /\ held \subseteq Keys /\ checked \in BOOLEAN
      /\ k \in held /\ held' = held \ {k} /\ queue' = queue \o Break(k)
      /\ typed' = typed /\ overlap' = overlap
  BY DEF KeyInv, LetGo
<1>3. t \in Decoders
  BY <1>1, <1>2, DecodesEnds
<1>4. /\ t.pause = 0 /\ ~t.up /\ t.n \in Int /\ t.extended \in BOOLEAN
      /\ t.modifiers \subseteq {"shift", "ctrl", "win"}
  BY <1>1, <1>3 DEF CaughtUp, Decoders
<1>5. Decodes(s, queue, typed, checked, t)
  BY <1>1
<1> DEFINE Down(u) ==
             /\ ~u.up /\ u.pause = 0
             /\ u.extended => held' \cap Extended # {}
             /\ "shift" \in u.modifiers => held' \cap Shifts # {}
             /\ "ctrl" \in u.modifiers => "rctrl" \in held'
             /\ "win" \in u.modifiers => "win" \in held'
             /\ checked => /\ u.n = Len(typed)
                           /\ held' \cap Shifts # {} => "shift" \in u.modifiers
                           /\ ~ Shifts \subseteq held'
<1>6. \A u : Down(u) => CaughtUp(u)'
  BY <1>2 DEF CaughtUp
<1>7. /\ t.extended => held \cap Extended # {}
      /\ "shift" \in t.modifiers => held \cap Shifts # {}
      /\ "ctrl" \in t.modifiers => "rctrl" \in held
      /\ "win" \in t.modifiers => "win" \in held
      /\ checked => /\ t.n = Len(typed)
                    /\ held \cap Shifts # {} => "shift" \in t.modifiers
                    /\ ~ Shifts \subseteq held
  BY <1>1, <1>2 DEF CaughtUp
<1>8. SUFFICES \E u : Decodes(s, queue', typed, checked, u) /\ Down(u)
  BY <1>2, <1>6
<1> HIDE DEF checked, s
<1>9. CASE k = "pause"
  <2>1. queue' = queue
    BY <1>2, <1>9 DEF Break
  <2>2. held' \cap Extended = held \cap Extended /\ held' \cap Shifts = held \cap Shifts
        /\ ("rctrl" \in held => "rctrl" \in held') /\ ("win" \in held => "win" \in held')
        /\ held' \subseteq held
    BY <1>2, <1>9 DEF Extended, Shifts
  <2>3. Down(t)
    BY <1>4, <1>7, <2>2
  <2>4. QED
    BY <1>5, <2>1, <2>3
<1>10. CASE k # "pause"
  <2> DEFINE b == Code[k]
             q == IF k \in Extended THEN Append(queue, E0) ELSE queue
             qq == Append(q, F0)
  <2>1. /\ b \in Codes /\ queue' = Append(qq, b)
        /\ (k \in Shifts <=> b \in {18, 89}) /\ (k = "rctrl" <=> b = 20) /\ (k = "win" <=> b = 31)
    <3>1. E0 \in Nat /\ F0 \in Nat
      BY DEF E0, F0
    <3>2. b \in Codes /\ b \in Nat
          /\ (k \in Shifts <=> b \in {18, 89}) /\ (k = "rctrl" <=> b = 20) /\ (k = "win" <=> b = 31)
      BY <1>10 DEF Code, Codes, Keys, Shifts
    <3>3. Break(k) = Prefix(k) \o <<F0, b>>
      BY <1>10 DEF Break
    <3> HIDE DEF b
    <3>4. CASE k \in Extended
      <4>1. queue' = queue \o (<<E0>> \o <<F0, b>>)
        BY <1>2, <3>3, <3>4 DEF Prefix
      <4>2. queue \o (<<E0>> \o <<F0, b>>) = Append(Append(Append(queue, E0), F0), b)
        BY <1>2, <3>1, <3>2, SMTT(30)
      <4>3. QED
        BY <3>2, <3>4, <4>1, <4>2
    <3>5. CASE k \notin Extended
      <4>1. queue' = queue \o (<<>> \o <<F0, b>>)
        BY <1>2, <3>3, <3>5 DEF Prefix
      <4>2. queue \o (<<>> \o <<F0, b>>) = Append(Append(queue, F0), b)
        BY <1>2, <3>1, <3>2, SMTT(30)
      <4>3. QED
        BY <3>2, <3>5, <4>1, <4>2
    <3>6. QED
      BY <3>4, <3>5
  <2>2. PICK v \in Decoders :
           /\ Decodes(s, q, typed, checked, v) /\ q \in Seq(Nat)
           /\ v.n = t.n /\ v.modifiers = t.modifiers /\ v.pause = 0
           /\ ~v.up /\ (k = "win" => v.extended)
    <3>1. CASE k \in Extended
      <4>1. E0 \in {E0, E1, F0} /\ E0 # E1 /\ E0 # F0
        BY DEF E0, E1, F0
      <4>2. q = Append(queue, E0)
        BY <3>1
      <4> HIDE DEF q
      <4>3. \E u \in Decoders :
             /\ Decodes(s, Append(queue, E0), typed, checked, u) /\ Append(queue, E0) \in Seq(Nat)
             /\ u.n = t.n /\ u.modifiers = t.modifiers /\ u.pause = (IF E0 = E1 THEN 7 ELSE 0)
             /\ (u.up <=> E0 = F0) /\ (u.extended <=> (t.extended \/ E0 = E0))
        BY <4>1, <1>2, <1>4, <1>5, GoesOnPrefix
      <4>4. QED
        BY <4>1, <4>2, <4>3
    <3>2. CASE k \notin Extended
      BY <1>2, <1>3, <1>4, <1>5, <3>2 DEF Extended
    <3>3. QED
      BY <3>1, <3>2
  <2> HIDE DEF b, q
  <2>3. PICK w \in Decoders :
           /\ Decodes(s, qq, typed, checked, w) /\ qq \in Seq(Nat)
           /\ w.n = t.n /\ w.modifiers = t.modifiers /\ w.pause = 0
           /\ w.up /\ (k = "win" => w.extended)
    <3>1. F0 \in {E0, E1, F0} /\ F0 # E1 /\ F0 # E0
      BY DEF E0, E1, F0
    <3>2. \E u \in Decoders :
             /\ Decodes(s, Append(q, F0), typed, checked, u) /\ Append(q, F0) \in Seq(Nat)
             /\ u.n = v.n /\ u.modifiers = v.modifiers /\ u.pause = (IF F0 = E1 THEN 7 ELSE 0)
             /\ (u.up <=> F0 = F0) /\ (u.extended <=> (v.extended \/ F0 = E0))
      BY <3>1, <1>2, <2>2, GoesOnPrefix
    <3>3. QED
      BY <3>1, <3>2, <2>2
  <2> HIDE DEF qq
  <2>4. ModifierFor(w, b) = IF k \in Shifts THEN {"shift"} ELSE IF k = "rctrl" THEN {"ctrl"}
                            ELSE IF k = "win" THEN {"win"} ELSE {}
    BY <2>1, <2>3 DEF ModifierFor, Shifts
  <2>5. PICK u \in Decoders :
           /\ Decodes(s, Append(qq, b), typed, checked, u)
           /\ u.pause = 0 /\ ~u.up /\ ~u.extended
           /\ u.modifiers = w.modifiers \ ModifierFor(w, b) /\ u.n = w.n
    <3>1. /\ qq \in Seq(Nat) /\ typed \in Seq(KeyRecord) /\ checked \in BOOLEAN
          /\ Decodes(s, qq, typed, checked, w) /\ b \in Codes /\ w.pause = 0 /\ w.up
      BY <1>2, <2>1, <2>3
    <3>2. AfterBreak(s, Append(qq, b), typed, checked, w, b)
      BY <3>1, GoesOnBreak
    <3>3. QED
      BY <3>2 DEF AfterBreak
  <2>6. /\ ("shift" \in u.modifiers <=> "shift" \in t.modifiers /\ k \notin Shifts)
        /\ ("ctrl" \in u.modifiers <=> "ctrl" \in t.modifiers /\ k # "rctrl")
        /\ ("win" \in u.modifiers <=> "win" \in t.modifiers /\ k # "win")
        /\ u.n = t.n
    BY <2>3, <2>4, <2>5 DEF Shifts
  <2>7. /\ k \notin Shifts => held' \cap Shifts = held \cap Shifts
        /\ k \in Shifts /\ ~ Shifts \subseteq held => held' \cap Shifts = {}
        /\ ("rctrl" \in held /\ k # "rctrl" => "rctrl" \in held')
        /\ ("win" \in held /\ k # "win" => "win" \in held')
        /\ held' \subseteq held
    BY <1>2 DEF Shifts
  <2>8. Down(u)
    BY <1>7, <2>5, <2>6, <2>7
  <2>9. QED
    BY <2>1, <2>5, <2>8
<1>11. QED
  BY <1>9, <1>10


(* The device queues bytes. *)
LEMMA CodesAreBytes ==
  ASSUME NEW k \in Keys
  PROVE  Make(k) \in Seq(Nat) /\ Break(k) \in Seq(Nat)
<1>1. E0 \in Nat /\ E1 \in Nat /\ F0 \in Nat
  BY DEF E0, E1, F0
<1>2. k # "pause" => Code[k] \in Nat
  BY DEF Code, Keys
<1>3. Prefix(k) \in Seq(Nat)
  BY <1>1 DEF Prefix
<1>4. Make(k) \in Seq(Nat)
  <2>1. Pause \in Seq(Nat)
    BY <1>1 DEF Pause
  <2>2. k # "pause" => Append(Prefix(k), Code[k]) \in Seq(Nat)
    BY <1>2, <1>3
  <2>3. QED
    BY <2>1, <2>2 DEF Make
<1>5. Break(k) \in Seq(Nat)
  <2>1. k # "pause" => Prefix(k) \o <<F0, Code[k]>> \in Seq(Nat)
    BY <1>1, <1>2, <1>3
  <2>2. QED
    BY <2>1 DEF Break
<1>6. QED
  BY <1>4, <1>5

(* A poll decodes the byte it fetches as a run does. *)
LEMMA PollDecodes ==
  ASSUME KeyInv, KeyboardPoll
  PROVE  /\ Present' = Decoded(Present, Head(queue))
         /\ buffered' = KeyFor(Present, Head(queue))
         /\ modifiers' = Decoded(Present, Head(queue)).modifiers
         /\ KeyFor(Present, Head(queue)) # "none" => Decoded(Present, Head(queue)).n = 1
<1> DEFINE sc == Head(queue)
<1>1. /\ Present = Decoder(up, extended, pause, modifiers, 0) /\ buffered = "none"
      /\ Present.up = up /\ Present.extended = extended /\ Present.pause = pause
      /\ Present.modifiers = modifiers /\ Present.n = 0
  BY DEF KeyboardPoll, MayPoll, Present, Decoder
<1>2. Present \in Decoders
  BY DecodesEnds DEF KeyInv
<1>3. /\ pause \in Nat /\ up \in BOOLEAN /\ extended \in BOOLEAN
      /\ (pause = 0 => ~(Present.pause > 0)) /\ (Present.up <=> up)
      /\ ModifierFor(Present, sc) = ModifierOf(sc)
      /\ (pause = 0 /\ ~up => KeyFor(Present, sc) = KeyOf(sc))
  BY <1>1, <1>2 DEF Decoders, ModifierFor, ModifierOf, KeyFor, KeyOf
<1>4. Present' = Decoder(up', extended', pause', modifiers', IF buffered' = "none" THEN 0 ELSE 1)
  BY DEF Present, Decoder
<1>5. CASE DecodePause
  <2>1. /\ buffered' = (IF pause = 1 THEN "pause" ELSE "none") /\ pause > 0
        /\ pause' = pause - 1 /\ up' = up /\ extended' = extended /\ modifiers' = modifiers
    BY <1>5 DEF DecodePause
  <2>2. KeyFor(Present, sc) = buffered'
    BY <1>1, <2>1 DEF KeyFor
  <2>3. Decoded(Present, sc) = Decoder(up, extended, pause - 1, modifiers,
                                       IF pause = 1 THEN 0 + 1 ELSE 0)
    BY <1>1, <2>1 DEF Decoded
  <2>4. QED
    BY <1>4, <2>1, <2>2, <2>3 DEF Decoder
<1>6. CASE DecodePrefix(sc)
  <2>1. /\ buffered' = "none" /\ pause = 0 /\ sc \in {E0, E1} /\ up' = up /\ modifiers' = modifiers
        /\ extended' = (extended \/ sc = E0) /\ pause' = IF sc = E1 THEN 7 ELSE 0
    BY <1>6 DEF DecodePrefix
  <2>2. KeyFor(Present, sc) = "none"
    BY <1>1, <2>1 DEF KeyFor, E0, E1
  <2>3. Decoded(Present, sc) = Decoder(up, extended \/ sc = E0, IF sc = E1 THEN 7 ELSE 0,
                                       modifiers, 0)
    BY <1>1, <2>1 DEF Decoded
  <2>4. Present' = Decoded(Present, sc)
    BY <1>4, <2>1, <2>3
  <2>5. Decoded(Present, sc).modifiers = modifiers
    BY <2>3 DEF Decoder
  <2>6. QED
    BY <2>1, <2>2, <2>4, <2>5
<1>7. CASE DecodeMake(sc)
  <2>1. /\ buffered' = KeyOf(sc) /\ pause = 0 /\ sc \notin {E0, E1} /\ ~up /\ up' = (sc = F0)
        /\ modifiers' = modifiers \cup ModifierOf(sc) /\ extended' = extended /\ pause' = 0
    BY <1>7 DEF DecodeMake
  <2>2. KeyFor(Present, sc) = buffered'
    BY <1>3, <2>1
  <2>3. Decoded(Present, sc) = Decoder(sc = F0, extended, 0, modifiers \cup ModifierOf(sc),
                                       IF KeyFor(Present, sc) = "none" THEN 0 ELSE 0 + 1)
    BY <1>1, <1>3, <2>1 DEF Decoded
  <2>4. /\ Decoded(Present, sc).modifiers = modifiers \cup ModifierOf(sc)
        /\ Decoded(Present, sc).n = IF KeyFor(Present, sc) = "none" THEN 0 ELSE 0 + 1
    BY <2>3, DecoderIs
  <2>5. QED
    BY <1>4, <2>1, <2>2, <2>3, <2>4
<1>8. CASE DecodeBreak(sc)
  <2>1. /\ buffered' = "none" /\ pause = 0 /\ sc \notin {E0, E1} /\ up /\ up' = FALSE
        /\ modifiers' = modifiers \ ModifierOf(sc) /\ extended' = FALSE /\ pause' = 0
    BY <1>8 DEF DecodeBreak
  <2>2. KeyFor(Present, sc) = "none"
    BY <1>1, <1>3, <2>1 DEF KeyFor
  <2>3. Decoded(Present, sc) = Decoder(FALSE, FALSE, 0, modifiers \ ModifierOf(sc), 0)
    BY <1>1, <1>3, <2>1 DEF Decoded
  <2>4. Decoded(Present, sc).modifiers = modifiers \ ModifierOf(sc)
    BY <2>3 DEF Decoder
  <2>5. QED
    BY <1>4, <2>1, <2>2, <2>3, <2>4
<1>9. QED
  BY <1>5, <1>6, <1>7, <1>8 DEF KeyboardPoll

(* Initially no byte is under way and the decoder is at rest. *)
LEMMA KeyStarts == KeyboardInit => KeyInv
<1> SUFFICES ASSUME KeyboardInit PROVE KeyInv
  OBVIOUS
<1>1. /\ queue = <<>> /\ held = {} /\ typed = <<>> /\ overlap = FALSE
      /\ up = FALSE /\ extended = FALSE /\ pause = 0 /\ modifiers = {}
      /\ buffered = "none" /\ taking = <<>>
  BY DEF KeyboardInit
<1>2. Present = Decoder(FALSE, FALSE, 0, {}, 0)
  BY <1>1 DEF Present
<1>3. Present \in Decoders
  BY <1>2 DEF Decoder, Decoders
<1>4. Decodes(Present, queue, typed, ~overlap, Present)
  BY <1>1, <1>3, DecodesNothing
<1>5. CaughtUp(Present)
  BY <1>1, <1>2 DEF CaughtUp, Decoder, Shifts
<1>6. \E t : Decodes(Present, queue, typed, ~overlap, t) /\ CaughtUp(t)
  BY <1>4, <1>5
<1>7. queue \in Seq(Nat) /\ typed \in Seq(KeyRecord) /\ held \subseteq Keys /\ overlap \in BOOLEAN
      /\ buffered = "none" /\ taking = <<>>
  <2>1. <<>> \in Seq(Nat) /\ <<>> \in Seq(KeyRecord) /\ {} \subseteq Keys /\ FALSE \in BOOLEAN
    OBVIOUS
  <2>2. queue = <<>> /\ typed = <<>> /\ held = {} /\ overlap = FALSE
    BY <1>1
  <2>3. QED
    BY <1>1, <2>1, <2>2
<1>8. QED
  BY <1>6, <1>7 DEF KeyInv

(* A poll takes the run one byte on. *)
LEMMA PollKeeps ==
  ASSUME KeyInv, KeyboardPoll
  PROVE  KeyInv'
<1>1. /\ queue # <<>> /\ queue' = Tail(queue) /\ buffered = "none"
      /\ UNCHANGED <<held, presses, overlap, taking, typed>>
  BY DEF KeyboardPoll, MayPoll
<1>2. PICK t : Decodes(Present, queue, typed, ~overlap, t) /\ CaughtUp(t)
  BY DEF KeyInv
<1> DEFINE b == Head(queue)
           u == Decoded(Present, b)
<1>3. /\ Decodes(u, Tail(queue), typed, ~overlap, t)
      /\ ~overlap /\ KeyFor(Present, b) # "none" =>
           u.n \in 1 .. Len(typed) /\ typed[u.n] = Typed(KeyFor(Present, b), "shift" \in u.modifiers)
  BY <1>1, <1>2, DecodesNext DEF KeyInv
<1>4. /\ Present' = u /\ buffered' = KeyFor(Present, b) /\ modifiers' = u.modifiers
      /\ KeyFor(Present, b) # "none" => u.n = 1
  BY PollDecodes
<1> HIDE DEF u, b
<1>5. Decodes(Present', queue', typed', ~overlap', t)
  BY <1>1, <1>3, <1>4 DEF b, u
<1>6. CaughtUp(t)'
  BY <1>1, <1>2 DEF CaughtUp
<1>7. ~overlap' /\ buffered' # "none" =>
        typed' # <<>> /\ Head(typed') = Typed(buffered', "shift" \in modifiers')
  <2> SUFFICES ASSUME ~overlap', buffered' # "none"
               PROVE  typed' # <<>> /\ Head(typed') = Typed(buffered', "shift" \in modifiers')
    OBVIOUS
  <2>1. typed \in Seq(KeyRecord) /\ 1 \in 1 .. Len(typed)
        /\ typed[1] = Typed(buffered', "shift" \in modifiers')
    BY <1>1, <1>3, <1>4 DEF KeyInv
  <2>2. QED
    BY <1>1, <2>1
<1>8. queue' \in Seq(Nat) /\ typed' \in Seq(KeyRecord) /\ held' \subseteq Keys /\ overlap' \in BOOLEAN
      /\ buffered' \in {"none", "a", "left", "pause"} /\ taking' = <<>>
  BY <1>1, <1>4 DEF KeyInv, KeyFor
<1>9. QED
  BY <1>5, <1>6, <1>7, <1>8 DEF KeyInv

(* The key returned is the first of those typed, and the next is then first. *)
LEMMA ClearKeeps ==
  ASSUME KeyInv, GetKeyClear
  PROVE  KeyInv'
<1>1. /\ buffered # "none" /\ taking' = <<>> /\ buffered' = "none"
      /\ typed' = (IF typed = <<>> THEN <<>> ELSE Tail(typed))
      /\ UNCHANGED <<queue, held, presses, overlap, up, extended, pause, modifiers>>
  BY DEF GetKeyClear, KeyInv, deviceVars, decoderVars
<1>2. PICK t : Decodes(Present, queue, typed, ~overlap, t) /\ CaughtUp(t)
  BY DEF KeyInv
<1>3. /\ Present = Decoder(up, extended, pause, modifiers, 1)
      /\ Present' = Decoder(up, extended, pause, modifiers, 1 - 1)
  BY <1>1 DEF Present
<1>4. Present.n = 1 /\ Present' = Less(Present)
  BY <1>3, LessOf, DecoderIs
<1>5. Decodes(Less(Present), queue, IF typed = <<>> THEN <<>> ELSE Tail(typed), ~overlap, Less(t))
      /\ t \in Decoders
  BY <1>2, <1>4, DecodesLess DEF KeyInv
<1>6. Decodes(Present', queue', typed', ~overlap', Less(t))
  BY <1>1, <1>4, <1>5
<1>7. CaughtUp(Less(t))'
  <2>1. /\ Less(t).n = t.n - 1 /\ Less(t).modifiers = t.modifiers
        /\ Less(t).up = t.up /\ Less(t).extended = t.extended /\ Less(t).pause = t.pause
    BY <1>5, LessOK
  <2>2. ~overlap => typed # <<>> /\ typed \in Seq(KeyRecord)
    BY <1>1 DEF KeyInv
  <2>3. ~overlap => Len(typed') = Len(typed) - 1
    BY <1>1, <2>2
  <2>4. QED
    BY <1>1, <1>2, <2>1, <2>3 DEF CaughtUp
<1>8. typed' \in Seq(KeyRecord)
  BY <1>1 DEF KeyInv
<1>9. QED
  BY <1>1, <1>6, <1>7, <1>8 DEF KeyInv

(* Every step keeps it. *)
LEMMA KeyStep ==
  ASSUME KeyInv, [KeyboardNext]_keyboardVars
  PROVE  KeyInv'
<1>1. ASSUME NEW k \in Keys, Press(k) PROVE KeyInv'
  <2>1. \E u : Decodes(Present, queue', typed', ~overlap', u) /\ CaughtUp(u)'
    BY <1>1, Pressed
  <2>2. Present' = Present /\ UNCHANGED <<buffered, taking, modifiers>>
    BY <1>1 DEF Press, Present, decoderVars
  <2>3. queue' \in Seq(Nat) /\ held' \subseteq Keys /\ overlap' \in BOOLEAN
        /\ (~overlap' => ~overlap)
    BY <1>1, CodesAreBytes DEF Press, KeyInv, Confuses
  <2>4. /\ typed' \in Seq(KeyRecord)
        /\ typed \in Seq(KeyRecord) /\ typed # <<>> => typed' # <<>> /\ Head(typed') = Head(typed)
    <3>1. CASE k \in Modifiers
      BY <1>1, <3>1 DEF Press, KeyInv
    <3>2. CASE k \notin Modifiers
      <4>1. k \in {"a", "left", "pause"}
        BY <3>2 DEF Keys, Modifiers, Shifts
      <4>2. Typed(k, held \cap Shifts # {}) \in KeyRecord
        BY <4>1, TypedOK
      <4>3. typed' = Append(typed, Typed(k, held \cap Shifts # {})) /\ typed \in Seq(KeyRecord)
        BY <1>1, <3>2 DEF Press, KeyInv
      <4>4. QED
        BY <4>2, <4>3
    <3>3. QED
      BY <3>1, <3>2
  <2>5. QED
    BY <2>1, <2>2, <2>3, <2>4 DEF KeyInv
<1>2. ASSUME NEW k \in Keys, LetGo(k) PROVE KeyInv'
  <2>1. \E u : Decodes(Present, queue', typed', ~overlap', u) /\ CaughtUp(u)'
    BY <1>2, Released
  <2>2. Present' = Present /\ UNCHANGED <<buffered, taking, modifiers, typed, overlap>>
    BY <1>2 DEF LetGo, Present, decoderVars
  <2>3. queue' \in Seq(Nat) /\ held' \subseteq Keys
    BY <1>2, CodesAreBytes DEF LetGo, KeyInv
  <2>4. QED
    BY <2>1, <2>2, <2>3 DEF KeyInv
<1>3. CASE KeyboardPoll
  BY <1>3, PollKeeps
<1>4. CASE KeyboardGetKey
  <2>1. Present' = Present /\ UNCHANGED <<queue, held, presses, overlap, buffered, typed, modifiers>>
        /\ buffered # "none" /\ taking' = <<Typed(buffered, "shift" \in modifiers)>>
    BY <1>4 DEF KeyboardGetKey, Present, deviceVars, decoderVars
  <2>2. \A t : CaughtUp(t) => CaughtUp(t)'
    BY <2>1 DEF CaughtUp
  <2>3. QED
    BY <2>1, <2>2 DEF KeyInv
<1>5. CASE GetKeyClear
  BY <1>5, ClearKeeps
<1>6. CASE UNCHANGED keyboardVars
  <2>1. Present' = Present /\ UNCHANGED <<queue, held, overlap, buffered, typed, modifiers, taking>>
    BY <1>6 DEF keyboardVars, Present, deviceVars, decoderVars
  <2>2. \A t : CaughtUp(t) => CaughtUp(t)'
    BY <2>1 DEF CaughtUp
  <2>3. QED
    BY <2>1, <2>2 DEF KeyInv
<1>7. QED
  BY <1>1, <1>2, <1>3, <1>4, <1>5, <1>6 DEF KeyboardNext, KeyboardPollEmpty

(* What the run says of the keys when nothing is under way. *)
LEMMA KeyInvGives == KeyInv => KeysInOrder /\ DecoderRests
<1> SUFFICES ASSUME KeyInv PROVE KeysInOrder /\ DecoderRests
  OBVIOUS
<1>1. PICK t : Decodes(Present, queue, typed, ~overlap, t) /\ CaughtUp(t)
  BY DEF KeyInv
<1>2. t \in Decoders /\ typed \in Seq(KeyRecord)
  BY <1>1, DecodesEnds DEF KeyInv
<1>3. queue = <<>> => t = Present
  BY <1>1, DecodesNothing
<1>4. /\ Present.up = up /\ Present.extended = extended /\ Present.pause = pause
      /\ Present.modifiers = modifiers /\ Present.n = IF buffered = "none" THEN 0 ELSE 1
  BY DecoderIs DEF Present
<1>5. KeysInOrder
  <2>1. ASSUME ~overlap, taking # <<>> PROVE typed # <<>> /\ taking[1] = Head(typed)
    BY <2>1 DEF KeyInv
  <2>2. ASSUME ~overlap, queue = <<>>, buffered = "none" PROVE typed = <<>>
    <3>1. Len(typed) = 0
      BY <1>1, <1>3, <1>4, <2>2 DEF CaughtUp
    <3>2. QED
      BY <1>2, <3>1
  <2>3. QED
    BY <2>1, <2>2 DEF KeysInOrder
<1>6. DecoderRests
  <2>1. ASSUME held = {}, queue = <<>> PROVE modifiers = {} /\ ~up /\ ~extended /\ pause = 0
    <3>1. CaughtUp(Present) /\ Present \in Decoders
      BY <1>1, <1>2, <1>3, <2>1
    <3>2. modifiers \subseteq {"shift", "ctrl", "win"}
      BY <1>4, <3>1 DEF Decoders
    <3>3. QED
      BY <1>4, <2>1, <3>1, <3>2 DEF CaughtUp
  <2>2. QED
    BY <2>1 DEF DecoderRests
<1>7. QED
  BY <1>5, <1>6

(* Keys are returned once each, in order, by the shift they were typed     *)
(* with, however many are pressed and however late the program is.         *)
THEOREM KeysComeInOrder == KeyboardSpec => []KeysInOrder
<1>1. KeyboardInit => KeyInv
  BY KeyStarts
<1>2. KeyInv /\ [KeyboardNext]_keyboardVars => KeyInv'
  BY KeyStep
<1>3. KeyInv => KeysInOrder
  BY KeyInvGives
<1>4. QED
  BY <1>1, <1>2, <1>3, PTL DEF KeyboardSpec

(* Once all keys are released and read no modifier sticks and no prefix    *)
(* waits for the next key.                                                 *)
THEOREM DecoderComesToRest == KeyboardSpec => []DecoderRests
<1>1. KeyboardInit => KeyInv
  BY KeyStarts
<1>2. KeyInv /\ [KeyboardNext]_keyboardVars => KeyInv'
  BY KeyStep
<1>3. KeyInv => DecoderRests
  BY KeyInvGives
<1>4. QED
  BY <1>1, <1>2, <1>3, PTL DEF KeyboardSpec

-----------------------------------------------------------------------------
(***************************************************************************)
(* The song stream.  The invariant, in parts: the calls, the clock, the    *)
(* counts, the card's read, the ring, and the room left in it.             *)
(***************************************************************************)
Slots == 0 .. RingSize - 1
States == {"idle", "playing", "ending", "done", "failed"}
Opening == wcall.at \in {"open", "token", "opened"}
Starting == Opening /\ ~wcall.restart

OpenCalls == [at : {"open", "token", "opened"}, restart : BOOLEAN]
EnteredCalls == [at : {"entered"}, max : Int, w : Slots, k : Nat, off : BOOLEAN, n : Nat,
                 fresh : BOOLEAN]
SlotCalls == [at : {"slots", "last"}, max : Int, w : Slots, k : Nat, off : BOOLEAN, n : Nat,
              batch : Nat, fresh : BOOLEAN]
EndCalls == [at : {"end"}, then : {"failed", "idle", "ending"}]

StreamTypes ==
  /\ mixBuf \in [Slots -> Nat] /\ mixPos \in Slots /\ streamW \in Slots
  /\ wst \in [off : BOOLEAN, k : Nat, left : Nat, stored : 0 .. WordSize - 1]
  /\ wsong \in [state : States, from : 0 .. SongLength, stored : Nat, s16 : 0 .. WordSize - 1]
  /\ read \in [open : BOOLEAN, place : Int, left : Nat, wait : Nat]
  /\ lines \in 1 .. Field /\ frameDone \in BOOLEAN /\ lastPlayed \in Nat

(* What the program's place says of the song's state. *)
CallOK ==
  \/ wcall = NoCall
  \/ wcall \in OpenCalls /\ (wcall.restart => wsong.state = "playing")
                         /\ (~wcall.restart => wsong.state = "idle")
  \/ wcall \in [at : {"fill"}, max : Int] /\ wsong.state = "playing"
  \/ wcall \in EnteredCalls \cup SlotCalls /\ wsong.state = "playing"
  \/ wcall \in [at : {"song end"}, extra : {0}] /\ wsong.state = "playing"
  \/ wcall \in EndCalls /\ wsong.state \in {"idle", "playing"}
                        /\ (wcall.then = "ending" => wsong.state = "playing")

(* While the program clocks the card the frame does not: it is off, or at  *)
(* least the line under way is not yet the frame's.                        *)
ClockInv ==
  /\ Filling => /\ ~wst.off /\ lines >= FrameLines /\ (wcall.fresh => lines > FrameLines)
                /\ wcall.w = streamW
  /\ Opening \/ wcall.at = "end" \/ wsong.state # "playing" => wst.off

(* The samples of the song up to the last one stored. *)
Told == wsong.from + StoredSoFar

NowK == IF Filling THEN wcall.k ELSE wst.k
NowOff == IF Filling THEN wcall.off ELSE wst.off

(* The samples stored since the last poll: what is left to take is the rest *)
(* of the song, or what the word still counts.                             *)
Since == SincePoll + (IF Filling THEN wcall.n ELSE 0)
LeftIs(left, told, n) ==
  /\ n + left < WordSize
  /\ \/ left = SongLength - told
     \/ left < SongLength - told /\ n + left = WordSize - 1

CountInv ==
  /\ Busy => LeftIs(wst.left, Told, Since)
  /\ wsong.state = "ending" \/ wcall.at = "song end" \/ (wcall.at = "end" /\ wcall.then = "ending")
       => Told = SongLength
  /\ Opening /\ wcall.restart => wst.stored = wsong.s16
  /\ Starting => wsong.stored = 0 /\ lastPlayed = wsong.from /\ mixPos = streamW

(* Where the card's read is when its byte is a sample of the song. *)
ReadInv ==
  /\ ~NowOff => /\ read.open /\ read.left = NowK
                /\ wst.left > 0 => read.place = DataOffset + Told
  /\ NowOff /\ Filling => NowK = 0
  /\ wcall.at = "token" => read.open /\ read.place = DataOffset + Due - Skip
  /\ wcall.at = "opened" => /\ read.open /\ read.place = DataOffset + Due
                            /\ read.left = AfterToken - Skip

(* A ring read at p and stored to at w: the samples from the last one      *)
(* played to t, the last before w, and silence everywhere else.            *)
Ahead(p, s) == IF s >= p THEN s - p ELSE s - p + RingSize
Number(p, w, t, s) == t + 1 + Ahead(p, s) - Ahead(p, w)
RingIs(buf, p, w, last, t) ==
  /\ last <= t /\ t - last <= Ahead(p, w)
  /\ \A s \in Slots : buf[s] = IF Ahead(p, s) < Ahead(p, w) /\ Number(p, w, t, s) > last
                               THEN Number(p, w, t, s) ELSE Silence

RingInv ==
  /\ Busy => RingIs(mixBuf, mixPos, streamW, lastPlayed, Told)
  /\ Starting => RingIs(mixBuf, mixPos, streamW, lastPlayed, lastPlayed)
  /\ wsong.state = "done" => /\ lastPlayed = SongLength /\ mixPos = streamW
                             /\ mixBuf[streamW] = Silence

(* What may still come before the kernel plays: a batch, a last byte and   *)
(* the fill of the next field's poll; between two fields one fill more.    *)
One(is) == IF is THEN 1 ELSE 0
Top == FillMax + Batch + 1
ToFill == Opening \/ wcall.at = "fill" \/ Filling
RoomInv ==
  Busy => /\ Ahead(mixPos, streamW) + One(frameDone) + One(ToFill) <= Top + One(lines = Field)
          /\ wcall.at = "slots" =>
               Ahead(mixPos, streamW) + wcall.batch + One(frameDone) + 1 <= Top

(* The word counts all the frame and the fill may still store before the   *)
(* next poll.                                                              *)
LateInv ==
  /\ Busy /\ ~NowOff => Unpolled + (IF lines <= FrameLines THEN lines ELSE 0) < WordSize - 1
  /\ Filling => wcall.n + lines <= Ahead(mixPos, streamW) + Field

StreamInv == /\ StreamTypes /\ CallOK /\ ClockInv /\ CountInv /\ ReadInv /\ RingInv /\ RoomInv
             /\ LateInv

-----------------------------------------------------------------------------
(***************************************************************************)
(* The ring.                                                               *)
(***************************************************************************)
After(s) == IF s + 1 = RingSize THEN 0 ELSE s + 1

(* The constants are numbers, and the ring takes what the fill may add.    *)
LEMMA StreamConstants ==
  /\ RingSize \in Nat /\ RingSize > 0 /\ Margin \in Nat /\ FillMax \in Nat /\ Batch \in Nat
  /\ SongLength \in Nat /\ DataOffset \in Nat /\ SectSize \in Nat /\ SectSize > 0
  /\ BlankLines \in Nat /\ FrameLines \in Nat /\ WordSize \in Nat
  /\ FillMax + Batch + BlankLines + FrameLines + 2 < WordSize
  /\ Latency \in Nat /\ FillMax > 0 /\ Batch > 0 /\ Margin < FillMax + Batch
  /\ FillMax + Batch + 2 < RingSize /\ BlankLines > 3 /\ FrameLines > 1
  /\ Froms \subseteq 0 .. SongLength
BY WstAssumption

(* Remainders that a comparison gives. *)
LEMMA Remainders ==
  ASSUME NEW m \in Nat, NEW x \in Int, x >= 0 - m, x < 2 * m
  PROVE  x % m = IF x < 0 THEN x + m ELSE IF x < m THEN x ELSE x - m
OBVIOUS

(* The code's remainders.                                                  *)
LEMMA SlotIs ==
  ASSUME NEW s \in Slots, NEW p \in Slots
  PROVE  /\ Slot(s, 1) = After(s) /\ After(s) \in Slots /\ Slot(s, RingSize) = s
         /\ (s - p) % RingSize = Ahead(p, s) /\ Ahead(p, s) \in 0 .. RingSize - 1
<1>1. RingSize \in Nat /\ RingSize > 1
  BY StreamConstants
<1>2. s \in Int /\ p \in Int /\ s >= 0 /\ p >= 0 /\ s < RingSize /\ p < RingSize
  BY <1>1 DEF Slots
<1>3. Slot(s, 1) = After(s)
  <2>1. s + 1 \in Int /\ s + 1 >= 0 - RingSize /\ s + 1 < 2 * RingSize
    BY <1>1, <1>2
  <2>2. (s + 1) % RingSize = IF s + 1 < 0 THEN (s + 1) + RingSize
                             ELSE IF s + 1 < RingSize THEN s + 1 ELSE (s + 1) - RingSize
    BY <1>1, <2>1, Remainders
  <2>3. QED
    BY <1>1, <1>2, <2>2 DEF Slot, After
<1>4. After(s) \in Slots
  BY <1>1, <1>2 DEF After, Slots
<1>5. Slot(s, RingSize) = s
  <2>1. s + RingSize \in Int /\ s + RingSize >= 0 - RingSize /\ s + RingSize < 2 * RingSize
    BY <1>1, <1>2
  <2>2. (s + RingSize) % RingSize =
          IF s + RingSize < 0 THEN (s + RingSize) + RingSize
          ELSE IF s + RingSize < RingSize THEN s + RingSize ELSE (s + RingSize) - RingSize
    BY <1>1, <2>1, Remainders
  <2>3. QED
    BY <1>1, <1>2, <2>2 DEF Slot
<1>6. (s - p) % RingSize = Ahead(p, s) /\ Ahead(p, s) \in 0 .. RingSize - 1
  <2>1. s - p \in Int /\ s - p >= 0 - RingSize /\ s - p < 2 * RingSize
    BY <1>1, <1>2
  <2>2. (s - p) % RingSize = IF s - p < 0 THEN (s - p) + RingSize
                             ELSE IF s - p < RingSize THEN s - p ELSE (s - p) - RingSize
    BY <1>1, <2>1, Remainders
  <2>3. QED
    BY <1>1, <1>2, <2>2 DEF Ahead
<1>7. QED
  BY <1>3, <1>4, <1>5, <1>6

(* At W it is silent, and when nothing is unread everywhere.               *)
LEMMA RingSilentAt ==
  ASSUME NEW buf, NEW p \in Slots, NEW w \in Slots, NEW last \in Nat, NEW t \in Nat,
         RingIs(buf, p, w, last, t)
  PROVE  buf[w] = Silence
BY StreamConstants DEF RingIs, Ahead, Slots

(* A silent ring, W at most a margin ahead.                                *)
LEMMA RingSilent ==
  ASSUME NEW p \in Slots, NEW w \in Slots, NEW last \in Nat, NEW buf,
         \A s \in Slots : buf[s] = Silence
  PROVE  RingIs(buf, p, w, last, last)
<1>1. Ahead(p, w) >= 0 /\ Ahead(p, w) \in Int
  BY SlotIs
<1>2. \A s \in Slots : Ahead(p, s) \in Int
  BY SlotIs
<1>3. \A s \in Slots : Ahead(p, s) < Ahead(p, w) => ~(Number(p, w, last, s) > last)
  BY <1>1, <1>2 DEF Number
<1>4. QED
  BY <1>1, <1>3 DEF RingIs

(* The kernel plays the next sample, or silence if there is none.          *)
LEMMA RingPlays ==
  ASSUME NEW buf \in [Slots -> Nat], NEW p \in Slots, NEW w \in Slots, NEW last \in Nat,
         NEW t \in Nat, RingIs(buf, p, w, last, t), p # w
  PROVE  /\ RingIs([buf EXCEPT ![p] = Silence], After(p), w,
                   IF buf[p] = Silence THEN last ELSE buf[p], t)
         /\ Ahead(After(p), w) = Ahead(p, w) - 1
<1> DEFINE q == After(p)
           b == [buf EXCEPT ![p] = Silence]
           l == IF buf[p] = Silence THEN last ELSE buf[p]
<1>1. RingSize \in Nat /\ RingSize > 1
  BY StreamConstants
<1>2. /\ q \in Slots /\ Ahead(p, w) > 0 /\ Ahead(p, p) = 0 /\ Ahead(q, w) = Ahead(p, w) - 1
      /\ Ahead(p, w) < RingSize /\ Ahead(q, p) = RingSize - 1
  BY <1>1 DEF Ahead, After, Slots
<1>3. \A s \in Slots : s # p => Ahead(q, s) = Ahead(p, s) - 1
  BY <1>1 DEF Ahead, After, Slots
<1>4. \A s \in Slots : b[s] = IF s = p THEN Silence ELSE buf[s]
  OBVIOUS
<1>5. buf[p] = IF t + 1 - Ahead(p, w) > last THEN t + 1 - Ahead(p, w) ELSE Silence
  <2>1. t + 1 + 0 - Ahead(p, w) = t + 1 - Ahead(p, w)
    BY <1>1, <1>2, SlotIs
  <2>2. buf[p] = IF Ahead(p, p) < Ahead(p, w) /\ Number(p, w, t, p) > last
                 THEN Number(p, w, t, p) ELSE Silence
    BY DEF RingIs
  <2>3. QED
    BY <1>2, <2>1, <2>2 DEF Number
<1>6. \A s \in Slots : Ahead(p, s) \in 0 .. RingSize - 1
  BY SlotIs
<1>7. /\ \A s \in Slots : buf[s] = IF Ahead(p, s) < Ahead(p, w) /\ t + 1 + Ahead(p, s) - Ahead(p, w) > last
                               THEN t + 1 + Ahead(p, s) - Ahead(p, w) ELSE Silence
      /\ last <= t /\ t - last <= Ahead(p, w)
  BY DEF RingIs, Number
<1> HIDE DEF q, b
<1>8. /\ l <= t /\ t - l <= Ahead(q, w) /\ l \in Nat
      /\ (l = last \/ (l = last + 1 /\ l = t + 1 - Ahead(p, w)))
      /\ (l = last => ~(t + 1 - Ahead(p, w) > last))
  BY <1>1, <1>2, <1>5, <1>6, <1>7 DEF Silence
<1> HIDE DEF l
<1>9. ASSUME NEW s \in Slots
      PROVE  b[s] = IF Ahead(q, s) < Ahead(q, w) /\ t + 1 + Ahead(q, s) - Ahead(q, w) > l
                    THEN t + 1 + Ahead(q, s) - Ahead(q, w) ELSE Silence
  <2>1. CASE s = p
    <3>1. Ahead(q, p) = RingSize - 1 /\ Ahead(q, w) < RingSize - 1 /\ b[p] = Silence
      BY <1>1, <1>2, <1>4, <1>6
    <3>2. QED
      BY <1>1, <1>2, <1>6, <2>1, <3>1
  <2>2. CASE s # p
    <3>1. /\ Ahead(q, s) = Ahead(p, s) - 1 /\ b[s] = buf[s]
          /\ Ahead(p, s) \in Int /\ Ahead(p, s) >= 0 /\ Ahead(p, w) \in Int
      BY <1>3, <1>4, <1>6, <2>2
    <3>2. Ahead(p, s) # 0
      BY <1>1, <2>2 DEF Ahead, Slots
    <3>3. buf[s] = IF Ahead(p, s) < Ahead(p, w) /\ t + 1 + Ahead(p, s) - Ahead(p, w) > last
                   THEN t + 1 + Ahead(p, s) - Ahead(p, w) ELSE Silence
      BY <1>7
    <3>4. QED
      BY <1>2, <1>8, <3>1, <3>2, <3>3
  <2>3. QED
    BY <2>1, <2>2
<1>10. RingIs(b, q, w, l, t)
  BY <1>8, <1>9 DEF RingIs, Number
<1>11. QED
  BY <1>2, <1>10 DEF b, l, q

(* A sample more is stored.                                                *)
LEMMA RingStores ==
  ASSUME NEW buf \in [Slots -> Nat], NEW p \in Slots, NEW w \in Slots, NEW last \in Nat,
         NEW t \in Nat, RingIs(buf, p, w, last, t), Ahead(p, w) < RingSize - 1
  PROVE  /\ RingIs([buf EXCEPT ![w] = t + 1], p, After(w), last, t + 1)
         /\ Ahead(p, After(w)) = Ahead(p, w) + 1
<1> DEFINE x == After(w)
           b == [buf EXCEPT ![w] = t + 1]
<1>1. RingSize \in Nat /\ RingSize > 1
  BY StreamConstants
<1>2. x \in Slots /\ Ahead(p, x) = Ahead(p, w) + 1
  BY <1>1 DEF Ahead, After, Slots
<1>3. \A s \in Slots : Ahead(p, s) \in 0 .. RingSize - 1 /\ (Ahead(p, s) = Ahead(p, w) => s = w)
  BY <1>1 DEF Ahead, Slots
<1>4. \A s \in Slots : b[s] = IF s = w THEN t + 1 ELSE buf[s]
  OBVIOUS
<1>5. /\ \A s \in Slots : buf[s] = IF Ahead(p, s) < Ahead(p, w) /\ t + 1 + Ahead(p, s) - Ahead(p, w) > last
                               THEN t + 1 + Ahead(p, s) - Ahead(p, w) ELSE Silence
      /\ last <= t /\ t - last <= Ahead(p, w)
  BY DEF RingIs, Number
<1> HIDE DEF x, b
<1>6. ASSUME NEW s \in Slots
      PROVE  b[s] = IF Ahead(p, s) < Ahead(p, x) /\ (t + 1) + 1 + Ahead(p, s) - Ahead(p, x) > last
                    THEN (t + 1) + 1 + Ahead(p, s) - Ahead(p, x) ELSE Silence
  <2>1. CASE s = w
    BY <1>2, <1>3, <1>4, <1>5, <2>1
  <2>2. CASE s # w
    BY <1>2, <1>3, <1>4, <1>5, <2>2
  <2>3. QED
    BY <2>1, <2>2
<1>7. last <= t + 1 /\ (t + 1) - last <= Ahead(p, x)
  BY <1>2, <1>3, <1>5
<1>8. RingIs(b, p, x, last, t + 1)
  BY <1>6, <1>7 DEF RingIs, Number
<1>9. QED
  BY <1>2, <1>8 DEF b, x

(* Silence at W changes nothing.                                           *)
LEMMA RingKept ==
  ASSUME NEW buf \in [Slots -> Nat], NEW p \in Slots, NEW w \in Slots, NEW last \in Nat,
         NEW t \in Nat, RingIs(buf, p, w, last, t)
  PROVE  [buf EXCEPT ![w] = Silence] = buf
BY RingSilentAt

-----------------------------------------------------------------------------
(***************************************************************************)
(* What the invariant says at a glance.                                    *)
(***************************************************************************)
(* The counts are words: their difference is taken as the code takes it.   *)
LEMMA WordCount ==
  ASSUME NEW a \in 0 .. WordSize - 1, NEW b \in 0 .. WordSize - 1
  PROVE  /\ (a - b) % WordSize \in 0 .. WordSize - 1 /\ (a - a) % WordSize = 0
         /\ \A n \in Nat : ((a - b) % WordSize) + n < WordSize =>
              /\ (a + n) % WordSize \in 0 .. WordSize - 1
              /\ (((a + n) % WordSize) - b) % WordSize = ((a - b) % WordSize) + n
<1>1. WordSize \in Nat /\ WordSize > 0
  BY StreamConstants
<1>2. a - b \in Int /\ a - b >= 0 - WordSize /\ a - b < 2 * WordSize
  BY <1>1
<1>3. (a - b) % WordSize = IF a - b < 0 THEN (a - b) + WordSize
                           ELSE IF a - b < WordSize THEN a - b ELSE (a - b) - WordSize
  BY <1>1, <1>2, Remainders
<1>4. (a - a) % WordSize = 0
  <2>1. a - a \in Int /\ a - a >= 0 - WordSize /\ a - a < 2 * WordSize /\ a - a = 0
    BY <1>1
  <2>2. (a - a) % WordSize = IF a - a < 0 THEN (a - a) + WordSize
                             ELSE IF a - a < WordSize THEN a - a ELSE (a - a) - WordSize
    BY <1>1, <2>1, Remainders
  <2>3. QED
    BY <1>1, <2>1, <2>2
<1>5. ASSUME NEW n \in Nat, ((a - b) % WordSize) + n < WordSize
      PROVE  /\ (a + n) % WordSize \in 0 .. WordSize - 1
             /\ (((a + n) % WordSize) - b) % WordSize = ((a - b) % WordSize) + n
  <2> DEFINE c == (a + n) % WordSize
  <2>1. n < WordSize
    BY <1>1, <1>3, <1>5
  <2>2. a + n \in Int /\ a + n >= 0 - WordSize /\ a + n < 2 * WordSize
    BY <1>1, <2>1
  <2>3. c = IF a + n < 0 THEN (a + n) + WordSize
            ELSE IF a + n < WordSize THEN a + n ELSE (a + n) - WordSize
    BY <1>1, <2>2, Remainders
  <2> HIDE DEF c
  <2>4. c \in 0 .. WordSize - 1
    BY <1>1, <2>1, <2>3
  <2>5. c - b \in Int /\ c - b >= 0 - WordSize /\ c - b < 2 * WordSize
    BY <1>1, <2>4
  <2>6. (c - b) % WordSize = IF c - b < 0 THEN (c - b) + WordSize
                             ELSE IF c - b < WordSize THEN c - b ELSE (c - b) - WordSize
    BY <1>1, <2>5, Remainders
  <2>7. (c - b) % WordSize = ((a - b) % WordSize) + n
    BY <1>1, <1>3, <1>5, <2>1, <2>3, <2>4, <2>6
  <2>8. QED
    BY <2>4, <2>7 DEF c
<1>6. (a - b) % WordSize \in 0 .. WordSize - 1
  BY <1>1, <1>3
<1>7. QED
  BY <1>4, <1>5, <1>6

(* The program's place tells its call.                                     *)
LEMMA CallIs ==
  ASSUME CallOK
  PROVE  /\ wcall.at \in {"none", "open", "token", "opened", "fill", "entered", "slots", "last",
                          "song end", "end"}
         /\ Opening => wcall \in OpenCalls /\ (wcall.restart => wsong.state = "playing")
                                           /\ (~wcall.restart => wsong.state = "idle")
         /\ wcall.at = "fill" => wcall \in [at : {"fill"}, max : Int] /\ wsong.state = "playing"
         /\ wcall.at = "entered" => wcall \in EnteredCalls /\ wsong.state = "playing"
         /\ wcall.at \in {"slots", "last"} => wcall \in SlotCalls /\ wsong.state = "playing"
         /\ Filling => wsong.state = "playing"
         /\ wcall.at = "song end" => wcall.extra = 0 /\ wsong.state = "playing"
         /\ wcall.at = "end" => /\ wcall \in EndCalls /\ wsong.state \in {"idle", "playing"}
                                /\ (wcall.then = "ending" => wsong.state = "playing")
<1>1. CASE wcall = NoCall
  BY <1>1 DEF NoCall, Opening, Filling
<1>2. CASE wcall \in OpenCalls /\ (wcall.restart => wsong.state = "playing")
                               /\ (~wcall.restart => wsong.state = "idle")
  BY <1>2 DEF OpenCalls, Opening, Filling
<1>3. CASE wcall \in [at : {"fill"}, max : Int] /\ wsong.state = "playing"
  BY <1>3 DEF Opening, Filling
<1>4. CASE wcall \in EnteredCalls \cup SlotCalls /\ wsong.state = "playing"
  BY <1>4 DEF EnteredCalls, SlotCalls, Opening, Filling
<1>5. CASE wcall \in [at : {"song end"}, extra : {0}] /\ wsong.state = "playing"
  BY <1>5 DEF Opening, Filling
<1>6. CASE wcall \in EndCalls /\ wsong.state \in {"idle", "playing"}
                              /\ (wcall.then = "ending" => wsong.state = "playing")
  BY <1>6 DEF EndCalls, Opening, Filling
<1>7. QED
  BY <1>1, <1>2, <1>3, <1>4, <1>5, <1>6 DEF CallOK

(* The count of the samples is a number, and of a busy song one of its.    *)
LEMMA ToldIs ==
  ASSUME StreamInv
  PROVE  /\ SincePoll \in 0 .. WordSize - 1 /\ Since \in Nat /\ Told \in Nat
         /\ (Filling => wcall.n \in Nat)
         /\ Told = wsong.from + (wsong.stored + Since)
         /\ Busy => LeftIs(wst.left, Told, Since) /\ wst.left <= SongLength - Told
<1>1. /\ wst.stored \in 0 .. WordSize - 1 /\ wsong.s16 \in 0 .. WordSize - 1
      /\ wsong.from \in Nat /\ wsong.stored \in Nat /\ wst.left \in Nat
  BY StreamConstants DEF StreamInv, StreamTypes
<1>2. SincePoll \in 0 .. WordSize - 1 /\ SincePoll \in Nat
  BY <1>1, WordCount, StreamConstants DEF SincePoll
<1>3. Filling => wcall.n \in Nat
  <2>1. Filling => wcall \in EnteredCalls \/ wcall \in SlotCalls
    BY CallIs DEF StreamInv, Filling
  <2>2. QED
    BY <2>1 DEF EnteredCalls, SlotCalls
<1>4. (IF Filling THEN wcall.n ELSE 0) \in Nat
  BY <1>3
<1>5. Since \in Nat /\ Told = wsong.from + (wsong.stored + Since)
  <2>1. Told = wsong.from + (wsong.stored + SincePoll + (IF Filling THEN wcall.n ELSE 0))
    BY DEF Told, StoredSoFar
  <2> HIDE DEF SincePoll
  <2>2. QED
    BY <1>1, <1>2, <1>4, <2>1 DEF Since
<1>6. Busy => LeftIs(wst.left, Told, Since)
  BY DEF StreamInv, CountInv
<1>7. Busy => wst.left <= SongLength - Told
  BY <1>1, <1>5, <1>6, StreamConstants DEF LeftIs
<1>8. QED
  BY <1>1, <1>2, <1>3, <1>5, <1>6, <1>7, StreamConstants

(* A sample stored is one less to take.                                    *)
LEMMA LeftGoesOn ==
  ASSUME NEW left \in Nat, NEW told \in Nat, NEW n \in Nat, NEW d \in 0 .. 1,
         LeftIs(left, told, n), left - d \in Nat
  PROVE  LeftIs(left - d, told + d, n + d)
BY StreamConstants DEF LeftIs

(* What the frame or the fill may still store before a poll is a number.   *)
LEMMA UnpolledIs ==
  ASSUME StreamInv
  PROVE  /\ FillRoom \in Nat /\ FillRoom = FillMax + Batch + 1 + BlankLines
         /\ wcall.at = "fill" \/ Filling => Unpolled = SincePoll + FillRoom
         /\ ~(wcall.at = "fill" \/ Filling) => Unpolled = SincePoll
         /\ SincePoll \in Nat /\ Unpolled \in Nat
<1>1. FillRoom \in Nat
  BY StreamConstants DEF FillRoom
<1>2. SincePoll \in Nat
  BY ToldIs, StreamConstants
<1> HIDE DEF SincePoll
<1>3. QED
  BY <1>1, <1>2 DEF Unpolled, FillRoom

(* A line plays: the ring goes on by what it played.                       *)
LEMMA LinePlays ==
  ASSUME StreamInv, Plays
  PROVE  /\ LeftOver \in [Slots -> Nat] /\ mixPos' \in Slots /\ lastPlayed' \in Nat
         /\ Busy => /\ RingIs(LeftOver, mixPos', streamW, lastPlayed', Told)
                    /\ Ahead(mixPos', streamW) =
                         IF Holds THEN 0 ELSE Ahead(mixPos, streamW) - 1
         /\ Starting \/ wsong.state = "done" =>
              mixPos' = mixPos /\ lastPlayed' = lastPlayed /\ LeftOver = mixBuf
<1>1. /\ mixBuf \in [Slots -> Nat] /\ mixPos \in Slots /\ streamW \in Slots /\ lastPlayed \in Nat
      /\ Told \in Nat
  BY ToldIs DEF StreamInv, StreamTypes
<1>2. CASE Holds
  <2>1. mixPos' = mixPos /\ LeftOver = mixBuf /\ mixPos = streamW
    BY <1>2 DEF Plays, Holds, LeftOver
  <2>2. Busy \/ Starting \/ wsong.state = "done" => mixBuf[mixPos] = Silence
    <3>1. Busy => mixBuf[streamW] = Silence
      BY <1>1, RingSilentAt DEF StreamInv, RingInv
    <3>2. Starting => mixBuf[streamW] = Silence
      BY <1>1, RingSilentAt DEF StreamInv, RingInv
    <3>3. QED
      BY <2>1, <3>1, <3>2 DEF StreamInv, RingInv
  <2>3. Busy \/ Starting \/ wsong.state = "done" => lastPlayed' = lastPlayed
    BY <2>2 DEF Plays
  <2>4. lastPlayed' \in Nat /\ Ahead(mixPos, mixPos) = 0
    BY <1>1, StreamConstants DEF Plays, Ahead, Slots
  <2>5. QED
    BY <1>1, <1>2, <2>1, <2>3, <2>4 DEF StreamInv, RingInv
<1>3. CASE ~Holds
  <2>1. /\ mixPos' = After(mixPos) /\ mixPos # streamW
        /\ LeftOver = [mixBuf EXCEPT ![mixPos] = Silence]
        /\ lastPlayed' = IF mixBuf[mixPos] = Silence THEN lastPlayed ELSE mixBuf[mixPos]
    BY <1>1, <1>3, SlotIs DEF Plays, Holds, LeftOver
  <2>2. LeftOver \in [Slots -> Nat] /\ mixPos' \in Slots /\ lastPlayed' \in Nat
    BY <1>1, <2>1, SlotIs DEF Silence
  <2>3. Busy => /\ RingIs([mixBuf EXCEPT ![mixPos] = Silence], After(mixPos), streamW,
                          IF mixBuf[mixPos] = Silence THEN lastPlayed ELSE mixBuf[mixPos], Told)
                /\ Ahead(After(mixPos), streamW) = Ahead(mixPos, streamW) - 1
    BY <1>1, <2>1, RingPlays DEF StreamInv, RingInv
  <2>4. ~Starting /\ wsong.state # "done"
    BY <2>1 DEF StreamInv, CountInv, RingInv
  <2>5. QED
    BY <1>3, <2>1, <2>2, <2>3, <2>4
<1>4. QED
  BY <1>2, <1>3

(***************************************************************************)
(* A byte of the card's read.                                              *)
(***************************************************************************)
Reads == [open : BOOLEAN, place : Int, left : Nat, wait : Nat]

(* What an open read answers: its sector's bytes, then 0xFF, then a token, *)
(* or the error that ends it.                                              *)
LEMMA AnswersAre ==
  ASSUME read \in Reads, read.open, NEW a \in Answers
  PROVE  /\ a.sample = Sample(read.place) /\ a.read \in Reads
         /\ read.left > 0 => /\ a.is = "byte" /\ a.read.open /\ a.read.left = read.left - 1
                             /\ a.read.place = IF read.left > CRC THEN Beyond(read.place + 1)
                                               ELSE read.place
         /\ read.left = 0 =>
              \/ a.is = "ff" /\ a.read.open /\ a.read.left = 0 /\ a.read.place = read.place
              \/ /\ a.is = "token" /\ a.read.open /\ a.read.left = AfterToken
                 /\ a.read.place = read.place
              \/ a.is = "bad"
<1>1. CRC \in Nat /\ CRC = 2 /\ AfterToken \in Nat /\ Latency \in Nat /\ DataOffset + SongLength \in Int
  BY StreamConstants DEF CRC, AfterToken
<1>2. /\ read.left \in Nat /\ read.wait \in Nat /\ read.place \in Int /\ Beyond(read.place + 1) \in Int
  BY <1>1 DEF Reads, Beyond
<1>3. CASE read.left > CRC
  <2>1. a = Answer("byte", [read EXCEPT !.left = @ - 1, !.place = Beyond(@ + 1)])
    BY <1>3 DEF Answers
  <2> DEFINE x == Beyond(read.place + 1)
             r == [read EXCEPT !.left = @ - 1, !.place = x]
  <2>2. x \in Int
    BY <1>2
  <2>3. a = Answer("byte", r)
    BY <2>1
  <2> HIDE DEF x
  <2>4. r \in Reads /\ r.open /\ r.left = read.left - 1 /\ r.place = x
    <3>1. read.left - 1 \in Nat
      BY <1>1, <1>2, <1>3
    <3> DEFINE first == [read EXCEPT !.left = read.left - 1]
    <3>2. first \in Reads /\ first.left = read.left - 1 /\ first.open = read.open
      BY <3>1 DEF Reads
    <3>3. r = [first EXCEPT !.place = x]
      BY <3>1 DEF Reads
    <3> HIDE DEF first
    <3>4. [first EXCEPT !.place = x] \in Reads /\ [first EXCEPT !.place = x].left = first.left
          /\ [first EXCEPT !.place = x].open = first.open /\ [first EXCEPT !.place = x].place = x
      BY <2>2, <3>2 DEF Reads
    <3> HIDE DEF r
    <3>5. QED
      BY <3>2, <3>3, <3>4
  <2> HIDE DEF r
  <2>5. a.sample = Sample(read.place) /\ a.read = r /\ a.is = "byte"
    BY <2>3 DEF Answer
  <2>6. QED
    BY <1>1, <1>2, <1>3, <2>4, <2>5 DEF x
<1>4. CASE ~(read.left > CRC) /\ read.left > 1
  <2> DEFINE r == [read EXCEPT !.left = @ - 1]
  <2>1. a = Answer("byte", r)
    BY <1>4 DEF Answers
  <2>2. r \in Reads /\ r.open /\ r.left = read.left - 1 /\ r.place = read.place
    BY <1>1, <1>2, <1>4 DEF Reads
  <2> HIDE DEF r
  <2>3. a.sample = Sample(read.place) /\ a.read = r /\ a.is = "byte"
    BY <2>1 DEF Answer
  <2>4. QED
    BY <1>1, <1>2, <1>4, <2>2, <2>3
<1>5. CASE ~(read.left > CRC) /\ ~(read.left > 1) /\ read.left = 1
  <2>1. PICK n \in 0 .. Latency : a = Answer("byte", [read EXCEPT !.left = 0, !.wait = n])
    BY <1>5 DEF Answers
  <2> DEFINE r == [read EXCEPT !.left = 0, !.wait = n]
  <2>2. n \in Nat
    BY <1>1
  <2>3. r \in Reads /\ r.open /\ r.left = 0 /\ r.place = read.place
    BY <1>2, <2>2 DEF Reads
  <2> HIDE DEF r
  <2>4. a.sample = Sample(read.place) /\ a.read = r /\ a.is = "byte"
    BY <2>1 DEF Answer, r
  <2>5. QED
    BY <1>1, <1>2, <1>5, <2>3, <2>4
<1>6. CASE ~(read.left > CRC) /\ ~(read.left > 1) /\ read.left # 1 /\ read.wait > 0
  <2> DEFINE r == [read EXCEPT !.wait = @ - 1]
  <2>1. a = Answer("ff", r)
    BY <1>6 DEF Answers
  <2>2. r \in Reads /\ r.open /\ r.left = read.left /\ r.place = read.place
    BY <1>2, <1>6 DEF Reads
  <2> HIDE DEF r
  <2>3. a.sample = Sample(read.place) /\ a.read = r /\ a.is = "ff"
    BY <2>1 DEF Answer
  <2>4. read.left = 0
    BY <1>1, <1>2, <1>6
  <2>5. QED
    BY <2>2, <2>3, <2>4
<1>7. CASE ~(read.left > CRC) /\ ~(read.left > 1) /\ read.left # 1 /\ ~(read.wait > 0)
  <2>1. \/ a = Answer("token", [read EXCEPT !.left = AfterToken])
        \/ a = [Answer("bad", Closed(read)) EXCEPT !.bad = 1]
    BY <1>7 DEF Answers
  <2>2. CASE a = Answer("token", [read EXCEPT !.left = AfterToken])
    BY <1>1, <1>2, <1>7, <2>2 DEF Answer, Reads
  <2>3. CASE a = [Answer("bad", Closed(read)) EXCEPT !.bad = 1]
    <3>1. Closed(read) \in Reads
      BY DEF Closed, Reads
    <3>2. a.is = "bad" /\ a.read = Closed(read) /\ a.sample = Sample(read.place)
      BY <2>3 DEF Answer
    <3>3. QED
      BY <1>1, <1>2, <1>7, <3>1, <3>2
  <2>4. QED
    BY <2>1, <2>2, <2>3
<1>8. QED
  BY <1>3, <1>4, <1>5, <1>6, <1>7

(* The framing state machine takes the next sample of the song, and then   *)
(* is where the read is.                                                   *)
Gets(k, left) == k > CRC /\ left > 0
Framing(buf, w, left, k, n) ==
  [buf |-> buf, w |-> w, left |-> left, k |-> k, off |-> FALSE, n |-> n]
InStep(k, left, told) ==
  /\ read.open /\ read.left = k
  /\ left > 0 => read.place = DataOffset + told
  /\ left <= SongLength - told

TakenAt(m, r, buf, w, left, k, n, told) ==
  /\ m.buf = [buf EXCEPT ![w] = IF Gets(k, left) THEN told + 1 ELSE Silence]
  /\ m.w = (IF Gets(k, left) THEN After(w) ELSE w)
  /\ m.left = (IF Gets(k, left) THEN left - 1 ELSE left) /\ m.left \in Nat
  /\ m.n = (IF Gets(k, left) THEN n + 1 ELSE n)
  /\ m.k \in Nat /\ m.off \in BOOLEAN /\ r \in Reads
  /\ ~m.off => /\ r.open /\ r.left = m.k
               /\ m.left > 0 =>
                    r.place = DataOffset + (IF Gets(k, left) THEN told + 1 ELSE told)
  /\ m.off => m.k = 0

(* What a byte of an open read does.                                       *)
LEMMA TakenOn ==
  ASSUME read \in Reads, NEW k \in Nat, NEW left \in Nat, NEW told \in Nat,
         InStep(k, left, told), NEW a \in Answers, NEW buf, NEW w \in Slots, NEW n \in Nat,
         NEW m, m = Taken(Framing(buf, w, left, k, n), a)
  PROVE  TakenAt(m, a.read, buf, w, left, k, n, told)
<1>1. /\ CRC = 2 /\ AfterToken \in Nat /\ SongLength \in Nat /\ DataOffset \in Nat
  BY StreamConstants DEF CRC, AfterToken
<1>2. /\ read.open /\ read.left = k /\ left <= SongLength - told
      /\ left > 0 => read.place = DataOffset + told
  BY DEF InStep
<1>3. /\ a.sample = Sample(read.place) /\ a.read \in Reads
      /\ k > 0 => /\ a.is = "byte" /\ a.read.open /\ a.read.left = k - 1
                  /\ a.read.place = IF k > CRC THEN Beyond(read.place + 1) ELSE read.place
      /\ k = 0 => \/ a.is = "ff" /\ a.read.open /\ a.read.left = 0 /\ a.read.place = read.place
                  \/ /\ a.is = "token" /\ a.read.open /\ a.read.left = AfterToken
                     /\ a.read.place = read.place
                  \/ a.is = "bad"
  BY <1>2, AnswersAre
<1>4. left > 0 => /\ a.sample = told + 1
                  /\ Beyond(read.place + 1) = DataOffset + (told + 1)
  BY <1>1, <1>2, <1>3 DEF Sample, Beyond
<1>5. /\ m.buf = [buf EXCEPT ![w] = IF Gets(k, left) THEN a.sample ELSE Silence]
      /\ m.w = (IF Gets(k, left) THEN Slot(w, 1) ELSE w)
      /\ m.left = (IF Gets(k, left) THEN left - 1 ELSE left)
      /\ m.k = (IF k > 0 THEN k - 1 ELSE IF a.is = "token" THEN AfterToken ELSE 0)
      /\ m.off = (FALSE \/ (k = 0 /\ a.is \notin {"token", "ff"}))
      /\ m.n = (IF Gets(k, left) THEN n + 1 ELSE n)
  BY DEF Taken, Framing, Gets
<1>6. Gets(k, left) => left > 0 /\ k > CRC
  BY DEF Gets
<1>7. m.buf = [buf EXCEPT ![w] = IF Gets(k, left) THEN told + 1 ELSE Silence]
  BY <1>4, <1>5, <1>6
<1>8. m.w = IF Gets(k, left) THEN After(w) ELSE w
  BY <1>5, SlotIs
<1>9. m.left \in Nat /\ m.k \in Nat /\ m.off \in BOOLEAN
  BY <1>1, <1>5, <1>6
<1>10. m.off <=> (k = 0 /\ a.is \notin {"token", "ff"})
  BY <1>5
<1>11. ~m.off => a.read.open /\ a.read.left = m.k
  <2>1. CASE k > 0
    BY <1>3, <1>5, <2>1
  <2>2. CASE k = 0
    <3>1. ~m.off => a.is = "token" \/ a.is = "ff"
      BY <1>10, <2>2
    <3>2. m.k = IF a.is = "token" THEN AfterToken ELSE 0
      BY <1>5, <2>2
    <3>3. QED
      BY <1>3, <2>2, <3>1, <3>2
  <2>3. QED
    BY <2>1, <2>2
<1>12. m.off => m.k = 0
  BY <1>5, <1>10
<1>13. ASSUME ~m.off, m.left > 0
       PROVE  a.read.place = DataOffset + (IF Gets(k, left) THEN told + 1 ELSE told)
  <2>1. left > 0
    BY <1>5, <1>6, <1>13
  <2>2. Gets(k, left) <=> k > CRC
    BY <2>1 DEF Gets
  <2>3. CASE k > CRC
    BY <1>1, <1>3, <1>4, <2>1, <2>2, <2>3
  <2>4. CASE ~(k > CRC)
    <3>1. a.read.place = read.place
      <4>1. CASE k > 0
        BY <1>3, <2>4, <4>1
      <4>2. CASE k = 0
        BY <1>3, <1>10, <1>13, <4>2
      <4>3. QED
        BY <4>1, <4>2
    <3>2. QED
      BY <1>2, <2>1, <2>2, <2>4, <3>1
  <2>5. QED
    BY <2>3, <2>4
<1>14. QED
  BY <1>3, <1>5, <1>7, <1>8, <1>9, <1>11, <1>12, <1>13 DEF TakenAt

(* Once the read has stopped 0xFF is taken: silence, and no more.          *)
Idle(buf, w, left, n, r) ==
  Taken([buf |-> buf, w |-> w, left |-> left, k |-> 0, off |-> TRUE, n |-> n], Answer("ff", r))

IdleAt(m, buf, w, left, n) ==
  /\ m.buf = [buf EXCEPT ![w] = Silence] /\ m.w = w /\ m.left = left /\ m.n = n
  /\ m.k = 0 /\ m.off

(* What a byte read as 0xFF does.                                          *)
LEMMA TakenOff ==
  ASSUME NEW buf, NEW w, NEW left, NEW n, NEW r, NEW m,
         m = Idle(buf, w, left, n, r)
  PROVE  IdleAt(m, buf, w, left, n)
<1>1. ~(0 > CRC) /\ ~(0 > 0)
  BY DEF CRC
<1>2. m.buf = [buf EXCEPT ![w] = Silence] /\ m.w = w /\ m.left = left /\ m.n = n
  BY <1>1 DEF Taken, Idle
<1>3. m.k = 0
  BY <1>1 DEF Taken, Idle, Answer
<1>4. m.off
  BY DEF Taken, Idle
<1>5. QED
  BY <1>2, <1>3, <1>4 DEF IdleAt

(* A byte read stores d samples, none or one.                              *)
InStepAt(r, k, left, told) ==
  r.open /\ r.left = k /\ (left > 0 => r.place = DataOffset + told)
Stored(m, r, p, w, left, n, last, told, d) ==
  /\ m.buf \in [Slots -> Nat] /\ m.w \in Slots /\ m.left \in Nat /\ m.k \in Nat
  /\ m.off \in BOOLEAN /\ r \in Reads
  /\ RingIs(m.buf, p, m.w, last, told + d) /\ Ahead(p, m.w) = Ahead(p, w) + d
  /\ m.left = left - d /\ m.n = n + d
  /\ (m.off => m.k = 0) /\ (~m.off => InStepAt(r, m.k, m.left, told + d))

(* So does a byte of an open read, where the ring has room for a sample.   *)
LEMMA ByteOn ==
  ASSUME read \in Reads, NEW k \in Nat, NEW left \in Nat, NEW told \in Nat,
         InStep(k, left, told), NEW a \in Answers, NEW buf \in [Slots -> Nat],
         NEW p \in Slots, NEW w \in Slots, NEW last \in Nat, NEW n \in Nat,
         RingIs(buf, p, w, last, told), Ahead(p, w) < RingSize - 1,
         NEW m, m = Taken(Framing(buf, w, left, k, n), a)
  PROVE  \E d \in 0 .. 1 : Stored(m, a.read, p, w, left, n, last, told, d)
<1>1. TakenAt(m, a.read, buf, w, left, k, n, told)
  BY TakenOn
<1>2. After(w) \in Slots /\ Ahead(p, w) \in Int
  BY SlotIs
<1>3. CASE Gets(k, left)
  <2>1. /\ RingIs([buf EXCEPT ![w] = told + 1], p, After(w), last, told + 1)
        /\ Ahead(p, After(w)) = Ahead(p, w) + 1
    BY RingStores
  <2>2. m.buf = [buf EXCEPT ![w] = told + 1] /\ m.w = After(w) /\ m.left = left - 1
        /\ m.n = n + 1
    BY <1>1, <1>3 DEF TakenAt
  <2>3. m.buf \in [Slots -> Nat]
    BY <2>2
  <2>4. ~m.off => InStepAt(a.read, m.k, m.left, told + 1)
    BY <1>1, <1>3 DEF InStepAt, TakenAt
  <2>5. Stored(m, a.read, p, w, left, n, last, told, 1)
    BY <1>1, <1>2, <2>1, <2>2, <2>3, <2>4 DEF Stored, TakenAt
  <2>6. QED
    BY <2>5
<1>4. CASE ~Gets(k, left)
  <2>1. m.buf = buf /\ m.w = w /\ m.left = left /\ m.n = n
    BY <1>1, <1>4, RingKept DEF TakenAt
  <2>2. told + 0 = told /\ left - 0 = left /\ n + 0 = n /\ Ahead(p, w) + 0 = Ahead(p, w)
    BY <1>2
  <2>3. ~m.off => InStepAt(a.read, m.k, m.left, told)
    BY <1>1, <1>4 DEF InStepAt, TakenAt
  <2>4. Stored(m, a.read, p, w, left, n, last, told, 0)
    BY <1>1, <2>1, <2>2, <2>3 DEF Stored, TakenAt
  <2>5. QED
    BY <2>4
<1>5. QED
  BY <1>3, <1>4

(* A byte read as 0xFF stores none.                                        *)
LEMMA ByteOff ==
  ASSUME read \in Reads, NEW left \in Nat, NEW told \in Nat, NEW buf \in [Slots -> Nat],
         NEW p \in Slots, NEW w \in Slots, NEW last \in Nat, NEW n \in Nat,
         RingIs(buf, p, w, last, told), NEW m,
         m = Idle(buf, w, left, n, read)
  PROVE  Stored(m, read, p, w, left, n, last, told, 0)
<1>1. IdleAt(m, buf, w, left, n)
  BY TakenOff
<1>2. m.off \in BOOLEAN
  BY DEF Taken, Idle
<1>3. m.buf = buf
  BY <1>1, RingKept DEF IdleAt
<1>4. Ahead(p, w) \in Int
  BY StreamConstants DEF Ahead, Slots
<1>5. told + 0 = told /\ left - 0 = left /\ n + 0 = n /\ Ahead(p, w) + 0 = Ahead(p, w)
  BY <1>4
<1>6. QED
  BY <1>1, <1>2, <1>3, <1>5 DEF Stored, IdleAt

-----------------------------------------------------------------------------
(***************************************************************************)
(* The steps, one after the other.                                         *)
(***************************************************************************)
(* What the invariant's parts say of types.                                *)
LEMMA StreamTyped ==
  ASSUME StreamInv
  PROVE  /\ mixBuf \in [Slots -> Nat] /\ mixPos \in Slots /\ streamW \in Slots
         /\ lastPlayed \in Nat /\ Told \in Nat /\ read \in Reads
         /\ wst.off \in BOOLEAN /\ wst.k \in Nat /\ wst.left \in Nat
         /\ wsong.from \in Nat /\ wsong.stored \in Nat /\ wsong.state \in States
         /\ lines \in Int /\ lines >= 1 /\ lines <= Field /\ Field = BlankLines + FrameLines
         /\ Ahead(mixPos, streamW) \in 0 .. RingSize - 1 /\ Top = FillMax + Batch + 1
         /\ One(TRUE) = 1 /\ One(FALSE) = 0 /\ frameDone \in BOOLEAN
<1>1. Ahead(mixPos, streamW) \in 0 .. RingSize - 1
  BY SlotIs DEF StreamInv, StreamTypes
<1>2. Told \in Nat
  BY ToldIs
<1>3. lines \in Int /\ lines >= 1 /\ lines <= Field /\ Field = BlankLines + FrameLines
  BY StreamConstants DEF StreamInv, StreamTypes, Field
<1>4. QED
  BY <1>1, <1>2, <1>3 DEF StreamInv, StreamTypes, Reads, Top, One

(* A step within a line that stores no more than it may keeps what the    *)
(* word counts.                                                            *)
LEMMA LateKept ==
  ASSUME StreamInv, lines' = lines,
         Busy' /\ ~NowOff' => Busy /\ ~NowOff /\ Unpolled' \in Nat /\ Unpolled' <= Unpolled,
         Filling' => wcall'.n + lines <= Ahead(mixPos, streamW)' + Field
  PROVE  LateInv'
<1>1. Filling' => wcall'.n + lines' <= Ahead(mixPos, streamW)' + Field'
  BY DEF Field
<1>2. ASSUME Busy', ~NowOff'
      PROVE  Unpolled' + (IF lines' <= FrameLines THEN lines' ELSE 0) < WordSize - 1
  <2>1. Unpolled + (IF lines <= FrameLines THEN lines ELSE 0) < WordSize - 1
    BY <1>2 DEF StreamInv, LateInv
  <2>2. Unpolled \in Nat /\ Unpolled' \in Nat /\ Unpolled' <= Unpolled
    BY <1>2, UnpolledIs
  <2> HIDE DEF Unpolled
  <2>3. QED
    BY <2>1, <2>2, StreamTyped, StreamConstants
<1>3. QED
  BY <1>1, <1>2 DEF LateInv

(* A line of the blank.                                                    *)
LEMMA BlankLineKeeps ==
  ASSUME StreamInv, BlankLine
  PROVE  StreamInv'
<1>1. /\ lines > FrameLines /\ Plays /\ mixBuf' = LeftOver /\ lines' = lines - 1
      /\ wcall' = IF Filling THEN [wcall EXCEPT !.fresh = FALSE] ELSE wcall
      /\ streamW' = streamW /\ wst' = wst /\ wsong' = wsong /\ read' = read
      /\ frameDone' = frameDone /\ (lines = FrameLines + 1 => PollsInTime)
  BY DEF BlankLine
<1>2. /\ LeftOver \in [Slots -> Nat] /\ mixPos' \in Slots /\ lastPlayed' \in Nat
      /\ Busy => /\ RingIs(LeftOver, mixPos', streamW, lastPlayed', Told)
                 /\ Ahead(mixPos', streamW) = IF Holds THEN 0 ELSE Ahead(mixPos, streamW) - 1
      /\ Starting \/ wsong.state = "done" =>
           mixPos' = mixPos /\ lastPlayed' = lastPlayed /\ LeftOver = mixBuf
  BY <1>1, LinePlays
<1>3. /\ Filling => \/ /\ wcall \in EnteredCalls /\ wcall' \in EnteredCalls /\ wcall.at = "entered"
                       /\ wcall'.at = "entered"
                    \/ /\ wcall \in SlotCalls /\ wcall' \in SlotCalls
                       /\ wcall.at \in {"slots", "last"}
                       /\ wcall'.at = wcall.at /\ wcall'.batch = wcall.batch
      /\ Filling => /\ wcall'.w = wcall.w /\ wcall'.k = wcall.k /\ wcall'.off = wcall.off
                    /\ wcall'.n = wcall.n /\ ~wcall'.fresh
  <2>1. Filling => (wcall.at = "entered" /\ wcall \in EnteredCalls)
                   \/ (wcall.at \in {"slots", "last"} /\ wcall \in SlotCalls)
    BY CallIs DEF StreamInv, Filling
  <2>2. ASSUME wcall.at = "entered" /\ wcall \in EnteredCalls
        PROVE  /\ [wcall EXCEPT !.fresh = FALSE] \in EnteredCalls
               /\ [wcall EXCEPT !.fresh = FALSE].at = "entered"
               /\ [wcall EXCEPT !.fresh = FALSE].w = wcall.w
               /\ [wcall EXCEPT !.fresh = FALSE].k = wcall.k
               /\ [wcall EXCEPT !.fresh = FALSE].off = wcall.off
               /\ [wcall EXCEPT !.fresh = FALSE].n = wcall.n
               /\ ~[wcall EXCEPT !.fresh = FALSE].fresh
    BY <2>2 DEF EnteredCalls
  <2>3. ASSUME wcall.at \in {"slots", "last"} /\ wcall \in SlotCalls
        PROVE  /\ [wcall EXCEPT !.fresh = FALSE] \in SlotCalls
               /\ [wcall EXCEPT !.fresh = FALSE].at = wcall.at
               /\ [wcall EXCEPT !.fresh = FALSE].batch = wcall.batch
               /\ [wcall EXCEPT !.fresh = FALSE].w = wcall.w
               /\ [wcall EXCEPT !.fresh = FALSE].k = wcall.k
               /\ [wcall EXCEPT !.fresh = FALSE].off = wcall.off
               /\ [wcall EXCEPT !.fresh = FALSE].n = wcall.n
               /\ ~[wcall EXCEPT !.fresh = FALSE].fresh
    BY <2>3 DEF SlotCalls
  <2>4. CASE Filling
    BY <1>1, <2>1, <2>2, <2>3, <2>4
  <2>5. QED
    BY <2>4
<1>4. wcall'.at = wcall.at /\ (~Filling => wcall' = wcall)
  <2>1. Filling => wcall'.at = wcall.at
    BY <1>3
  <2>2. QED
    BY <1>1, <2>1
<1>5. (Filling' <=> Filling) /\ (Opening' <=> Opening) /\ (Starting' <=> Starting)
  <2>1. (Filling' <=> Filling) /\ (Opening' <=> Opening)
    BY <1>4 DEF Filling, Opening
  <2>2. Opening => ~Filling
    BY DEF Opening, Filling
  <2>3. QED
    BY <1>4, <2>1, <2>2 DEF Starting
<1>6. Told' = Told /\ Since' = Since /\ NowK' = NowK /\ (NowOff' <=> NowOff)
  BY <1>1, <1>3, <1>5 DEF Told, Since, StoredSoFar, SincePoll, NowK, NowOff
<1>7. StreamTypes'
  <2>1. lines' \in 1 .. Field /\ Field' = Field
    BY <1>1, StreamTyped, StreamConstants DEF Field
  <2>2. mixBuf' \in [Slots -> Nat] /\ mixPos' \in Slots /\ lastPlayed' \in Nat
    BY <1>1, <1>2
  <2>3. QED
    BY <1>1, <2>1, <2>2 DEF StreamInv, StreamTypes, Slots
<1>8. CallOK'
  <2>1. CASE Filling
    <3>1. wcall' \in EnteredCalls \cup SlotCalls /\ wsong.state = "playing"
      BY <1>3, <2>1, CallIs DEF StreamInv
    <3>2. QED
      BY <1>1, <3>1 DEF CallOK
  <2>2. CASE ~Filling
    BY <1>1, <1>4, <2>2 DEF StreamInv, CallOK
  <2>3. QED
    BY <2>1, <2>2
<1>9. ClockInv'
  <2>1. Filling => ~wst.off /\ wcall.w = streamW
    BY DEF StreamInv, ClockInv
  <2>2. Filling' => /\ ~wst'.off /\ lines' >= FrameLines /\ ~wcall'.fresh /\ wcall'.w = streamW'
    BY <1>1, <1>3, <1>5, <2>1, StreamTyped, StreamConstants
  <2>3. Opening' \/ wcall'.at = "end" \/ wsong'.state # "playing" => wst'.off
    BY <1>1, <1>4, <1>5 DEF StreamInv, ClockInv
  <2>4. QED
    BY <2>2, <2>3 DEF ClockInv
<1>10. CountInv'
  <2>1. (Busy => LeftIs(wst.left, Told, Since))'
    BY <1>1, <1>6 DEF StreamInv, CountInv, Busy, LeftIs
  <2>2. (wsong.state = "ending" \/ wcall.at = "song end" \/ (wcall.at = "end" /\ wcall.then = "ending")
           => Told = SongLength)'
    BY <1>1, <1>4, <1>6 DEF StreamInv, CountInv, Filling
  <2>3. (Opening /\ wcall.restart => wst.stored = wsong.s16)'
    BY <1>1, <1>4, <1>5 DEF StreamInv, CountInv, Opening, Filling
  <2>4. (Starting => wsong.stored = 0 /\ lastPlayed = wsong.from /\ mixPos = streamW)'
    BY <1>1, <1>2, <1>5 DEF StreamInv, CountInv
  <2>5. QED
    BY <2>1, <2>2, <2>3, <2>4 DEF CountInv
<1>11. ReadInv'
  BY <1>1, <1>4, <1>5, <1>6 DEF StreamInv, ReadInv, Due, Skip
<1>12. RingInv'
  BY <1>1, <1>2, <1>5, <1>6 DEF StreamInv, RingInv, Busy, CountInv
<1>13. RoomInv'
  <2>1. /\ (One(ToFill))' = One(ToFill) /\ One(ToFill) \in 0 .. 1 /\ One(frameDone) \in 0 .. 1
        /\ One(lines = Field)' = 0 /\ One(lines = Field) \in 0 .. 1
    <3>1. ToFill' <=> ToFill
      BY <1>4, <1>5 DEF ToFill
    <3>2. lines' # Field
      BY <1>1, StreamTyped
    <3>3. QED
      BY <3>1, <3>2 DEF One
  <2>2. SUFFICES ASSUME Busy
                 PROVE  /\ Ahead(mixPos', streamW) + One(frameDone) + One(ToFill) <= Top + 0
                        /\ wcall.at = "slots" =>
                             Ahead(mixPos', streamW) + wcall.batch + One(frameDone) + 1 <= Top
    <3>1. Busy' <=> Busy
      BY <1>1 DEF Busy
    <3>2. wcall.at = "slots" => wcall'.batch = wcall.batch
      BY <1>3 DEF Filling
    <3>3. Top' = Top
      BY DEF Top
    <3>4. QED
      BY <1>1, <1>4, <2>1, <3>1, <3>2, <3>3 DEF RoomInv, One
  <2>3. Holds => Ahead(mixPos, streamW) = 0
    BY StreamTyped, StreamConstants DEF Holds, Ahead, Slots
  <2>4. /\ Ahead(mixPos, streamW) + One(frameDone) + One(ToFill) <= Top + One(lines = Field)
        /\ wcall.at = "slots" =>
             Ahead(mixPos, streamW) + wcall.batch + One(frameDone) + 1 <= Top
    BY <2>2 DEF StreamInv, RoomInv
  <2>5. wcall.at = "slots" => wcall.batch \in Nat
    BY CallIs DEF StreamInv, SlotCalls
  <2>6. Top >= 3 /\ Top \in Nat /\ Ahead(mixPos, streamW) \in Nat
    BY StreamTyped, StreamConstants
  <2>7. Ahead(mixPos', streamW) = IF Holds THEN 0 ELSE Ahead(mixPos, streamW) - 1
    BY <1>2, <2>2
  <2>8. CASE Holds
    BY <2>1, <2>3, <2>4, <2>5, <2>6, <2>7, <2>8
  <2>9. CASE ~Holds
    BY <2>1, <2>4, <2>5, <2>6, <2>7, <2>9
  <2>10. QED
    BY <2>8, <2>9
<1>14. LateInv'
  <2>1. Unpolled' = Unpolled /\ Unpolled \in Nat
    <3>1. SincePoll' = SincePoll /\ FillRoom' = FillRoom
      BY <1>1 DEF SincePoll, FillRoom
    <3>2. QED
      BY <1>4, <1>5, <3>1, UnpolledIs DEF Unpolled
  <2>2. (Busy' <=> Busy) /\ Field' = Field
    BY <1>1 DEF Busy, Field
  <2>3. ASSUME Busy, ~NowOff
        PROVE  Unpolled + (IF lines - 1 <= FrameLines THEN lines - 1 ELSE 0) < WordSize - 1
    <3>1. Unpolled + (IF lines <= FrameLines THEN lines ELSE 0) < WordSize - 1
      BY <2>3 DEF StreamInv, LateInv
    <3>2. ~wst.off
      BY <2>3 DEF NowOff, StreamInv, ClockInv
    <3>3. lines = FrameLines + 1 => Unpolled + FrameLines < WordSize - 1
      BY <1>1, <3>2 DEF PollsInTime
    <3> HIDE DEF Unpolled
    <3>4. QED
      BY <1>1, <2>1, <3>1, <3>3, StreamTyped, StreamConstants
  <2>4. ASSUME Filling
        PROVE  wcall.n + (lines - 1) <= Ahead(mixPos', streamW) + Field
    <3>1. wcall.n + lines <= Ahead(mixPos, streamW) + Field /\ wcall.n \in Nat /\ Busy
      BY <2>4, ToldIs, CallIs DEF StreamInv, LateInv, Busy
    <3>2. Ahead(mixPos', streamW) = IF Holds THEN 0 ELSE Ahead(mixPos, streamW) - 1
      BY <1>2, <3>1
    <3>3. Holds => Ahead(mixPos, streamW) = 0
      BY StreamTyped, StreamConstants DEF Holds, Ahead, Slots
    <3>4. QED
      BY <3>1, <3>2, <3>3, StreamTyped, StreamConstants
  <2>5. Filling' => wcall'.n + lines' <= Ahead(mixPos', streamW') + Field'
    BY <1>1, <1>3, <1>5, <2>2, <2>4
  <2>6. (Ahead(mixPos, streamW))' = Ahead(mixPos', streamW')
    BY DEF Ahead
  <2> HIDE DEF Unpolled
  <2>7. QED
    BY <1>1, <1>6, <2>1, <2>2, <2>3, <2>5, <2>6 DEF LateInv
<1>15. QED
  BY <1>7, <1>8, <1>9, <1>10, <1>11, <1>12, <1>13, <1>14 DEF StreamInv

(* The frame's line finds no fill under way and, if it reads, no open.     *)
LEMMA FrameFinds ==
  ASSUME StreamInv, FrameLine
  PROVE  /\ ~Filling /\ wcall' = wcall /\ wsong' = wsong
         /\ (Filling' <=> Filling) /\ (Opening' <=> Opening) /\ (Starting' <=> Starting)
         /\ (Busy' <=> Busy)
         /\ ~wst.off => ~Opening /\ wcall.at # "end" /\ wsong.state = "playing"
         /\ lines' \in 1 .. Field /\ lines <= FrameLines /\ lines # Field
<1>1. lines <= FrameLines /\ InTime /\ wcall' = wcall /\ wsong' = wsong
      /\ lines' = IF lines = 1 THEN Field ELSE lines - 1
  BY DEF FrameLine
<1>2. ~Filling
  <2>1. Filling => wcall.fresh /\ (wcall.fresh => lines > FrameLines)
    BY <1>1 DEF InTime, StreamInv, ClockInv
  <2>2. QED
    BY <1>1, <2>1, StreamTyped, StreamConstants
<1>3. (Filling' <=> Filling) /\ (Opening' <=> Opening) /\ (Busy' <=> Busy)
      /\ (Starting' <=> Starting)
  BY <1>1 DEF Filling, Opening, Starting, Busy
<1>4. ~wst.off => ~Opening /\ wcall.at # "end" /\ wsong.state = "playing"
  BY DEF StreamInv, ClockInv
<1>5. lines' \in 1 .. Field /\ lines # Field
  BY <1>1, StreamTyped, StreamConstants
<1>6. QED
  BY <1>1, <1>2, <1>3, <1>4, <1>5

(* It lets the room shrink by one slot at most, and the field that begins  *)
(* with the next line pays for its poll's fill.                            *)
LEMMA FrameRoom ==
  ASSUME StreamInv, FrameLine, Busy, NEW d \in 0 .. 1,
         Ahead(mixPos, streamW)' = (IF Holds THEN 0 ELSE Ahead(mixPos, streamW) - 1) + d
  PROVE  RoomInv'
<1>1. /\ wcall' = wcall /\ ~Filling /\ (Filling' <=> Filling) /\ (Opening' <=> Opening)
      /\ lines # Field
  BY FrameFinds
<1>2. frameDone' = (frameDone \/ lines = 1) /\ lines' = IF lines = 1 THEN Field ELSE lines - 1
  BY DEF FrameLine
<1>3. /\ One(ToFill)' = One(ToFill) /\ One(ToFill) \in 0 .. 1 /\ One(lines = Field) = 0
      /\ One(frameDone) \in 0 .. 1
  <2>1. ToFill' <=> ToFill
    BY <1>1 DEF ToFill
  <2>2. QED
    BY <1>1, <2>1 DEF One
<1>4. One(frameDone)' - One(lines = Field)' <= One(frameDone)
      /\ One(frameDone)' \in 0 .. 1 /\ One(lines = Field)' \in 0 .. 1
  <2>1. One(frameDone)' \in 0 .. 1 /\ One(lines = Field)' \in 0 .. 1
    BY DEF One
  <2>2. CASE lines = 1
    <3>1. One(lines = Field)' = 1
      BY <1>2, <2>2 DEF One, Field
    <3>2. QED
      BY <1>3, <2>1, <3>1
  <2>3. CASE lines # 1
    <3>1. frameDone' <=> frameDone
      BY <1>2, <2>3
    <3>2. One(frameDone)' = One(frameDone)
      BY <3>1 DEF One
    <3>3. QED
      BY <1>3, <2>1, <3>2
  <2>4. QED
    BY <2>2, <2>3
<1>5. Holds => Ahead(mixPos, streamW) = 0
  BY StreamTyped, StreamConstants DEF Holds, Ahead, Slots
<1>6. Ahead(mixPos, streamW) + One(frameDone) + One(ToFill) <= Top + One(lines = Field)
  BY DEF StreamInv, RoomInv
<1>7. Top >= 3 /\ Top \in Nat /\ Ahead(mixPos, streamW) \in Nat /\ Top' = Top
  BY StreamTyped, StreamConstants DEF Top
<1>8. Ahead(mixPos, streamW)' + One(frameDone)' + One(ToFill)' <= Top + One(lines = Field)'
  <2> DEFINE a == Ahead(mixPos, streamW)
             a1 == Ahead(mixPos, streamW)'
             f == One(frameDone)
             f1 == One(frameDone)'
             t == One(ToFill)
             t1 == One(ToFill)'
             l1 == One(lines = Field)'
  <2>1. /\ a \in Nat /\ f \in 0 .. 1 /\ t \in 0 .. 1 /\ t1 = t /\ f1 \in 0 .. 1 /\ l1 \in 0 .. 1
        /\ f1 - l1 <= f /\ a1 = (IF Holds THEN 0 ELSE a - 1) + d /\ (Holds => a = 0)
        /\ a + f + t <= Top /\ Top >= 3 /\ Top \in Nat
    BY <1>3, <1>4, <1>5, <1>6, <1>7
  <2> HIDE DEF a, a1, f, f1, t, t1, l1
  <2>2. a1 + f1 + t1 <= Top + l1
    <3>1. CASE Holds
      BY <2>1, <3>1
    <3>2. CASE ~Holds
      BY <2>1, <3>2
    <3>3. QED
      BY <3>1, <3>2
  <2>3. QED
    BY <2>2 DEF a, a1, f, f1, t, t1, l1
<1>9. wcall'.at # "slots"
  BY <1>1 DEF Filling
<1>10. QED
  BY <1>7, <1>8, <1>9 DEF RoomInv

(* A line of the frame with the stream off, or before it is on.            *)
LEMMA FrameLineIdle ==
  ASSUME StreamInv, FrameLine, wst.off
  PROVE  StreamInv'
<1>1. /\ Plays /\ mixBuf' = [LeftOver EXCEPT ![streamW] = Silence]
      /\ wst' = [wst EXCEPT !.k = 0] /\ streamW' = streamW /\ read' = read
      /\ wsong' = wsong /\ wcall' = wcall
      /\ lines' = IF lines = 1 THEN Field ELSE lines - 1
      /\ frameDone' = (frameDone \/ lines = 1)
  BY DEF FrameLine
<1>2. /\ LeftOver \in [Slots -> Nat] /\ mixPos' \in Slots /\ lastPlayed' \in Nat
      /\ Busy => /\ RingIs(LeftOver, mixPos', streamW, lastPlayed', Told)
                 /\ Ahead(mixPos', streamW) = IF Holds THEN 0 ELSE Ahead(mixPos, streamW) - 1
      /\ Starting \/ wsong.state = "done" =>
           mixPos' = mixPos /\ lastPlayed' = lastPlayed /\ LeftOver = mixBuf
  BY <1>1, LinePlays
<1>3. /\ ~Filling /\ (Filling' <=> Filling) /\ (Opening' <=> Opening)
      /\ (Starting' <=> Starting) /\ (Busy' <=> Busy)
      /\ lines' \in 1 .. Field
  BY FrameFinds
<1>4. wst'.off /\ wst'.stored = wst.stored /\ wst'.left = wst.left
      /\ wst' \in [off : BOOLEAN, k : Nat, left : Nat, stored : 0 .. WordSize - 1]
  BY <1>1 DEF StreamInv, StreamTypes
<1>5. Told' = Told /\ Since' = Since
  BY <1>1, <1>3, <1>4 DEF Told, Since, StoredSoFar, SincePoll
<1>6. StreamTypes'
  <2>1. mixBuf' \in [Slots -> Nat]
    BY <1>1, <1>2 DEF Silence
  <2>2. lines' \in 1 .. Field'
    BY <1>3 DEF Field
  <2>3. frameDone' \in BOOLEAN
    BY <1>1
  <2>4. QED
    BY <1>1, <1>2, <1>4, <2>1, <2>2, <2>3 DEF StreamInv, StreamTypes, Slots
<1>7. CallOK'
  BY <1>1 DEF StreamInv, CallOK
<1>8. ClockInv'
  BY <1>1, <1>3, <1>4 DEF ClockInv
<1>9. CountInv'
  <2>1. (Busy => LeftIs(wst.left, Told, Since))'
    BY <1>3, <1>4, <1>5 DEF StreamInv, CountInv, LeftIs
  <2>2. (wsong.state = "ending" \/ wcall.at = "song end" \/ (wcall.at = "end" /\ wcall.then = "ending")
           => Told = SongLength)'
    BY <1>1, <1>5 DEF StreamInv, CountInv
  <2>3. (Opening /\ wcall.restart => wst.stored = wsong.s16)'
    BY <1>1, <1>3, <1>4 DEF StreamInv, CountInv
  <2>4. (Starting => wsong.stored = 0 /\ lastPlayed = wsong.from /\ mixPos = streamW)'
    BY <1>1, <1>2, <1>3 DEF StreamInv, CountInv
  <2>5. QED
    BY <2>1, <2>2, <2>3, <2>4 DEF CountInv
<1>10. ReadInv'
  <2>1. NowOff'
    BY <1>3, <1>4 DEF NowOff
  <2>2. QED
    BY <1>1, <1>3, <2>1 DEF StreamInv, ReadInv, Due, Skip
<1>11. RingInv'
  <2>1. (Busy => RingIs(mixBuf, mixPos, streamW, lastPlayed, Told))'
    <3>1. CASE Busy
      <4>1. RingIs(LeftOver, mixPos', streamW, lastPlayed', Told)
        BY <1>2, <3>1
      <4>2. [LeftOver EXCEPT ![streamW] = Silence] = LeftOver
        BY <1>2, <4>1, StreamTyped, RingKept
      <4>3. RingIs(mixBuf', mixPos', streamW', lastPlayed', Told')
        BY <1>1, <1>5, <4>1, <4>2
      <4>4. QED
        BY <4>3
    <3>2. CASE ~Busy
      BY <1>3, <3>2
    <3>3. QED
      BY <3>1, <3>2
  <2>2. Starting \/ wsong.state = "done" => mixBuf' = mixBuf
    <3>1. Starting => mixBuf[streamW] = Silence
      <4>1. Starting => RingIs(mixBuf, mixPos, streamW, lastPlayed, lastPlayed)
        BY DEF StreamInv, RingInv
      <4>2. QED
        BY <4>1, RingSilentAt, StreamTyped
    <3>2. wsong.state = "done" => mixBuf[streamW] = Silence
      BY DEF StreamInv, RingInv
    <3>3. mixBuf \in [Slots -> Nat] /\ streamW \in Slots
      BY StreamTyped
    <3>4. QED
      BY <1>1, <1>2, <3>1, <3>2, <3>3
  <2>3. (Starting => RingIs(mixBuf, mixPos, streamW, lastPlayed, lastPlayed))'
    BY <1>1, <1>2, <1>3, <2>2 DEF StreamInv, RingInv
  <2>4. (wsong.state = "done" => /\ lastPlayed = SongLength /\ mixPos = streamW
                                 /\ mixBuf[streamW] = Silence)'
    BY <1>1, <1>2, <2>2 DEF StreamInv, RingInv
  <2>5. QED
    BY <2>1, <2>3, <2>4 DEF RingInv
<1>12. RoomInv'
  <2>1. CASE Busy
    <3>1. Ahead(mixPos, streamW)' = (IF Holds THEN 0 ELSE Ahead(mixPos, streamW) - 1) + 0
      <4>1. Ahead(mixPos, streamW)' = Ahead(mixPos', streamW)
        BY <1>1 DEF Ahead
      <4>2. QED
        BY <1>2, <2>1, <4>1, StreamTyped, StreamConstants
    <3>2. QED
      BY <2>1, <3>1, FrameRoom
  <2>2. CASE ~Busy
    BY <1>3, <2>2 DEF RoomInv
  <2>3. QED
    BY <2>1, <2>2
<1>13. LateInv'
  BY <1>3, <1>4 DEF LateInv, NowOff
<1>14. QED
  BY <1>6, <1>7, <1>8, <1>9, <1>10, <1>11, <1>12, <1>13 DEF StreamInv

(* The counter of the samples stored goes on by what a read stores.        *)
LEMMA CountGoesOn ==
  ASSUME StreamInv, Busy, NEW d \in 0 .. 1, NEW n \in Nat,
         wst.left - d \in Nat, n = (IF Filling THEN wcall.n ELSE 0),
         wst'.stored = (wst.stored + (n + d)) % WordSize, wsong' = wsong, ~Filling'
  PROVE  /\ wst'.stored \in 0 .. WordSize - 1 /\ Told' = Told + d
         /\ Since' = Since + d /\ SincePoll' = SincePoll + (n + d)
<1>1. /\ wst.stored \in 0 .. WordSize - 1 /\ wsong.s16 \in 0 .. WordSize - 1
      /\ wsong.from \in Nat /\ wsong.stored \in Nat /\ wst.left \in Nat
  BY StreamTyped DEF StreamInv, StreamTypes
<1>2. /\ SincePoll \in 0 .. WordSize - 1 /\ Told \in Nat /\ LeftIs(wst.left, Told, Since)
      /\ Told = wsong.from + (wsong.stored + Since) /\ Since = SincePoll + n /\ Since \in Nat
  BY ToldIs DEF Since
<1>3. SincePoll + (n + d) < WordSize /\ SincePoll \in Nat
  BY <1>1, <1>2, StreamConstants DEF LeftIs
<1>4. ((wst.stored - wsong.s16) % WordSize) + (n + d) < WordSize
  BY <1>3 DEF SincePoll
<1>5. n + d \in Nat
  OBVIOUS
<1>6. /\ (wst.stored + (n + d)) % WordSize \in 0 .. WordSize - 1
      /\ (((wst.stored + (n + d)) % WordSize) - wsong.s16) % WordSize
           = ((wst.stored - wsong.s16) % WordSize) + (n + d)
  <2>1. \A x \in Nat : ((wst.stored - wsong.s16) % WordSize) + x < WordSize =>
          /\ (wst.stored + x) % WordSize \in 0 .. WordSize - 1
          /\ (((wst.stored + x) % WordSize) - wsong.s16) % WordSize
               = ((wst.stored - wsong.s16) % WordSize) + x
    BY <1>1, WordCount
  <2>2. QED
    BY ONLY <1>4, <1>5, <2>1
<1>7. SincePoll' = SincePoll + (n + d)
  <2>1. SincePoll' = (wst'.stored - wsong'.s16) % WordSize
        /\ SincePoll = (wst.stored - wsong.s16) % WordSize
    BY DEF SincePoll
  <2>2. SincePoll' = (((wst.stored + (n + d)) % WordSize) - wsong.s16) % WordSize
    BY <2>1
  <2>3. QED
    BY ONLY <1>6, <2>1, <2>2
<1>8. Told' = wsong.from + (wsong.stored + SincePoll' + 0) /\ Since' = SincePoll' + 0
  BY DEF Told, Since, StoredSoFar
<1> HIDE DEF SincePoll
<1>9. QED
  BY <1>1, <1>2, <1>3, <1>6, <1>7, <1>8

(* A line of the frame that reads a byte.                                  *)
LEMMA FrameLineReads ==
  ASSUME StreamInv, FrameLine, ~wst.off
  PROVE  StreamInv'
<1>1. PICK a \in Answers :
        LET m == Taken([buf |-> LeftOver, w |-> streamW, left |-> wst.left, k |-> wst.k,
                        off |-> FALSE, n |-> 0], a)
        IN  /\ mixBuf' = m.buf /\ streamW' = m.w
            /\ wst' = [off |-> m.off, k |-> m.k, left |-> m.left,
                       stored |-> (wst.stored + m.n) % WordSize]
            /\ read' = a.read /\ faults' = faults + a.bad
  BY DEF FrameLine
<1> DEFINE m == Taken(Framing(LeftOver, streamW, wst.left, wst.k, 0), a)
<1>2. /\ mixBuf' = m.buf /\ streamW' = m.w
      /\ wst' = [off |-> m.off, k |-> m.k, left |-> m.left,
                 stored |-> (wst.stored + m.n) % WordSize]
      /\ read' = a.read
  BY <1>1 DEF Framing
<1>3. Plays /\ wsong' = wsong /\ wcall' = wcall
      /\ frameDone' = (frameDone \/ lines = 1)
  BY DEF FrameLine
<1>4. /\ ~Filling /\ ~Filling' /\ ~Opening /\ ~Opening' /\ wcall.at # "end"
      /\ wsong.state = "playing" /\ Busy /\ Busy' /\ ~Starting' /\ lines' \in 1 .. Field
  BY FrameFinds DEF Busy, Starting
<1>5. /\ LeftOver \in [Slots -> Nat] /\ mixPos' \in Slots /\ lastPlayed' \in Nat
      /\ RingIs(LeftOver, mixPos', streamW, lastPlayed', Told)
      /\ Ahead(mixPos', streamW) = IF Holds THEN 0 ELSE Ahead(mixPos, streamW) - 1
  BY <1>3, <1>4, LinePlays
<1>6. InStep(wst.k, wst.left, Told)
  <2>1. ~NowOff /\ NowK = wst.k
    BY <1>4 DEF NowOff, NowK
  <2>2. read.open /\ read.left = wst.k /\ (wst.left > 0 => read.place = DataOffset + Told)
    BY <2>1 DEF StreamInv, ReadInv
  <2>3. wst.left <= SongLength - Told
    BY <1>4, ToldIs
  <2>4. QED
    BY <2>2, <2>3 DEF InStep
<1>7. Ahead(mixPos', streamW) < RingSize - 1
  <2>1. Ahead(mixPos, streamW) < RingSize - 1 /\ Ahead(mixPos, streamW) \in Nat
    <3>1. Ahead(mixPos, streamW) + One(frameDone) + One(ToFill) <= Top + One(lines = Field)
      BY <1>4 DEF StreamInv, RoomInv
    <3>2. One(lines = Field) = 0 /\ One(frameDone) \in 0 .. 1 /\ One(ToFill) \in 0 .. 1
      BY FrameFinds DEF One
    <3>3. QED
      BY <3>1, <3>2, StreamTyped, StreamConstants
  <2>2. QED
    BY <1>5, <2>1, StreamConstants
<1>8. PICK d \in 0 .. 1 : Stored(m, a.read, mixPos', streamW, wst.left, 0, lastPlayed', Told, d)
  BY <1>5, <1>6, <1>7, ByteOn, StreamTyped, ZenonT(40)
<1> HIDE DEF m
<1>9. /\ m.buf \in [Slots -> Nat] /\ m.w \in Slots /\ m.left \in Nat /\ m.k \in Nat
      /\ m.off \in BOOLEAN /\ a.read \in Reads
      /\ RingIs(m.buf, mixPos', m.w, lastPlayed', Told + d)
      /\ Ahead(mixPos', m.w) = Ahead(mixPos', streamW) + d
      /\ m.left = wst.left - d /\ m.n = 0 + d
      /\ ~m.off => InStepAt(a.read, m.k, m.left, Told + d)
  BY <1>8 DEF Stored
<1>10. /\ wst'.stored \in 0 .. WordSize - 1 /\ Told' = Told + d /\ Since' = Since + d
       /\ SincePoll' = SincePoll + (0 + d)
  <2>1. wst.left - d \in Nat /\ wst'.stored = (wst.stored + (0 + d)) % WordSize
    BY <1>2, <1>9
  <2>2. 0 = (IF Filling THEN wcall.n ELSE 0)
    BY <1>4
  <2>3. QED
    BY <1>3, <1>4, <2>1, <2>2, CountGoesOn
<1>11. /\ wst' \in [off : BOOLEAN, k : Nat, left : Nat, stored : 0 .. WordSize - 1]
       /\ (wst'.off <=> m.off) /\ wst'.k = m.k /\ wst'.left = m.left
  BY <1>2, <1>9, <1>10
<1>12. StreamTypes'
  <2>1. lines' \in 1 .. Field'
    BY <1>4 DEF Field
  <2>2. frameDone' \in BOOLEAN
    BY <1>3
  <2>3. read' \in [open : BOOLEAN, place : Int, left : Nat, wait : Nat]
    BY <1>2, <1>9 DEF Reads
  <2>4. QED
    BY <1>2, <1>3, <1>5, <1>9, <1>11, <2>1, <2>2, <2>3 DEF StreamInv, StreamTypes, Slots
<1>13. CallOK'
  BY <1>3 DEF StreamInv, CallOK
<1>14. ClockInv'
  BY <1>3, <1>4 DEF ClockInv
<1>15. CountInv'
  <2>1. /\ LeftIs(wst.left, Told, Since) /\ wst.left <= SongLength - Told /\ Told \in Nat
        /\ wst.left \in Nat /\ Since \in Nat
    BY <1>4, ToldIs, StreamTyped
  <2>4. LeftIs(wst'.left, Told', Since')
    <3>1. LeftIs(wst.left - d, Told + d, Since + d)
      BY <1>9, <2>1, LeftGoesOn
    <3>2. QED
      BY <1>9, <1>10, <1>11, <3>1
  <2>2. ASSUME wcall.at = "song end"
        PROVE  Told' = SongLength
    <3>1. Told = SongLength
      BY <2>2 DEF StreamInv, CountInv
    <3>2. d = 0
      <4>1. m.left = wst.left - d /\ m.left \in Nat
        BY <1>9
      <4>2. QED
        BY <2>1, <3>1, <4>1, StreamConstants
    <3>3. QED
      BY <1>10, <2>1, <3>1, <3>2
  <2>5. QED
    BY <1>3, <1>4, <2>2, <2>4 DEF CountInv
<1>16. ReadInv'
  <2>1. (NowOff' <=> m.off) /\ NowK' = m.k
    BY <1>4, <1>11 DEF NowOff, NowK
  <2>2. ~m.off => /\ read'.open /\ read'.left = m.k
                  /\ wst'.left > 0 => read'.place = DataOffset + Told'
    BY <1>2, <1>9, <1>10, <1>11 DEF InStepAt
  <2>3. wcall'.at # "token" /\ wcall'.at # "opened"
    BY <1>4 DEF Opening
  <2>4. QED
    BY <1>4, <2>1, <2>2, <2>3 DEF ReadInv
<1>17. RingInv'
  <2>1. RingIs(mixBuf', mixPos', streamW', lastPlayed', Told')
    BY <1>2, <1>9, <1>10
  <2>2. QED
    BY <1>3, <1>4, <2>1 DEF RingInv
<1>18. RoomInv'
  <2>1. Ahead(mixPos, streamW)' = Ahead(mixPos', m.w)
    BY <1>2 DEF Ahead
  <2>2. QED
    BY <1>4, <1>5, <1>9, <2>1, FrameRoom
<1>19. LateInv'
  <2>1. Unpolled' = Unpolled + d /\ Unpolled \in Nat
    <3>1. (wcall'.at = "fill" <=> wcall.at = "fill") /\ FillRoom' = FillRoom
      BY <1>3 DEF FillRoom
    <3>2. SincePoll' = SincePoll + d
      BY <1>10, ToldIs, StreamConstants
    <3> HIDE DEF SincePoll
    <3>3. QED
      BY <1>4, <3>1, <3>2, UnpolledIs DEF Unpolled
  <2>2. Unpolled + lines < WordSize - 1
    <3>1. ~NowOff /\ lines <= FrameLines
      BY <1>4, FrameFinds DEF NowOff
    <3>2. QED
      BY <1>4, <3>1 DEF StreamInv, LateInv
  <2>3. lines' = IF lines = 1 THEN Field ELSE lines - 1
    BY DEF FrameLine
  <2>4. lines <= FrameLines
    BY FrameFinds
  <2> HIDE DEF Unpolled
  <2>5. Unpolled' + (IF lines' <= FrameLines THEN lines' ELSE 0) < WordSize - 1
    BY <2>1, <2>2, <2>3, <2>4, StreamTyped, StreamConstants
  <2>6. QED
    BY <1>4, <2>5 DEF LateInv
<1>20. QED
  BY <1>12, <1>13, <1>14, <1>15, <1>16, <1>17, <1>18, <1>19 DEF StreamInv

(* The fill begins.                                                        *)
LEMMA FillEnterKeeps ==
  ASSUME StreamInv, FillEnter, ~LateFill
  PROVE  StreamInv'
<1>1. /\ wcall.at = "fill" /\ lines > FrameLines
      /\ wcall' = IF wst.off THEN NoCall
                  ELSE [at |-> "entered", max |-> wcall.max, w |-> streamW, k |-> wst.k,
                        off |-> FALSE, n |-> 0, fresh |-> TRUE]
      /\ mixPos' = mixPos /\ lines' = lines /\ lastPlayed' = lastPlayed
      /\ mixBuf' = mixBuf /\ streamW' = streamW /\ wst' = wst /\ wsong' = wsong /\ read' = read
      /\ frameDone' = frameDone
  BY DEF FillEnter, InBlank, SameLine
<1>2. wcall.max \in Int /\ wsong.state = "playing" /\ ~Filling /\ ~Opening /\ Busy
  BY <1>1, CallIs DEF StreamInv, Filling, Opening, Busy
<1>3. CASE wst.off
  <2>1. wcall' = NoCall /\ ~Filling' /\ ~Opening' /\ ~Starting'
    BY <1>1, <1>3 DEF NoCall, Filling, Opening, Starting
  <2>2. Told' = Told /\ Since' = Since /\ NowK' = NowK /\ (NowOff' <=> NowOff)
    BY <1>1, <1>2, <2>1 DEF Told, Since, StoredSoFar, SincePoll, NowK, NowOff
  <2>3. StreamTypes' /\ CallOK' /\ ClockInv'
    BY <1>1, <1>3, <2>1 DEF StreamInv, StreamTypes, CallOK, ClockInv, NoCall
  <2>4. CountInv'
    BY <1>1, <2>1, <2>2 DEF StreamInv, CountInv, Busy, NoCall, LeftIs
  <2>5. ReadInv'
    BY <1>1, <1>2, <2>1, <2>2 DEF StreamInv, ReadInv, NoCall
  <2>6. RingInv'
    BY <1>1, <1>2, <2>1, <2>2 DEF StreamInv, RingInv, Busy
  <2>7. RoomInv'
    <3>1. ToFill /\ ~ToFill' /\ wcall'.at # "slots"
      BY <1>1, <2>1 DEF ToFill, NoCall
    <3>2. /\ One(ToFill) = 1 /\ One(ToFill)' = 0 /\ One(frameDone)' = One(frameDone)
          /\ One(lines = Field)' = One(lines = Field)
          /\ One(frameDone) \in 0 .. 1 /\ One(lines = Field) \in 0 .. 1
      BY <1>1, <3>1 DEF One, Field
    <3>3. Ahead(mixPos, streamW)' = Ahead(mixPos, streamW) /\ Top' = Top
      BY <1>1 DEF Ahead, Top
    <3>4. Ahead(mixPos, streamW) + One(frameDone) + One(ToFill) <= Top + One(lines = Field)
      BY <1>2 DEF StreamInv, RoomInv
    <3>5. Ahead(mixPos, streamW)' + One(frameDone)' + One(ToFill)' <= Top + One(lines = Field)'
      BY <3>2, <3>3, <3>4, StreamTyped, StreamConstants
    <3>6. QED
      BY <3>1, <3>3, <3>5 DEF RoomInv
  <2>8. LateInv'
    BY <1>1, <1>3, <2>1 DEF LateInv, NowOff
  <2>9. QED
    BY <2>3, <2>4, <2>5, <2>6, <2>7, <2>8 DEF StreamInv
<1>4. CASE ~wst.off
  <2>1. wcall' = [at |-> "entered", max |-> wcall.max, w |-> streamW, k |-> wst.k,
                  off |-> FALSE, n |-> 0, fresh |-> TRUE]
    BY <1>1, <1>4
  <2>2. /\ wcall' \in EnteredCalls /\ wcall'.at = "entered" /\ wcall'.n = 0 /\ wcall'.k = wst.k
        /\ ~wcall'.off /\ wcall'.w = streamW
    BY <1>2, <2>1, StreamTyped DEF EnteredCalls
  <2>3. Filling' /\ ~Opening' /\ ~Starting'
    BY <2>2 DEF Filling, Opening, Starting
  <2>4. Told' = Told /\ Since' = Since /\ NowK' = NowK /\ (NowOff' <=> NowOff)
    BY <1>1, <1>2, <1>4, <2>2, <2>3 DEF Told, Since, StoredSoFar, SincePoll, NowK, NowOff
  <2>5. StreamTypes' /\ CallOK'
    BY <1>1, <1>2, <2>2 DEF StreamInv, StreamTypes, CallOK
  <2>6. ClockInv'
    <3>1. lines >= FrameLines
      BY <1>1, StreamTyped, StreamConstants
    <3>2. QED
      BY <1>1, <1>2, <1>4, <2>2, <2>3, <3>1 DEF ClockInv
  <2>7. CountInv'
    BY <1>1, <1>2, <2>2, <2>3, <2>4 DEF StreamInv, CountInv, Busy, LeftIs
  <2>8. ReadInv'
    BY <1>1, <1>2, <1>4, <2>2, <2>3, <2>4 DEF StreamInv, ReadInv, NowOff
  <2>9. RingInv'
    BY <1>1, <1>2, <2>3, <2>4 DEF StreamInv, RingInv, Busy
  <2>10. RoomInv'
    <3>1. ToFill /\ ToFill'
      BY <1>1, <2>3 DEF ToFill
    <3>2. One(ToFill)' = One(ToFill) /\ wcall'.at # "slots"
      BY <2>2, <3>1 DEF One
    <3>3. QED
      BY <1>1, <1>2, <3>2 DEF StreamInv, RoomInv, One, Field, Ahead, Top
  <2>11. LateInv'
    <3>1. Unpolled' = Unpolled /\ Unpolled \in Nat
      <4>1. SincePoll' = SincePoll /\ FillRoom' = FillRoom
        BY <1>1 DEF SincePoll, FillRoom
      <4>2. QED
        BY <1>1, <2>3, <4>1, UnpolledIs DEF Unpolled
    <3>2. wcall'.n + lines <= Ahead(mixPos, streamW)' + Field
      <4>1. Ahead(mixPos, streamW)' = Ahead(mixPos, streamW)
        BY <1>1 DEF Ahead
      <4>2. QED
        BY <2>2, <4>1, StreamTyped, StreamConstants
    <3> HIDE DEF Unpolled
    <3>3. QED
      BY <1>1, <1>2, <2>4, <3>1, <3>2, LateKept
  <2>12. QED
    BY <2>5, <2>6, <2>7, <2>8, <2>9, <2>10, <2>11 DEF StreamInv
<1>5. QED
  BY <1>3, <1>4

(* W is published and the reasons to stop are looked at.                   *)
LEMMA FillCheckKeeps ==
  ASSUME StreamInv, FillCheck
  PROVE  StreamInv'
<1> DEFINE stops == Near \/ wcall.off \/ wcall.n >= wcall.max
                    \/ (wcall.w - mixPos) % RingSize >= FillMax
<1>1. /\ wcall.at \in {"entered", "slots"} /\ Filling
      /\ wcall' = [at |-> IF stops THEN "last" ELSE "slots", max |-> wcall.max, w |-> wcall.w,
                   k |-> wcall.k, off |-> wcall.off, n |-> wcall.n, batch |-> Batch,
                   fresh |-> ~stops \/ wcall.fresh]
      /\ streamW' = wcall.w
      /\ mixPos' = mixPos /\ lines' = lines /\ lastPlayed' = lastPlayed /\ frameDone' = frameDone
      /\ mixBuf' = mixBuf /\ wst' = wst /\ wsong' = wsong /\ read' = read
  BY DEF FillCheck, InBlank, SameLine, Filling
<1>2. /\ wcall.max \in Int /\ wcall.w \in Slots /\ wcall.k \in Nat /\ wcall.off \in BOOLEAN
      /\ wcall.n \in Nat /\ wcall.fresh \in BOOLEAN /\ wsong.state = "playing" /\ ~Opening /\ Busy
  <2>1. wcall \in EnteredCalls \cup SlotCalls /\ wsong.state = "playing"
    BY <1>1, CallIs DEF StreamInv
  <2>2. QED
    BY <1>1, <2>1 DEF EnteredCalls, SlotCalls, Opening, Busy
<1>3. /\ ~wst.off /\ lines >= FrameLines /\ (wcall.fresh => lines > FrameLines)
      /\ wcall.w = streamW
  BY <1>1 DEF StreamInv, ClockInv
<1>4. /\ ~stops => /\ lines > FrameLines /\ Ahead(mixPos, streamW) < FillMax
  <2>1. ASSUME ~stops
        PROVE  lines > FrameLines
    BY <1>3, <2>1, StreamTyped, StreamConstants DEF Near
  <2>2. (wcall.w - mixPos) % RingSize = Ahead(mixPos, streamW)
    BY <1>3, StreamTyped, SlotIs
  <2>3. ASSUME ~stops
        PROVE  Ahead(mixPos, streamW) < FillMax
    BY <2>2, <2>3, StreamTyped, StreamConstants
  <2>4. QED
    BY <2>1, <2>3
<1>5. /\ wcall'.max = wcall.max /\ wcall'.w = wcall.w /\ wcall'.k = wcall.k
      /\ wcall'.off = wcall.off /\ wcall'.n = wcall.n /\ wcall'.batch = Batch
      /\ wcall'.at = (IF stops THEN "last" ELSE "slots")
      /\ (wcall'.fresh <=> (~stops \/ wcall.fresh)) /\ wcall' \in SlotCalls
  <2> HIDE DEF stops
  <2>1. (~stops \/ wcall.fresh) \in BOOLEAN
    OBVIOUS
  <2>2. QED
    BY <1>1, <1>2, <2>1, StreamConstants DEF SlotCalls
<1> HIDE DEF stops
<1>6. Filling' /\ ~Opening' /\ ~Starting'
  BY <1>5 DEF Filling, Opening, Starting
<1>7. streamW' = streamW
  BY <1>1, <1>3
<1>8. Told' = Told /\ Since' = Since /\ NowK' = NowK /\ (NowOff' <=> NowOff)
  BY <1>1, <1>5, <1>6 DEF Told, Since, StoredSoFar, SincePoll, NowK, NowOff
<1>9. StreamTypes' /\ CallOK'
  BY <1>1, <1>2, <1>5, <1>7 DEF StreamInv, StreamTypes, CallOK
<1>10. ClockInv'
  <2>1. wcall'.fresh => lines > FrameLines
    BY <1>3, <1>4, <1>5
  <2>2. wcall'.at # "end" /\ wsong'.state = "playing"
    BY <1>1, <1>2, <1>5
  <2>3. QED
    BY <1>1, <1>3, <1>5, <1>6, <1>7, <2>1, <2>2 DEF ClockInv
<1>11. CountInv'
  <2>1. wcall'.at # "song end" /\ wcall'.at # "end" /\ wsong'.state = "playing"
    BY <1>1, <1>2, <1>5
  <2>2. QED
    BY <1>1, <1>2, <1>6, <1>8, <2>1 DEF StreamInv, CountInv, LeftIs
<1>12. ReadInv'
  <2>1. wcall'.at # "token" /\ wcall'.at # "opened"
    BY <1>5
  <2>2. QED
    BY <1>1, <1>6, <1>8, <2>1 DEF StreamInv, ReadInv
<1>13. RingInv'
  BY <1>1, <1>2, <1>6, <1>7, <1>8 DEF StreamInv, RingInv, Busy
<1>14. RoomInv'
  <2>1. ToFill /\ ToFill'
    BY <1>1, <1>6 DEF ToFill
  <2>2. /\ One(ToFill)' = One(ToFill) /\ One(frameDone)' = One(frameDone)
        /\ One(lines = Field)' = One(lines = Field) /\ One(frameDone) \in 0 .. 1
        /\ Ahead(mixPos, streamW)' = Ahead(mixPos, streamW) /\ Top' = Top
    BY <1>1, <1>7, <2>1 DEF One, Field, Ahead, Top
  <2>3. Ahead(mixPos, streamW) + One(frameDone) + One(ToFill) <= Top + One(lines = Field)
    BY <1>2 DEF StreamInv, RoomInv
  <2>4. wcall'.at = "slots" => Ahead(mixPos, streamW) + Batch + One(frameDone) + 1 <= Top
    <3>1. wcall'.at = "slots" => Ahead(mixPos, streamW) < FillMax
      BY <1>4, <1>5
    <3>2. QED
      BY <2>2, <3>1, StreamTyped, StreamConstants
  <2>5. QED
    BY <1>5, <2>2, <2>3, <2>4 DEF RoomInv
<1>15. LateInv'
  <2>1. Unpolled' = Unpolled /\ Unpolled \in Nat
    <3>1. SincePoll' = SincePoll /\ FillRoom' = FillRoom
      BY <1>1 DEF SincePoll, FillRoom
    <3>2. QED
      BY <1>1, <1>6, <3>1, UnpolledIs DEF Unpolled
  <2>2. wcall'.n + lines <= Ahead(mixPos, streamW)' + Field
    <3>1. Ahead(mixPos, streamW)' = Ahead(mixPos, streamW)
      BY <1>1, <1>7 DEF Ahead
    <3>2. wcall.n + lines <= Ahead(mixPos, streamW) + Field
      BY <1>1 DEF StreamInv, LateInv
    <3>3. QED
      BY <1>5, <3>1, <3>2
  <2> HIDE DEF Unpolled
  <2>3. QED
    BY <1>1, <1>2, <1>8, <2>1, <2>2, LateKept
<1>16. QED
  BY <1>9, <1>10, <1>11, <1>12, <1>13, <1>14, <1>15 DEF StreamInv

(* What the fill does with a byte.                                         *)
LEMMA FillStores ==
  ASSUME StreamInv, wcall.at \in {"slots", "last"}, Ahead(mixPos, streamW) < RingSize - 1,
         NEW a \in FillAnswers, NEW m, m = FillTaken(a)
  PROVE  \E d \in 0 .. 1 :
           Stored(m, a.read, mixPos, streamW, wst.left, wcall.n, lastPlayed, Told, d)
<1>1. /\ Filling /\ Busy /\ wcall \in SlotCalls /\ wcall.k \in Nat /\ wcall.n \in Nat
      /\ wcall.off \in BOOLEAN /\ wcall.w = streamW
  <2>1. Filling /\ wcall \in SlotCalls /\ wsong.state = "playing"
    BY CallIs DEF StreamInv, Filling
  <2>2. QED
    BY <2>1 DEF StreamInv, ClockInv, SlotCalls, Busy
<1>2. wst.left <= SongLength - Told
  BY <1>1, ToldIs
<1>3. RingIs(mixBuf, mixPos, streamW, lastPlayed, Told)
  BY <1>1 DEF StreamInv, RingInv
<1>4. CASE wcall.off
  <2>1. wcall.k = 0
    BY <1>1, <1>4 DEF StreamInv, ReadInv, NowOff, NowK
  <2>2. a = Answer("ff", read) /\ wcall.off = TRUE
    BY <1>1, <1>4 DEF FillAnswers
  <2>3. m = Idle(mixBuf, streamW, wst.left, wcall.n, read)
    BY <1>1, <2>1, <2>2 DEF FillTaken, Idle
  <2>4. Stored(m, read, mixPos, streamW, wst.left, wcall.n, lastPlayed, Told, 0)
    BY <1>1, <1>3, <2>3, ByteOff, StreamTyped
  <2>5. a.read = read
    BY <2>2 DEF Answer
  <2>6. QED
    BY <2>4, <2>5
<1>5. CASE ~wcall.off
  <2>1. InStep(wcall.k, wst.left, Told)
    BY <1>1, <1>2, <1>5 DEF StreamInv, ReadInv, NowOff, NowK, InStep
  <2>2. a \in Answers /\ wcall.off = FALSE
    BY <1>1, <1>5 DEF FillAnswers
  <2>3. m = Taken(Framing(mixBuf, streamW, wst.left, wcall.k, wcall.n), a)
    BY <1>1, <2>2 DEF FillTaken, Framing
  <2>4. QED
    BY <1>1, <1>3, <2>1, <2>2, <2>3, ByteOn, StreamTyped
<1>6. QED
  BY <1>4, <1>5

(* A byte of a batch.                                                      *)
LEMMA FillByteKeeps ==
  ASSUME StreamInv, FillByte
  PROVE  StreamInv'
<1>1. PICK a \in FillAnswers :
        LET m == FillTaken(a)
        IN  /\ FillSlot(a, m)
            /\ wcall' = [wcall EXCEPT !.batch = @ - 1, !.w = m.w, !.k = m.k, !.off = m.off,
                                      !.n = m.n]
            /\ wst' = [wst EXCEPT !.left = m.left]
  BY DEF FillByte
<1> DEFINE m == FillTaken(a)
<1>2. /\ mixBuf' = m.buf /\ streamW' = m.w /\ read' = a.read
      /\ wcall' = [wcall EXCEPT !.batch = @ - 1, !.w = m.w, !.k = m.k, !.off = m.off,
                                !.n = m.n]
      /\ wst' = [wst EXCEPT !.left = m.left] /\ wsong' = wsong
      /\ mixPos' = mixPos /\ lines' = lines /\ lastPlayed' = lastPlayed /\ frameDone' = frameDone
      /\ wcall.at = "slots" /\ wcall.batch > 0
  BY <1>1 DEF FillByte, FillSlot, SameLine, InBlank
<1>3. /\ wcall \in SlotCalls /\ wcall.batch \in Nat /\ wcall.n \in Nat /\ wcall.max \in Int
      /\ wcall.fresh \in BOOLEAN /\ Filling /\ wsong.state = "playing" /\ Busy /\ ~Opening
  <2>1. wcall \in SlotCalls /\ wsong.state = "playing"
    BY <1>2, CallIs DEF StreamInv
  <2>2. QED
    BY <1>2, <2>1 DEF SlotCalls, Filling, Busy, Opening
<1>4. /\ Ahead(mixPos, streamW) + wcall.batch + One(frameDone) + 1 <= Top
      /\ One(frameDone) \in 0 .. 1
  BY <1>2, <1>3 DEF StreamInv, RoomInv, One
<1>5. Ahead(mixPos, streamW) < RingSize - 1 /\ Ahead(mixPos, streamW) \in Nat
  BY <1>2, <1>3, <1>4, StreamTyped, StreamConstants
<1>6. PICK d \in 0 .. 1 :
        Stored(m, a.read, mixPos, streamW, wst.left, wcall.n, lastPlayed, Told, d)
  BY <1>2, <1>5, FillStores
<1> HIDE DEF m
<1>7. /\ m.buf \in [Slots -> Nat] /\ m.w \in Slots /\ m.left \in Nat /\ m.k \in Nat
      /\ m.off \in BOOLEAN /\ a.read \in Reads
      /\ RingIs(m.buf, mixPos, m.w, lastPlayed, Told + d)
      /\ Ahead(mixPos, m.w) = Ahead(mixPos, streamW) + d
      /\ m.left = wst.left - d /\ m.n = wcall.n + d
      /\ (m.off => m.k = 0) /\ (~m.off => InStepAt(a.read, m.k, m.left, Told + d))
  BY <1>6 DEF Stored
<1>8. /\ wcall' \in SlotCalls /\ wcall'.at = "slots" /\ wcall'.batch = wcall.batch - 1
      /\ wcall'.w = m.w /\ wcall'.k = m.k /\ (wcall'.off <=> m.off) /\ wcall'.n = m.n
      /\ wcall'.fresh = wcall.fresh
  <2>1. wcall.batch - 1 \in Nat /\ m.n \in Nat
    BY <1>2, <1>3, <1>7
  <2> DEFINE c1 == [wcall EXCEPT !.batch = @ - 1, !.w = m.w]
             c2 == [c1 EXCEPT !.k = m.k, !.off = m.off]
  <2>2. c1 \in SlotCalls /\ c1.at = "slots" /\ c1.batch = wcall.batch - 1 /\ c1.w = m.w
        /\ c1.fresh = wcall.fresh
    BY <1>2, <1>3, <1>7, <2>1 DEF SlotCalls
  <2>3. wcall' = [c2 EXCEPT !.n = m.n]
    BY <1>2, <1>3 DEF SlotCalls
  <2> HIDE DEF c1
  <2>4. c2 \in SlotCalls /\ c2.at = "slots" /\ c2.batch = wcall.batch - 1 /\ c2.w = m.w
        /\ c2.k = m.k /\ c2.off = m.off /\ c2.fresh = wcall.fresh
    BY <1>7, <2>2 DEF SlotCalls
  <2> HIDE DEF c2
  <2>5. QED
    BY <2>1, <2>3, <2>4 DEF SlotCalls
<1>9. /\ wst' \in [off : BOOLEAN, k : Nat, left : Nat, stored : 0 .. WordSize - 1]
      /\ wst'.off = wst.off /\ wst'.stored = wst.stored /\ wst'.left = m.left
  BY <1>2, <1>7 DEF StreamInv, StreamTypes
<1>10. Filling' /\ ~Opening' /\ ~Starting'
  BY <1>8 DEF Filling, Opening, Starting
<1>11. Told' = Told + d /\ Since' = Since + d /\ SincePoll' = SincePoll
  <2>1. Told = wsong.from + (wsong.stored + Since) /\ Since = SincePoll + wcall.n
    BY <1>3, ToldIs DEF Since
  <2>2. /\ Told' = wsong.from + (wsong.stored + SincePoll + (wcall.n + d))
        /\ Since' = SincePoll + (wcall.n + d) /\ SincePoll' = SincePoll
    BY <1>2, <1>7, <1>8, <1>9, <1>10 DEF Told, Since, StoredSoFar, SincePoll
  <2>3. SincePoll \in Int
    BY ToldIs, StreamConstants
  <2> HIDE DEF SincePoll
  <2>4. QED
    BY <1>3, <2>1, <2>2, <2>3, StreamTyped
<1>12. StreamTypes'
  <2>1. read' \in [open : BOOLEAN, place : Int, left : Nat, wait : Nat]
    BY <1>2, <1>7 DEF Reads
  <2>2. QED
    BY <1>2, <1>7, <1>9, <2>1 DEF StreamInv, StreamTypes, Slots
<1>13. CallOK'
  BY <1>2, <1>3, <1>8 DEF CallOK
<1>14. ClockInv'
  <2>1. ~wst.off /\ lines >= FrameLines /\ (wcall.fresh => lines > FrameLines)
    BY <1>3 DEF StreamInv, ClockInv
  <2>2. QED
    BY <1>2, <1>3, <1>8, <1>9, <1>10, <2>1 DEF ClockInv
<1>15. CountInv'
  <2>1. LeftIs(wst'.left, Told', Since')
    <3>1. LeftIs(wst.left - d, Told + d, Since + d)
      BY <1>3, <1>7, ToldIs, StreamTyped, LeftGoesOn
    <3>2. QED
      BY <1>7, <1>9, <1>11, <3>1
  <2>2. wcall'.at # "song end" /\ wcall'.at # "end" /\ wsong'.state = "playing"
    BY <1>2, <1>3, <1>8
  <2>3. QED
    BY <1>10, <2>1, <2>2 DEF CountInv
<1>16. ReadInv'
  <2>1. (NowOff' <=> m.off) /\ NowK' = m.k
    BY <1>8, <1>10 DEF NowOff, NowK
  <2>2. ~m.off => /\ read'.open /\ read'.left = m.k
                  /\ wst'.left > 0 => read'.place = DataOffset + Told'
    BY <1>2, <1>7, <1>9, <1>11 DEF InStepAt
  <2>3. wcall'.at # "token" /\ wcall'.at # "opened"
    BY <1>8
  <2>4. QED
    BY <1>7, <2>1, <2>2, <2>3 DEF ReadInv
<1>17. RingInv'
  <2>1. RingIs(mixBuf', mixPos', streamW', lastPlayed', Told')
    BY <1>2, <1>7, <1>11
  <2>2. QED
    BY <1>2, <1>3, <1>10, <2>1 DEF RingInv
<1>18. RoomInv'
  <2>1. ToFill'
    BY <1>10 DEF ToFill
  <2>2. /\ One(ToFill)' = 1 /\ One(frameDone)' = One(frameDone) /\ One(lines = Field)' \in 0 .. 1
        /\ Ahead(mixPos, streamW)' = Ahead(mixPos, streamW) + d /\ Top' = Top
    BY <1>2, <1>7, <2>1 DEF One, Field, Ahead, Top
  <2>3. Ahead(mixPos, streamW)' + wcall'.batch + One(frameDone)' + 1 <= Top
    BY <1>2, <1>3, <1>4, <1>5, <1>8, <2>2, StreamTyped, StreamConstants
  <2>4. Ahead(mixPos, streamW)' + One(frameDone)' + One(ToFill)' <= Top + One(lines = Field)'
    <3>1. wcall'.batch \in Nat
      BY <1>8 DEF SlotCalls
    <3>2. QED
      BY <1>4, <1>5, <2>2, <2>3, <3>1, StreamTyped, StreamConstants
  <2>5. QED
    BY <2>2, <2>3, <2>4 DEF RoomInv
<1>19. LateInv'
  <2>1. Unpolled' = Unpolled /\ Unpolled \in Nat
    <3>1. FillRoom' = FillRoom
      BY DEF FillRoom
    <3> HIDE DEF SincePoll
    <3>2. QED
      BY <1>3, <1>10, <1>11, <3>1, UnpolledIs DEF Unpolled
  <2>2. wcall'.n + lines <= Ahead(mixPos, streamW)' + Field
    <3>1. Ahead(mixPos, streamW)' = Ahead(mixPos, streamW) + d
      BY <1>2, <1>7 DEF Ahead
    <3>2. wcall.n + lines <= Ahead(mixPos, streamW) + Field
      BY <1>3 DEF StreamInv, LateInv
    <3>3. QED
      BY <1>3, <1>7, <1>8, <3>1, <3>2, StreamTyped, StreamConstants
  <2>3. Busy /\ (~NowOff' => ~NowOff)
    <3>1. NowOff' <=> m.off
      BY <1>8, <1>10 DEF NowOff
    <3>2. wcall.off => m.off
      BY DEF m, FillTaken, Taken
    <3>3. QED
      BY <1>3, <3>1, <3>2 DEF NowOff
  <2> HIDE DEF Unpolled
  <2>4. QED
    BY <1>2, <2>1, <2>2, <2>3, LateKept
<1>20. QED
  BY <1>12, <1>13, <1>14, <1>15, <1>16, <1>17, <1>18, <1>19 DEF StreamInv

(* The byte under way when the fill ends.                                  *)
LEMMA FillLastKeeps ==
  ASSUME StreamInv, FillLast
  PROVE  StreamInv'
<1>1. PICK a \in FillAnswers :
        LET m == FillTaken(a)
        IN  /\ FillSlot(a, m)
            /\ wcall' = NoCall
            /\ wst' = [off |-> m.off, k |-> m.k, left |-> m.left,
                       stored |-> (wst.stored + m.n) % WordSize]
  BY DEF FillLast
<1> DEFINE m == FillTaken(a)
<1>2. /\ mixBuf' = m.buf /\ streamW' = m.w /\ read' = a.read /\ wcall' = NoCall
      /\ wst' = [off |-> m.off, k |-> m.k, left |-> m.left,
                 stored |-> (wst.stored + m.n) % WordSize] /\ wsong' = wsong
      /\ mixPos' = mixPos /\ lines' = lines /\ lastPlayed' = lastPlayed /\ frameDone' = frameDone
      /\ wcall.at = "last"
  BY <1>1 DEF FillLast, FillSlot, SameLine, InBlank
<1>3. /\ wcall \in SlotCalls /\ wcall.n \in Nat /\ Filling /\ wsong.state = "playing" /\ Busy
  <2>1. wcall \in SlotCalls /\ wsong.state = "playing"
    BY <1>2, CallIs DEF StreamInv
  <2>2. QED
    BY <1>2, <2>1 DEF SlotCalls, Filling, Busy
<1>4. wcall'.at = "none" /\ ~Filling' /\ ~Opening' /\ ~Starting' /\ ~ToFill'
  BY <1>2 DEF NoCall, Filling, Opening, Starting, ToFill
<1>5. /\ Ahead(mixPos, streamW) + One(frameDone) + 1 <= Top + One(lines = Field)
      /\ One(frameDone) \in 0 .. 1 /\ One(lines = Field) \in 0 .. 1
  <2>1. ToFill
    BY <1>3 DEF ToFill
  <2>2. QED
    BY <1>3, <2>1 DEF StreamInv, RoomInv, One
<1>6. Ahead(mixPos, streamW) < RingSize - 1 /\ Ahead(mixPos, streamW) \in Nat
  BY <1>5, StreamTyped, StreamConstants
<1>7. PICK d \in 0 .. 1 :
        Stored(m, a.read, mixPos, streamW, wst.left, wcall.n, lastPlayed, Told, d)
  BY <1>2, <1>6, FillStores
<1> HIDE DEF m
<1>8. /\ m.buf \in [Slots -> Nat] /\ m.w \in Slots /\ m.left \in Nat /\ m.k \in Nat
      /\ m.off \in BOOLEAN /\ a.read \in Reads
      /\ RingIs(m.buf, mixPos, m.w, lastPlayed, Told + d)
      /\ Ahead(mixPos, m.w) = Ahead(mixPos, streamW) + d
      /\ m.left = wst.left - d /\ m.n = wcall.n + d
      /\ (m.off => m.k = 0) /\ (~m.off => InStepAt(a.read, m.k, m.left, Told + d))
  BY <1>7 DEF Stored
<1>9. /\ wst'.stored \in 0 .. WordSize - 1 /\ Told' = Told + d /\ Since' = Since + d
      /\ SincePoll' = SincePoll + (wcall.n + d)
  <2>1. wst.left - d \in Nat /\ wst'.stored = (wst.stored + (wcall.n + d)) % WordSize
    BY <1>2, <1>8
  <2>2. wcall.n = (IF Filling THEN wcall.n ELSE 0)
    BY <1>3
  <2>3. QED
    BY <1>2, <1>3, <1>4, <2>1, <2>2, CountGoesOn
<1>10. /\ wst' \in [off : BOOLEAN, k : Nat, left : Nat, stored : 0 .. WordSize - 1]
       /\ (wst'.off <=> m.off) /\ wst'.k = m.k /\ wst'.left = m.left
  BY <1>2, <1>8, <1>9
<1>11. StreamTypes'
  <2>1. read' \in [open : BOOLEAN, place : Int, left : Nat, wait : Nat]
    BY <1>2, <1>8 DEF Reads
  <2>2. QED
    BY <1>2, <1>8, <1>10, <2>1 DEF StreamInv, StreamTypes, Slots
<1>12. CallOK'
  BY <1>2 DEF CallOK, NoCall
<1>13. ClockInv'
  BY <1>2, <1>3, <1>4 DEF ClockInv
<1>14. CountInv'
  <2>1. LeftIs(wst'.left, Told', Since')
    <3>1. LeftIs(wst.left - d, Told + d, Since + d)
      BY <1>3, <1>8, ToldIs, StreamTyped, LeftGoesOn
    <3>2. QED
      BY <1>8, <1>9, <1>10, <3>1
  <2>2. wsong'.state = "playing"
    BY <1>2, <1>3
  <2>3. QED
    BY <1>4, <2>1, <2>2 DEF CountInv
<1>15. ReadInv'
  <2>1. (NowOff' <=> m.off) /\ NowK' = m.k
    BY <1>4, <1>10 DEF NowOff, NowK
  <2>2. ~m.off => /\ read'.open /\ read'.left = m.k
                  /\ wst'.left > 0 => read'.place = DataOffset + Told'
    BY <1>2, <1>8, <1>9, <1>10 DEF InStepAt
  <2>3. QED
    BY <1>4, <2>1, <2>2 DEF ReadInv
<1>16. RingInv'
  <2>1. RingIs(mixBuf', mixPos', streamW', lastPlayed', Told')
    BY <1>2, <1>8, <1>9
  <2>2. QED
    BY <1>2, <1>3, <1>4, <2>1 DEF RingInv
<1>17. RoomInv'
  <2>1. /\ One(ToFill)' = 0 /\ One(frameDone)' = One(frameDone)
        /\ One(lines = Field)' = One(lines = Field)
        /\ Ahead(mixPos, streamW)' = Ahead(mixPos, streamW) + d /\ Top' = Top
    BY <1>2, <1>4, <1>8 DEF One, Field, Ahead, Top
  <2>2. Ahead(mixPos, streamW)' + One(frameDone)' + One(ToFill)' <= Top + One(lines = Field)'
    BY <1>5, <1>6, <2>1, StreamTyped, StreamConstants
  <2>3. QED
    BY <1>4, <2>1, <2>2 DEF RoomInv
<1>18. LateInv'
  <2>1. wcall.n + d <= FillRoom
    <3>1. wcall.n + lines <= Ahead(mixPos, streamW) + Field /\ lines >= FrameLines
      BY <1>3 DEF StreamInv, LateInv, ClockInv
    <3>2. One(lines = Field) = 1 => lines = Field
      BY DEF One
    <3>3. QED
      BY <1>3, <1>5, <1>6, <3>1, <3>2, UnpolledIs, StreamTyped, StreamConstants
  <2>2. Unpolled' \in Nat /\ Unpolled' <= Unpolled
    <3>1. Unpolled' = SincePoll' + 0
      <4>1. (wcall.at = "fill" \/ Filling)' <=> FALSE
        BY <1>4
      <4>2. QED
        BY <4>1 DEF Unpolled
    <3>2. Unpolled = SincePoll + FillRoom
      BY <1>3, UnpolledIs
    <3>3. SincePoll \in Nat
      BY UnpolledIs
    <3> HIDE DEF SincePoll, Unpolled
    <3>4. QED
      BY <1>3, <1>9, <2>1, <3>1, <3>2, <3>3, UnpolledIs
  <2>3. Busy /\ (~NowOff' => ~NowOff)
    <3>1. NowOff' <=> m.off
      BY <1>4, <1>10 DEF NowOff
    <3>2. wcall.off => m.off
      BY DEF m, FillTaken, Taken
    <3>3. QED
      BY <1>3, <3>1, <3>2 DEF NowOff
  <2> HIDE DEF Unpolled
  <2>4. QED
    BY <1>2, <1>4, <2>2, <2>3, LateKept
<1>19. QED
  BY <1>11, <1>12, <1>13, <1>14, <1>15, <1>16, <1>17, <1>18 DEF StreamInv

(* A step that only moves the program, or the card, leaves the ring alone. *)
Leaves ==
  /\ mixBuf' = mixBuf /\ mixPos' = mixPos /\ streamW' = streamW /\ lines' = lines
  /\ lastPlayed' = lastPlayed /\ frameDone' = frameDone

(* Then the ring is what it was, and has the room it had.                  *)
LEMMA RingLeft ==
  ASSUME StreamInv, Leaves, Busy' <=> Busy, Busy => Told' = Told, Starting' => Starting,
         wsong'.state = "done" => wsong.state = "done",
         ToFill' => ToFill, wcall'.at # "slots"
  PROVE  RingInv' /\ RoomInv'
<1>1. RingInv'
  BY DEF Leaves, StreamInv, RingInv
<1>2. RoomInv'
  <2>1. SUFFICES ASSUME Busy
                 PROVE  Ahead(mixPos, streamW) + One(frameDone) + One(ToFill)'
                          <= Top + One(lines = Field)
    BY DEF Leaves, RoomInv, One, Ahead, Top, Field
  <2>2. Ahead(mixPos, streamW) + One(frameDone) + One(ToFill) <= Top + One(lines = Field)
    BY <2>1 DEF StreamInv, RoomInv
  <2>3. One(ToFill)' <= One(ToFill) /\ One(ToFill) \in 0 .. 1 /\ One(ToFill)' \in 0 .. 1
        /\ One(frameDone) \in 0 .. 1 /\ One(lines = Field) \in 0 .. 1
    BY DEF One
  <2>4. QED
    BY <2>2, <2>3, StreamTyped, StreamConstants
<1>3. QED
  BY <1>1, <1>2

(* The song's place in its sector.                                         *)
LEMMA SkipIs ==
  ASSUME StreamInv
  PROVE  Due \in Nat /\ Skip \in Nat /\ Skip < SectSize /\ AfterToken - Skip \in Nat
         /\ AfterToken \in Nat
<1>1. Due \in Nat /\ DataOffset + Due \in Nat
  BY StreamTyped, StreamConstants DEF Due
<1>2. Skip \in 0 .. SectSize - 1
  BY <1>1, StreamConstants DEF Skip
<1>3. QED
  BY <1>1, <1>2, StreamConstants DEF AfterToken, CRC

(* A card that answers no more is closed, and the program told.            *)
LEMMA OpenFailsKeeps ==
  ASSUME StreamInv, Opening, Leaves, wst' = wst, wsong' = wsong, OpenFails(Closed(read))
  PROVE  StreamInv'
<1>1. wcall' = [at |-> "end", then |-> "failed"] /\ read' = Closed(read) /\ wsong' = wsong
      /\ wst' = wst /\ Leaves
  BY DEF OpenFails
<1>2. /\ ~Filling /\ wcall \in OpenCalls /\ (wcall.restart => wsong.state = "playing")
      /\ (~wcall.restart => wsong.state = "idle") /\ wst.off /\ wcall.restart \in BOOLEAN
  <2>1. ~Filling
    BY DEF Opening, Filling
  <2>2. QED
    BY <2>1, CallIs DEF StreamInv, ClockInv, OpenCalls
<1>3. Busy' <=> Busy
  BY DEF Busy
<1>4. /\ wcall' \in EndCalls /\ wcall'.at = "end" /\ wcall'.then = "failed"
  BY <1>1 DEF EndCalls
<1>5. read' \in [open : BOOLEAN, place : Int, left : Nat, wait : Nat]
  BY <1>1 DEF Closed, StreamInv, StreamTypes
<1>6. ~Opening' /\ ~Filling' /\ ~Starting' /\ ~ToFill'
  BY <1>4 DEF Opening, Filling, Starting, ToFill
<1>7. Told' = Told /\ Since' = Since
  BY <1>1, <1>2, <1>6 DEF Told, Since, StoredSoFar, SincePoll
<1>8. StreamTypes'
  BY <1>1, <1>5 DEF Leaves, StreamInv, StreamTypes
<1>9. CallOK'
  BY <1>1, <1>2, <1>4 DEF CallOK
<1>10. ClockInv'
  BY <1>1, <1>2, <1>6 DEF ClockInv
<1>11. CountInv'
  BY <1>1, <1>2, <1>3, <1>4, <1>6, <1>7 DEF StreamInv, CountInv, LeftIs
<1>12. ReadInv'
  <2>1. NowOff'
    BY <1>1, <1>2, <1>6 DEF NowOff
  <2>2. QED
    BY <1>4, <1>6, <2>1 DEF ReadInv
<1>13. RingInv' /\ RoomInv'
  BY <1>1, <1>3, <1>4, <1>6, <1>7, RingLeft
<1>14. LateInv'
  BY <1>1, <1>2, <1>6 DEF LateInv, NowOff
<1>15. QED
  BY <1>8, <1>9, <1>10, <1>11, <1>12, <1>13, <1>14 DEF StreamInv

(* The command.                                                            *)
LEMMA OpenCommandKeeps ==
  ASSUME StreamInv, OpenCommand
  PROVE  StreamInv'
<1>1. /\ wcall.at = "open" /\ Leaves /\ wst' = wst /\ wsong' = wsong
      /\ \/ /\ \E n \in 0 .. Latency :
                 read' = [open |-> TRUE, place |-> DataOffset + Due - Skip, left |-> 0, wait |-> n]
            /\ wcall' = [wcall EXCEPT !.at = "token"]
         \/ wcall' = [at |-> "end", then |-> "failed"] /\ read' = Closed(read)
  BY DEF OpenCommand, InBlank, SameLine, Leaves, OpenFails
<1>2. /\ Opening /\ ~Filling /\ wcall \in OpenCalls /\ wcall.restart \in BOOLEAN
      /\ (wcall.restart => wsong.state = "playing")
      /\ (~wcall.restart => wsong.state = "idle") /\ wst.off
  <2>1. Opening /\ ~Filling
    BY <1>1 DEF Opening, Filling
  <2>2. QED
    BY <2>1, CallIs DEF StreamInv, ClockInv, OpenCalls
<1>3. (Busy' <=> Busy)
  BY <1>1 DEF Busy
<1>4. CASE /\ \E n \in 0 .. Latency :
                read' = [open |-> TRUE, place |-> DataOffset + Due - Skip, left |-> 0, wait |-> n]
           /\ wcall' = [wcall EXCEPT !.at = "token"]
  <2>1. /\ wcall' \in OpenCalls /\ wcall'.at = "token" /\ wcall'.restart = wcall.restart
    BY <1>2, <1>4 DEF OpenCalls
  <2>2. /\ read'.open /\ read'.place = DataOffset + Due - Skip
        /\ read' \in [open : BOOLEAN, place : Int, left : Nat, wait : Nat]
    BY <1>4, SkipIs, StreamConstants
  <2>3. Opening' /\ ~Filling' /\ (Starting' <=> Starting) /\ ToFill
    BY <1>2, <2>1 DEF Opening, Filling, Starting, ToFill
  <2>4. Told' = Told /\ Since' = Since
    BY <1>1, <1>2, <2>3 DEF Told, Since, StoredSoFar, SincePoll
  <2>5. StreamTypes'
    BY <1>1, <2>2 DEF Leaves, StreamInv, StreamTypes
  <2>6. CallOK'
    BY <1>1, <1>2, <2>1 DEF CallOK
  <2>7. ClockInv'
    BY <1>1, <1>2, <2>3 DEF ClockInv
  <2>8. CountInv'
    BY <1>1, <1>2, <1>3, <2>1, <2>3, <2>4 DEF Leaves, StreamInv, CountInv, LeftIs
  <2>9. ReadInv'
    <3>1. NowOff'
      BY <1>1, <1>2, <2>3 DEF NowOff
    <3>2. Due' = Due /\ Skip' = Skip
      BY <1>1 DEF Due, Skip
    <3>3. QED
      BY <2>1, <2>2, <2>3, <3>1, <3>2 DEF ReadInv
  <2>10. RingInv' /\ RoomInv'
    BY <1>1, <1>3, <2>1, <2>3, <2>4, RingLeft
  <2>11. LateInv'
    BY <1>1, <1>2, <2>3 DEF LateInv, NowOff
  <2>12. QED
    BY <2>5, <2>6, <2>7, <2>8, <2>9, <2>10, <2>11 DEF StreamInv
<1>5. CASE wcall' = [at |-> "end", then |-> "failed"] /\ read' = Closed(read)
  BY <1>1, <1>2, <1>5, OpenFailsKeeps DEF OpenFails
<1>6. QED
  BY <1>1, <1>4, <1>5

(* The token, and the bytes of the sector before the sample.               *)
LEMMA OpenTokenKeeps ==
  ASSUME StreamInv, OpenToken
  PROVE  StreamInv'
<1>1. /\ wcall.at = "token" /\ Leaves /\ wst' = wst /\ wsong' = wsong
      /\ \/ /\ read' = [read EXCEPT !.place = @ + Skip, !.left = AfterToken - Skip, !.wait = 0]
            /\ wcall' = [wcall EXCEPT !.at = "opened"]
         \/ OpenFails(Closed(read))
  BY DEF OpenToken, InBlank, SameLine, Leaves
<1>2. /\ Opening /\ ~Filling /\ wcall \in OpenCalls /\ wcall.restart \in BOOLEAN
      /\ (wcall.restart => wsong.state = "playing")
      /\ (~wcall.restart => wsong.state = "idle") /\ wst.off
  <2>1. Opening /\ ~Filling
    BY <1>1 DEF Opening, Filling
  <2>2. QED
    BY <2>1, CallIs DEF StreamInv, ClockInv, OpenCalls
<1>3. (Busy' <=> Busy)
  BY <1>1 DEF Busy
<1>4. CASE /\ read' = [read EXCEPT !.place = @ + Skip, !.left = AfterToken - Skip, !.wait = 0]
           /\ wcall' = [wcall EXCEPT !.at = "opened"]
  <2>1. /\ wcall' \in OpenCalls /\ wcall'.at = "opened" /\ wcall'.restart = wcall.restart
    BY <1>2, <1>4 DEF OpenCalls
  <2>2. /\ read'.open /\ read'.place = DataOffset + Due /\ read'.left = AfterToken - Skip
        /\ read' \in [open : BOOLEAN, place : Int, left : Nat, wait : Nat]
    <3>1. read.open /\ read.place = DataOffset + Due - Skip /\ read \in Reads
      BY <1>1, StreamTyped DEF StreamInv, ReadInv
    <3>2. read.place + Skip = DataOffset + Due /\ AfterToken - Skip \in Nat
          /\ read.place + Skip \in Int
      BY <3>1, SkipIs, StreamConstants
    <3> DEFINE first == [read EXCEPT !.place = read.place + Skip]
    <3>3. first \in Reads /\ first.place = DataOffset + Due /\ first.open
      BY <3>1, <3>2 DEF Reads
    <3>4. read' = [first EXCEPT !.left = AfterToken - Skip, !.wait = 0]
      BY <1>4, <3>1 DEF Reads
    <3> HIDE DEF first
    <3>5. QED
      BY <3>2, <3>3, <3>4 DEF Reads
  <2>3. Opening' /\ ~Filling' /\ (Starting' <=> Starting) /\ ToFill
    BY <1>2, <2>1 DEF Opening, Filling, Starting, ToFill
  <2>4. Told' = Told /\ Since' = Since
    BY <1>1, <1>2, <2>3 DEF Told, Since, StoredSoFar, SincePoll
  <2>5. StreamTypes'
    BY <1>1, <2>2 DEF Leaves, StreamInv, StreamTypes
  <2>6. CallOK'
    BY <1>1, <1>2, <2>1 DEF CallOK
  <2>7. ClockInv'
    BY <1>1, <1>2, <2>3 DEF ClockInv
  <2>8. CountInv'
    BY <1>1, <1>2, <1>3, <2>1, <2>3, <2>4 DEF Leaves, StreamInv, CountInv, LeftIs
  <2>9. ReadInv'
    <3>1. NowOff'
      BY <1>1, <1>2, <2>3 DEF NowOff
    <3>2. Due' = Due /\ Skip' = Skip /\ AfterToken' = AfterToken
      BY <1>1 DEF Due, Skip, AfterToken
    <3>3. QED
      BY <2>1, <2>2, <2>3, <3>1, <3>2 DEF ReadInv
  <2>10. RingInv' /\ RoomInv'
    BY <1>1, <1>3, <2>1, <2>3, <2>4, RingLeft
  <2>11. LateInv'
    BY <1>1, <1>2, <2>3 DEF LateInv, NowOff
  <2>12. QED
    BY <2>5, <2>6, <2>7, <2>8, <2>9, <2>10, <2>11 DEF StreamInv
<1>5. CASE OpenFails(Closed(read))
  BY <1>1, <1>2, <1>5, OpenFailsKeeps
<1>6. QED
  BY <1>1, <1>4, <1>5

(* A slot n after another is n ahead of it.                                *)
LEMMA SlotAhead ==
  ASSUME NEW p \in Slots, NEW n \in Nat, n < RingSize
  PROVE  Slot(p, n) \in Slots /\ Ahead(p, Slot(p, n)) = n
<1>1. RingSize \in Nat /\ RingSize > 1 /\ p \in Int /\ p >= 0 /\ p < RingSize
  BY StreamConstants DEF Slots
<1>2. p + n \in Int /\ p + n >= 0 - RingSize /\ p + n < 2 * RingSize
  BY <1>1
<1>3. (p + n) % RingSize = IF p + n < 0 THEN (p + n) + RingSize
                           ELSE IF p + n < RingSize THEN p + n ELSE (p + n) - RingSize
  BY <1>1, <1>2, Remainders
<1>4. QED
  BY <1>1, <1>3 DEF Slot, Ahead, Slots

(* A count of samples as the code's word holds it.                         *)
LEMMA CappedIs ==
  ASSUME NEW n \in Nat
  PROVE  /\ Capped(n) \in Nat /\ n % WordSize \in Nat /\ 0 + Capped(n) < WordSize
         /\ Capped(n) = n \/ (Capped(n) < n /\ 0 + Capped(n) = WordSize - 1)
         /\ (Capped(n) > 0 => n > 0)
<1>1. WordSize \in Nat /\ WordSize > 1
  BY StreamConstants
<1>2. n % WordSize \in Nat
  BY <1>1
<1>3. QED
  BY <1>1, <1>2 DEF Capped

(* What is left after a poll, or when a song begins.                       *)
LEMMA LeftNow ==
  ASSUME NEW told \in Nat, SongLength - told \in Nat
  PROVE  LeftIs(Capped(SongLength - told), told, 0)
<1>1. /\ 0 + Capped(SongLength - told) < WordSize
      /\ \/ Capped(SongLength - told) = SongLength - told
         \/ /\ Capped(SongLength - told) < SongLength - told
            /\ 0 + Capped(SongLength - told) = WordSize - 1
  BY CappedIs
<1>2. QED
  BY <1>1 DEF LeftIs

(* After a poll the word has room for the fill and for a frame.            *)
LEMMA PollRoom ==
  ASSUME StreamInv, SincePoll' = 0, lines' = lines
  PROVE  Unpolled' + (IF lines' <= FrameLines THEN lines' ELSE 0) < WordSize - 1
<1>1. FillRoom' = FillRoom /\ FillRoom \in Nat /\ FillRoom = FillMax + Batch + 1 + BlankLines
  BY UnpolledIs DEF FillRoom
<1> HIDE DEF SincePoll, FillRoom
<1>2. Unpolled' = FillRoom \/ Unpolled' = 0
  BY <1>1 DEF Unpolled
<1> HIDE DEF Unpolled
<1>3. QED
  BY <1>1, <1>2, StreamTyped, StreamConstants

(* The read is open: the stream goes on, or begins a margin ahead.         *)
LEMMA OpenedKeeps ==
  ASSUME StreamInv, Opened
  PROVE  StreamInv'
<1>1. /\ wcall.at = "opened" /\ mixBuf' = mixBuf /\ mixPos' = mixPos /\ lines' = lines
      /\ lastPlayed' = lastPlayed /\ frameDone' = frameDone /\ read' = read
      /\ IF wcall.restart
         THEN /\ wst' = [wst EXCEPT !.k = AfterToken - Skip, !.off = FALSE]
              /\ wcall' = [at |-> "fill", max |-> Capped(Want)]
              /\ streamW' = streamW /\ wsong' = wsong
         ELSE /\ wst' = [wst EXCEPT !.k = AfterToken - Skip, !.off = FALSE, !.left = Capped(Want)]
              /\ wcall' = [at |-> "fill", max |-> Want % WordSize]
              /\ streamW' = Slot(mixPos, Margin)
              /\ wsong' = [wsong EXCEPT !.state = "playing", !.s16 = wst.stored]
  BY DEF Opened, InBlank, SameLine
<1>2. /\ Opening /\ ~Filling /\ wcall.restart \in BOOLEAN
      /\ (wcall.restart => wsong.state = "playing")
      /\ (~wcall.restart => wsong.state = "idle")
  <2>1. Opening /\ ~Filling
    BY <1>1 DEF Opening, Filling
  <2>2. QED
    BY <2>1, CallIs DEF StreamInv, OpenCalls
<1>3. Want \in Int /\ Due \in Nat /\ AfterToken - Skip \in Nat
  BY SkipIs, StreamConstants DEF Want
<1>4. wcall' \in [at : {"fill"}, max : Int] /\ wcall'.at = "fill"
  <2>1. Capped(Want) \in Int /\ Want % WordSize \in Int
    BY <1>3, StreamConstants DEF Capped
  <2>2. \/ wcall' = [at |-> "fill", max |-> Capped(Want)]
        \/ wcall' = [at |-> "fill", max |-> Want % WordSize]
    BY <1>1
  <2>3. QED
    BY <2>1, <2>2
<1>5. ~Opening' /\ ~Filling' /\ ~Starting' /\ ToFill' /\ ToFill
  BY <1>2, <1>4 DEF Opening, Filling, Starting, ToFill
<1>6. read.open /\ read.place = DataOffset + Due /\ read.left = AfterToken - Skip
  BY <1>1 DEF StreamInv, ReadInv
<1>7. wst.stored \in 0 .. WordSize - 1 /\ wst.left \in Nat /\ wsong.from \in 0 .. SongLength
  BY DEF StreamInv, StreamTypes
<1>8. (wst.stored - wst.stored) % WordSize = 0
  BY <1>7, WordCount
<1>9. /\ wst' \in [off : BOOLEAN, k : Nat, left : Nat, stored : 0 .. WordSize - 1]
      /\ ~wst'.off /\ wst'.k = AfterToken - Skip /\ wst'.stored = wst.stored
      /\ LeftIs(wst'.left, Due, 0)
      /\ wsong'.state = "playing" /\ wsong'.s16 = wst.stored
      /\ wsong'.from = wsong.from /\ wsong'.stored = wsong.stored
      /\ wsong' \in [state : States, from : 0 .. SongLength, stored : Nat, s16 : 0 .. WordSize - 1]
      /\ streamW' \in Slots
      /\ RingIs(mixBuf, mixPos, streamW', lastPlayed, Due)
      /\ Ahead(mixPos, streamW') + One(frameDone) + 1 <= Top + One(lines = Field)
  <2>1. CASE wcall.restart
    <3>1. /\ wst' = [wst EXCEPT !.k = AfterToken - Skip, !.off = FALSE] /\ wsong' = wsong
          /\ streamW' = streamW /\ Busy /\ wst.stored = wsong.s16 /\ wsong.state = "playing"
      BY <1>1, <1>2, <2>1 DEF Busy, StreamInv, CountInv
    <3>2. Told = Due /\ Since = 0
      <4>1. SincePoll = 0
        BY <1>8, <3>1 DEF SincePoll
      <4>2. Told = wsong.from + (wsong.stored + 0 + 0) /\ Since = 0 + 0
        BY <1>2, <4>1 DEF Told, Since, StoredSoFar
      <4>3. QED
        BY <4>2, StreamTyped DEF Due
    <3>3. LeftIs(wst.left, Due, 0)
      BY <3>1, <3>2, ToldIs
    <3>4. RingIs(mixBuf, mixPos, streamW, lastPlayed, Due)
      BY <3>1, <3>2 DEF StreamInv, RingInv
    <3>5. Ahead(mixPos, streamW) + One(frameDone) + 1 <= Top + One(lines = Field)
      <4>1. One(ToFill) = 1
        BY <1>5 DEF One
      <4>2. QED
        BY <3>1, <4>1 DEF StreamInv, RoomInv
    <3>6. QED
      BY <1>3, <3>1, <3>3, <3>4, <3>5 DEF StreamInv, StreamTypes
  <2>2. CASE ~wcall.restart
    <3>1. /\ wst' = [wst EXCEPT !.k = AfterToken - Skip, !.off = FALSE, !.left = Capped(Want)]
          /\ streamW' = Slot(mixPos, Margin)
          /\ wsong' = [wsong EXCEPT !.state = "playing", !.s16 = wst.stored]
          /\ wsong.stored = 0 /\ lastPlayed = wsong.from /\ mixPos = streamW
          /\ RingIs(mixBuf, mixPos, streamW, lastPlayed, lastPlayed)
      BY <1>1, <1>2, <2>2 DEF Starting, StreamInv, CountInv, RingInv
    <3>2. Due = lastPlayed /\ Want \in Nat /\ Want = SongLength - Due
      BY <1>7, <3>1, StreamConstants DEF Due, Want
    <3>3. Margin < RingSize
      BY StreamConstants
    <3>4. streamW' \in Slots /\ Ahead(mixPos, streamW') = Margin
      BY <3>1, <3>3, SlotAhead, StreamTyped, StreamConstants
    <3>5. \A s \in Slots : mixBuf[s] = Silence
      <4>1. RingSize \in Nat /\ mixPos \in 0 .. RingSize - 1
        BY StreamTyped, StreamConstants DEF Slots
      <4>2. Ahead(mixPos, streamW) = 0
        BY <3>1, <4>1 DEF Ahead
      <4>3. \A s \in 0 .. RingSize - 1 : ~(Ahead(mixPos, s) < 0)
        BY <4>1 DEF Ahead
      <4>4. QED
        BY <3>1, <4>2, <4>3 DEF RingIs, Slots
    <3>6. RingIs(mixBuf, mixPos, streamW', lastPlayed, lastPlayed)
      BY <3>4, <3>5, RingSilent, StreamTyped
    <3>7. Ahead(mixPos, streamW') + One(frameDone) + 1 <= Top + One(lines = Field)
      <4>1. One(frameDone) \in 0 .. 1 /\ One(lines = Field) \in 0 .. 1
        BY DEF One
      <4>2. QED
        BY <3>4, <4>1, StreamTyped, StreamConstants
    <3>8. /\ wst' \in [off : BOOLEAN, k : Nat, left : Nat, stored : 0 .. WordSize - 1]
          /\ ~wst'.off /\ wst'.k = AfterToken - Skip /\ wst'.stored = wst.stored
          /\ wst'.left = Capped(Want)
      <4> DEFINE first == [wst EXCEPT !.k = AfterToken - Skip, !.off = FALSE]
      <4>1. /\ first \in [off : BOOLEAN, k : Nat, left : Nat, stored : 0 .. WordSize - 1]
            /\ ~first.off /\ first.k = AfterToken - Skip /\ first.stored = wst.stored
        BY <1>3 DEF StreamInv, StreamTypes
      <4>2. wst' = [first EXCEPT !.left = Capped(Want)]
        BY <3>1 DEF StreamInv, StreamTypes
      <4> HIDE DEF first
      <4>3. Capped(Want) \in Nat
        BY <3>2, CappedIs
      <4> HIDE DEF Capped
      <4>4. QED
        BY <4>1, <4>2, <4>3
    <3>9. /\ wsong'.state = "playing" /\ wsong'.s16 = wst.stored
          /\ wsong'.from = wsong.from /\ wsong'.stored = wsong.stored
          /\ wsong' \in [state : States, from : 0 .. SongLength, stored : Nat, s16 : 0 .. WordSize - 1]
      BY <1>7, <3>1 DEF StreamInv, StreamTypes, States
    <3>10. LeftIs(Capped(Want), Due, 0)
      BY <1>3, <3>2, LeftNow
    <3>11. QED
      BY <3>2, <3>4, <3>6, <3>7, <3>8, <3>9, <3>10
  <2>3. QED
    BY <1>2, <2>1, <2>2
<1>10. Told' = Due /\ Since' = 0 /\ SincePoll' = 0
  <2>1. SincePoll' = 0
    BY <1>8, <1>9 DEF SincePoll
  <2>2. Told' = wsong.from + (wsong.stored + 0 + 0) /\ Since' = 0 + 0
    BY <1>5, <1>9, <2>1 DEF Told, Since, StoredSoFar
  <2>3. QED
    BY <2>1, <2>2, StreamTyped DEF Due
<1>11. StreamTypes'
  BY <1>1, <1>9 DEF StreamInv, StreamTypes, Slots
<1>12. CallOK'
  BY <1>4, <1>9 DEF CallOK
<1>13. ClockInv'
  BY <1>4, <1>5, <1>9 DEF ClockInv
<1>14. CountInv'
  <2>1. LeftIs(wst.left, Told, Since)'
    BY <1>9, <1>10 DEF LeftIs
  <2>2. QED
    BY <1>4, <1>5, <1>9, <2>1 DEF CountInv
<1>15. ReadInv'
  <2>1. ~NowOff' /\ NowK' = AfterToken - Skip
    BY <1>5, <1>9 DEF NowOff, NowK
  <2>2. QED
    BY <1>1, <1>4, <1>6, <1>10, <2>1 DEF ReadInv
<1>16. RingInv'
  BY <1>1, <1>5, <1>9, <1>10 DEF RingInv
<1>17. RoomInv'
  <2>1. One(ToFill)' = 1
    BY <1>5 DEF One
  <2>2. /\ One(frameDone)' = One(frameDone) /\ One(lines = Field)' = One(lines = Field)
        /\ Ahead(mixPos, streamW)' = Ahead(mixPos, streamW') /\ Top' = Top
    BY <1>1 DEF One, Field, Ahead, Top
  <2>3. QED
    BY <1>4, <1>9, <2>1, <2>2 DEF RoomInv
<1>18. LateInv'
  BY <1>1, <1>5, <1>10, PollRoom DEF LateInv
<1>19. QED
  BY <1>11, <1>12, <1>13, <1>14, <1>15, <1>16, <1>17, <1>18 DEF StreamInv

(* A start: the ring is silent and the stream off.                         *)
LEMMA WstStartKeeps ==
  ASSUME StreamInv, NEW from \in Froms, WstStart(from)
  PROVE  StreamInv'
<1>1. /\ wcall.at = "none" /\ lastPlayed' = from /\ streamW' = mixPos /\ frameDone' = FALSE
      /\ wsong' = [state |-> "idle", from |-> from, stored |-> 0, s16 |-> 0]
      /\ mixBuf' = [i \in 0 .. RingSize - 1 |-> Silence]
      /\ wst' = [wst EXCEPT !.off = TRUE, !.k = 0]
      /\ wcall' = [at |-> "open", restart |-> FALSE]
      /\ mixPos' = mixPos /\ lines' = lines /\ read' = read
  BY DEF WstStart, InBlank
<1>2. from \in 0 .. SongLength /\ from \in Nat /\ 0 \in 0 .. WordSize - 1
  BY StreamConstants
<1>3. /\ wsong' \in [state : States, from : 0 .. SongLength, stored : Nat, s16 : 0 .. WordSize - 1]
      /\ wsong'.state = "idle" /\ wsong'.from = from /\ wsong'.stored = 0 /\ ~Busy'
  BY <1>1, <1>2 DEF States, Busy
<1>4. wcall' \in OpenCalls /\ wcall'.at = "open" /\ ~wcall'.restart
  BY <1>1 DEF OpenCalls
<1>5. /\ wst' \in [off : BOOLEAN, k : Nat, left : Nat, stored : 0 .. WordSize - 1] /\ wst'.off
  BY <1>1 DEF StreamInv, StreamTypes
<1>6. ~Filling'
  BY <1>4 DEF Filling
<1>7. mixBuf' \in [Slots -> Nat] /\ \A s \in Slots : mixBuf'[s] = Silence
  BY <1>1 DEF Slots, Silence
<1>8. RingIs(mixBuf', mixPos', streamW', lastPlayed', lastPlayed')
  BY <1>1, <1>2, <1>7, RingSilent, StreamTyped
<1>9. StreamTypes'
  BY <1>1, <1>2, <1>3, <1>5, <1>7 DEF StreamInv, StreamTypes, Slots
<1>10. CallOK'
  BY <1>3, <1>4 DEF CallOK
<1>11. ClockInv'
  BY <1>5, <1>6 DEF ClockInv
<1>12. CountInv'
  BY <1>1, <1>3, <1>4 DEF CountInv, Starting
<1>13. ReadInv'
  BY <1>4, <1>5, <1>6 DEF ReadInv, NowOff
<1>14. RingInv'
  BY <1>3, <1>8 DEF RingInv
<1>15. RoomInv'
  BY <1>3 DEF RoomInv
<1>16. LateInv'
  BY <1>3, <1>6 DEF LateInv
<1>17. QED
  BY <1>9, <1>10, <1>11, <1>12, <1>13, <1>14, <1>15, <1>16 DEF StreamInv

(* A poll takes the count over, and goes on with what is to be done.       *)
LEMMA WstPollKeeps ==
  ASSUME StreamInv, WstPoll
  PROVE  StreamInv'
<1> DEFINE want == SongLength - Counted.from - Counted.stored
<1>1. /\ wcall.at = "none" /\ Busy /\ frameDone /\ frameDone' = FALSE
      /\ wst' = [wst EXCEPT !.left = Capped(want)]
      /\ mixBuf' = mixBuf /\ mixPos' = mixPos /\ streamW' = streamW /\ lines' = lines
      /\ read' = read /\ lastPlayed' = lastPlayed
      /\ IF wsong.state = "ending"
         THEN /\ wsong' = [Counted EXCEPT !.state = IF Ended THEN "done" ELSE @]
              /\ wcall' = wcall
         ELSE /\ wsong' = Counted
              /\ wcall' = IF want <= 0 THEN [at |-> "song end", extra |-> -want]
                          ELSE IF wst.off THEN [at |-> "open", restart |-> TRUE]
                          ELSE [at |-> "fill", max |-> Capped(want)]
  BY DEF WstPoll, InBlank
<1>2. ~Filling /\ ~Opening /\ ~ToFill
  BY <1>1 DEF Filling, Opening, ToFill
<1>3. /\ wst.stored \in 0 .. WordSize - 1 /\ SincePoll \in Nat
      /\ wsong.stored \in Nat /\ wsong.from \in Nat
      /\ wsong \in [state : States, from : 0 .. SongLength, stored : Nat, s16 : 0 .. WordSize - 1]
  BY ToldIs, StreamTyped, StreamConstants DEF StreamInv, StreamTypes
<1>4. /\ Counted \in [state : States, from : 0 .. SongLength, stored : Nat, s16 : 0 .. WordSize - 1]
      /\ Counted.from = wsong.from /\ Counted.stored = wsong.stored + SincePoll
      /\ Counted.s16 = wst.stored /\ Counted.state = wsong.state
  <2> HIDE DEF SincePoll
  <2>1. wsong.stored + SincePoll \in Nat
    BY <1>3
  <2>2. QED
    BY <1>3, <2>1 DEF Counted
<1>5. /\ Told = Counted.from + Counted.stored /\ want = SongLength - Told /\ want \in Nat
      /\ Since = SincePoll
  <2>1. Told = wsong.from + (wsong.stored + SincePoll + 0)
    BY <1>2 DEF Told, StoredSoFar
  <2>2. SongLength - Told \in Nat
    <3>1. wst.left <= SongLength - Told /\ wst.left \in Nat /\ Told \in Nat
      BY <1>1, ToldIs, StreamTyped
    <3>2. QED
      BY <3>1, StreamConstants
  <2>3. Told = Counted.from + Counted.stored
    BY <1>3, <1>4, <2>1
  <2> DEFINE f == Counted.from
             c == Counted.stored
  <2>4. f \in Nat /\ c \in Nat /\ Told = f + c /\ want = SongLength - f - c
    BY <1>3, <1>4, <2>3
  <2> HIDE DEF f, c
  <2>5. want = SongLength - Told
    BY <2>4, StreamConstants
  <2>6. Since = SincePoll
    <3> HIDE DEF SincePoll
    <3>1. QED
      BY <1>2, <1>3 DEF Since
  <2>7. QED
    BY <2>2, <2>3, <2>5, <2>6, StreamTyped
<1> HIDE DEF want
<1>6. /\ wst' \in [off : BOOLEAN, k : Nat, left : Nat, stored : 0 .. WordSize - 1]
      /\ wst'.off = wst.off /\ wst'.k = wst.k /\ wst'.stored = wst.stored
      /\ wst'.left = Capped(want) /\ Capped(want) \in Nat
  <2>1. Capped(want) \in Nat
    BY <1>5, CappedIs
  <2>2. QED
    BY <1>1, <2>1 DEF StreamInv, StreamTypes
<1>7. /\ wsong' \in [state : States, from : 0 .. SongLength, stored : Nat, s16 : 0 .. WordSize - 1]
      /\ wsong'.from = Counted.from /\ wsong'.stored = Counted.stored /\ wsong'.s16 = wst.stored
      /\ wsong.state # "ending" => wsong'.state = "playing" /\ wsong.state = "playing"
      /\ wsong.state = "ending" => wsong'.state = IF Ended THEN "done" ELSE "ending"
  <2>1. CASE wsong.state = "ending"
    BY <1>1, <1>4, <2>1 DEF States
  <2>2. CASE wsong.state # "ending"
    BY <1>1, <1>4, <2>2 DEF Busy
  <2>3. QED
    BY <2>1, <2>2
<1>8. \/ wcall' = NoCall /\ wsong.state = "ending"
      \/ /\ wcall' = [at |-> "song end", extra |-> 0] /\ want = 0
         /\ wsong.state = "playing"
      \/ /\ wcall' = [at |-> "open", restart |-> TRUE] /\ wst.off
         /\ wsong.state = "playing"
      \/ wcall' = [at |-> "fill", max |-> Capped(want)] /\ wsong.state = "playing"
  <2>1. CASE wsong.state = "ending"
    <3>1. wcall = NoCall
      BY <1>1 DEF StreamInv, CallOK, OpenCalls, EnteredCalls, SlotCalls, EndCalls
    <3>2. QED
      BY <1>1, <2>1, <3>1
  <2>2. CASE wsong.state # "ending"
    <3>1. want <= 0 => want = 0 /\ -want = 0
      BY <1>5
    <3>2. QED
      BY <1>1, <2>2, <3>1 DEF Busy
  <2>3. QED
    BY <2>1, <2>2
<1>9. ~Filling' /\ ~Starting' /\ wcall'.at # "slots" /\ wcall'.at # "end"
      /\ wcall'.at # "token" /\ wcall'.at # "opened"
      /\ (Opening' => wcall'.restart /\ wst.off)
      /\ (wcall'.at = "song end" => want = 0)
  <2>1. CASE wcall' = NoCall /\ wsong.state = "ending"
    BY <2>1 DEF NoCall, Filling, Starting, Opening
  <2>2. CASE /\ wcall' = [at |-> "song end", extra |-> 0] /\ want = 0
             /\ wsong.state = "playing"
    BY <2>2 DEF Filling, Starting, Opening
  <2>3. CASE /\ wcall' = [at |-> "open", restart |-> TRUE] /\ wst.off
             /\ wsong.state = "playing"
    BY <2>3 DEF Filling, Starting, Opening
  <2>4. CASE wcall' = [at |-> "fill", max |-> Capped(want)] /\ wsong.state = "playing"
    BY <2>4 DEF Filling, Starting, Opening
  <2>5. QED
    BY <1>8, <2>1, <2>2, <2>3, <2>4
<1>10. Told' = Told /\ Since' = 0 /\ SincePoll' = 0
  <2>1. (wst.stored - wst.stored) % WordSize = 0
    BY <1>3, WordCount
  <2>2. SincePoll' = 0
    BY <1>6, <1>7, <2>1 DEF SincePoll
  <2>3. Told' = Counted.from + (Counted.stored + 0 + 0) /\ Since' = 0 + 0
    BY <1>7, <1>9, <2>2 DEF Told, Since, StoredSoFar
  <2>4. Counted.from \in Nat /\ Counted.stored \in Nat
    BY <1>3, <1>4
  <2>5. QED
    BY <1>5, <2>2, <2>3, <2>4
<1>11. StreamTypes'
  BY <1>1, <1>6, <1>7 DEF StreamInv, StreamTypes
<1>12. CallOK'
  <2>1. CASE wcall' = NoCall /\ wsong.state = "ending"
    BY <2>1 DEF CallOK, NoCall
  <2>2. CASE /\ wcall' = [at |-> "song end", extra |-> 0] /\ want = 0
             /\ wsong.state = "playing"
    BY <1>7, <2>2 DEF CallOK
  <2>3. CASE /\ wcall' = [at |-> "open", restart |-> TRUE] /\ wst.off
             /\ wsong.state = "playing"
    <3>1. wcall' \in OpenCalls /\ wcall'.restart /\ wsong'.state = "playing"
      BY <1>7, <2>3 DEF OpenCalls
    <3>2. QED
      BY <3>1 DEF CallOK
  <2>4. CASE wcall' = [at |-> "fill", max |-> Capped(want)] /\ wsong.state = "playing"
    <3>1. wcall' \in [at : {"fill"}, max : Int] /\ wsong'.state = "playing"
      BY <1>6, <1>7, <2>4
    <3>2. QED
      BY <3>1 DEF CallOK
  <2>5. QED
    BY <1>8, <2>1, <2>2, <2>3, <2>4
<1>13. ClockInv'
  <2>1. wsong.state = "ending" => wst.off
    BY DEF StreamInv, ClockInv
  <2>2. QED
    BY <1>6, <1>7, <1>9, <2>1 DEF ClockInv
<1>14. CountInv'
  <2>1. LeftIs(wst.left, Told, Since)'
    <3>1. LeftIs(Capped(want), Told, 0)
      BY <1>5, LeftNow, StreamTyped
    <3>2. QED
      BY <1>6, <1>10, <3>1 DEF LeftIs
  <2>2. wcall'.at = "song end" \/ wsong'.state = "ending" => Told = SongLength
    <3>1. ASSUME wcall'.at = "song end"
          PROVE  Told = SongLength
      <4>1. want = 0 /\ want = SongLength - Told
        BY <1>5, <1>9, <3>1
      <4>2. QED
        BY <4>1, StreamTyped, StreamConstants
    <3>2. wsong'.state = "ending" => wsong.state = "ending"
      BY <1>7
    <3>3. wsong.state = "ending" => Told = SongLength
      BY DEF StreamInv, CountInv
    <3>4. QED
      BY <3>1, <3>2, <3>3
  <2>3. QED
    BY <1>6, <1>7, <1>9, <1>10, <2>1, <2>2 DEF CountInv
<1>15. ReadInv'
  <2>1. (NowOff' <=> NowOff) /\ NowK' = NowK
    BY <1>2, <1>6, <1>9 DEF NowOff, NowK
  <2>2. ~NowOff => (wst'.left > 0 => wst.left > 0)
    <3>1. SUFFICES ASSUME ~NowOff, wst'.left > 0
                   PROVE  wst.left > 0
      OBVIOUS
    <3>2. want > 0
      BY <1>5, <1>6, <3>1, CappedIs
    <3>3. Unpolled + (IF lines <= FrameLines THEN lines ELSE 0) < WordSize - 1
      BY <1>1, <3>1 DEF StreamInv, LateInv
    <3>4. SincePoll <= Unpolled /\ Unpolled \in Nat
      BY UnpolledIs
    <3>5. LeftIs(wst.left, Told, SincePoll)
      BY <1>1, <1>5, ToldIs
    <3>6. wst.left \in Nat /\ SincePoll \in Nat
      BY <1>3, StreamTyped
    <3> HIDE DEF SincePoll, Unpolled
    <3>7. SincePoll < WordSize - 1
      BY <3>3, <3>4, <3>6, StreamTyped, StreamConstants
    <3>8. QED
      BY <1>5, <3>2, <3>5, <3>6, <3>7, StreamConstants DEF LeftIs
  <2>3. QED
    BY <1>1, <1>9, <1>10, <2>1, <2>2 DEF StreamInv, ReadInv
<1>16. RingInv'
  <2>1. RingIs(mixBuf, mixPos, streamW, lastPlayed, Told)
    BY <1>1 DEF StreamInv, RingInv
  <2>2. wsong'.state = "done" => /\ lastPlayed = SongLength /\ mixPos = streamW
                                 /\ mixBuf[streamW] = Silence
    <3>1. SUFFICES ASSUME wsong'.state = "done"
                   PROVE  /\ lastPlayed = SongLength /\ mixPos = streamW
                          /\ mixBuf[streamW] = Silence
      OBVIOUS
    <3>2. wsong.state = "ending" /\ Ended
      BY <1>7, <3>1
    <3>3. Told = SongLength
      BY <3>2 DEF StreamInv, CountInv
    <3>4. Ahead(mixPos, streamW) = 0
      <4>1. RingUnread = Ahead(mixPos, streamW)
        BY StreamTyped, SlotIs DEF RingUnread
      <4>2. QED
        BY <3>2, <4>1 DEF Ended
    <3>5. mixPos = streamW
      <4>1. /\ mixPos \in Int /\ streamW \in Int /\ RingSize \in Int
            /\ mixPos >= 0 /\ streamW >= 0 /\ mixPos < RingSize /\ streamW < RingSize
        <5>1. mixPos \in Slots /\ streamW \in Slots /\ RingSize \in Nat
          BY StreamTyped, StreamConstants
        <5>2. QED
          BY ONLY <5>1 DEF Slots
      <4>2. (IF streamW >= mixPos THEN streamW - mixPos ELSE (streamW - mixPos) + RingSize) = 0
        BY <3>4 DEF Ahead
      <4>3. QED
        BY ONLY <4>1, <4>2
    <3>6. lastPlayed <= Told /\ Told - lastPlayed <= 0
      BY <2>1, <3>4 DEF RingIs
    <3>7. lastPlayed = SongLength
      BY <3>3, <3>6, StreamTyped, StreamConstants
    <3>8. mixBuf[streamW] = Silence
      BY <2>1, RingSilentAt, StreamTyped
    <3>9. QED
      BY <3>5, <3>7, <3>8
  <2>3. QED
    BY <1>1, <1>9, <1>10, <2>1, <2>2 DEF RingInv
<1>17. RoomInv'
  <2>1. Ahead(mixPos, streamW) + One(frameDone) + One(ToFill) <= Top + One(lines = Field)
    BY <1>1 DEF StreamInv, RoomInv
  <2>2. One(frameDone) = 1 /\ One(ToFill) = 0 /\ One(lines = Field) \in 0 .. 1
    <3>1. frameDone /\ ~ToFill
      BY <1>1, <1>2
    <3>2. QED
      BY <3>1 DEF One
  <2>3. /\ One(frameDone)' = 0 /\ One(ToFill)' \in 0 .. 1
        /\ One(lines = Field)' = One(lines = Field)
        /\ Ahead(mixPos, streamW)' = Ahead(mixPos, streamW) /\ Top' = Top
    <3>1. ~frameDone' /\ lines' = lines /\ mixPos' = mixPos /\ streamW' = streamW
      BY <1>1
    <3>2. One(frameDone)' = 0 /\ One(ToFill)' \in 0 .. 1
      BY <3>1 DEF One
    <3>3. QED
      BY <3>1, <3>2 DEF One, Field, Ahead, Top
  <2>4. Ahead(mixPos, streamW)' + One(frameDone)' + One(ToFill)' <= Top + One(lines = Field)'
    BY <2>1, <2>2, <2>3, StreamTyped, StreamConstants
  <2>5. QED
    BY <1>9, <2>3, <2>4 DEF RoomInv
<1>18. LateInv'
  BY <1>1, <1>9, <1>10, PollRoom DEF LateInv
<1>19. QED
  BY <1>11, <1>12, <1>13, <1>14, <1>15, <1>16, <1>17, <1>18 DEF StreamInv

(* The song's end: W is after its last sample, and the stream off.         *)
LEMMA SongEndKeeps ==
  ASSUME StreamInv, SongEnd
  PROVE  StreamInv'
<1>1. /\ wcall.at = "song end"
      /\ LET extra == IF wcall.extra > RingUnread THEN RingUnread ELSE wcall.extra
         IN  /\ streamW' = Slot(streamW, RingSize - extra)
             /\ mixBuf' = [i \in 0 .. RingSize - 1 |->
                              IF (i - streamW') % RingSize < extra THEN Silence ELSE mixBuf[i]]
      /\ wst' = [wst EXCEPT !.off = TRUE]
      /\ wcall' = [at |-> "end", then |-> "ending"]
      /\ mixPos' = mixPos /\ lines' = lines /\ lastPlayed' = lastPlayed /\ frameDone' = frameDone
      /\ wsong' = wsong /\ read' = read
  BY DEF SongEnd, InBlank, SameLine
<1>2. wcall.extra = 0 /\ wsong.state = "playing" /\ Busy /\ ~Filling
  BY <1>1, CallIs DEF StreamInv, Busy, Filling
<1>3. streamW' = streamW /\ mixBuf' = mixBuf
  <2>1. RingUnread \in Nat
    <3>1. RingUnread = Ahead(mixPos, streamW)
      BY StreamTyped, SlotIs DEF RingUnread
    <3>2. QED
      BY <3>1, StreamTyped, StreamConstants
  <2>2. (IF wcall.extra > RingUnread THEN RingUnread ELSE wcall.extra) = 0
    BY <1>2, <2>1
  <2>3. RingSize - 0 = RingSize
    BY StreamConstants
  <2>4. streamW' = Slot(streamW, RingSize)
    BY <1>1, <2>2, <2>3
  <2>5. streamW' = streamW
    BY <2>4, SlotIs, StreamTyped
  <2>6. \A i \in Slots : (i - streamW') % RingSize = Ahead(streamW, i) /\ Ahead(streamW, i) \in Nat
    <3>1. \A i \in Slots : /\ (i - streamW) % RingSize = Ahead(streamW, i)
                            /\ Ahead(streamW, i) \in 0 .. RingSize - 1
      BY SlotIs, StreamTyped
    <3>2. QED
      BY <2>5, <3>1, StreamConstants
  <2>7. mixBuf' = [i \in Slots |-> mixBuf[i]]
    <3>1. \A i \in Slots : ~((i - streamW') % RingSize < 0)
      BY <2>6
    <3>2. mixBuf' = [i \in Slots |->
                       IF (i - streamW') % RingSize < 0 THEN Silence ELSE mixBuf[i]]
      BY <1>1, <2>2 DEF Slots
    <3>3. QED
      BY <3>1, <3>2
  <2>8. QED
    BY <2>5, <2>7, StreamTyped
<1>4. /\ wst' \in [off : BOOLEAN, k : Nat, left : Nat, stored : 0 .. WordSize - 1]
      /\ wst'.off /\ wst'.left = wst.left /\ wst'.stored = wst.stored
  BY <1>1 DEF StreamInv, StreamTypes
<1>5. wcall' \in EndCalls /\ wcall'.at = "end" /\ wcall'.then = "ending"
  BY <1>1 DEF EndCalls
<1>6. ~Filling' /\ ~Opening' /\ ~Starting' /\ ~ToFill' /\ wcall'.at # "slots" /\ (Busy' <=> Busy)
  BY <1>1, <1>5 DEF Filling, Opening, Starting, ToFill, Busy
<1>7. Told' = Told /\ Since' = Since
  BY <1>1, <1>2, <1>4, <1>6 DEF Told, Since, StoredSoFar, SincePoll
<1>8. StreamTypes'
  BY <1>1, <1>3, <1>4 DEF StreamInv, StreamTypes
<1>9. CallOK'
  BY <1>1, <1>2, <1>5 DEF CallOK
<1>10. ClockInv'
  BY <1>4, <1>6 DEF ClockInv
<1>11. CountInv'
  <2>1. Told = SongLength /\ LeftIs(wst.left, Told, Since)
    BY <1>1, <1>2 DEF StreamInv, CountInv
  <2>2. LeftIs(wst.left, Told, Since)'
    BY <1>4, <1>7, <2>1 DEF LeftIs
  <2>3. QED
    BY <1>6, <1>7, <2>1, <2>2 DEF CountInv
<1>12. ReadInv'
  BY <1>4, <1>5, <1>6 DEF ReadInv, NowOff
<1>13. RingInv' /\ RoomInv'
  <2>1. Leaves
    BY <1>1, <1>3 DEF Leaves
  <2>2. wsong'.state = "done" => wsong.state = "done"
    BY <1>1
  <2>3. QED
    BY <1>6, <1>7, <2>1, <2>2, RingLeft
<1>14. LateInv'
  BY <1>4, <1>6 DEF LateInv, NowOff
<1>15. QED
  BY <1>8, <1>9, <1>10, <1>11, <1>12, <1>13, <1>14 DEF StreamInv

(* The read is closed and the song what its call makes it.                 *)
LEMMA StreamEndKeeps ==
  ASSUME StreamInv, StreamEnd
  PROVE  StreamInv'
<1>1. /\ wcall.at = "end" /\ read' = Closed(read) /\ wsong' = [wsong EXCEPT !.state = wcall.then]
      /\ wcall' = NoCall /\ wst' = wst /\ Leaves
  BY DEF StreamEnd, InBlank, SameLine, Leaves
<1>2. /\ wcall.then \in {"failed", "idle", "ending"} /\ wsong.state \in {"idle", "playing"}
      /\ (wcall.then = "ending" => wsong.state = "playing" /\ Told = SongLength)
      /\ wst.off /\ ~Filling
  <2>1. wcall \in EndCalls /\ wsong.state \in {"idle", "playing"}
        /\ (wcall.then = "ending" => wsong.state = "playing")
    BY <1>1, CallIs DEF StreamInv
  <2>2. QED
    BY <1>1, <2>1 DEF EndCalls, StreamInv, ClockInv, CountInv, Filling
<1>3. /\ wsong' \in [state : States, from : 0 .. SongLength, stored : Nat, s16 : 0 .. WordSize - 1]
      /\ wsong'.state = wcall.then /\ wsong'.from = wsong.from /\ wsong'.stored = wsong.stored
      /\ wsong'.s16 = wsong.s16
  BY <1>1, <1>2 DEF StreamInv, StreamTypes, States
<1>4. ~Filling' /\ ~Opening' /\ ~Starting' /\ ~ToFill' /\ wcall'.at = "none"
  BY <1>1 DEF NoCall, Filling, Opening, Starting, ToFill
<1>5. Told' = Told /\ Since' = Since
  BY <1>1, <1>2, <1>3, <1>4 DEF Told, Since, StoredSoFar, SincePoll
<1>6. Busy' => Busy /\ wsong'.state = "ending" /\ wsong.state = "playing"
  BY <1>2, <1>3 DEF Busy
<1>7. StreamTypes'
  <2>1. read' \in [open : BOOLEAN, place : Int, left : Nat, wait : Nat]
    BY <1>1 DEF Closed, StreamInv, StreamTypes
  <2>2. QED
    BY <1>1, <1>3, <2>1 DEF Leaves, StreamInv, StreamTypes
<1>8. CallOK'
  BY <1>1 DEF CallOK
<1>9. ClockInv'
  BY <1>1, <1>2, <1>4 DEF ClockInv
<1>10. CountInv'
  BY <1>1, <1>2, <1>3, <1>4, <1>5, <1>6 DEF StreamInv, CountInv, LeftIs
<1>11. ReadInv'
  BY <1>1, <1>2, <1>4 DEF ReadInv, NowOff
<1>12. RingInv'
  BY <1>1, <1>2, <1>3, <1>4, <1>5, <1>6 DEF Leaves, StreamInv, RingInv
<1>13. RoomInv'
  <2>1. SUFFICES ASSUME Busy
                 PROVE  Ahead(mixPos, streamW) + One(frameDone) + One(ToFill)'
                          <= Top + One(lines = Field)
    BY <1>1, <1>4, <1>6 DEF Leaves, RoomInv, One, Ahead, Top, Field
  <2>2. Ahead(mixPos, streamW) + One(frameDone) + One(ToFill) <= Top + One(lines = Field)
    BY <2>1 DEF StreamInv, RoomInv
  <2>3. One(ToFill)' = 0 /\ One(ToFill) \in 0 .. 1
        /\ One(frameDone) \in 0 .. 1 /\ One(lines = Field) \in 0 .. 1
    BY <1>4 DEF One
  <2>4. QED
    BY <2>2, <2>3, StreamTyped, StreamConstants
<1>14. LateInv'
  BY <1>1, <1>2, <1>4 DEF LateInv, NowOff
<1>15. QED
  BY <1>7, <1>8, <1>9, <1>10, <1>11, <1>12, <1>13, <1>14 DEF StreamInv

(* A stop.                                                                 *)
LEMMA WstStopKeeps ==
  ASSUME StreamInv, WstStop
  PROVE  StreamInv'
<1>1. /\ wcall.at = "none" /\ Busy /\ wst' = [wst EXCEPT !.off = TRUE] /\ Leaves /\ read' = read
      /\ \/ /\ wsong.state = "playing" /\ wcall' = [at |-> "end", then |-> "idle"]
            /\ wsong' = wsong
         \/ /\ wsong.state = "ending" /\ wsong' = [wsong EXCEPT !.state = "idle"]
            /\ wcall' = wcall
  BY DEF WstStop, InBlank, SameLine, Leaves, Busy
<1>2. ~Filling
  BY <1>1 DEF Filling
<1>3. /\ wst' \in [off : BOOLEAN, k : Nat, left : Nat, stored : 0 .. WordSize - 1]
      /\ wst'.off /\ wst'.left = wst.left /\ wst'.stored = wst.stored
  BY <1>1 DEF StreamInv, StreamTypes
<1>4. /\ wsong' \in [state : States, from : 0 .. SongLength, stored : Nat, s16 : 0 .. WordSize - 1]
      /\ wsong'.from = wsong.from /\ wsong'.stored = wsong.stored /\ wsong'.s16 = wsong.s16
      /\ \/ wsong'.state = "playing" /\ wsong.state = "playing"
            /\ wcall' = [at |-> "end", then |-> "idle"]
         \/ wsong'.state = "idle" /\ wcall' = wcall
  BY <1>1 DEF StreamInv, StreamTypes, States
<1>5. /\ ~Filling' /\ ~Opening' /\ ~Starting' /\ ~ToFill' /\ wcall'.at # "slots"
      /\ wcall'.at # "song end" /\ ~(wcall'.at = "end" /\ wcall'.then = "ending")
  <2>1. CASE wcall' = [at |-> "end", then |-> "idle"]
    BY <2>1 DEF Filling, Opening, Starting, ToFill
  <2>2. CASE wcall' = wcall
    <3>1. wcall'.at = "none"
      BY <1>1, <2>2
    <3>2. QED
      BY <3>1 DEF Filling, Opening, Starting, ToFill
  <2>3. QED
    BY <1>4, <2>1, <2>2
<1>6. Told' = Told /\ Since' = Since
  BY <1>2, <1>3, <1>4, <1>5 DEF Told, Since, StoredSoFar, SincePoll
<1>7. Busy' => wsong'.state = "playing"
  BY <1>4 DEF Busy
<1>8. StreamTypes'
  BY <1>1, <1>3, <1>4 DEF Leaves, StreamInv, StreamTypes
<1>9. CallOK'
  <2>1. wcall = NoCall
    BY <1>1 DEF StreamInv, CallOK, OpenCalls, EnteredCalls, SlotCalls, EndCalls
  <2>2. [at |-> "end", then |-> "idle"] \in EndCalls
        /\ [at |-> "end", then |-> "idle"].then = "idle"
    BY DEF EndCalls
  <2>3. QED
    BY <1>4, <2>1, <2>2 DEF CallOK
<1>10. ClockInv'
  BY <1>3, <1>5 DEF ClockInv
<1>11. CountInv'
  <2>1. wsong'.state # "ending"
    BY <1>4
  <2>2. QED
    BY <1>1, <1>3, <1>5, <1>6, <2>1 DEF StreamInv, CountInv, LeftIs
<1>12. ReadInv'
  BY <1>3, <1>5 DEF ReadInv, NowOff, Opening
<1>13. RingInv'
  <2>1. wsong'.state # "done"
    BY <1>4
  <2>2. QED
    BY <1>1, <1>5, <1>6, <2>1 DEF Leaves, StreamInv, RingInv
<1>14. RoomInv'
  <2>1. SUFFICES Ahead(mixPos, streamW) + One(frameDone) + One(ToFill)' <= Top + One(lines = Field)
    BY <1>1, <1>5 DEF Leaves, RoomInv, One, Ahead, Top, Field
  <2>2. Ahead(mixPos, streamW) + One(frameDone) + One(ToFill) <= Top + One(lines = Field)
    BY <1>1 DEF StreamInv, RoomInv
  <2>3. One(ToFill)' = 0 /\ One(ToFill) \in 0 .. 1
        /\ One(frameDone) \in 0 .. 1 /\ One(lines = Field) \in 0 .. 1
    <3>1. ~ToFill'
      BY <1>5
    <3>2. QED
      BY <3>1 DEF One
  <2>4. QED
    BY <2>2, <2>3, StreamTyped, StreamConstants
<1>15. LateInv'
  BY <1>3, <1>5 DEF LateInv, NowOff
<1>16. QED
  BY <1>8, <1>9, <1>10, <1>11, <1>12, <1>13, <1>14, <1>15 DEF StreamInv

(* Initially nothing plays.                                                *)
LEMMA StreamStarts ==
  ASSUME WstInit
  PROVE  StreamInv
<1>1. /\ mixBuf = [i \in 0 .. RingSize - 1 |-> Silence] /\ mixPos = 0 /\ streamW = 0
      /\ wst = [off |-> TRUE, k |-> 0, left |-> 0, stored |-> 0]
      /\ wsong = [state |-> "idle", from |-> 0, stored |-> 0, s16 |-> 0]
      /\ wcall = NoCall /\ lines = Field /\ frameDone = FALSE
      /\ read = [open |-> FALSE, place |-> 0, left |-> 0, wait |-> 0] /\ lastPlayed = 0
  BY DEF WstInit
<1>2. wcall.at = "none" /\ wst.off /\ wsong.state = "idle"
  BY <1>1 DEF NoCall
<1>3. ~Filling /\ ~Opening /\ ~Starting /\ ~Busy
  BY <1>2 DEF Filling, Opening, Starting, Busy
<1>4. StreamTypes
  <2>1. mixBuf \in [Slots -> Nat] /\ mixPos \in Slots /\ streamW \in Slots
    BY <1>1, StreamConstants DEF Slots, Silence
  <2>2. 0 \in 0 .. WordSize - 1 /\ 0 \in 0 .. SongLength
    BY StreamConstants
  <2>3. /\ wst \in [off : BOOLEAN, k : Nat, left : Nat, stored : 0 .. WordSize - 1]
        /\ wsong \in [state : States, from : 0 .. SongLength, stored : Nat,
                      s16 : 0 .. WordSize - 1]
    BY <1>1, <2>2 DEF States
  <2>4. read \in [open : BOOLEAN, place : Int, left : Nat, wait : Nat]
    BY <1>1
  <2>5. lines \in 1 .. Field
    BY <1>1, StreamConstants DEF Field
  <2>6. QED
    BY <1>1, <2>1, <2>3, <2>4, <2>5 DEF StreamTypes
<1>5. CallOK /\ ClockInv
  BY <1>1, <1>2, <1>3 DEF CallOK, ClockInv
<1>6. CountInv /\ ReadInv
  BY <1>2, <1>3 DEF CountInv, ReadInv, NowOff
<1>7. RingInv /\ RoomInv
  BY <1>2, <1>3 DEF RingInv, RoomInv
<1>8. LateInv
  BY <1>3 DEF LateInv
<1>9. QED
  BY <1>4, <1>5, <1>6, <1>7, <1>8 DEF StreamInv

(* Every step keeps it, if the fill is called in time.                     *)
LEMMA StreamSteps ==
  ASSUME ~LateFill, StreamInv, [WstNext]_wstVars
  PROVE  StreamInv'
<1>1. CASE UNCHANGED wstVars
  <2>1. /\ Leaves /\ wst' = wst /\ wsong' = wsong /\ wcall' = wcall /\ read' = read
    BY <1>1 DEF wstVars, Leaves
  <2>2. /\ (Filling' <=> Filling) /\ (Opening' <=> Opening) /\ (Starting' <=> Starting)
        /\ (ToFill' <=> ToFill) /\ (Busy' <=> Busy)
    BY <2>1 DEF Filling, Opening, Starting, ToFill, Busy
  <2>3. /\ Told' = Told /\ Since' = Since /\ SincePoll' = SincePoll /\ NowK' = NowK
        /\ (NowOff' <=> NowOff)
    BY <2>1, <2>2 DEF Told, Since, StoredSoFar, SincePoll, NowK, NowOff
  <2>4. StreamTypes' /\ CallOK' /\ ClockInv'
    BY <2>1, <2>2 DEF Leaves, StreamInv, StreamTypes, CallOK, ClockInv
  <2>5. CountInv' /\ ReadInv'
    BY <2>1, <2>2, <2>3, ZenonT(40) DEF Leaves, StreamInv, CountInv, ReadInv, Due, Skip, LeftIs
  <2>6. RingInv' /\ RoomInv'
    BY <2>1, <2>2, <2>3 DEF Leaves, StreamInv, RingInv, RoomInv, One, Ahead, Top, Field
  <2>7. LateInv'
    <3>1. Unpolled' = Unpolled
      BY <2>1, <2>2, <2>3 DEF Unpolled, FillRoom
    <3>2. QED
      BY <2>1, <2>2, <2>3, <3>1 DEF Leaves, StreamInv, LateInv, Ahead, Field
  <2>8. QED
    BY <2>4, <2>5, <2>6, <2>7 DEF StreamInv
<1>2. CASE BlankLine
  BY <1>2, BlankLineKeeps
<1>3. CASE FrameLine
  BY <1>3, FrameLineIdle, FrameLineReads
<1>4. CASE FillEnter
  BY <1>4, FillEnterKeeps
<1>5. CASE FillCheck
  BY <1>5, FillCheckKeeps
<1>6. CASE FillByte
  BY <1>6, FillByteKeeps
<1>7. CASE FillLast
  BY <1>7, FillLastKeeps
<1>8. CASE OpenCommand
  BY <1>8, OpenCommandKeeps
<1>9. CASE OpenToken
  BY <1>9, OpenTokenKeeps
<1>10. CASE Opened
  BY <1>10, OpenedKeeps
<1>11. CASE SongEnd
  BY <1>11, SongEndKeeps
<1>12. CASE StreamEnd
  BY <1>12, StreamEndKeeps
<1>13. CASE WstPoll
  BY <1>13, WstPollKeeps
<1>14. CASE WstStop
  BY <1>14, WstStopKeeps
<1>15. ASSUME NEW from \in Froms, WstStart(from)
       PROVE  StreamInv'
  BY <1>15, WstStartKeeps
<1>16. QED
  BY <1>1, <1>2, <1>3, <1>4, <1>5, <1>6, <1>7, <1>8, <1>9, <1>10, <1>11, <1>12, <1>13, <1>14,
     <1>15 DEF WstNext, GoOn

(* What it says of the ring and of the clock.                              *)
LEMMA StreamInvGives ==
  ASSUME StreamInv
  PROVE  SongInOrder /\ OneClock
<1>1. OneClock
  <2>1. ASSUME InFrame, ~wst.off
        PROVE  ~Filling /\ wcall.at \notin {"open", "token", "end"}
    <3>1. ~Filling
      <4>1. Filling => lines >= FrameLines
        BY DEF StreamInv, ClockInv
      <4>2. lines < FrameLines
        BY <2>1 DEF InFrame
      <4>3. QED
        BY <4>1, <4>2, StreamTyped, StreamConstants
    <3>2. ~Opening /\ wcall.at # "end"
      BY <2>1 DEF StreamInv, ClockInv
    <3>3. QED
      BY <3>1, <3>2 DEF Opening
  <2>2. QED
    BY <2>1 DEF OneClock
<1>2. ASSUME Busy
      PROVE  /\ wsong.from + StoredSoFar - lastPlayed \in 0 .. RingUnread
             /\ \A i \in 1 .. RingUnread :
                  Ring[i] = IF i <= RingUnread - (wsong.from + StoredSoFar - lastPlayed)
                            THEN Silence
                            ELSE lastPlayed + i
                                   - (RingUnread - (wsong.from + StoredSoFar - lastPlayed))
             /\ mixBuf[streamW] = Silence
  <2> DEFINE u == RingUnread
             t == Told
             l == lastPlayed
  <2>1. RingIs(mixBuf, mixPos, streamW, l, t)
    BY <1>2 DEF StreamInv, RingInv
  <2>2. u = Ahead(mixPos, streamW) /\ u \in Nat /\ u < RingSize /\ t \in Nat /\ l \in Nat
    <3>1. u = Ahead(mixPos, streamW)
      BY StreamTyped, SlotIs DEF RingUnread
    <3>2. QED
      BY <3>1, StreamTyped, StreamConstants
  <2>3. wsong.from + (StoredSoFar - lastPlayed) = t - l
    <3>1. StoredSoFar \in Nat
      BY ToldIs, StreamTyped, StreamConstants DEF StoredSoFar
    <3>2. t = wsong.from + StoredSoFar
      BY DEF Told
    <3>3. QED
      BY <2>2, <3>1, <3>2, StreamTyped
  <2> HIDE DEF u, t, l
  <2>4. l <= t /\ t - l <= u
    BY <2>1, <2>2 DEF RingIs
  <2>5. ASSUME NEW i \in 1 .. u
        PROVE  Ring[i] = IF i <= u - (t - l) THEN Silence ELSE l + i - (u - (t - l))
    <3>1. i - 1 \in Nat /\ i - 1 < RingSize /\ i - 1 < u
      BY <2>2, StreamConstants
    <3> DEFINE s == Slot(mixPos, i - 1)
    <3>2. s \in Slots /\ Ahead(mixPos, s) = i - 1
      BY <3>1, SlotAhead, StreamTyped
    <3>3. Ring[i] = mixBuf[s]
      BY DEF Ring, u
    <3> HIDE DEF s
    <3>4. mixBuf[s] = IF Ahead(mixPos, s) < u /\ t + 1 + Ahead(mixPos, s) - u > l
                      THEN t + 1 + Ahead(mixPos, s) - u ELSE Silence
      BY <2>1, <2>2, <3>2 DEF RingIs, Number
    <3>5. QED
      BY <2>2, <2>4, <3>1, <3>2, <3>3, <3>4
  <2>6. mixBuf[streamW] = Silence
    BY <2>1, <2>2, RingSilentAt, StreamTyped
  <2>7. t - l \in 0 .. u
    BY <2>2, <2>4
  <2> DEFINE rest == wsong.from + (StoredSoFar - lastPlayed)
  <2>8. rest = t - l
    BY <2>3
  <2> HIDE DEF rest
  <2>9. /\ rest \in 0 .. u
        /\ \A i \in 1 .. u : Ring[i] = IF i <= u - rest THEN Silence ELSE l + i - (u - rest)
    BY <2>5, <2>7, <2>8
  <2>10. QED
    BY <2>6, <2>9 DEF rest, u, l
<1>3. wsong.state = "done" => lastPlayed = SongLength
  BY DEF StreamInv, RingInv
<1>4. SongInOrder
  BY <1>2, <1>3 DEF SongInOrder
<1>5. QED
  BY <1>1, <1>4

(* Every sample is played once and in order, and a song that is done was   *)
(* played to its end, whatever error tokens, fills, frames and polls do to *)
(* the ring, when the fill is called in time.                              *)
THEOREM SongPlaysInOrder ==
  ASSUME ~LateFill
  PROVE  WstSpec => []SongInOrder
<1>1. WstInit => StreamInv
  BY StreamStarts
<1>2. StreamInv /\ [WstNext]_wstVars => StreamInv'
  BY StreamSteps
<1>3. StreamInv => SongInOrder
  BY StreamInvGives
<1>4. QED
  BY <1>1, <1>2, <1>3, PTL DEF WstSpec

(* The frame's lines clock the card only while the program does not.       *)
THEOREM OneClocksTheCard ==
  ASSUME ~LateFill
  PROVE  WstSpec => []OneClock
<1>1. WstInit => StreamInv
  BY StreamStarts
<1>2. StreamInv /\ [WstNext]_wstVars => StreamInv'
  BY StreamSteps
<1>3. StreamInv => OneClock
  BY StreamInvGives
<1>4. QED
  BY <1>1, <1>2, <1>3, PTL DEF WstSpec

-----------------------------------------------------------------------------
(***************************************************************************)
(* The streamed song.  The player's place in the file: once it has passed  *)
(* the loop's end and the program has not yet gone back, it is in the      *)
(* loop's copy behind the song.                                            *)
(***************************************************************************)
SongPlaces == 0 .. SONG_BUFFER_SIZE - 1
Rewinds == loopEnd # 0 /\ main # "rewound"
FileAt == IF Rewinds THEN Len(Song) + (due - LoopAt) ELSE due
ByteAt(off) == IF off < Len(Song) THEN off ELSE off - LoopLength
PlaceAfter(o, n) == IF o + n < SONG_BUFFER_SIZE THEN o + n ELSE o + n - SONG_BUFFER_SIZE
Waiting(o, i) == IF i >= o THEN i - o ELSE i + SONG_BUFFER_SIZE - o

SongTypes ==
  /\ songBufIn \in SongPlaces /\ songBufOut \in SongPlaces
  /\ songBuf \in [SongPlaces -> Int]
  /\ due \in 0 .. Len(Song) - 1 /\ songPos = due /\ songOff \in Nat /\ total \in 0 .. PerFrame
  /\ loopEnd \in {0, Len(Song)} /\ loopStart = IF due >= LoopAt THEN LoopAt ELSE 0

SongStopped ==
  /\ main = "stopped" <=> playSong = FALSE
  /\ playing = TRUE => playSong = TRUE
  /\ main = "stopped" => loopEnd = 0

(* The program reads where the ring ends, not far behind the song.         *)
OffsetInv ==
  /\ songOff = FileAt + Waiting(songBufOut, songBufIn)
  /\ songOff + 2 <= Len(Song) + SONG_BUFFER_SIZE + total
  /\ Rewinds => due >= LoopAt
  /\ main = "rewound" => songOff <= Len(Song) /\ loopEnd = Len(Song)

BufferInv ==
  /\ \A n \in SongPlaces : n < Waiting(songBufOut, songBufIn) =>
       songBuf[PlaceAfter(songBufOut, n)] = ByteAt(FileAt + n)
  /\ main = "written" => /\ songBuf[songBufIn] = ByteAt(songOff) /\ total < PerFrame
                         /\ Waiting(songBufOut, songBufIn) + 1 < SONG_BUFFER_SIZE

SongInv == SongTypes /\ SongStopped /\ OffsetInv /\ BufferInv

(* The song and the ring are measured in numbers.                          *)
LEMMA SongConstants ==
  /\ Len(Song) \in Nat /\ LoopAt \in Nat /\ LoopAt < Len(Song) /\ Padding \in Nat
  /\ SONG_BUFFER_SIZE \in Nat /\ PerFrame \in Nat /\ PerFrame > 0 /\ SONG_BUFFER_SIZE > 2
  /\ LoopLength = Len(Song) - LoopAt /\ LoopLength \in Nat /\ LoopLength > 0
  /\ SONG_BUFFER_SIZE + PerFrame <= Padding + 2
  /\ SONG_BUFFER_SIZE + PerFrame <= LoopLength + 2
<1>1. Song \in Seq(STRING) /\ LoopAt < Len(Song) /\ SONG_BUFFER_SIZE + PerFrame <= Padding + 2
      /\ SONG_BUFFER_SIZE + PerFrame <= LoopLength + 2
  BY SongAssumption
<1>2. Len(Song) \in Nat
  BY <1>1, LenProperties
<1>3. /\ LoopAt \in Nat /\ Padding \in Nat /\ SONG_BUFFER_SIZE \in Nat /\ PerFrame \in Nat
      /\ PerFrame > 0 /\ SONG_BUFFER_SIZE > 2
  BY StreamAssumption DEF SONG_BUFFER_MIN
<1>4. LoopLength = Len(Song) - LoopAt /\ LoopLength \in Nat /\ LoopLength > 0
  BY <1>1, <1>2, <1>3 DEF LoopLength
<1>5. QED
  BY <1>1, <1>2, <1>3, <1>4

(* A place of the ring is a number.                                        *)
LEMMA PlaceIs ==
  ASSUME NEW p \in SongPlaces
  PROVE  p \in Nat /\ p \in Int /\ p >= 0 /\ p < SONG_BUFFER_SIZE /\ SONG_BUFFER_SIZE \in Nat
BY SongConstants DEF SongPlaces

(* The ring's remainders.                                                  *)
LEMMA BufferIs ==
  ASSUME NEW o \in SongPlaces, NEW i \in SongPlaces
  PROVE  /\ (SONG_BUFFER_SIZE + i - o) % SONG_BUFFER_SIZE = Waiting(o, i)
         /\ Waiting(o, i) \in SongPlaces
         /\ \A n \in 0 .. SONG_BUFFER_SIZE : /\ (o + n) % SONG_BUFFER_SIZE = PlaceAfter(o, n)
                                             /\ PlaceAfter(o, n) \in SongPlaces
<1>1. /\ SONG_BUFFER_SIZE \in Nat /\ SONG_BUFFER_SIZE > 2
      /\ o \in Int /\ i \in Int /\ o >= 0 /\ i >= 0
      /\ o < SONG_BUFFER_SIZE /\ i < SONG_BUFFER_SIZE
  BY SongConstants DEF SongPlaces
<1>2. (SONG_BUFFER_SIZE + i - o) % SONG_BUFFER_SIZE = Waiting(o, i)
  <2> DEFINE x == SONG_BUFFER_SIZE + i - o
  <2>1. x \in Int /\ x >= 0 - SONG_BUFFER_SIZE /\ x < 2 * SONG_BUFFER_SIZE
    BY <1>1
  <2>2. x = SONG_BUFFER_SIZE + (i - o)
    BY <1>1
  <2> HIDE DEF x
  <2>3. x % SONG_BUFFER_SIZE = IF x < 0 THEN x + SONG_BUFFER_SIZE
                               ELSE IF x < SONG_BUFFER_SIZE THEN x ELSE x - SONG_BUFFER_SIZE
    BY <1>1, <2>1, Remainders
  <2>4. x % SONG_BUFFER_SIZE = Waiting(o, i)
    BY <1>1, <2>2, <2>3 DEF Waiting
  <2>5. QED
    BY <2>4 DEF x
<1>3. Waiting(o, i) \in SongPlaces
  BY <1>1 DEF Waiting, SongPlaces
<1>4. ASSUME NEW n \in 0 .. SONG_BUFFER_SIZE
      PROVE  /\ (o + n) % SONG_BUFFER_SIZE = PlaceAfter(o, n)
             /\ PlaceAfter(o, n) \in SongPlaces
  <2>1. o + n \in Int /\ o + n >= 0 - SONG_BUFFER_SIZE /\ o + n < 2 * SONG_BUFFER_SIZE
    BY <1>1
  <2>2. (o + n) % SONG_BUFFER_SIZE = IF o + n < 0 THEN (o + n) + SONG_BUFFER_SIZE
                                     ELSE IF o + n < SONG_BUFFER_SIZE THEN o + n
                                     ELSE (o + n) - SONG_BUFFER_SIZE
    BY <1>1, <2>1, Remainders
  <2>3. QED
    BY <1>1, <2>2 DEF PlaceAfter, SongPlaces
<1>5. QED
  BY <1>2, <1>3, <1>4

(* What the invariant says of the places in the file.                      *)
LEMMA SongIs ==
  ASSUME SongInv
  PROVE  /\ FileAt \in Nat /\ Waiting(songBufOut, songBufIn) \in SongPlaces
         /\ SongBufBytes = Waiting(songBufOut, songBufIn)
         /\ songOff = FileAt + Waiting(songBufOut, songBufIn) /\ songOff \in Nat
         /\ songOff + 2 <= Len(Song) + (SONG_BUFFER_SIZE + PerFrame)
         /\ songOff <= Len(Song) + LoopLength /\ songOff <= Len(Song) + Padding
         /\ due \in Nat /\ due < Len(Song) /\ songPos = due /\ total \in Nat
<1>1. songBufIn \in SongPlaces /\ songBufOut \in SongPlaces /\ due \in 0 .. Len(Song) - 1
      /\ songPos = due /\ songOff \in Nat /\ total \in 0 .. PerFrame
  BY DEF SongInv, SongTypes
<1>2. /\ songOff = FileAt + Waiting(songBufOut, songBufIn)
      /\ songOff + 2 <= Len(Song) + SONG_BUFFER_SIZE + total /\ (Rewinds => due >= LoopAt)
  BY DEF SongInv, OffsetInv
<1>3. FileAt \in Nat
  BY <1>1, <1>2, SongConstants DEF FileAt
<1>4. SongBufBytes = Waiting(songBufOut, songBufIn) /\ Waiting(songBufOut, songBufIn) \in SongPlaces
  BY <1>1, BufferIs DEF SongBufBytes
<1>5. total \in Nat /\ total <= PerFrame /\ due \in Nat /\ due < Len(Song)
  BY <1>1, SongConstants
<1>6. songOff + 2 <= Len(Song) + (SONG_BUFFER_SIZE + PerFrame)
  BY ONLY <1>1, <1>2, <1>5, SongConstants
<1>7. songOff <= Len(Song) + LoopLength /\ songOff <= Len(Song) + Padding
  BY ONLY <1>1, <1>6, SongConstants
<1>8. QED
  BY <1>1, <1>2, <1>3, <1>4, <1>5, <1>6, <1>7

(* The file's bytes, as far as the program comes to read them.             *)
LEMMA FileIs ==
  ASSUME NEW off \in Nat, off < Len(Song) + Padding, off < Len(Song) + LoopLength
  PROVE  FileByte(off) = ByteAt(off)
<1>1. CASE off < Len(Song)
  BY <1>1 DEF FileByte, ByteAt
<1>2. CASE ~(off < Len(Song))
  <2>1. off - Len(Song) \in Int /\ off - Len(Song) >= 0 - LoopLength /\ off - Len(Song) < 2 * LoopLength
    BY <1>2, SongConstants
  <2>2. (off - Len(Song)) % LoopLength =
          IF off - Len(Song) < 0 THEN (off - Len(Song)) + LoopLength
          ELSE IF off - Len(Song) < LoopLength THEN off - Len(Song)
          ELSE (off - Len(Song)) - LoopLength
    BY <2>1, SongConstants, Remainders
  <2>3. (off - Len(Song)) % LoopLength = off - Len(Song)
    BY <1>2, <2>2, SongConstants
  <2>4. FileByte(off) = LoopAt + ((off - Len(Song)) % LoopLength)
    BY <1>2 DEF FileByte
  <2>5. QED
    BY <1>2, <2>3, <2>4, SongConstants DEF ByteAt
<1>3. QED
  BY <1>1, <1>2

(* A byte that waits in the ring is the song's.                            *)
LEMMA PlayedIs ==
  ASSUME SongInv, NEW n \in SongPlaces, n < Waiting(songBufOut, songBufIn)
  PROVE  ByteAt(FileAt + n) = Played(due, n)
<1>1. /\ n \in Nat /\ due \in Nat /\ due < Len(Song) /\ FileAt \in Nat
      /\ FileAt + n < Len(Song) + LoopLength /\ (Rewinds => due >= LoopAt)
  <2>1. /\ n \in Nat /\ due \in Nat /\ due < Len(Song) /\ FileAt \in Nat
        /\ songOff = FileAt + Waiting(songBufOut, songBufIn) /\ songOff <= Len(Song) + LoopLength
        /\ Waiting(songBufOut, songBufIn) \in Nat
    BY SongIs, SongConstants DEF SongPlaces
  <2>2. FileAt + n < Len(Song) + LoopLength
    BY <2>1, SongConstants
  <2>3. QED
    BY <2>1, <2>2 DEF SongInv, OffsetInv
<1>2. CASE Rewinds
  BY <1>1, <1>2, SongConstants DEF FileAt, ByteAt, Played
<1>3. CASE ~Rewinds /\ due + n < Len(Song)
  BY <1>1, <1>3 DEF FileAt, ByteAt, Played
<1>4. CASE ~Rewinds /\ ~(due + n < Len(Song))
  <2> DEFINE x == due + n - Len(Song)
  <2>1. x = (due + n) - Len(Song) /\ x \in Int /\ x >= 0 /\ x < LoopLength
    BY <1>1, <1>4, SongConstants DEF FileAt
  <2> HIDE DEF x
  <2>2. x >= 0 - LoopLength /\ x < 2 * LoopLength
    BY <2>1, SongConstants
  <2>3. x % LoopLength = IF x < 0 THEN x + LoopLength ELSE IF x < LoopLength THEN x ELSE x - LoopLength
    BY <2>1, <2>2, SongConstants, Remainders
  <2>4. Played(due, n) = LoopAt + (x % LoopLength)
    BY <1>4 DEF Played, x
  <2>5. ByteAt(FileAt + n) = (due + n) - LoopLength
    BY <1>1, <1>4 DEF FileAt, ByteAt
  <2>6. QED
    BY <1>1, <2>1, <2>3, <2>4, <2>5, SongConstants, SMTT(30)
<1>5. QED
  BY <1>2, <1>3, <1>4

(* The invariant gives RingHoldsSong.                                      *)
LEMMA SongInvGives ==
  ASSUME SongInv
  PROVE  RingHoldsSong
<1>1. SongBufBytes = Waiting(songBufOut, songBufIn) /\ songPos = due
      /\ Waiting(songBufOut, songBufIn) \in SongPlaces
  BY SongIs
<1>2. ASSUME NEW n \in 0 .. SongBufBytes - 1
      PROVE  songBuf[(songBufOut + n) % SONG_BUFFER_SIZE] = Played(due, n)
  <2>1. n \in SongPlaces /\ n < Waiting(songBufOut, songBufIn) /\ n \in 0 .. SONG_BUFFER_SIZE
    BY <1>1, SongConstants DEF SongPlaces
  <2>2. (songBufOut + n) % SONG_BUFFER_SIZE = PlaceAfter(songBufOut, n)
    BY <2>1, BufferIs DEF SongInv, SongTypes
  <2>3. QED
    BY <2>1, <2>2, PlayedIs DEF SongInv, BufferInv
<1>3. QED
  BY <1>1, <1>2 DEF RingHoldsSong

(* The player takes bytes from the ring and its place in the file moves on. *)
LEMMA PlayerTakes ==
  ASSUME SongInv, NEW n \in 1 .. 2, n <= Waiting(songBufOut, songBufIn),
         songBufOut' = PlaceAfter(songBufOut, n), songBuf' = songBuf, songBufIn' = songBufIn,
         main' = main, songOff' = songOff, total' = total, playSong' = playSong, playing' = playing,
         main # "stopped", loopEnd' \in {0, Len(Song)}, main = "rewound" => loopEnd' = loopEnd,
         due' \in 0 .. Len(Song) - 1, songPos' = due', FileAt' = FileAt + n,
         Rewinds' => due' >= LoopAt, loopStart' = IF due' >= LoopAt THEN LoopAt ELSE 0
  PROVE  SongInv'
<1>1. /\ songBufIn \in SongPlaces /\ songBufOut \in SongPlaces /\ FileAt \in Nat /\ n \in Nat
      /\ SONG_BUFFER_SIZE \in Nat
  BY SongIs, SongConstants DEF SongInv, SongTypes
<1>2. /\ songBufOut' \in SongPlaces
      /\ Waiting(songBufOut', songBufIn) = Waiting(songBufOut, songBufIn) - n
      /\ Waiting(songBufOut, songBufIn) \in SongPlaces
  <2>1. Waiting(songBufOut, songBufIn) \in SongPlaces
    BY SongIs
  <2>2. /\ songBufOut \in Nat /\ songBufIn \in Nat /\ n \in 1 .. 2 /\ SONG_BUFFER_SIZE \in Nat
        /\ SONG_BUFFER_SIZE > 2 /\ songBufOut < SONG_BUFFER_SIZE /\ songBufIn < SONG_BUFFER_SIZE
        /\ n <= IF songBufIn >= songBufOut THEN songBufIn - songBufOut
                ELSE songBufIn + SONG_BUFFER_SIZE - songBufOut
        /\ songBufOut' = IF songBufOut + n < SONG_BUFFER_SIZE THEN songBufOut + n
                         ELSE songBufOut + n - SONG_BUFFER_SIZE
    BY <1>1, SongConstants DEF SongPlaces, PlaceAfter, Waiting
  <2>3. songBufOut' \in Nat /\ songBufOut' < SONG_BUFFER_SIZE
    BY <2>2
  <2>4. Waiting(songBufOut', songBufIn) = Waiting(songBufOut, songBufIn) - n
    BY <2>2 DEF Waiting
  <2>5. QED
    BY <2>1, <2>2, <2>3, <2>4 DEF SongPlaces
<1>3. SongTypes'
  BY <1>2 DEF SongInv, SongTypes, SongPlaces
<1>4. SongStopped'
  BY DEF SongInv, SongStopped
<1>5. OffsetInv'
  <2>1. songOff = FileAt + Waiting(songBufOut, songBufIn)
    BY SongIs
  <2>2. songOff' = FileAt' + Waiting(songBufOut', songBufIn')
    BY <1>1, <1>2, <2>1 DEF SongPlaces
  <2>3. QED
    BY <2>2 DEF SongInv, OffsetInv, Waiting
<1>6. BufferInv'
  <2>1. ASSUME NEW k \in SongPlaces, k < Waiting(songBufOut', songBufIn)
        PROVE  songBuf[PlaceAfter(songBufOut', k)] = ByteAt(FileAt' + k)
    <3>1. /\ n + k \in SongPlaces /\ n + k < Waiting(songBufOut, songBufIn)
          /\ PlaceAfter(songBufOut', k) = PlaceAfter(songBufOut, n + k)
          /\ FileAt' + k = FileAt + (n + k)
      <4>1. /\ songBufOut \in Nat /\ songBufOut < SONG_BUFFER_SIZE /\ k \in Nat /\ FileAt' = FileAt + n
            /\ Waiting(songBufOut, songBufIn) \in Nat /\ SONG_BUFFER_SIZE \in Nat
            /\ Waiting(songBufOut, songBufIn) < SONG_BUFFER_SIZE
            /\ k < Waiting(songBufOut, songBufIn) - n
        <5>1. Waiting(songBufOut', songBufIn) = Waiting(songBufOut, songBufIn) - n /\ FileAt' = FileAt + n
          BY <1>2
        <5>2. QED
          BY ONLY <1>1, <1>2, <2>1, <5>1, PlaceIs
      <4>2. n + k \in Nat /\ n + k < Waiting(songBufOut, songBufIn) /\ FileAt' + k = FileAt + (n + k)
        BY ONLY <1>1, <4>1
      <4>3. PlaceAfter(PlaceAfter(songBufOut, n), k) = PlaceAfter(songBufOut, n + k)
        BY <1>1, <4>1, <4>2 DEF PlaceAfter
      <4>4. QED
        BY <4>1, <4>2, <4>3 DEF SongPlaces
    <3>2. songBuf[PlaceAfter(songBufOut, n + k)] = ByteAt(FileAt + (n + k))
      BY <3>1 DEF SongInv, BufferInv
    <3>3. QED
      BY <3>1, <3>2
  <2>2. \A k \in SongPlaces : k < Waiting(songBufOut', songBufIn') =>
          songBuf'[PlaceAfter(songBufOut', k)] = (ByteAt(FileAt + k))'
    BY <2>1 DEF ByteAt
  <2>3. main' = "written" => /\ songBuf'[songBufIn'] = (ByteAt(songOff))' /\ total' < PerFrame
                             /\ Waiting(songBufOut', songBufIn') + 1 < SONG_BUFFER_SIZE
    <3>1. Waiting(songBufOut', songBufIn) <= Waiting(songBufOut, songBufIn)
          /\ Waiting(songBufOut', songBufIn) \in Int /\ Waiting(songBufOut, songBufIn) \in Int
      BY ONLY <1>1, <1>2, PlaceIs
    <3>2. main = "written" => /\ songBuf[songBufIn] = ByteAt(songOff) /\ total < PerFrame
                              /\ Waiting(songBufOut, songBufIn) + 1 < SONG_BUFFER_SIZE
      BY DEF SongInv, BufferInv
    <3>3. (ByteAt(songOff))' = ByteAt(songOff)
      BY DEF ByteAt
    <3>4. QED
      BY <1>1, <3>1, <3>2, <3>3
  <2>4. QED
    BY <2>2, <2>3 DEF BufferInv, Waiting, PlaceAfter, SongPlaces
<1>7. QED
  BY <1>3, <1>4, <1>5, <1>6 DEF SongInv

(* Nothing moves but the player's turn and where the program waits.        *)
LEMMA SongRests ==
  ASSUME SongInv,
         songBuf' = songBuf, songBufIn' = songBufIn, songBufOut' = songBufOut,
         songPos' = songPos, due' = due, loopStart' = loopStart, loopEnd' = loopEnd,
         songOff' = songOff, total' = total, playSong' = playSong,
         playing' = TRUE => playSong = TRUE,
         \/ main' = main
         \/ main \notin {"rewound", "stopped"} /\ main' \notin {"rewound", "written", "stopped"}
  PROVE  SongInv'
<1>1. /\ main' = "written" => main = "written" /\ main' = "stopped" <=> main = "stopped"
      /\ main' = "rewound" <=> main = "rewound"
  OBVIOUS
<1>2. FileAt' = FileAt /\ (Rewinds' <=> Rewinds)
  BY <1>1 DEF FileAt, Rewinds
<1>3. SongTypes'
  BY DEF SongInv, SongTypes, SongPlaces
<1>4. SongStopped'
  BY <1>1 DEF SongInv, SongStopped
<1>5. OffsetInv'
  BY <1>1, <1>2 DEF SongInv, OffsetInv, Waiting
<1>6. BufferInv'
  BY <1>1, <1>2 DEF SongInv, BufferInv, Waiting, PlaceAfter, ByteAt, SongPlaces
<1>7. QED
  BY <1>3, <1>4, <1>5, <1>6 DEF SongInv

(* The steps of the interrupt that take no byte, and a frame seen and      *)
(* cleared.                                                                *)
LEMMA SongRestsInSteps ==
  ASSUME SongInv,
         FrameEnds \/ StreamProcess \/ MusicDone \/ Stall \/ FrameSeen \/ ClearFlag
  PROVE  SongInv'
<1>0. playing = TRUE => playSong = TRUE
  BY DEF SongInv, SongStopped
<1>1. CASE FrameEnds
  BY <1>0, <1>1, SongRests DEF FrameEnds, ring, player, filler
<1>2. CASE StreamProcess
  BY <1>0, <1>2, SongRests DEF StreamProcess, ring, filler
<1>3. CASE MusicDone
  BY <1>0, <1>3, SongRests DEF MusicDone, ring, filler
<1>4. CASE Stall
  BY <1>0, <1>4, SongRests DEF Stall, ring, filler
<1>5. CASE FrameSeen
  BY <1>0, <1>5, SongRests DEF FrameSeen, MainStep, ring, player
<1>6. CASE ClearFlag
  BY <1>0, <1>6, SongRests DEF ClearFlag, MainStep, ring, player
<1>7. QED
  BY <1>1, <1>2, <1>3, <1>4, <1>5, <1>6

(* What the player finds when it is not starved: its next byte, and another. *)
LEMMA NextByteWaits ==
  ASSUME SongInv, ~Starved
  PROVE  songBuf[songBufOut] = due /\ Waiting(songBufOut, songBufIn) >= 2
<1>1. /\ SongBufBytes = Waiting(songBufOut, songBufIn) /\ Waiting(songBufOut, songBufIn) \in SongPlaces
      /\ due \in Nat /\ due < Len(Song) /\ songBufOut \in SongPlaces
  BY SongIs DEF SongInv, SongTypes
<1>2. Waiting(songBufOut, songBufIn) >= 2
  BY <1>1, SongConstants DEF Starved, SONG_BUFFER_MIN, SongPlaces
<1>3. 0 \in SongPlaces /\ 0 < Waiting(songBufOut, songBufIn)
  BY <1>1, <1>2, SongConstants DEF SongPlaces
<1>4. songBuf[PlaceAfter(songBufOut, 0)] = Played(due, 0)
  BY <1>3, PlayedIs DEF SongInv, BufferInv
<1>5. PlaceAfter(songBufOut, 0) = songBufOut
  BY <1>1, SongConstants DEF PlaceAfter, SongPlaces
<1>6. Played(due, 0) = due
  BY <1>1, SongConstants DEF Played
<1>7. QED
  BY <1>2, <1>4, <1>5, <1>6

(* What the song's markers say of the byte the player takes.               *)
LEMMA MarkersAre ==
  ASSUME SongInv
  PROVE  /\ Kind(due) = "loopEnd" <=> due + 1 = Len(Song)
         /\ Kind(due) = "loopStart" <=> due + 1 = LoopAt
         /\ Kind(due) = "note" => /\ due + 1 # Len(Song) /\ due + 1 # LoopAt
                                  /\ due + 2 # Len(Song) /\ due + 2 # LoopAt
<1>1. due \in 0 .. Len(Song) - 1 /\ due \in Nat
  BY SongIs, SongConstants
<1>2. /\ Kind(due) = "loopEnd" <=> due + 1 = Len(Song)
      /\ Kind(due) = "loopStart" <=> due + 1 = LoopAt
      /\ Kind(due) = "note" => Kind(due + 1) = "second"
  BY <1>1, SongAssumption
<1>3. ASSUME Kind(due) = "note"
      PROVE  /\ due + 1 # Len(Song) /\ due + 1 # LoopAt
             /\ due + 2 # Len(Song) /\ due + 2 # LoopAt
  <2>1. due + 1 # Len(Song) /\ due + 1 # LoopAt
    BY <1>2, <1>3
  <2>2. due + 1 \in 0 .. Len(Song) - 1
    BY <1>1, <2>1, SongConstants
  <2>3. /\ Kind(due + 1) = "loopEnd" <=> (due + 1) + 1 = Len(Song)
        /\ Kind(due + 1) = "loopStart" <=> (due + 1) + 1 = LoopAt
    BY <2>2, SongAssumption
  <2>4. (due + 1) + 1 # Len(Song) /\ (due + 1) + 1 # LoopAt
    BY <1>2, <1>3, <2>3
  <2>5. (due + 1) + 1 = due + 2
    BY <1>1
  <2>6. QED
    BY <2>1, <2>4, <2>5
<1>4. QED
  BY <1>2, <1>3

(* A turn of the loop leaves the program where it is, and the program is   *)
(* not between two songs.                                                  *)
LEMMA TurnIs ==
  ASSUME SongInv, NEW k, Turn(k), NEW n \in 1 .. 2, Take(n)
  PROVE  /\ Kind(due) = k /\ Waiting(songBufOut, songBufIn) >= 2
         /\ n <= Waiting(songBufOut, songBufIn)
         /\ songBufOut' = PlaceAfter(songBufOut, n) /\ songBuf' = songBuf /\ songBufIn' = songBufIn
         /\ main' = main /\ songOff' = songOff /\ total' = total
         /\ playSong' = playSong /\ playing' = playing /\ main # "stopped"
<1>1. songBuf[songBufOut] = due /\ Waiting(songBufOut, songBufIn) >= 2
  BY NextByteWaits DEF Turn
<1>2. Kind(due) = k
  BY <1>1 DEF Turn
<1>3. main # "stopped"
  BY DEF Turn, SongInv, SongStopped
<1>4. songBufOut' = PlaceAfter(songBufOut, n)
  <2>1. n \in 0 .. SONG_BUFFER_SIZE /\ songBufOut \in SongPlaces /\ songBufIn \in SongPlaces
    BY SongConstants DEF SongInv, SongTypes
  <2>2. QED
    BY <2>1, BufferIs DEF Take
<1>5. n <= Waiting(songBufOut, songBufIn)
  <2>1. Waiting(songBufOut, songBufIn) \in Int
    BY SongIs, SongConstants DEF SongPlaces
  <2>2. QED
    BY <1>1, <2>1
<1>6. QED
  BY <1>1, <1>2, <1>3, <1>4, <1>5 DEF Turn, Take, filler

(* A note and its second byte.                                             *)
LEMMA SongNote ==
  ASSUME SongInv, Note
  PROVE  SongInv'
<1>1. Turn("note") /\ Take(2) /\ songPos' = songPos + 2 /\ loopStart' = loopStart /\ loopEnd' = loopEnd
  BY DEF Note
<1>2. Kind(due) = "note" /\ due \in Nat /\ due < Len(Song) /\ songPos = due
  BY <1>1, TurnIs, SongIs
<1>3. /\ due + 1 # Len(Song) /\ due + 1 # LoopAt /\ due + 2 # Len(Song) /\ due + 2 # LoopAt
      /\ due' = NextByte(NextByte(due))
  BY <1>1, <1>2, MarkersAre DEF Take
<1>4. due' = due + 2
  BY <1>2, <1>3 DEF NextByte
<1>5. /\ main' = main /\ due' \in 0 .. Len(Song) - 1 /\ songPos' = due'
      /\ due' >= LoopAt <=> due >= LoopAt
  BY <1>1, <1>2, <1>3, <1>4, TurnIs, SongConstants
<1>6. FileAt' = FileAt + 2 /\ (Rewinds' <=> Rewinds)
  BY <1>1, <1>2, <1>4, <1>5, SongConstants DEF FileAt, Rewinds
<1>7. loopStart' = IF due' >= LoopAt THEN LoopAt ELSE 0
  BY <1>1, <1>5 DEF SongInv, SongTypes
<1>8. loopEnd' \in {0, Len(Song)} /\ (Rewinds' => due' >= LoopAt)
  BY <1>1, <1>5, <1>6 DEF SongInv, SongTypes, OffsetInv
<1>9. QED
  BY <1>1, <1>5, <1>6, <1>7, <1>8, TurnIs, PlayerTakes

(* A command of one byte within the loop or before it.                     *)
LEMMA SongTickEnd ==
  ASSUME SongInv, TickEnd
  PROVE  SongInv'
<1>1. /\ Turn("tickEnd") /\ Take(1) /\ songPos' = songPos + 1
      /\ loopStart' = loopStart /\ loopEnd' = loopEnd
  BY DEF TickEnd
<1>2. Kind(due) = "tickEnd" /\ due \in Nat /\ due < Len(Song) /\ songPos = due
  BY <1>1, TurnIs, SongIs
<1>3. due + 1 # Len(Song) /\ due + 1 # LoopAt /\ due' = NextByte(due)
  BY <1>1, <1>2, MarkersAre DEF Take
<1>4. due' = due + 1
  BY <1>2, <1>3 DEF NextByte
<1>5. /\ main' = main /\ due' \in 0 .. Len(Song) - 1 /\ songPos' = due'
      /\ due' >= LoopAt <=> due >= LoopAt
  BY <1>1, <1>2, <1>3, <1>4, TurnIs, SongConstants
<1>6. FileAt' = FileAt + 1 /\ (Rewinds' <=> Rewinds)
  BY <1>1, <1>2, <1>4, <1>5, SongConstants DEF FileAt, Rewinds
<1>7. loopStart' = IF due' >= LoopAt THEN LoopAt ELSE 0
  BY <1>1, <1>5 DEF SongInv, SongTypes
<1>8. loopEnd' \in {0, Len(Song)} /\ (Rewinds' => due' >= LoopAt)
  BY <1>1, <1>5, <1>6 DEF SongInv, SongTypes, OffsetInv
<1>9. QED
  BY <1>1, <1>5, <1>6, <1>7, <1>8, TurnIs, PlayerTakes

(* The loop's start: the player has not been round since the program went  *)
(* back, and its place is noted.                                           *)
LEMMA SongLoopStarts ==
  ASSUME SongInv, LoopStarts
  PROVE  SongInv'
<1>1. /\ Turn("loopStart") /\ Take(1) /\ songPos' = songPos + 1
      /\ loopStart' = songPos + 1 /\ loopEnd' = loopEnd
  BY DEF LoopStarts
<1>2. Kind(due) = "loopStart" /\ due \in Nat /\ due < Len(Song) /\ songPos = due
  BY <1>1, TurnIs, SongIs
<1>3. due + 1 = LoopAt /\ due' = NextByte(due)
  BY <1>1, <1>2, MarkersAre DEF Take
<1>4. due' = due + 1 /\ due' = LoopAt
  BY <1>2, <1>3, SongConstants DEF NextByte
<1>5. /\ main' = main /\ due' \in 0 .. Len(Song) - 1 /\ songPos' = due' /\ ~(due >= LoopAt)
  BY <1>1, <1>2, <1>3, <1>4, TurnIs, SongConstants
<1>6. ~Rewinds /\ ~Rewinds'
  BY <1>1, <1>5 DEF SongInv, OffsetInv, Rewinds
<1>7. FileAt' = FileAt + 1
  BY <1>4, <1>6 DEF FileAt
<1>8. loopStart' = IF due' >= LoopAt THEN LoopAt ELSE 0
  BY <1>1, <1>2, <1>3, <1>4, SongConstants
<1>9. loopEnd' \in {0, Len(Song)}
  BY <1>1 DEF SongInv, SongTypes
<1>10. QED
  BY <1>1, <1>5, <1>6, <1>7, <1>8, <1>9, TurnIs, PlayerTakes

(* The loop's end: the program has gone back for the last one, as it has   *)
(* not read so far behind the song, and it learns of this one.             *)
LEMMA SongLoopEnds ==
  ASSUME SongInv, StreamLoopEnds
  PROVE  SongInv'
<1>1. /\ Turn("loopEnd") /\ Take(1) /\ loopEnd' = songPos + 1
      /\ songPos' = loopStart /\ loopStart' = loopStart
  BY DEF StreamLoopEnds
<1>2. /\ Kind(due) = "loopEnd" /\ due \in Nat /\ due < Len(Song) /\ songPos = due
      /\ songOff = FileAt + Waiting(songBufOut, songBufIn) /\ FileAt \in Nat
      /\ Waiting(songBufOut, songBufIn) \in Nat /\ Waiting(songBufOut, songBufIn) >= 2
      /\ songOff <= Len(Song) + LoopLength
  BY <1>1, TurnIs, SongIs, SongConstants DEF SongPlaces
<1>3. due + 1 = Len(Song) /\ due' = NextByte(due)
  BY <1>1, <1>2, MarkersAre DEF Take
<1>4. due' = LoopAt /\ due >= LoopAt
  BY <1>2, <1>3, SongConstants DEF NextByte
<1>5. ~Rewinds
  BY <1>2, <1>3, SongConstants DEF FileAt
<1>6. FileAt = due
  BY <1>5 DEF FileAt
<1>7. main # "rewound"
  <2>1. ~(songOff <= Len(Song))
    BY <1>2, <1>3, <1>6, SongConstants
  <2>2. QED
    BY <2>1 DEF SongInv, OffsetInv
<1>8. /\ main' = main /\ due' \in 0 .. Len(Song) - 1 /\ songPos' = due' /\ loopStart' = LoopAt
  BY <1>1, <1>4, TurnIs, SongConstants DEF SongInv, SongTypes
<1>9. Rewinds' /\ loopEnd' = Len(Song)
  BY <1>1, <1>2, <1>3, <1>7, <1>8, SongConstants DEF Rewinds
<1>10. FileAt' = FileAt + 1
  BY <1>2, <1>3, <1>4, <1>6, <1>9, SongConstants DEF FileAt
<1>11. due' >= LoopAt /\ loopStart' = IF due' >= LoopAt THEN LoopAt ELSE 0
  BY <1>4, <1>8, SongConstants
<1>12. QED
  BY <1>1, <1>7, <1>8, <1>9, <1>10, <1>11, TurnIs, PlayerTakes

(* The wait begins: the player has gone round, and the program goes back   *)
(* the same way, or it has not.                                            *)
LEMMA SongEnter ==
  ASSUME SongInv, Enter
  PROVE  SongInv'
<1> DEFINE w == Waiting(songBufOut, songBufIn)
<1>1. /\ main = "game" /\ main' = (IF loopEnd # 0 THEN "rewound" ELSE "wait")
      /\ songBuf' = songBuf /\ songBufIn' = songBufIn /\ songBufOut' = songBufOut
      /\ songPos' = songPos /\ due' = due /\ loopStart' = loopStart /\ loopEnd' = loopEnd
      /\ playing' = playing /\ playSong' = playSong /\ total' = 0
      /\ songOff' = IF loopEnd # 0 THEN songOff - loopEnd + loopStart ELSE songOff
  BY DEF Enter, MainStep, ring, player
<1>2. /\ FileAt \in Nat /\ w \in Nat /\ w < SONG_BUFFER_SIZE /\ songOff = FileAt + w
      /\ songOff <= Len(Song) + LoopLength /\ songOff \in Nat /\ due \in Nat /\ due < Len(Song)
      /\ loopEnd \in {0, Len(Song)} /\ loopStart = IF due >= LoopAt THEN LoopAt ELSE 0
  <2>1. w \in SongPlaces /\ songOff = FileAt + w /\ FileAt \in Nat /\ songOff \in Nat
        /\ songOff <= Len(Song) + LoopLength /\ due \in Nat /\ due < Len(Song)
    BY SongIs
  <2>2. w \in Nat /\ w < SONG_BUFFER_SIZE
    BY <2>1, SongConstants DEF SongPlaces
  <2>3. QED
    BY <2>1, <2>2 DEF SongInv, SongTypes
<1> HIDE DEF w
<1>3. ~Rewinds' /\ FileAt' = due
  BY <1>1 DEF Rewinds, FileAt
<1>4. /\ songOff' = FileAt' + w /\ songOff' \in Nat
      /\ songOff' + 2 <= Len(Song) + SONG_BUFFER_SIZE
      /\ main' = "rewound" => songOff' <= Len(Song) /\ loopEnd' = Len(Song)
  <2>1. CASE loopEnd = 0
    <3>1. FileAt = due /\ songOff' = songOff /\ main' # "rewound"
      BY <1>1, <2>1 DEF Rewinds, FileAt
    <3>2. songOff' = FileAt' + w /\ songOff' \in Nat /\ songOff' + 2 <= Len(Song) + SONG_BUFFER_SIZE
      BY <1>2, <1>3, <3>1, SongConstants
    <3>3. QED
      BY <3>1, <3>2
  <2>2. CASE loopEnd # 0
    <3>1. Rewinds /\ loopEnd = Len(Song)
      BY <1>1, <1>2, <2>2 DEF Rewinds
    <3>2. FileAt = Len(Song) + (due - LoopAt) /\ loopStart = LoopAt
      BY <1>2, <3>1 DEF FileAt, SongInv, OffsetInv
    <3>3. songOff' = (songOff - Len(Song)) + LoopAt
      BY <1>1, <1>2, <2>2, <3>1, <3>2, SongConstants
    <3>4. songOff' = due + w /\ songOff' <= Len(Song)
      BY <1>2, <3>2, <3>3, SongConstants
    <3>5. songOff' = FileAt' + w /\ songOff' \in Nat /\ songOff' + 2 <= Len(Song) + SONG_BUFFER_SIZE
      BY <1>2, <1>3, <3>4, SongConstants
    <3>6. QED
      BY <1>1, <3>1, <3>4, <3>5
  <2>3. QED
    BY <2>1, <2>2
<1>5. SongTypes'
  BY <1>1, <1>4, SongConstants DEF SongInv, SongTypes, SongPlaces
<1>6. SongStopped'
  BY <1>1 DEF SongInv, SongStopped
<1>7. OffsetInv'
  <2>1. songOff' + 2 <= Len(Song) + SONG_BUFFER_SIZE + total'
    BY <1>1, <1>4, SongConstants
  <2>2. QED
    BY <1>1, <1>3, <1>4, <2>1 DEF OffsetInv, Waiting, w
<1>8. BufferInv'
  <2>1. \A n \in SongPlaces : n < w =>
          songBuf[PlaceAfter(songBufOut, n)] = ByteAt(due + n)
    <3>1. ASSUME NEW n \in SongPlaces, n < w
          PROVE  songBuf[PlaceAfter(songBufOut, n)] = ByteAt(due + n)
      <4>1. songBuf[PlaceAfter(songBufOut, n)] = ByteAt(FileAt + n)
        BY <3>1 DEF SongInv, BufferInv, w
      <4>2. CASE loopEnd = 0
        BY <1>1, <4>1, <4>2 DEF Rewinds, FileAt
      <4>3. CASE loopEnd # 0
        <5>1. Rewinds /\ n \in Int /\ n >= 0 /\ main' = "rewound"
          BY <1>1, <3>1, <4>3, SongConstants DEF SongPlaces, Rewinds
        <5>2. FileAt = Len(Song) + (due - LoopAt) /\ due >= LoopAt /\ due + w <= Len(Song)
          BY <1>2, <1>3, <1>4, <5>1 DEF FileAt, SongInv, OffsetInv
        <5>3. ~(FileAt + n < Len(Song)) /\ (FileAt + n) - LoopLength = due + n /\ due + n < Len(Song)
          BY <1>2, <3>1, <5>1, <5>2, SongConstants
        <5>4. QED
          BY <4>1, <5>3 DEF ByteAt
      <4>4. QED
        BY <4>2, <4>3
    <3>2. QED
      BY <3>1
  <2>2. QED
    BY <1>1, <1>3, <2>1 DEF BufferInv, Waiting, PlaceAfter, ByteAt, SongPlaces, w
<1>9. QED
  BY <1>5, <1>6, <1>7, <1>8 DEF SongInv

(* It has gone back.                                                       *)
LEMMA SongRewound ==
  ASSUME SongInv, Rewound
  PROVE  SongInv'
<1>1. /\ main = "rewound" /\ main' = "wait" /\ loopEnd' = 0
      /\ songBuf' = songBuf /\ songBufIn' = songBufIn /\ songBufOut' = songBufOut
      /\ songPos' = songPos /\ due' = due /\ loopStart' = loopStart
      /\ playing' = playing /\ playSong' = playSong /\ total' = total /\ songOff' = songOff
  BY DEF Rewound, MainStep, ring, player
<1>2. ~Rewinds /\ ~Rewinds' /\ FileAt' = FileAt
  BY <1>1 DEF Rewinds, FileAt
<1>3. SongTypes'
  BY <1>1 DEF SongInv, SongTypes, SongPlaces
<1>4. SongStopped'
  BY <1>1 DEF SongInv, SongStopped
<1>5. OffsetInv'
  BY <1>1, <1>2 DEF SongInv, OffsetInv, Waiting
<1>6. BufferInv'
  BY <1>1, <1>2 DEF SongInv, BufferInv, Waiting, PlaceAfter, ByteAt, SongPlaces
<1>7. QED
  BY <1>3, <1>4, <1>5, <1>6 DEF SongInv

(* Room for a byte, and a place that no waiting byte has.                  *)
LEMMA RoomFor ==
  ASSUME NEW o \in SongPlaces, NEW i \in SongPlaces
  PROVE  /\ o # PlaceAfter(i, 1) => Waiting(o, i) + 1 < SONG_BUFFER_SIZE
         /\ PlaceAfter(o, Waiting(o, i)) = i
         /\ \A n \in SongPlaces : n < Waiting(o, i) => PlaceAfter(o, n) # i
         /\ Waiting(o, i) + 1 < SONG_BUFFER_SIZE => Waiting(o, PlaceAfter(i, 1)) = Waiting(o, i) + 1
<1>1. /\ SONG_BUFFER_SIZE \in Nat /\ SONG_BUFFER_SIZE > 2
      /\ o \in Int /\ i \in Int /\ o >= 0 /\ i >= 0
      /\ o < SONG_BUFFER_SIZE /\ i < SONG_BUFFER_SIZE
  BY SongConstants DEF SongPlaces
<1>2. o # PlaceAfter(i, 1) => Waiting(o, i) + 1 < SONG_BUFFER_SIZE
  BY <1>1 DEF PlaceAfter, Waiting
<1>3. PlaceAfter(o, Waiting(o, i)) = i
  BY <1>1 DEF PlaceAfter, Waiting
<1>4. ASSUME NEW n \in SongPlaces, n < Waiting(o, i)
      PROVE  PlaceAfter(o, n) # i
  <2>1. n \in Int /\ n >= 0 /\ n < Waiting(o, i)
    BY <1>1, <1>4 DEF SongPlaces
  <2>2. QED
    BY <1>1, <2>1 DEF PlaceAfter, Waiting
<1>5. Waiting(o, i) + 1 < SONG_BUFFER_SIZE => Waiting(o, PlaceAfter(i, 1)) = Waiting(o, i) + 1
  BY <1>1 DEF PlaceAfter, Waiting
<1>6. QED
  BY <1>2, <1>3, <1>4, <1>5

(* A byte of the file goes behind those that wait.                         *)
LEMMA SongWrite ==
  ASSUME SongInv, SongBufWrite
  PROVE  SongInv'
<1> DEFINE w == Waiting(songBufOut, songBufIn)
<1>1. /\ main = "wait" /\ main' = "written" /\ loopEnd' = loopEnd
      /\ songBuf' = [songBuf EXCEPT ![songBufIn] = FileByte(songOff)]
      /\ songBufIn' = songBufIn /\ songBufOut' = songBufOut
      /\ songPos' = songPos /\ due' = due /\ loopStart' = loopStart
      /\ playing' = playing /\ playSong' = playSong /\ total' = total /\ songOff' = songOff
      /\ ~SongBufFull /\ total < PerFrame
  BY DEF SongBufWrite, MainStep, player
<1>2. /\ songBufIn \in SongPlaces /\ songBufOut \in SongPlaces /\ songBuf \in [SongPlaces -> Int]
      /\ total \in Nat /\ songOff \in Nat /\ FileAt \in Nat
      /\ songOff + 2 <= Len(Song) + SONG_BUFFER_SIZE + total
  BY SongIs DEF SongInv, SongTypes, OffsetInv
<1>3. songOff < Len(Song) + Padding /\ songOff < Len(Song) + LoopLength
  BY <1>1, <1>2, SongConstants
<1>4. FileByte(songOff) = ByteAt(songOff) /\ ByteAt(songOff) \in Int
  BY <1>2, <1>3, FileIs, SongConstants DEF ByteAt
<1>5. w + 1 < SONG_BUFFER_SIZE
  <2>1. (songBufIn + 1) % SONG_BUFFER_SIZE = PlaceAfter(songBufIn, 1)
    <3>1. 1 \in 0 .. SONG_BUFFER_SIZE
      BY SongConstants
    <3>2. QED
      BY <1>2, <3>1, BufferIs
  <2>2. QED
    BY <1>1, <1>2, <2>1, RoomFor DEF SongBufFull
<1>6. /\ songBuf' \in [SongPlaces -> Int] /\ songBuf'[songBufIn] = ByteAt(songOff)
      /\ \A p \in SongPlaces : p # songBufIn => songBuf'[p] = songBuf[p]
  BY <1>1, <1>2, <1>4
<1>7. /\ ~(main' = "rewound") /\ (Rewinds' <=> Rewinds) /\ FileAt' = FileAt
  BY <1>1 DEF Rewinds, FileAt
<1>8. SongTypes'
  BY <1>1, <1>6 DEF SongInv, SongTypes, SongPlaces
<1>9. SongStopped'
  BY <1>1 DEF SongInv, SongStopped
<1>10. OffsetInv'
  BY <1>1, <1>7 DEF SongInv, OffsetInv, Waiting
<1>11. BufferInv'
  <2>1. ASSUME NEW n \in SongPlaces, n < w
        PROVE  songBuf'[PlaceAfter(songBufOut, n)] = ByteAt(FileAt + n)
    <3>1. PlaceAfter(songBufOut, n) # songBufIn
      BY <1>2, <2>1, RoomFor
    <3>2. PlaceAfter(songBufOut, n) \in SongPlaces
      <4>1. n \in 0 .. SONG_BUFFER_SIZE
        BY SongConstants DEF SongPlaces
      <4>2. QED
        BY <1>2, <4>1, BufferIs
    <3>3. songBuf[PlaceAfter(songBufOut, n)] = ByteAt(FileAt + n)
      BY <2>1 DEF SongInv, BufferInv
    <3>4. QED
      BY <1>6, <3>1, <3>2, <3>3
  <2>2. \A n \in SongPlaces : n < w => songBuf'[PlaceAfter(songBufOut, n)] = ByteAt(FileAt + n)
    BY <2>1
  <2> HIDE DEF w
  <2>3. (w < SONG_BUFFER_SIZE)' <=> w < SONG_BUFFER_SIZE
    BY <1>1 DEF w, Waiting
  <2>4. QED
    BY <1>1, <1>5, <1>6, <1>7, <2>2 DEF BufferInv, Waiting, PlaceAfter, ByteAt, SongPlaces, w
<1>12. QED
  BY <1>8, <1>9, <1>10, <1>11 DEF SongInv

(* It is one of those that wait.                                           *)
LEMMA SongWritten ==
  ASSUME SongInv, Written
  PROVE  SongInv'
<1> DEFINE w == Waiting(songBufOut, songBufIn)
<1>1. /\ main = "written" /\ main' = "wait" /\ loopEnd' = loopEnd /\ songBuf' = songBuf
      /\ songBufIn' = (songBufIn + 1) % SONG_BUFFER_SIZE /\ songBufOut' = songBufOut
      /\ songPos' = songPos /\ due' = due /\ loopStart' = loopStart
      /\ playing' = playing /\ playSong' = playSong /\ total' = total + 1 /\ songOff' = songOff + 1
  BY DEF Written, MainStep, player
<1>2. /\ songBufIn \in SongPlaces /\ songBufOut \in SongPlaces
      /\ total \in Nat /\ songOff \in Nat /\ FileAt \in Nat /\ w \in Nat
      /\ songOff + 2 <= Len(Song) + SONG_BUFFER_SIZE + total /\ songOff = FileAt + w
  BY SongIs DEF SongInv, SongTypes, OffsetInv, SongPlaces
<1>3. songBuf[songBufIn] = ByteAt(songOff) /\ total < PerFrame /\ w + 1 < SONG_BUFFER_SIZE
  BY <1>1 DEF SongInv, BufferInv
<1>4. songBufIn' = PlaceAfter(songBufIn, 1) /\ songBufIn' \in SongPlaces
  <2>1. 1 \in 0 .. SONG_BUFFER_SIZE
    BY SongConstants
  <2>2. QED
    BY <1>1, <1>2, <2>1, BufferIs
<1>5. Waiting(songBufOut, songBufIn') = w + 1 /\ PlaceAfter(songBufOut, w) = songBufIn
  BY <1>2, <1>3, <1>4, RoomFor
<1>6. /\ ~(main' = "rewound") /\ (Rewinds' <=> Rewinds) /\ FileAt' = FileAt
  BY <1>1 DEF Rewinds, FileAt
<1>7. SongTypes'
  <2>1. total' \in 0 .. PerFrame /\ songOff' \in Nat
    <3>1. total \in Nat /\ total < PerFrame /\ PerFrame \in Nat /\ songOff \in Nat
          /\ total' = total + 1 /\ songOff' = songOff + 1
      BY <1>1, <1>2, <1>3, SongConstants
    <3>2. QED
      BY <3>1
  <2>2. QED
    BY <1>1, <1>4, <2>1 DEF SongInv, SongTypes, SongPlaces
<1>8. SongStopped'
  BY <1>1 DEF SongInv, SongStopped
<1> HIDE DEF w
<1>9. Waiting(songBufOut', songBufIn') = w + 1
  BY <1>1, <1>5
<1>10. OffsetInv'
  <2>1. songOff' = FileAt' + (w + 1) /\ songOff' + 2 <= Len(Song) + SONG_BUFFER_SIZE + total'
    BY <1>1, <1>2, <1>6, SongConstants
  <2>2. Rewinds' => due' >= LoopAt
    BY <1>1, <1>6 DEF SongInv, OffsetInv
  <2>3. QED
    BY <1>6, <1>9, <2>1, <2>2 DEF OffsetInv
<1>11. BufferInv'
  <2>1. ASSUME NEW n \in SongPlaces, n < w + 1
        PROVE  songBuf[PlaceAfter(songBufOut, n)] = ByteAt(FileAt + n)
    <3>1. CASE n < w
      BY <3>1 DEF SongInv, BufferInv, w
    <3>2. CASE n = w
      BY <1>2, <1>3, <1>5, <3>2
    <3>3. n \in Int
      BY SongConstants DEF SongPlaces
    <3>4. QED
      BY <1>2, <2>1, <3>1, <3>2, <3>3
  <2>2. \A n \in SongPlaces : n < w + 1 => songBuf[PlaceAfter(songBufOut, n)] = ByteAt(FileAt + n)
    BY <2>1
  <2>3. main' # "written"
    BY <1>1
  <2>4. \A n \in SongPlaces : n < Waiting(songBufOut', songBufIn') =>
          songBuf'[PlaceAfter(songBufOut', n)] = ByteAt(FileAt' + n)
    BY <1>1, <1>6, <1>9, <2>2
  <2>5. QED
    BY <2>3, <2>4 DEF BufferInv, PlaceAfter, ByteAt, SongPlaces
<1>12. QED
  BY <1>7, <1>8, <1>10, <1>11 DEF SongInv

(* The song is stopped, with no loop's end pending.                        *)
LEMMA SongStops ==
  ASSUME ~LateRestart, SongInv, StopSong
  PROVE  SongInv'
<1>1. /\ main = "game" /\ main' = "stopped" /\ loopEnd' = loopEnd /\ loopEnd = 0 /\ ~playing
      /\ songBuf' = songBuf /\ songBufIn' = songBufIn /\ songBufOut' = songBufOut
      /\ songPos' = songPos /\ due' = due /\ loopStart' = loopStart
      /\ playing' = playing /\ playSong' = FALSE /\ total' = total /\ songOff' = songOff
  BY DEF StopSong, MainStep, ring, player
<1>2. ~Rewinds /\ ~Rewinds' /\ FileAt' = FileAt
  BY <1>1 DEF Rewinds, FileAt
<1>3. SongTypes'
  BY <1>1 DEF SongInv, SongTypes, SongPlaces
<1>4. SongStopped'
  BY <1>1 DEF SongInv, SongStopped
<1>5. OffsetInv'
  BY <1>1, <1>2 DEF SongInv, OffsetInv, Waiting
<1>6. BufferInv'
  BY <1>1, <1>2 DEF SongInv, BufferInv, Waiting, PlaceAfter, ByteAt, SongPlaces
<1>7. QED
  BY <1>3, <1>4, <1>5, <1>6 DEF SongInv

(* The ring and the song begin.                                            *)
LEMMA SongStarts ==
  ASSUME SongInv, StartSong
  PROVE  SongInv'
<1>1. /\ main = "stopped" /\ main' = "game" /\ loopEnd' = loopEnd
      /\ songBuf' = songBuf /\ songBufIn' = 0 /\ songBufOut' = 0
      /\ songPos' = 0 /\ due' = 0 /\ loopStart' = 0
      /\ playing' = playing /\ playSong' = TRUE /\ total' = total /\ songOff' = 0
  BY DEF StartSong
<1>2. loopEnd = 0
  BY <1>1 DEF SongInv, SongStopped
<1>3. ~Rewinds' /\ FileAt' = 0
  BY <1>1, <1>2 DEF Rewinds, FileAt
<1>4. Waiting(songBufOut', songBufIn') = 0 /\ 0 \in SongPlaces /\ 0 \in 0 .. Len(Song) - 1
  BY <1>1, SongConstants DEF Waiting, SongPlaces
<1>5. SongTypes'
  <2>1. loopStart' = IF due' >= LoopAt THEN LoopAt ELSE 0
    BY <1>1, SongConstants
  <2>2. QED
    BY <1>1, <1>4, <2>1 DEF SongInv, SongTypes, SongPlaces
<1>6. SongStopped'
  BY <1>1 DEF SongInv, SongStopped
<1>7. OffsetInv'
  <2>1. songOff' = FileAt' + 0 /\ songOff' + 2 <= Len(Song) + SONG_BUFFER_SIZE + total'
    BY <1>1, <1>3, SongConstants, SongIs, SMTT(30)
  <2>2. QED
    BY <1>1, <1>3, <1>4, <2>1 DEF OffsetInv
<1>8. BufferInv'
  <2>1. \A n \in SongPlaces : ~(n < Waiting(songBufOut', songBufIn'))
    BY <1>4, SongConstants DEF SongPlaces
  <2>2. main' # "written"
    BY <1>1
  <2>3. QED
    BY <2>1, <2>2 DEF BufferInv, SongPlaces
<1>9. QED
  BY <1>5, <1>6, <1>7, <1>8 DEF SongInv

(* The ring is empty and the song at its start.                            *)
LEMMA SongBegins ==
  ASSUME StreamInit
  PROVE  SongInv
<1>1. /\ songBuf = [i \in SongPlaces |-> 0] /\ songBufIn = 0 /\ songBufOut = 0
      /\ songPos = 0 /\ loopStart = 0 /\ loopEnd = 0 /\ playSong = TRUE /\ playing = FALSE
      /\ main = "game" /\ songOff = 0 /\ total = 0 /\ due = 0
  BY DEF StreamInit, SongPlaces
<1>2. ~Rewinds /\ FileAt = 0
  BY <1>1 DEF Rewinds, FileAt
<1>3. Waiting(songBufOut, songBufIn) = 0 /\ 0 \in SongPlaces /\ 0 \in 0 .. Len(Song) - 1
  BY <1>1, SongConstants DEF Waiting, SongPlaces
<1>4. SongTypes
  <2>1. loopStart = IF due >= LoopAt THEN LoopAt ELSE 0
    BY <1>1, SongConstants
  <2>2. total \in 0 .. PerFrame
    BY <1>1, SongConstants
  <2>3. QED
    BY <1>1, <1>3, <2>1, <2>2 DEF SongTypes
<1>5. SongStopped
  BY <1>1 DEF SongStopped
<1>6. OffsetInv
  <2>1. songOff = FileAt + 0 /\ songOff + 2 <= Len(Song) + SONG_BUFFER_SIZE + total
    BY <1>1, <1>2, SongConstants
  <2>2. QED
    BY <1>1, <1>2, <1>3, <2>1 DEF OffsetInv
<1>7. BufferInv
  <2>1. \A n \in SongPlaces : ~(n < Waiting(songBufOut, songBufIn))
    BY <1>3, SongConstants DEF SongPlaces
  <2>2. main # "written"
    BY <1>1
  <2>3. QED
    BY <2>1, <2>2 DEF BufferInv
<1>8. QED
  BY <1>4, <1>5, <1>6, <1>7 DEF SongInv

(* Every step keeps the ring as it should be.                              *)
LEMMA SongSteps ==
  ASSUME ~LateRestart, SongInv, [StreamNext]_streamVars
  PROVE  SongInv'
<1>1. CASE FrameEnds \/ StreamProcess \/ MusicDone \/ Stall \/ FrameSeen \/ ClearFlag
  BY <1>1, SongRestsInSteps
<1>2. CASE Note
  BY <1>2, SongNote
<1>3. CASE TickEnd
  BY <1>3, SongTickEnd
<1>4. CASE LoopStarts
  BY <1>4, SongLoopStarts
<1>5. CASE StreamLoopEnds
  BY <1>5, SongLoopEnds
<1>6. CASE Enter
  BY <1>6, SongEnter
<1>7. CASE Rewound
  BY <1>7, SongRewound
<1>8. CASE SongBufWrite
  BY <1>8, SongWrite
<1>9. CASE Written
  BY <1>9, SongWritten
<1>10. CASE StopSong
  BY <1>10, SongStops
<1>11. CASE StartSong
  BY <1>11, SongStarts
<1>12. CASE UNCHANGED streamVars
  <2>1. playing = TRUE => playSong = TRUE
    BY DEF SongInv, SongStopped
  <2>2. QED
    BY <1>12, <2>1, SongRests DEF streamVars
<1>13. QED
  BY <1>1, <1>2, <1>3, <1>4, <1>5, <1>6, <1>7, <1>8, <1>9, <1>10, <1>11, <1>12
     DEF StreamNext, Interrupt, Fill

(* What waits in the streamed song's ring is the song from the player's    *)
(* place on, over the loop's end too: the interrupt tells of the loop's    *)
(* end with a byte that the program reads a frame later, when it has       *)
(* filled the ring from what the file holds behind the song.  It needs a   *)
(* song that repeats its loop there for as long as the ring and a frame's  *)
(* bytes, a loop no shorter than that, and no song started over with the   *)
(* last one's end pending.                                                 *)
THEOREM SongStaysInRing ==
  ASSUME ~LateRestart
  PROVE  StreamSpec => []RingHoldsSong
<1>1. StreamInit => SongInv
  BY SongBegins
<1>2. SongInv /\ [StreamNext]_streamVars => SongInv'
  BY SongSteps
<1>3. SongInv => RingHoldsSong
  BY SongInvGives
<1>4. QED
  BY <1>1, <1>2, <1>3, PTL DEF StreamSpec

-----------------------------------------------------------------------------
(***************************************************************************)
(* The EEPROM.  What the bytes still to be written leave of the blocks     *)
(* that are not written to, and what those already written made of the     *)
(* ones that are.                                                          *)
(***************************************************************************)
\* The promise, for one id.
Keeps(id) ==
    CASE saved[id].is = "any" -> TRUE
      [] saved[id].is = "none" -> Hits(id) = {}
      [] OTHER -> Hits(id) # {} /\ EepromReadBlock(id) = saved[id].data

\* Every byte a block or a formatting writes is still to come or written.
Pends(i, k, v) == <<i, k, v>> \in task
Has(i, k, v) == Pends(i, k, v) \/ eeprom[i][k] = v

\* A block is written to the last one with its id, or over a free one.
Fills(i, id, data) ==
    /\ task \subseteq BytesOf(i, id, data) /\ Pends(i, 3, data)
    /\ \A h \in Hits(id) : h <= i
    /\ \A k \in {1, 2} : Has(i, k, id[k]) /\ eeprom[i][k] \in {id[k], Erased}

Freed(kept) == Block \ ({0} \cup Spared(kept))

\* A formatting that spares ids has found the signature there.
Formats(kept) ==
    /\ task \subseteq FormatBytes(kept)
    /\ kept # {} => Id(0) = EEPROM_SIGNATURE
    /\ \A k \in {1, 2} : Has(0, k, EEPROM_SIGNATURE[k])
    /\ \A i \in Freed(kept), k \in {1, 2} : Has(i, k, Erased)

Writings == [is : {"power", "nothing"}]
            \cup [is : {"block"}, id : Ids, data : BlockData]
            \cup [is : {"format"}, kept : SUBSET Ids]

EepromInv ==
    /\ IsEeprom(eeprom) /\ saved = [id \in Ids |-> saved[id]] /\ writes \in Writings
    /\ task = {} <=> writes.is \in {"power", "nothing"}
    /\ writes.is \in {"nothing", "block"} => Id(0) = EEPROM_SIGNATURE
    /\ writes.is = "power" /\ Id(0) = EEPROM_SIGNATURE => \A id \in Ids : Keeps(id)
    /\ writes.is = "nothing" => \A id \in Ids : Keeps(id)
    /\ writes.is = "block" =>
          /\ \A id \in Ids \ {writes.id} : Keeps(id)
          /\ \E i \in Block \ {0} : Fills(i, writes.id, writes.data)
    /\ writes.is = "format" => Formats(writes.kept) /\ \A id \in writes.kept : Keeps(id)

(* Of blocks there is a last one: else every number up to one of them, and so *)
(* one more of a finite set, is up to one of them.                            *)
LEMMA LastBlock ==
  ASSUME NEW T, T \subseteq Block, T # {}
  PROVE  Max(T) \in T /\ \A y \in T : y <= Max(T)
<1>1. \E x \in T : \A y \in T : x >= y
  <2>1. SUFFICES ASSUME \A x \in T : \E y \in T : ~(x >= y) PROVE FALSE
    OBVIOUS
  <2> DEFINE A == {n \in Block : \E y \in T : n <= y}
             next == [n \in A |-> n + 1]
  <2>2. EEPROM_MAX_BLOCKS \in Nat \ {0} /\ Block = 0 .. EEPROM_MAX_BLOCKS - 1
    BY EepromAssumption DEF Block
  <2>3. 0 \in A /\ A \subseteq Nat
    <3>1. PICK t \in T : TRUE
      OBVIOUS
    <3>2. 0 \in Block /\ 0 <= t /\ Block \subseteq Nat
      BY <2>2
    <3>3. QED
      BY <3>1, <3>2
  <2>4. ASSUME NEW n \in A PROVE n + 1 \in A
    <3>1. PICK y \in T : n <= y
      OBVIOUS
    <3>2. PICK z \in T : ~(y >= z)
      BY <2>1
    <3>3. n + 1 <= z /\ n + 1 \in Block
      BY <2>2, <3>1, <3>2
    <3>4. QED
      BY <3>3
  <2>5. IsFiniteSet(A)
    <3>1. IsFiniteSet(0 .. EEPROM_MAX_BLOCKS - 1)
      BY <2>2, FS_Interval
    <3>2. A \subseteq 0 .. EEPROM_MAX_BLOCKS - 1
      BY <2>2
    <3>3. QED
      BY <3>1, <3>2, FS_Subset
  <2>6. next \in Injection(A, A)
    BY <2>3, <2>4 DEF Injection, IsInjective
  <2>7. next \in Surjection(A, A)
    <3> HIDE DEF A, next
    <3>1. QED
      BY <2>5, <2>6, FS_Injection
  <2>8. PICK n \in A : next[n] = 0
    BY <2>3, <2>7 DEF Surjection
  <2>9. n \in Nat /\ n + 1 = 0
    BY <2>3, <2>8
  <2>10. QED
    BY <2>9
<1>2. Max(T) \in T /\ \A y \in T : Max(T) >= y
  BY <1>1 DEF Max
<1>3. T \subseteq Int
  BY EepromAssumption DEF Block
<1>4. QED
  BY <1>2, <1>3

(* And a first one, the last of those that no other is before. *)
LEMMA FirstBlock ==
  ASSUME NEW T, T \subseteq Block, T # {}
  PROVE  Min(T) \in T
<1> DEFINE U == {x \in Block : \A y \in T : x <= y}
<1>1. EEPROM_MAX_BLOCKS \in Nat \ {0} /\ Block = 0 .. EEPROM_MAX_BLOCKS - 1
  BY EepromAssumption DEF Block
<1>2. U \subseteq Block /\ U # {}
  <2>1. 0 \in U
    BY <1>1
  <2>2. QED
    BY <2>1
<1> DEFINE m == Max(U)
<1>3. m \in U /\ \A x \in U : x <= m
  <2> HIDE DEF U
  <2>1. QED
    BY <1>2, LastBlock
<1> HIDE DEF m
<1>4. m \in T
  <2>1. SUFFICES ASSUME m \notin T PROVE FALSE
    OBVIOUS
  <2>2. PICK t \in T : TRUE
    OBVIOUS
  <2>3. \A y \in T : m + 1 <= y
    BY <1>1, <1>3, <2>1
  <2>4. m + 1 \in Block
    BY <1>1, <1>3, <2>2, <2>3
  <2>5. m + 1 \in U
    BY <2>3, <2>4
  <2>6. m + 1 <= m /\ m \in Int
    BY <1>1, <1>3, <2>5
  <2>7. QED
    BY <2>6
<1>5. \E x \in T : \A y \in T : x =< y
  BY <1>3, <1>4
<1>6. QED
  BY <1>5 DEF Min

-----------------------------------------------------------------------------
\* The byte k of block i becomes v.
Stores(i, k, v) == eeprom' = [eeprom EXCEPT ![i][k] = v]

(* One byte of a block changes. *)
LEMMA ByteChanges ==
  ASSUME IsEeprom(eeprom), NEW i \in Block, NEW k \in 1 .. 3, NEW v, Stores(i, k, v)
  PROVE  /\ IsEeprom(eeprom)' /\ eeprom'[i][k] = v
         /\ \A j \in Block, m \in 1 .. 3 : (j # i \/ m # k) => eeprom'[j][m] = eeprom[j][m]
<1>1. DOMAIN eeprom = Block /\ \A j \in Block : eeprom[j] = <<eeprom[j][1], eeprom[j][2], eeprom[j][3]>>
  BY DEF IsEeprom
<1> DEFINE B == [eeprom[i] EXCEPT ![k] = v]
<1>2. eeprom' = [eeprom EXCEPT ![i] = B]
  BY DEF Stores
<1>3. /\ B = <<B[1], B[2], B[3]>> /\ B[k] = v
      /\ \A m \in 1 .. 3 : m # k => B[m] = eeprom[i][m]
  <2> DEFINE a == eeprom[i][1]
             b == eeprom[i][2]
             c == eeprom[i][3]
  <2>1. B = [<<a, b, c>> EXCEPT ![k] = v]
    BY <1>1
  <2>2. eeprom[i] = <<a, b, c>>
    BY <1>1
  <2> HIDE DEF a, b, c, B
  <2>3. QED
    BY <2>1, <2>2
<1>4. eeprom'[i] = B /\ \A j \in Block : j # i => eeprom'[j] = eeprom[j]
  <2> HIDE DEF B
  <2>1. QED
    BY <1>1, <1>2
<1> HIDE DEF B
<1>5. DOMAIN eeprom' = Block
  BY <1>1, <1>2
<1>6. \A j \in Block : eeprom'[j] = <<eeprom'[j][1], eeprom'[j][2], eeprom'[j][3]>>
  BY <1>1, <1>3, <1>4
<1>7. IsEeprom(eeprom)'
  <2>1. eeprom' = [j \in Block |-> eeprom'[j]]
    BY <1>1, <1>2
  <2>2. QED
    BY <1>6, <2>1 DEF IsEeprom
<1>8. QED
  BY <1>3, <1>4, <1>7

(* What an id holds stays while the blocks with it do. *)
LEMMA HoldsStays ==
  ASSUME NEW id, Keeps(id), saved'[id] = saved[id],
         \A j \in Block : /\ Id(j)' = id <=> Id(j) = id
                          /\ Id(j) = id => eeprom'[j][3] = eeprom[j][3]
  PROVE  Keeps(id)'
<1>1. Hits(id)' = Hits(id)
  BY DEF Hits
<1>2. Hits(id) # {} => Max(Hits(id)) \in Block /\ Id(Max(Hits(id))) = id
  <2>1. Hits(id) \subseteq Block
    BY DEF Hits
  <2>2. Hits(id) # {} => Max(Hits(id)) \in Hits(id)
    BY <2>1, LastBlock
  <2>3. QED
    BY <2>2 DEF Hits
<1>3. Hits(id) # {} => EepromReadBlock(id)' = EepromReadBlock(id)
  BY <1>1, <1>2 DEF EepromReadBlock
<1>4. QED
  BY <1>1, <1>3 DEF Keeps

\* The first byte still to be written is.
WritesByte(b) == /\ IsFirst(b) /\ task' = task \ {b}
                 /\ eeprom' = [eeprom EXCEPT ![b[1]][b[2]] = b[3]]

(* A torn id of the block written is none that games use. *)
LEMMA TornIsNone ==
  ASSUME NEW id \in Ids, NEW own \in Ids, NEW e1, NEW e2,
         e1 \in {own[1], Erased}, e2 \in {own[2], Erased}
  PROVE  <<e1, e2>> = id => own = id
<1>1. /\ id = <<id[1], id[2]>> /\ own = <<own[1], own[2]>> /\ Erased \notin {id[1], id[2]}
  BY EepromAssumption DEF IsId
<1>2. QED
  BY <1>1

(* A block's next byte is written. *)
LEMMA BlockWritten ==
  ASSUME IsEeprom(eeprom), Id(0) = EEPROM_SIGNATURE, NEW own \in Ids, NEW data,
         NEW i \in Block \ {0}, Fills(i, own, data), NEW b, WritesByte(b)
  PROVE  /\ IsEeprom(eeprom)' /\ Id(0)' = EEPROM_SIGNATURE
         /\ \A id \in Ids \ {own} : Keeps(id) /\ saved'[id] = saved[id] => Keeps(id)'
         /\ task' # {} => Fills(i, own, data)'
         /\ task' = {} => Hits(own)' # {} /\ EepromReadBlock(own)' = data
<1>0. IsFirst(b) /\ task' = task \ {b} /\ eeprom' = [eeprom EXCEPT ![b[1]][b[2]] = b[3]]
  BY DEF WritesByte
<1>1. PICK k, v :
        /\ k \in 1 .. 3 /\ b = <<i, k, v>>
        /\ k \in {1, 2} => v = own[k]
        /\ k = 3 => v = data
  BY <1>0 DEF IsFirst, Fills, BytesOf, IdBytes
<1>2. Stores(i, k, v) /\ i \in Block /\ k \in 1 .. 3 /\ <<i, k, v>> \in task
  BY <1>0, <1>1 DEF IsFirst, Stores
<1>3. /\ IsEeprom(eeprom)' /\ eeprom'[i][k] = v
      /\ \A j \in Block, m \in 1 .. 3 : (j # i \/ m # k) => eeprom'[j][m] = eeprom[j][m]
  BY <1>2, ByteChanges
<1>4. \A j \in Block : j # i => Id(j)' = Id(j) /\ eeprom'[j][3] = eeprom[j][3]
  BY <1>3 DEF Id
<1>5. 0 \in Block
  BY EepromAssumption DEF Block
<1>6. Id(0)' = EEPROM_SIGNATURE
  BY <1>4, <1>5
<1>7. /\ eeprom[i][1] \in {own[1], Erased} /\ eeprom[i][2] \in {own[2], Erased}
      /\ eeprom'[i][1] \in {own[1], Erased} /\ eeprom'[i][2] \in {own[2], Erased}
  <2>1. eeprom[i][1] \in {own[1], Erased} /\ eeprom[i][2] \in {own[2], Erased}
    BY DEF Fills
  <2>2. \A m \in {1, 2} : eeprom'[i][m] = own[m] \/ eeprom'[i][m] = eeprom[i][m]
    BY <1>1, <1>3
  <2>3. QED
    BY <2>1, <2>2
<1>8. ASSUME NEW id \in Ids \ {own}, Keeps(id), saved'[id] = saved[id]
      PROVE  Keeps(id)'
  <2>1. Id(i) # id /\ Id(i)' # id
    BY <1>7, <1>8, TornIsNone DEF Id
  <2>2. \A j \in Block : /\ Id(j)' = id <=> Id(j) = id
                         /\ Id(j) = id => eeprom'[j][3] = eeprom[j][3]
    BY <1>4, <2>1
  <2>3. QED
    BY <1>8, <2>2, HoldsStays
<1>9. \A h \in Hits(own)' : h <= i
  <2>1. ASSUME NEW h \in Hits(own)' PROVE h <= i
    <3>1. h \in Block /\ Id(h)' = own
      BY <2>1 DEF Hits
    <3>2. CASE h = i
      BY <3>2, EepromAssumption DEF Block
    <3>3. CASE h # i
      <4>1. h \in Hits(own)
        BY <1>4, <3>1, <3>3 DEF Hits
      <4>2. QED
        BY <4>1 DEF Fills
    <3>4. QED
      BY <3>2, <3>3
  <2>2. QED
    BY <2>1
<1>10. \A m \in {1, 2} : Has(i, m, own[m])'
  <2>1. ASSUME NEW m \in {1, 2} PROVE Has(i, m, own[m])'
    <3>1. Has(i, m, own[m])
      BY DEF Fills
    <3>2. CASE m = k
      BY <1>1, <1>3, <3>2 DEF Has
    <3>3. CASE m # k
      <4>1. <<i, m, own[m]>> # b
        BY <1>1, <3>3
      <4>2. eeprom'[i][m] = eeprom[i][m]
        BY <1>3, <3>3
      <4>3. QED
        BY <1>0, <3>1, <4>1, <4>2 DEF Has, Pends
    <3>4. QED
      BY <3>2, <3>3
  <2>2. QED
    BY <2>1
<1>11. CASE k = 3
  <2>1. task = {b}
    <3>1. \A c \in task : c # b => c[1] = i /\ c[2] \in {1, 2}
      BY <1>1, <1>11 DEF Fills, BytesOf, IdBytes
    <3>2. \A c \in task : c # b => (b[1] < c[1] \/ (b[1] = c[1] /\ b[2] < c[2]))
      BY <1>0 DEF IsFirst
    <3>3. b[1] = i /\ b[2] = 3 /\ ~(i < i) /\ ~(3 < 1) /\ ~(3 < 2)
      BY <1>1, <1>11, EepromAssumption DEF Block
    <3>4. \A c \in task : c = b
      BY <3>1, <3>2, <3>3
    <3>5. QED
      BY <1>1, <1>2, <3>4
  <2>2. task' = {}
    BY <1>0, <2>1
  <2>3. eeprom'[i][1] = own[1] /\ eeprom'[i][2] = own[2] /\ eeprom'[i][3] = data
    BY <1>1, <1>3, <1>10, <1>11, <2>2 DEF Has, Pends
  <2>4. Id(i)' = own
    <3>1. own = <<own[1], own[2]>>
      BY EepromAssumption DEF IsId
    <3>2. QED
      BY <2>3, <3>1 DEF Id
  <2>5. i \in Hits(own)' /\ Hits(own)' \subseteq Block
    BY <2>4 DEF Hits
  <2>6. Max(Hits(own)') = i
    <3>1. Max(Hits(own)') \in Hits(own)' /\ i <= Max(Hits(own)')
      BY <2>5, LastBlock
    <3>2. Max(Hits(own)') <= i /\ Max(Hits(own)') \in Int /\ i \in Int
      BY <1>9, <2>5, <3>1, EepromAssumption DEF Block
    <3>3. QED
      BY <3>1, <3>2
  <2>7. EepromReadBlock(own)' = data
    BY <2>3, <2>6 DEF EepromReadBlock
  <2>8. QED
    BY <1>3, <1>6, <1>8, <2>2, <2>5, <2>7
<1>12. CASE k # 3
  <2>1. <<i, 3, data>> \in task'
    BY <1>0, <1>1, <1>12 DEF Fills, Pends
  <2>2. task' \subseteq BytesOf(i, own, data)
    BY <1>0 DEF Fills
  <2>3. Fills(i, own, data)'
    BY <1>7, <1>9, <1>10, <2>1, <2>2 DEF Fills, Pends, BytesOf, IdBytes
  <2>4. QED
    BY <1>3, <1>6, <1>8, <2>1, <2>3
<1>13. QED
  BY <1>11, <1>12

(* A formatting's next byte is written. *)
LEMMA FormatWritten ==
  ASSUME IsEeprom(eeprom), NEW kept \in SUBSET Ids, Formats(kept), NEW b, WritesByte(b)
  PROVE  /\ IsEeprom(eeprom)' /\ Formats(kept)'
         /\ \A id \in kept : Keeps(id) /\ saved'[id] = saved[id] => Keeps(id)'
<1>0. IsFirst(b) /\ task' = task \ {b} /\ eeprom' = [eeprom EXCEPT ![b[1]][b[2]] = b[3]]
  BY DEF WritesByte
<1>1. PICK i, k, v :
        /\ i \in Block /\ k \in {1, 2} /\ b = <<i, k, v>>
        /\ \/ i = 0 /\ v = EEPROM_SIGNATURE[k]
           \/ i \in Freed(kept) /\ v = Erased
  <2>1. 0 \in Block
    BY EepromAssumption DEF Block
  <2>2. CASE b \in IdBytes(0, EEPROM_SIGNATURE)
    BY <2>1, <2>2 DEF IdBytes
  <2>3. CASE \E i \in Freed(kept) : b \in IdBytes(i, EEPROM_FREE_BLOCK)
    <3>1. PICK i \in Freed(kept) : b \in IdBytes(i, EEPROM_FREE_BLOCK)
      BY <2>3
    <3>2. i \in Block /\ (b = <<i, 1, Erased>> \/ b = <<i, 2, Erased>>)
      BY <3>1 DEF IdBytes, EEPROM_FREE_BLOCK, Freed
    <3>3. QED
      BY <3>1, <3>2
  <2>4. QED
    BY <1>0, <2>2, <2>3 DEF IsFirst, Formats, FormatBytes, Freed
<1>2. Stores(i, k, v) /\ i \in Block /\ k \in 1 .. 3 /\ <<i, k, v>> \in task
  BY <1>0, <1>1 DEF IsFirst, Stores
<1>3. /\ IsEeprom(eeprom)' /\ eeprom'[i][k] = v
      /\ \A j \in Block, m \in 1 .. 3 : (j # i \/ m # k) => eeprom'[j][m] = eeprom[j][m]
  BY <1>2, ByteChanges
<1>4. \A j \in Block : (j # i => Id(j)' = Id(j)) /\ eeprom'[j][3] = eeprom[j][3]
  BY <1>1, <1>3 DEF Id
<1>5. ASSUME NEW id \in kept, NEW j \in Block
      PROVE  Id(j)' = id <=> Id(j) = id
  <2>1. CASE j # i
    BY <1>4, <2>1
  <2>2. CASE j = i /\ i = 0 /\ v = EEPROM_SIGNATURE[k]
    <3>1. Id(0) = EEPROM_SIGNATURE
      BY DEF Formats
    <3>2. EEPROM_SIGNATURE = <<EEPROM_SIGNATURE[1], EEPROM_SIGNATURE[2]>>
      BY EepromAssumption DEF IsId
    <3>3. eeprom[0][1] = EEPROM_SIGNATURE[1] /\ eeprom[0][2] = EEPROM_SIGNATURE[2]
      BY <3>1, <3>2 DEF Id
    <3>4. eeprom'[0][1] = EEPROM_SIGNATURE[1] /\ eeprom'[0][2] = EEPROM_SIGNATURE[2]
      BY <1>1, <1>3, <2>2, <3>3
    <3>5. Id(j)' = Id(j)
      BY <2>2, <3>3, <3>4 DEF Id
    <3>6. QED
      BY <3>5
  <2>3. CASE j = i /\ i \in Freed(kept) /\ v = Erased
    <3>1. Id(j) # id
      BY <2>3 DEF Freed, Spared
    <3>2. id = <<id[1], id[2]>> /\ Erased # id[1] /\ Erased # id[2]
      BY EepromAssumption DEF IsId
    <3>3. Id(j)' # id
      BY <1>1, <1>3, <2>3, <3>2 DEF Id
    <3>4. QED
      BY <3>1, <3>3
  <2>4. QED
    BY <1>1, <2>1, <2>2, <2>3
<1>6. ASSUME NEW id \in kept, Keeps(id), saved'[id] = saved[id]
      PROVE  Keeps(id)'
  BY <1>4, <1>5, <1>6, HoldsStays
<1>7. Freed(kept)' = Freed(kept) /\ FormatBytes(kept)' = FormatBytes(kept)
  <2>1. Spared(kept)' = Spared(kept)
    BY <1>5 DEF Spared
  <2>2. QED
    BY <2>1 DEF Freed, FormatBytes
<1>8. kept # {} => Id(0)' = EEPROM_SIGNATURE
  <2>1. SUFFICES ASSUME kept # {} PROVE Id(0)' = EEPROM_SIGNATURE
    OBVIOUS
  <2>2. Id(0) = EEPROM_SIGNATURE /\ 0 \in Block
    BY <2>1, EepromAssumption DEF Formats, Block
  <2>3. EEPROM_SIGNATURE = <<EEPROM_SIGNATURE[1], EEPROM_SIGNATURE[2]>>
    BY EepromAssumption DEF IsId
  <2>4. CASE i = 0
    <3>1. v = EEPROM_SIGNATURE[k]
      BY <1>1, <2>4 DEF Freed
    <3>2. eeprom[0][1] = EEPROM_SIGNATURE[1] /\ eeprom[0][2] = EEPROM_SIGNATURE[2]
      BY <2>2, <2>3 DEF Id
    <3>3. eeprom'[0][1] = EEPROM_SIGNATURE[1] /\ eeprom'[0][2] = EEPROM_SIGNATURE[2]
      BY <1>1, <1>3, <2>4, <3>1, <3>2
    <3>4. QED
      BY <2>3, <3>3 DEF Id
  <2>5. CASE i # 0
    BY <1>4, <2>2, <2>5
  <2>6. QED
    BY <2>4, <2>5
<1>9. ASSUME NEW j \in Block, NEW m \in {1, 2}, NEW w, Has(j, m, w), j = i /\ m = k => w = v
      PROVE  Has(j, m, w)'
  <2>1. CASE j = i /\ m = k
    BY <1>3, <1>9, <2>1 DEF Has
  <2>2. CASE j # i \/ m # k
    <3>1. <<j, m, w>> # b
      BY <1>1, <2>2
    <3>2. eeprom'[j][m] = eeprom[j][m]
      BY <1>3, <2>2
    <3>3. QED
      BY <1>0, <1>9, <3>1, <3>2 DEF Has, Pends
  <2>3. QED
    BY <2>1, <2>2
<1>10. \A m \in {1, 2} : Has(0, m, EEPROM_SIGNATURE[m])'
  <2>1. 0 \in Block /\ 0 \notin Freed(kept)
    BY EepromAssumption DEF Block, Freed
  <2>2. QED
    BY <1>1, <1>9, <2>1 DEF Formats
<1>11. \A j \in Freed(kept), m \in {1, 2} : Has(j, m, Erased)'
  <2>1. ASSUME NEW j \in Freed(kept), NEW m \in {1, 2} PROVE Has(j, m, Erased)'
    <3>1. j \in Block /\ j # 0 /\ Has(j, m, Erased)
      BY DEF Freed, Formats
    <3>2. j = i /\ m = k => Erased = v
      BY <1>1, <3>1
    <3>3. QED
      BY <1>9, <3>1, <3>2
  <2>2. QED
    BY <2>1
<1>12. task' \subseteq FormatBytes(kept)
  BY <1>0 DEF Formats
<1>13. Formats(kept)'
  BY <1>7, <1>8, <1>10, <1>11, <1>12 DEF Formats
<1>14. QED
  BY <1>3, <1>6, <1>13

(* When all is written, the EEPROM is formatted and only spared ids are left. *)
LEMMA Formatted ==
  ASSUME NEW kept \in SUBSET Ids, Formats(kept)', task' = {}
  PROVE  Id(0)' = EEPROM_SIGNATURE /\ \A id \in Ids \ kept : Hits(id)' = {}
<1>1. EEPROM_SIGNATURE = <<EEPROM_SIGNATURE[1], EEPROM_SIGNATURE[2]>>
  BY EepromAssumption DEF IsId
<1>2. eeprom'[0][1] = EEPROM_SIGNATURE[1] /\ eeprom'[0][2] = EEPROM_SIGNATURE[2]
  BY DEF Formats, Has, Pends
<1>3. Id(0)' = EEPROM_SIGNATURE
  BY <1>1, <1>2 DEF Id
<1>4. ASSUME NEW id \in Ids \ kept, NEW j \in Block
      PROVE  Id(j)' # id
  <2>1. CASE j = 0
    BY <1>3, <2>1, EepromAssumption
  <2>2. CASE j \in Spared(kept)'
    BY <2>2 DEF Spared
  <2>3. CASE j \in Freed(kept)'
    <3>1. eeprom'[j][1] = Erased
      BY <2>3 DEF Formats, Has, Pends
    <3>2. id = <<id[1], id[2]>> /\ Erased # id[1]
      BY EepromAssumption DEF IsId
    <3>3. QED
      BY <3>1, <3>2 DEF Id
  <2>4. QED
    BY <2>1, <2>2, <2>3 DEF Freed
<1>5. \A id \in Ids \ kept : Hits(id)' = {}
  BY <1>4 DEF Hits
<1>6. QED
  BY <1>3, <1>5

(* A formatting begins. *)
LEMMA FormatBegins ==
  ASSUME IsEeprom(eeprom), NEW kept \in SUBSET Ids, kept # {} => Id(0) = EEPROM_SIGNATURE,
         task' = FormatBytes(kept), UNCHANGED eeprom
  PROVE  Formats(kept)' /\ task' # {}
<1>1. \A k \in {1, 2} : <<0, k, EEPROM_SIGNATURE[k]>> \in FormatBytes(kept)
  BY DEF FormatBytes, IdBytes
<1>2. \A i \in Freed(kept), k \in {1, 2} : <<i, k, Erased>> \in FormatBytes(kept)
  BY DEF FormatBytes, IdBytes, Freed, EEPROM_FREE_BLOCK
<1>3. Freed(kept)' = Freed(kept) /\ FormatBytes(kept)' = FormatBytes(kept) /\ Id(0)' = Id(0)
  BY DEF Freed, FormatBytes, Spared, Id
<1>4. QED
  BY <1>1, <1>2, <1>3 DEF Formats, Has, Pends

(* What is held is held while nothing of the EEPROM changes. *)
LEMMA SameHolds ==
  ASSUME NEW id, Keeps(id), saved'[id] = saved[id], UNCHANGED eeprom
  PROVE  Keeps(id)'
BY DEF Keeps, Hits, EepromReadBlock, Id

(* A game writes a block. *)
LEMMA EepromWrites ==
  ASSUME EepromInv, NEW id \in Ids, NEW data \in BlockData, EepromWriteBlock(id, data)
  PROVE  EepromInv'
<1>0. PICK target : target = IF Hits(id) # {} THEN Max(Hits(id)) ELSE Min(FreeBlocks)
  OBVIOUS
<1>1. /\ IsEeprom(eeprom) /\ saved = [x \in Ids |-> saved[x]]
      /\ Id(0) = EEPROM_SIGNATURE /\ \A x \in Ids : Keeps(x)
  BY DEF EepromWriteBlock, Ready, EepromInv
<1>2. /\ task' = BytesOf(target, id, data) /\ UNCHANGED <<eeprom, saved>>
      /\ Hits(id) # {} \/ FreeBlocks # {}
      /\ writes' = [is |-> "block", id |-> id, data |-> data]
  BY <1>0 DEF EepromWriteBlock
<1>3. id # EEPROM_SIGNATURE /\ id = <<id[1], id[2]>> /\ Block \subseteq Int
  BY EepromAssumption DEF IsId, Block
<1>4. /\ target \in Block \ {0} /\ \A h \in Hits(id) : h <= target
      /\ Id(target) \in {id, EEPROM_FREE_BLOCK}
  <2>1. CASE Hits(id) # {}
    <3>1. Hits(id) \subseteq Block
      BY DEF Hits
    <3>2. target \in Hits(id) /\ \A h \in Hits(id) : h <= target
      BY <1>0, <2>1, <3>1, LastBlock
    <3>3. QED
      BY <1>1, <1>3, <3>2 DEF Hits
  <2>2. CASE Hits(id) = {}
    <3>1. FreeBlocks \subseteq Block
      BY DEF FreeBlocks
    <3>2. target \in FreeBlocks
      BY <1>0, <1>2, <2>2, <3>1, FirstBlock
    <3>3. QED
      BY <2>2, <3>2 DEF FreeBlocks
  <2>3. QED
    BY <2>1, <2>2
<1>5. \A k \in {1, 2} : eeprom[target][k] \in {id[k], Erased}
  BY <1>3, <1>4 DEF Id, EEPROM_FREE_BLOCK
<1>6. Fills(target, id, data)'
  <2>1. \A k \in {1, 2} : <<target, k, id[k]>> \in task'
    BY <1>2 DEF BytesOf, IdBytes
  <2>2. <<target, 3, data>> \in task'
    BY <1>2 DEF BytesOf
  <2>3. Hits(id)' = Hits(id)
    BY <1>2 DEF Hits, Id
  <2>4. task' \subseteq BytesOf(target, id, data)
    BY <1>2
  <2>5. QED
    BY <1>2, <1>4, <1>5, <2>1, <2>2, <2>3, <2>4 DEF Fills, Has, Pends, BytesOf, IdBytes
<1>7. \A x \in Ids : Keeps(x)'
  BY <1>1, <1>2, SameHolds
<1>8. /\ writes' \in Writings /\ writes'.is = "block" /\ writes'.id = id /\ writes'.data = data
      /\ Id(0)' = EEPROM_SIGNATURE
  BY <1>1, <1>2 DEF Writings, Id
<1>9. IsEeprom(eeprom)' /\ saved' = [x \in Ids |-> saved'[x]]
  BY <1>1, <1>2 DEF IsEeprom
<1>10. task' # {}
  BY <1>2 DEF BytesOf
<1>11. QED
  BY <1>4, <1>6, <1>7, <1>8, <1>9, <1>10 DEF EepromInv

(* A formatting begins, the program's or the kernel's. *)
LEMMA EepromFormats ==
  ASSUME EepromInv, InitializeEeprom \/ \E kept \in SUBSET Ids : FormatEeprom2(kept)
  PROVE  EepromInv'
<1>1. IsEeprom(eeprom) /\ saved = [x \in Ids |-> saved[x]] /\ UNCHANGED <<eeprom, saved>>
  BY DEF InitializeEeprom, FormatEeprom2, EepromInv
<1>2. /\ IsEeprom(eeprom)' /\ saved' = [x \in Ids |-> saved'[x]]
      /\ Id(0)' = Id(0) /\ \A id \in Ids : Keeps(id) => Keeps(id)'
  BY <1>1, SameHolds DEF IsEeprom, Id
<1>3. ASSUME NEW kept \in SUBSET Ids, \A id \in kept : Keeps(id),
             kept # {} => Id(0) = EEPROM_SIGNATURE,
             task' = FormatBytes(kept), writes' = [is |-> "format", kept |-> kept]
      PROVE  EepromInv'
  <2>1. Formats(kept)' /\ task' # {}
    BY <1>1, <1>3, FormatBegins
  <2>2. writes' \in Writings /\ writes'.is = "format" /\ writes'.kept = kept
    BY <1>3 DEF Writings
  <2>3. \A id \in kept : Keeps(id)'
    BY <1>2, <1>3
  <2>4. QED
    BY <1>2, <2>1, <2>2, <2>3 DEF EepromInv
<1>4. CASE InitializeEeprom /\ Id(0) = EEPROM_SIGNATURE
  <2>1. writes' = [is |-> "nothing"] /\ task' = {} /\ \A id \in Ids : Keeps(id)
    BY <1>4 DEF InitializeEeprom, EepromInv
  <2>2. writes' \in Writings /\ writes'.is = "nothing"
    BY <2>1 DEF Writings
  <2>3. QED
    BY <1>2, <1>4, <2>1, <2>2 DEF EepromInv
<1>5. CASE InitializeEeprom /\ Id(0) # EEPROM_SIGNATURE
  <2>1. task' = FormatBytes({}) /\ writes' = [is |-> "format", kept |-> {}]
    BY <1>5 DEF InitializeEeprom
  <2>2. QED
    BY <1>3, <2>1
<1>6. ASSUME NEW kept \in SUBSET Ids, FormatEeprom2(kept)
      PROVE  EepromInv'
  <2>1. /\ Id(0) = EEPROM_SIGNATURE /\ \A id \in kept : Keeps(id)
        /\ task' = FormatBytes(kept) /\ writes' = [is |-> "format", kept |-> kept]
    BY <1>6 DEF FormatEeprom2, Ready, EepromInv
  <2>2. QED
    BY <1>3, <2>1
<1>7. QED
  BY <1>4, <1>5, <1>6

(* The next byte is written. *)
LEMMA EepromWritesByte ==
  ASSUME EepromInv, NEW b, WriteEeprom(b)
  PROVE  EepromInv'
<1>1. /\ IsEeprom(eeprom) /\ saved = [x \in Ids |-> saved[x]] /\ writes \in Writings
      /\ WritesByte(b)
      /\ task' = {} => saved' = SavedAfter(TRUE) /\ writes' = [is |-> "nothing"]
      /\ task' # {} => UNCHANGED <<saved, writes>>
  BY DEF EepromInv, WriteEeprom, WritesByte
<1>2. task # {} /\ writes.is \in {"block", "format"}
  BY <1>1 DEF EepromInv, IsFirst, WritesByte, Writings
<1>3. saved' = [x \in Ids |-> saved'[x]]
  BY <1>1 DEF SavedAfter
<1>4. CASE writes.is = "block"
  <2>0. PICK own, data : own = writes.id /\ data = writes.data
    OBVIOUS
  <2>1. /\ Id(0) = EEPROM_SIGNATURE /\ own \in Ids /\ \A id \in Ids \ {own} : Keeps(id)
        /\ \E i \in Block \ {0} : Fills(i, own, data)
    BY <1>1, <1>4, <2>0 DEF EepromInv, Writings
  <2>2. PICK i \in Block \ {0} : Fills(i, own, data)
    BY <2>1
  <2>3. /\ IsEeprom(eeprom)' /\ Id(0)' = EEPROM_SIGNATURE
        /\ \A id \in Ids \ {own} : Keeps(id) /\ saved'[id] = saved[id] => Keeps(id)'
        /\ task' # {} => Fills(i, own, data)'
        /\ task' = {} => Hits(own)' # {} /\ EepromReadBlock(own)' = data
    BY <1>1, <2>1, <2>2, BlockWritten
  <2>4. CASE task' = {}
    <3>1. /\ \A id \in Ids \ {own} : saved'[id] = saved[id]
          /\ saved'[own] = [is |-> "data", data |-> data]
          /\ writes' = [is |-> "nothing"]
      BY <1>1, <1>4, <2>0, <2>1, <2>4 DEF SavedAfter
    <3>2. Keeps(own)'
      <4>1. saved'[own].is = "data" /\ saved'[own].data = data
        BY <3>1
      <4>2. QED
        BY <2>3, <2>4, <4>1 DEF Keeps
    <3>3. \A id \in Ids : Keeps(id)'
      BY <2>1, <2>3, <3>1, <3>2
    <3>4. writes' \in Writings /\ writes'.is = "nothing"
      BY <3>1 DEF Writings
    <3>5. QED
      BY <1>3, <2>3, <2>4, <3>3, <3>4 DEF EepromInv
  <2>5. CASE task' # {}
    <3>1. saved' = saved /\ writes' = writes
      BY <1>1, <2>5
    <3>2. \A id \in Ids \ {own} : Keeps(id)'
      BY <2>1, <2>3, <3>1
    <3>3. /\ writes' \in Writings /\ writes'.is = "block" /\ writes'.id = own
          /\ writes'.data = data
      BY <1>1, <1>4, <2>0, <3>1
    <3>4. QED
      BY <1>3, <2>3, <2>5, <3>2, <3>3 DEF EepromInv
  <2>6. QED
    BY <2>4, <2>5
<1>5. CASE writes.is = "format"
  <2>0. PICK kept : kept = writes.kept
    OBVIOUS
  <2>1. Formats(kept) /\ kept \in SUBSET Ids /\ \A id \in kept : Keeps(id)
    BY <1>1, <1>5, <2>0 DEF EepromInv, Writings
  <2>2. /\ IsEeprom(eeprom)' /\ Formats(kept)'
        /\ \A id \in kept : Keeps(id) /\ saved'[id] = saved[id] => Keeps(id)'
    BY <1>1, <2>1, FormatWritten
  <2>3. CASE task' = {}
    <3>1. /\ \A id \in kept : saved'[id] = saved[id]
          /\ \A id \in Ids \ kept : saved'[id] = [is |-> "none"]
          /\ writes' = [is |-> "nothing"]
      BY <1>1, <1>5, <2>0, <2>1, <2>3 DEF SavedAfter
    <3>2. Id(0)' = EEPROM_SIGNATURE /\ \A id \in Ids \ kept : Hits(id)' = {}
      BY <2>1, <2>2, <2>3, Formatted
    <3>3. ASSUME NEW id \in Ids PROVE Keeps(id)'
      <4>1. CASE id \in kept
        BY <2>1, <2>2, <3>1, <4>1
      <4>2. CASE id \notin kept
        <5>1. saved'[id].is = "none" /\ Hits(id)' = {}
          BY <3>1, <3>2, <4>2
        <5>2. QED
          BY <5>1 DEF Keeps
      <4>3. QED
        BY <4>1, <4>2
    <3>4. writes' \in Writings /\ writes'.is = "nothing"
      BY <3>1 DEF Writings
    <3>5. QED
      BY <1>3, <2>2, <2>3, <3>2, <3>3, <3>4 DEF EepromInv
  <2>4. CASE task' # {}
    <3>1. saved' = saved /\ writes' = writes
      BY <1>1, <2>4
    <3>2. writes' \in Writings /\ writes'.is = "format" /\ writes'.kept = kept
      BY <1>1, <1>5, <2>0, <3>1
    <3>3. \A id \in kept : Keeps(id)'
      BY <2>1, <2>2, <3>1
    <3>4. QED
      BY <1>3, <2>2, <2>4, <3>2, <3>3 DEF EepromInv
  <2>5. QED
    BY <2>3, <2>4
<1>6. QED
  BY <1>2, <1>4, <1>5

(* The power goes.  Of an id whose block was being written, or of one not *)
(* spared, nothing is promised any more.                                  *)
LEMMA EepromLosesPower ==
  ASSUME EepromInv, PowerCut
  PROVE  EepromInv'
<1>1. /\ IsEeprom(eeprom) /\ saved = [x \in Ids |-> saved[x]] /\ writes \in Writings
      /\ task' = {} /\ writes' = [is |-> "power"] /\ UNCHANGED eeprom
      /\ task = {} => saved' = saved
      /\ task # {} => saved' = SavedAfter(FALSE)
  BY DEF EepromInv, PowerCut
<1>2. /\ IsEeprom(eeprom)' /\ saved' = [x \in Ids |-> saved'[x]] /\ Id(0)' = Id(0)
      /\ writes' \in Writings /\ writes'.is = "power"
  BY <1>1 DEF IsEeprom, Id, SavedAfter, Writings
<1>3. ASSUME Id(0) = EEPROM_SIGNATURE, NEW id \in Ids
      PROVE  Keeps(id)'
  <2>1. CASE task = {}
    <3>1. Keeps(id)
      BY <1>3, <2>1 DEF EepromInv
    <3>2. QED
      BY <1>1, <2>1, <3>1, SameHolds
  <2>2. CASE task # {} /\ writes.is = "block"
    <3>1. CASE id = writes.id
      <4>1. saved'[id].is = "any"
        BY <1>1, <2>2, <3>1 DEF SavedAfter
      <4>2. QED
        BY <4>1 DEF Keeps
    <3>2. CASE id # writes.id
      <4>1. saved'[id] = saved[id]
        BY <1>1, <2>2, <3>2 DEF SavedAfter
      <4>2. Keeps(id)
        BY <2>2, <3>2 DEF EepromInv
      <4>3. QED
        BY <1>1, <4>1, <4>2, SameHolds
    <3>3. QED
      BY <3>1, <3>2
  <2>3. CASE task # {} /\ writes.is = "format"
    <3>1. CASE id \notin writes.kept
      <4>1. saved'[id].is = "any"
        BY <1>1, <2>3, <3>1 DEF SavedAfter
      <4>2. QED
        BY <4>1 DEF Keeps
    <3>2. CASE id \in writes.kept
      <4>1. saved'[id] = saved[id]
        BY <1>1, <2>3, <3>2 DEF SavedAfter
      <4>2. Keeps(id)
        BY <2>3, <3>2 DEF EepromInv
      <4>3. QED
        BY <1>1, <4>1, <4>2, SameHolds
    <3>3. QED
      BY <3>1, <3>2
  <2>4. task # {} => writes.is \in {"block", "format"}
    BY <1>1 DEF EepromInv, Writings
  <2>5. QED
    BY <2>1, <2>2, <2>3, <2>4
<1>4. QED
  BY <1>1, <1>2, <1>3 DEF EepromInv

(* For every EEPROM, whatever it holds at first, any ids and data: after any  *)
(* calls and any power cuts, a game that may use the EEPROM reads for an id   *)
(* what was last written for it, and nothing if nothing was, unless the       *)
(* power went while that id was being written or not spared by a formatting.  *)
THEOREM BlocksAreSaved == EepromSpec => []SavedIsRead
<1>1. EepromInit => EepromInv
  <2>1. SUFFICES ASSUME EepromInit PROVE EepromInv
    OBVIOUS
  <2>2. /\ IsEeprom(eeprom) /\ task = {} /\ writes = [is |-> "power"]
        /\ saved = [id \in Ids |-> [is |-> "any"]]
    BY <2>1, EepromAssumption DEF EepromInit
  <2>3. saved = [id \in Ids |-> saved[id]] /\ \A id \in Ids : saved[id].is = "any"
    BY <2>2
  <2>4. \A id \in Ids : Keeps(id)
    BY <2>3 DEF Keeps
  <2>5. writes \in Writings /\ writes.is = "power"
    BY <2>2 DEF Writings
  <2>6. QED
    BY <2>2, <2>3, <2>4, <2>5 DEF EepromInv
<1>2. EepromInv /\ [EepromNext]_eepromVars => EepromInv'
  <2>1. SUFFICES ASSUME EepromInv, [EepromNext]_eepromVars PROVE EepromInv'
    OBVIOUS
  <2>2. CASE InitializeEeprom \/ \E kept \in SUBSET Ids : FormatEeprom2(kept)
    BY <2>1, <2>2, EepromFormats
  <2>3. CASE PowerCut
    BY <2>1, <2>3, EepromLosesPower
  <2>4. CASE \E b \in task : WriteEeprom(b)
    BY <2>1, <2>4, EepromWritesByte
  <2>5. CASE \E id \in Ids, data \in BlockData : EepromWriteBlock(id, data)
    BY <2>1, <2>5, EepromWrites
  <2>6. CASE UNCHANGED eepromVars
    <3>1. eeprom' = eeprom /\ task' = task /\ writes' = writes /\ saved' = saved
      BY <2>6 DEF eepromVars
    <3>2. \A id : Keeps(id)' <=> Keeps(id)
      BY <3>1 DEF Keeps, Hits, Id, EepromReadBlock
    <3>3. \A i, id, data : Fills(i, id, data)' <=> Fills(i, id, data)
      BY <3>1 DEF Fills, Has, Pends, Hits, Id
    <3>4. \A kept : Formats(kept)' <=> Formats(kept)
      BY <3>1 DEF Formats, Has, Pends, Freed, FormatBytes, Spared, Id
    <3>5. Id(0)' = Id(0) /\ (IsEeprom(eeprom)' <=> IsEeprom(eeprom))
      BY <3>1 DEF Id, IsEeprom
    <3>6. QED
      BY <2>1, <3>1, <3>2, <3>3, <3>4, <3>5 DEF EepromInv
  <2>7. QED
    BY <2>1, <2>2, <2>3, <2>4, <2>5, <2>6 DEF EepromNext
<1>3. EepromInv => SavedIsRead
  BY DEF EepromInv, SavedIsRead, Ready, Keeps
<1>4. QED
  BY <1>1, <1>2, <1>3, PTL DEF EepromSpec

=============================================================================
