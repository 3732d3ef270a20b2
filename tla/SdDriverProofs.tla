--------------------------- MODULE SdDriverProofs ---------------------------
(***************************************************************************)
(* The card driver's four promises, for any size of sector and word, any   *)
(* words, and any of the kinds of card: SdInv says where the card's head   *)
(* is at every point of a call in terms of what the call was asked for.    *)
(***************************************************************************)
EXTENDS SdDriver, TLAPS

\* The fields of the call in progress, and what the steps need of their types.
HostFields == {"op", "at", "result", "sect", "ofs", "cnt", "bc", "flight", "got",
               "v", "n", "done", "first", "late", "asked"}

SdTypes ==
    /\ DOMAIN card = {"mode", "sect", "pos"}
    /\ card.sect \in Int /\ card.pos \in Int
    /\ DOMAIN host = HostFields
    /\ host.sect \in Nat /\ host.ofs \in Nat /\ host.cnt \in Nat /\ host.bc \in Int
    /\ host.v \in Int /\ host.n \in Int /\ host.done \in Nat /\ host.first \in BOOLEAN
    /\ kind \in Kinds

(***************************************************************************)
(* The card reads only where the call in progress, a reset, or a wait for  *)
(* a single block that ran out left it so.                                 *)
(***************************************************************************)
\* Where the call in progress has the card read.
InRead == \/ host.op \in {"read", "reg"} /\ host.at \in {"token", "start", "bytes", "register"}
          \/ host.op \in {"count", "gap"}
             /\ host.at \in {"token", "skip", "words", "measure", "sector", "stop"}

\* A single block that is still to come.
Owed == card.mode = "single" /\ card.pos = Fetching

ReadingOK == Reading =>
    \/ InRead
    \/ Owed /\ host.op # "init" /\ host.at # "idle"
    \/ type = "none" /\ host = NoHost
    \/ host.op = "init" /\ host.at = "stop"
    \/ streaming /\ (host = NoHost \/ host.at \in {"stop", "done"})

\* What the card is sending then.
SendsOK ==
    /\ InRead => CASE host.op \in {"read", "reg"} -> card.mode = "single"
                   [] host.at = "stop" -> TRUE
                   [] OTHER -> card.mode = "multi"
    /\ host.op = "reg" /\ host.at = "token" => card.pos = Fetching

\* After uzefs_sd_init the driver addresses the card the way its kind wants.
TypeIsKind == /\ host.op # "init" => type \in {"none", kind}
              /\ host.op \in {"none", "init"} \/ type = kind
              /\ streaming => type = kind
              /\ host.op = "init" =>
                   /\ ~streaming
                   /\ host.at = "block" =>
                        type = IF kind \in {"SD2", "SDHC"} THEN "SD2" ELSE kind
                   /\ host.at \in {"release", "done"} => type \in {"none", kind}

(***************************************************************************)
(* uzefs_sd_init.                                                          *)
(***************************************************************************)
InitFinds ==
    host.op = "init" /\ ~host.late =>
        /\ host.at \in {"stop", "idle", "kind", "block", "release", "done"}
        /\ host.at = "idle" => card.mode \in {"ready", "unready"}
        /\ host.at \in {"stop", "idle", "kind", "block"} => host.result = "OK"
        /\ host.at \in {"release", "done"} => host.result = "OK" /\ type = kind

(***************************************************************************)
(* uzefs_sd_read.                                                          *)
(***************************************************************************)
\* The bytes that have been waited for, the CRC's included, out of SectorBytes + 1.
Passed == SectorBytes + 1 - host.ofs - host.cnt - host.bc

WindowOK ==
    LET ofs == host.asked[1]
        cnt == host.asked[2]
    IN  host.op = "read" =>
        /\ Len(host.asked) = 2
        /\ ofs \in Nat /\ cnt \in Nat /\ ofs + cnt <= SectorBytes
        /\ host.at \in {"command", "token", "start"} =>
             host.ofs = ofs /\ host.cnt = cnt /\ host.got = <<>>
        /\ host.at \in {"command", "token", "start", "bytes"} => host.result = "OK"
        /\ host.at = "token" => card.sect = host.sect /\ card.pos = Fetching
        /\ host.at = "start" => card.sect = host.sect /\ card.pos = 0
        /\ host.at = "bytes" =>
             /\ card.sect = host.sect /\ card.pos = Passed + 1
             /\ host.flight = <<host.sect, Passed>>
             /\ host.bc >= 1 /\ host.ofs <= ofs /\ host.cnt <= cnt
             /\ host.ofs > 0 => host.cnt = cnt
             /\ host.bc <= SectorBytes + 1 - ofs - cnt
             /\ host.ofs + host.cnt > 0 => host.bc = SectorBytes + 1 - ofs - cnt
             /\ host.got = [i \in 1 .. cnt - host.cnt |-> <<host.sect, ofs + i - 1>>]
        /\ host.at \in {"release", "done"} /\ host.result = "OK" =>
             host.got = [i \in 1 .. cnt |-> <<host.sect, ofs + i - 1>>]

(***************************************************************************)
(* uzefs_sd_count and uzefs_sd_gap.                                        *)
(***************************************************************************)
CountOK ==
    LET first == host.asked[1]
        v == host.asked[2]
        n == host.asked[3]
    IN  host.op = "count" =>
        /\ Len(host.asked) = 3
        /\ first \in Nat /\ v \in Int /\ n \in Nat /\ host.done <= n
        /\ host.v = v + host.done
        /\ \A i \in 0 .. host.done - 1 : Words[first + i] = v + i
        /\ \/ host.n = n
           \/ host.n = host.done /\ host.done < n /\ Words[first + host.done] # v + host.done
        /\ host.at \in {"stop", "release", "done"} /\ host.result = "OK" => host.done = host.n
        /\ host.at = "command" => host.sect * SectorBytes + host.ofs = first * Wide
        /\ host.at = "command" => host.done = 0
        /\ host.at \in {"token", "skip"} =>
             card.sect * SectorBytes + host.ofs = (first + host.done) * Wide
        /\ host.at \in {"command", "token", "skip"} => host.ofs < SectorBytes
        /\ host.at = "token" => card.pos = Fetching
        /\ host.at = "skip" => card.pos = 0
        /\ host.at = "words" /\ host.done < host.n =>
             /\ card.pos \in 0 .. SectorBytes /\ host.bc = SectorBytes - card.pos
             /\ card.sect * SectorBytes + card.pos = (first + host.done) * Wide

GapOK ==
    LET n == host.asked[1]
        gaps == IF n = 0 THEN 1 ELSE n
    IN  host.op = "gap" =>
        /\ Len(host.asked) = 1 /\ n \in Nat
        /\ host.at \in {"command", "token", "measure", "sector"} => host.result = "OK"
        /\ IF host.first
           THEN /\ host.n = n /\ host.done = 0
                /\ host.at \in {"stop", "release", "done"} => host.result # "OK"
           ELSE IF host.at \in {"stop", "release", "done"} /\ host.result = "OK"
                THEN host.done = gaps
                ELSE host.at \in {"command", "token", "measure", "sector"} =>
                       host.n >= 0 /\ host.done + host.n + 1 = gaps

\* The inductive invariant.
SdInv == SdTypes /\ ReadingOK /\ SendsOK /\ TypeIsKind /\ InitFinds /\ WindowOK /\ CountOK /\ GapOK

-----------------------------------------------------------------------------
\* What the proofs use of the constants, without the words.
LEMMA Consts ==
  /\ SectorBytes \in Nat /\ SectorBytes > 0 /\ Wide \in Nat /\ Wide > 0 /\ Sectors \in Nat
  /\ SectorBytes % Wide = 0
BY SdAssumption

\* The words of the FAT.
LEMMA WordsAre ==
  /\ \A i \in DOMAIN Words : i \in Nat /\ Words[i] \in Int
BY SdAssumption

\* A byte address is its sector and the offset in it.
LEMMA DivMod ==
  ASSUME NEW a \in Nat, NEW w \in Nat, NEW b \in Nat, b > 0
  PROVE  /\ a * w \in Nat
         /\ (a * w) \div b \in Nat /\ (a * w) % b \in Nat /\ (a * w) % b < b
         /\ ((a * w) \div b) * b + ((a * w) % b) = a * w
<1> DEFINE x == a * w
<1>1. x \in Nat
  OBVIOUS
<1> HIDE DEF x
<1>2. x \div b \in Nat /\ x % b \in Nat /\ x % b < b /\ (x \div b) * b + (x % b) = x
  BY <1>1
<1>3. QED
  BY <1>1, <1>2 DEF x

\* The call that uzefs_sd_count begins with is well typed ...
LEMMA CountHost ==
  ASSUME NEW s \in Nat, NEW o \in Nat, NEW w \in Int, NEW n \in Nat, NEW a, SdTypes,
         Starting([Starts("count", "command") EXCEPT
                     !.sect = s, !.ofs = o, !.v = w, !.n = n, !.asked = a])
  PROVE  SdTypes'
<1>1. host' = [op |-> "count", at |-> "command", result |-> "OK",
           sect |-> s, ofs |-> o, cnt |-> 0, bc |-> 0,
           flight |-> <<0, 0>>, got |-> <<>>,
           v |-> w, n |-> n, done |-> 0, first |-> TRUE, late |-> FALSE, asked |-> a]
  BY DEF Starting, Starts, NoHost
<1>2. UNCHANGED <<card, kind>>
  BY DEF Starting
<1>3. QED
  BY <1>1, <1>2 DEF SdTypes, HostFields

\* ... and so is every other call.
LEMMA CallTypes == ASSUME SdTypes, Call PROVE SdTypes'
<1> USE DEF SdTypes, HostFields, Starting, Starts, NoHost, SectorNo
<1>1. CASE CallInit
  BY <1>1 DEF CallInit
<1>2. ASSUME NEW sect \in SectorNo, NEW ofs \in 0 .. SectorBytes, NEW cnt \in 1 .. SectorBytes,
             CallRead(sect, ofs, cnt)
      PROVE  SdTypes'
  BY <1>2, Consts DEF CallRead
<1>3. ASSUME NEW first \in DOMAIN Words, NEW n \in DOMAIN Words, NEW i \in DOMAIN Words,
             CallCount(first, Words[i], n)
      PROVE  SdTypes'
  <2>1. first \in Nat /\ n \in Nat /\ Words[i] \in Int
    BY WordsAre
  <2> DEFINE s == (first * Wide) \div SectorBytes
             o == (first * Wide) % SectorBytes
             w == Words[i]
  <2>2. s \in Nat /\ o \in Nat
    BY <2>1, Consts, DivMod
  <2>3. Starting([Starts("count", "command") EXCEPT
                    !.sect = s, !.ofs = o, !.v = w, !.n = n,
                    !.asked = <<first, w, n>>])
    BY <1>3 DEF CallCount
  <2>5. w \in Int
    BY <2>1
  <2> HIDE DEF s, o, w
  <2>4. QED
    BY <2>1, <2>2, <2>3, <2>5, CountHost
<1>4. ASSUME NEW n \in 0 .. Sectors - 2, CallGap(n) PROVE SdTypes'
  BY <1>4, Consts DEF CallGap
<1>5. ASSUME NEW op \in {"reg", "write", "begin"}, NEW sect \in SectorNo, CallOther(op, sect)
      PROVE  SdTypes'
  BY <1>5, Consts DEF CallOther
<1>6. ASSUME NEW op \in {"end", "restart"}, NEW sect \in SectorNo, CallStream(op, sect)
      PROVE  SdTypes'
  BY <1>6, Consts DEF CallStream
<1>7. QED
  BY <1>1, <1>2, <1>3, <1>4, <1>5, <1>6 DEF Call

-----------------------------------------------------------------------------
\* Host fields that a step leaves alone.
SameArgs == /\ DOMAIN host' = DOMAIN host
            /\ host'.op = host.op /\ host'.sect = host.sect /\ host'.ofs = host.ofs
            /\ host'.cnt = host.cnt /\ host'.bc = host.bc /\ host'.flight = host.flight
            /\ host'.got = host.got /\ host'.v = host.v /\ host'.n = host.n
            /\ host'.done = host.done /\ host'.first = host.first /\ host'.late = host.late
            /\ host'.asked = host.asked

\* Moving on, and failing, change two fields of the call in progress.
LEMMA Moves ==
  ASSUME SdTypes, NEW p
  PROVE  /\ Goes(p) => host'.at = p /\ host'.result = host.result /\ SameArgs
         /\ Fails => host'.at = "release" /\ host'.result = "DISK" /\ SameArgs
BY DEF Goes, Fails, SameArgs, SdTypes, HostFields

\* A step that keeps the arguments and the card's shape keeps the types.
LEMMA SameTypes ==
  ASSUME SdTypes, SameArgs, UNCHANGED kind,
         DOMAIN card' = {"mode", "sect", "pos"}, card'.sect \in Int, card'.pos \in Int
  PROVE  SdTypes'
BY DEF SdTypes, SameArgs

\* A card that is not reading.
LEMMA Idles ==
  ASSUME NEW m
  PROVE  LET c == Idle(m)
         IN  /\ DOMAIN c = {"mode", "sect", "pos"} /\ c.mode = m
             /\ c.sect \in Int /\ c.pos \in Int
BY DEF Idle, Fetching

\* What the invariant says of a kind of call concerns only that kind.
LEMMA OtherCalls ==
  /\ host'.op # "read" => WindowOK'
  /\ host'.op # "count" => CountOK'
  /\ host'.op # "gap" => GapOK'
  /\ host'.op # "init" => InitFinds'
BY DEF WindowOK, CountOK, GapOK, InitFinds

-----------------------------------------------------------------------------
\* The card finds the sector the host means.
LEMMA FindsSector ==
  ASSUME SdInv, host.op \notin {"none", "init"}
  PROVE  Found(Address(host.sect)) = host.sect
<1>1. type = kind /\ host.sect \in Nat
  BY DEF SdInv, SdTypes, TypeIsKind
<1>2. CASE kind = "SDHC"
  BY <1>1, <1>2 DEF Found, Address
<1>3. CASE kind # "SDHC"
  <2>1. Found(Address(host.sect)) = (host.sect * SectorBytes) \div SectorBytes
    BY <1>1, <1>3 DEF Found, Address
  <2>2. \A x \in Nat, b \in Nat : b > 0 => (x * b) \div b = x
    OBVIOUS
  <2>3. QED
    BY <1>1, <2>1, <2>2, Consts
<1>4. QED
  BY <1>2, <1>3

\* A command that is accepted addresses the sector that was asked for.
LEMMA AcceptsFields ==
  ASSUME SdInv, host.op \notin {"none", "init"}, NEW m, Accepts(m)
  PROVE  /\ card.mode = "ready" /\ card'.mode = m
         /\ card'.sect = host.sect /\ card'.pos = Fetching
         /\ DOMAIN card' = {"mode", "sect", "pos"}
         /\ card'.sect \in Int /\ card'.pos \in Int
<1>1. card' = [mode |-> m, sect |-> host.sect, pos |-> Fetching] /\ card.mode = "ready"
  BY FindsSector DEF Accepts
<1>2. QED
  BY <1>1 DEF SdInv, SdTypes, Fetching

\* A step that neither ends the call nor makes the card read.
LEMMA KeepsReading ==
  ASSUME SdInv, host.op \notin {"none", "init"}, SameArgs, UNCHANGED <<kind, type, streaming>>
  PROVE  TypeIsKind'
BY DEF SdInv, TypeIsKind, SameArgs

\* CMD17 of uzefs_sd_read, and CMD9 or CMD10 of uzefs_sd_reg.
LEMMA SingleCommand ==
  ASSUME SdInv, Command("single", {"read", "reg"}, "token")
  PROVE  SdInv'
<1>1. /\ host.op \in {"read", "reg"} /\ host.at = "command"
      /\ UNCHANGED <<kind, type, streaming>>
      /\ SdTypes
  BY DEF Command, Keep, SdInv
<1>2. CASE Accepts("single") /\ Goes("token")
  <2>1. /\ card'.mode = "single" /\ card'.sect = host.sect /\ card'.pos = Fetching
        /\ host'.at = "token" /\ host'.result = host.result /\ SameArgs
    BY <1>1, <1>2, AcceptsFields, Moves
  <2>2. SdTypes' /\ TypeIsKind'
    BY <1>1, <1>2, <2>1, AcceptsFields, SameTypes, KeepsReading
  <2>3. ReadingOK' /\ SendsOK'
    BY <1>1, <2>1 DEF ReadingOK, Owed, SendsOK, InRead, SameArgs
  <2>4. WindowOK'
    BY <1>1, <2>1 DEF SdInv, WindowOK, SameArgs
  <2>5. QED
    BY <1>1, <2>1, <2>2, <2>3, <2>4, OtherCalls DEF SdInv, SameArgs
<1>3. CASE Refuses /\ Fails
  <2>1. /\ UNCHANGED card
        /\ host'.at = "release" /\ host'.result = "DISK" /\ SameArgs
    BY <1>1, <1>3, Moves DEF Refuses
  <2>2. SdTypes' /\ TypeIsKind'
    BY <1>1, <2>1, SameTypes, KeepsReading DEF SdTypes
  <2>3. ReadingOK' /\ SendsOK'
    BY <1>1, <2>1 DEF SdInv, ReadingOK, Owed, SendsOK, InRead, SameArgs, Reading, NoHost
  <2>4. WindowOK'
    BY <1>1, <2>1 DEF SdInv, WindowOK, SameArgs
  <2>5. QED
    BY <1>1, <2>1, <2>2, <2>3, <2>4, OtherCalls DEF SdInv, SameArgs
<1>4. QED
  BY <1>2, <1>3 DEF Command

\* CMD18 of uzefs_sd_count and uzefs_sd_gap.
LEMMA MultiCommand ==
  ASSUME SdInv, Command("multi", {"count", "gap"}, "token")
  PROVE  SdInv'
<1>1. /\ host.op \in {"count", "gap"} /\ host.at = "command"
      /\ UNCHANGED <<kind, type, streaming>>
      /\ SdTypes
  BY DEF Command, Keep, SdInv
<1>2. CASE Accepts("multi") /\ Goes("token")
  <2>1. /\ card'.mode = "multi" /\ card'.sect = host.sect /\ card'.pos = Fetching
        /\ host'.at = "token" /\ host'.result = host.result /\ SameArgs
    BY <1>1, <1>2, AcceptsFields, Moves
  <2>2. SdTypes' /\ TypeIsKind'
    BY <1>1, <1>2, <2>1, AcceptsFields, SameTypes, KeepsReading
  <2>3. ReadingOK' /\ SendsOK'
    BY <1>1, <2>1 DEF ReadingOK, Owed, SendsOK, InRead, SameArgs
  <2>4. CountOK'
    BY <1>1, <2>1 DEF SdInv, CountOK, SameArgs
  <2>5. GapOK'
    BY <1>1, <2>1 DEF SdInv, GapOK, SameArgs
  <2>6. QED
    BY <1>1, <2>1, <2>2, <2>3, <2>4, <2>5, OtherCalls DEF SdInv, SameArgs
<1>3. CASE Refuses /\ Fails
  <2>1. /\ UNCHANGED card
        /\ host'.at = "release" /\ host'.result = "DISK" /\ SameArgs
    BY <1>1, <1>3, Moves DEF Refuses
  <2>2. SdTypes' /\ TypeIsKind'
    BY <1>1, <2>1, SameTypes, KeepsReading DEF SdTypes
  <2>3. ReadingOK' /\ SendsOK'
    BY <1>1, <2>1 DEF SdInv, ReadingOK, Owed, SendsOK, InRead, SameArgs, Reading, NoHost
  <2>4. CountOK'
    BY <1>1, <2>1 DEF SdInv, CountOK, SameArgs
  <2>5. GapOK'
    BY <1>1, <2>1 DEF SdInv, GapOK, SameArgs
  <2>6. QED
    BY <1>1, <2>1, <2>2, <2>3, <2>4, <2>5, OtherCalls DEF SdInv, SameArgs
<1>4. QED
  BY <1>2, <1>3 DEF Command

\* CMD24 of uzefs_sd_write.
LEMMA BlockCommand ==
  ASSUME SdInv, Command("block", {"write"}, "block")
  PROVE  SdInv'
<1>1. /\ host.op = "write" /\ host.at = "command"
      /\ UNCHANGED <<kind, type, streaming>>
      /\ SdTypes
  BY DEF Command, Keep, SdInv
<1>2. /\ SameArgs
      /\ \/ UNCHANGED card
         \/ /\ card'.mode = "block" /\ DOMAIN card' = {"mode", "sect", "pos"}
            /\ card'.sect \in Int /\ card'.pos \in Int
  BY <1>1, AcceptsFields, Moves DEF Command, Refuses
<1>3. SdTypes' /\ TypeIsKind'
  BY <1>1, <1>2, SameTypes, KeepsReading DEF SdTypes
<1>4. ReadingOK' /\ SendsOK'
  <2>1. ~InRead' /\ host'.op = "write" /\ host'.at # "idle"
    BY <1>1, Moves DEF Command, SameArgs, InRead
  <2>2. Reading' => Owed'
    BY <1>1, <1>2 DEF SdInv, ReadingOK, Owed, InRead, Reading, NoHost
  <2>3. QED
    BY <2>1, <2>2 DEF ReadingOK, SendsOK
<1>5. QED
  BY <1>1, <1>2, <1>3, <1>4, OtherCalls DEF SdInv, SameArgs

-----------------------------------------------------------------------------
\* The three ways a wait for a token ends.
LEMMA TokenFields ==
  ASSUME SdInv, NEW op, NEW place, Token(op, place)
  PROVE  /\ host.op \in op /\ host.at = "token" /\ SameArgs
         /\ UNCHANGED <<kind, type, streaming>>
         /\ DOMAIN card' = {"mode", "sect", "pos"} /\ card'.sect \in Int /\ card'.pos \in Int
         /\ \/ /\ card'.mode = card.mode /\ card'.sect = card.sect
               /\ card.pos = Fetching => card'.pos = 0
               /\ host'.at = place /\ host'.result = host.result
            \/ /\ card.mode = "multi" /\ UNCHANGED card
               /\ host'.at = "stop" /\ host'.result = "DISK"
            \/ /\ card.mode # "multi" /\ (card'.mode = "ready" \/ UNCHANGED card)
               /\ host'.at = "release" /\ host'.result = "DISK"
<1>1. SdTypes /\ host.op \in op /\ host.at = "token" /\ UNCHANGED <<kind, type, streaming>>
  BY DEF SdInv, Token, Keep
<1>2. CASE /\ card' = [card EXCEPT !.pos = IF @ = Fetching THEN 0 ELSE @]
           /\ Goes(place)
  BY <1>1, <1>2, Moves DEF SdTypes
<1>3. CASE /\ card.mode = "multi" /\ UNCHANGED card
           /\ host' = [host EXCEPT !.at = "stop", !.result = "DISK"]
  BY <1>1, <1>3 DEF SdTypes, HostFields, SameArgs
<1>4. CASE card.mode # "multi" /\ (card' = Idle("ready") \/ UNCHANGED card) /\ Fails
  BY <1>1, <1>4, Moves, Idles DEF SdTypes
<1>5. QED
  BY <1>1, <1>2, <1>3, <1>4 DEF Token

\* uzefs_sd_read's token: the sector is at its first byte.
LEMMA ReadToken == ASSUME SdInv, Token({"read"}, "start") PROVE SdInv'
<1>1. /\ host.op = "read" /\ host.at = "token" /\ card.mode = "single"
      /\ card.sect = host.sect /\ card.pos = Fetching
  BY TokenFields DEF SdInv, SendsOK, InRead, WindowOK
<1>2. SdTypes' /\ TypeIsKind'
  BY <1>1, TokenFields, SameTypes, KeepsReading DEF SdInv
<1>3. ReadingOK' /\ SendsOK'
  BY <1>1, TokenFields DEF ReadingOK, Owed, SendsOK, InRead, SameArgs, Reading
<1>4. WindowOK'
  BY <1>1, TokenFields DEF SdInv, WindowOK, SameArgs
<1>5. QED
  BY <1>1, <1>2, <1>3, <1>4, TokenFields, OtherCalls DEF SdInv, SameArgs

\* uzefs_sd_reg's token.
LEMMA RegToken == ASSUME SdInv, Token({"reg"}, "register") PROVE SdInv'
<1>1. host.op = "reg" /\ host.at = "token" /\ Owed
  BY TokenFields DEF SdInv, SendsOK, InRead, Owed
<1>2. SdTypes' /\ TypeIsKind'
  BY <1>1, TokenFields, SameTypes, KeepsReading DEF SdInv
<1>3. ReadingOK' /\ SendsOK'
  BY <1>1, TokenFields DEF ReadingOK, Owed, SendsOK, InRead, SameArgs, Reading
<1>4. QED
  BY <1>1, <1>2, <1>3, TokenFields, OtherCalls DEF SdInv, SameArgs

\* uzefs_sd_count's token: the words of the next sector.
LEMMA CountToken == ASSUME SdInv, host.done < host.n, Token({"count"}, "skip") PROVE SdInv'
<1>1. /\ host.op = "count" /\ host.at = "token" /\ card.mode = "multi"
      /\ card.pos = Fetching
  BY TokenFields DEF SdInv, SendsOK, InRead, CountOK
<1>2. SdTypes' /\ TypeIsKind'
  BY <1>1, TokenFields, SameTypes, KeepsReading DEF SdInv
<1>3. ReadingOK' /\ SendsOK'
  BY <1>1, TokenFields DEF ReadingOK, Owed, SendsOK, InRead, SameArgs, Reading
<1>4. CountOK'
  BY <1>1, TokenFields DEF SdInv, CountOK, SameArgs
<1>5. QED
  BY <1>1, <1>2, <1>3, <1>4, TokenFields, OtherCalls DEF SdInv, SameArgs

\* uzefs_sd_gap's token.
LEMMA GapTokenComes == ASSUME SdInv, Token({"gap"}, "measure") PROVE SdInv'
<1>1. host.op = "gap" /\ host.at = "token" /\ card.mode = "multi"
  BY TokenFields DEF SdInv, SendsOK, InRead, Owed
<1>2. SdTypes' /\ TypeIsKind'
  BY <1>1, TokenFields, SameTypes, KeepsReading DEF SdInv
<1>3. ReadingOK' /\ SendsOK'
  BY <1>1, TokenFields DEF ReadingOK, Owed, SendsOK, InRead, SameArgs, Reading
<1>4. GapOK'
  BY <1>1, TokenFields DEF SdInv, GapOK, SameArgs
<1>5. QED
  BY <1>1, <1>2, <1>3, <1>4, TokenFields, OtherCalls DEF SdInv, SameArgs

-----------------------------------------------------------------------------
\* The bytes that uzefs_sd_read has taken, and the next one.
LEMMA Append1 ==
  ASSUME NEW k \in Nat, NEW s, NEW o \in Int
  PROVE  Append([i \in 1 .. k |-> <<s, o + i - 1>>], <<s, o + k>>)
           = [i \in 1 .. k + 1 |-> <<s, o + i - 1>>]
<1> DEFINE g == [i \in 1 .. k |-> <<s, o + i - 1>>]
<1>1. g \in Seq({s} \X Int) /\ Len(g) = k
  OBVIOUS
<1>2. \A i \in 1 .. k : g[i] = <<s, o + i - 1>>
  OBVIOUS
<1> HIDE DEF g
<1> DEFINE a == Append(g, <<s, o + k>>)
<1>3. a = [i \in 1 .. k + 1 |-> IF i <= k THEN g[i] ELSE <<s, o + k>>]
  BY <1>1
<1>4. \A i \in 1 .. k + 1 : (IF i <= k THEN g[i] ELSE <<s, o + k>>) = <<s, o + i - 1>>
  BY <1>2
<1>5. a = [i \in 1 .. k + 1 |-> <<s, o + i - 1>>]
  BY <1>3, <1>4
<1>6. QED
  BY <1>5 DEF g

\* The card after k more bytes of a sector it is in the middle of.
LEMMA ClockedFields ==
  ASSUME SdTypes, NEW k \in Nat, card' = Clocked(k)
  PROVE  /\ DOMAIN card' = {"mode", "sect", "pos"} /\ card'.sect \in Int /\ card'.pos \in Int
         /\ ~Reading => card' = card
         /\ card.mode = "single" => card'.mode \in {"single", "ready"}
         /\ card.mode = "multi" => card'.mode = "multi"
         /\ Reading /\ card.pos # Fetching /\ card.pos + k < SectorBytes + Crc =>
              card'.mode = card.mode /\ card'.sect = card.sect /\ card'.pos = card.pos + k
         /\ Reading /\ card.pos # Fetching /\ card.pos + k >= SectorBytes + Crc =>
              /\ card.mode = "single" => card'.mode = "ready"
              /\ card.mode = "multi" => card'.sect = card.sect + 1 /\ card'.pos = Fetching
BY Consts DEF SdTypes, Clocked, Idle, Fetching, Reading, Crc

\* What is to be shown of a state in which the sector is being read.
LEMMA BytesNext ==
  ASSUME NEW oa \in Nat, NEW ca \in Nat, oa + ca <= SectorBytes,
         Len(host'.asked) = 2, host'.asked[1] = oa, host'.asked[2] = ca,
         host'.op = "read", host'.at = "bytes", host'.result = "OK",
         card'.sect = host'.sect, card'.pos = Passed' + 1,
         host'.flight = <<host'.sect, Passed'>>,
         host'.bc >= 1, host'.ofs <= oa, host'.cnt <= ca,
         host'.ofs > 0 => host'.cnt = ca,
         host'.bc <= SectorBytes + 1 - oa - ca,
         host'.ofs + host'.cnt > 0 => host'.bc = SectorBytes + 1 - oa - ca,
         host'.got = [i \in 1 .. ca - host'.cnt |-> <<host'.sect, oa + i - 1>>]
  PROVE  WindowOK'
BY DEF WindowOK

\* ... and what the invariant says of it.
LEMMA BytesNow ==
  ASSUME SdInv, host.op = "read", host.at = "bytes"
  PROVE  LET oa == host.asked[1]
             ca == host.asked[2]
         IN  /\ oa \in Nat /\ ca \in Nat /\ oa + ca <= SectorBytes
             /\ Len(host.asked) = 2 /\ host.result = "OK"
             /\ host.ofs \in Nat /\ host.cnt \in Nat /\ host.bc \in Int
             /\ host.bc >= 1 /\ host.ofs <= oa /\ host.cnt <= ca
             /\ host.ofs > 0 => host.cnt = ca
             /\ host.bc <= SectorBytes + 1 - oa - ca
             /\ host.ofs + host.cnt > 0 => host.bc = SectorBytes + 1 - oa - ca
             /\ host.got = [i \in 1 .. ca - host.cnt |-> <<host.sect, oa + i - 1>>]
BY DEF SdInv, WindowOK, SdTypes

\* The first byte is under way before the loops begin.
LEMMA ReadStarts == ASSUME SdInv, ReadStart PROVE SdInv'
<1>1. /\ host.op = "read" /\ host.at = "start" /\ card.mode = "single"
      /\ card.sect = host.sect /\ card.pos = 0
      /\ UNCHANGED <<kind, type, streaming>>
      /\ SdTypes /\ card' = Clocked(1)
  BY DEF ReadStart, Keep, SdInv, SendsOK, InRead, WindowOK
<1>2. /\ card'.mode = "single" /\ card'.sect = host.sect /\ card'.pos = 1
      /\ DOMAIN card' = {"mode", "sect", "pos"} /\ card'.sect \in Int /\ card'.pos \in Int
  BY <1>1, ClockedFields, Consts DEF Reading, Fetching, Crc
<1>3. /\ host'.at = "bytes" /\ host'.flight = <<card.sect, card.pos>>
      /\ host'.bc = SectorBytes + 1 - host.ofs - host.cnt
      /\ DOMAIN host' = HostFields
      /\ host'.op = host.op /\ host'.result = host.result /\ host'.sect = host.sect
      /\ host'.ofs = host.ofs /\ host'.cnt = host.cnt /\ host'.got = host.got
      /\ host'.v = host.v /\ host'.n = host.n /\ host'.done = host.done
      /\ host'.first = host.first /\ host'.late = host.late /\ host'.asked = host.asked
  BY <1>1 DEF ReadStart, SdTypes, HostFields, Byte
<1>4. SdTypes'
  BY <1>1, <1>2, <1>3, Consts DEF SdTypes
<1>5. TypeIsKind' /\ ReadingOK' /\ SendsOK'
  BY <1>1, <1>2, <1>3 DEF SdInv, TypeIsKind, ReadingOK, Owed, SendsOK, InRead
<1> DEFINE oa == host.asked[1]
           ca == host.asked[2]
<1>8. /\ oa \in Nat /\ ca \in Nat /\ oa + ca <= SectorBytes
      /\ Len(host.asked) = 2 /\ host.result = "OK"
      /\ host.ofs = oa /\ host.cnt = ca /\ host.got = <<>>
  BY <1>1 DEF SdInv, WindowOK
<1>9. host'.asked[1] = oa /\ host'.asked[2] = ca /\ Len(host'.asked) = 2
  BY <1>3, <1>8
<1> HIDE DEF oa, ca
<1>6. WindowOK'
  <2>1. /\ Passed' = 0 /\ host'.bc >= 1 /\ host'.bc = SectorBytes + 1 - oa - ca
    BY <1>3, <1>8, Consts DEF Passed
  <2>2. host'.got = [i \in 1 .. ca - host'.cnt |-> <<host'.sect, oa + i - 1>>]
    <3>1. 1 .. ca - host'.cnt = {}
      BY <1>3, <1>8
    <3>2. QED
      BY <1>3, <1>8, <3>1
  <2>3. card'.pos = Passed' + 1 /\ host'.flight = <<host'.sect, Passed'>>
    BY <1>1, <1>2, <1>3, <2>1
  <2>4. QED
    BY <1>1, <1>2, <1>3, <1>8, <1>9, <2>1, <2>2, <2>3, BytesNext, Consts
<1>7. QED
  BY <1>1, <1>3, <1>4, <1>5, <1>6, OtherCalls DEF SdInv

\* One byte of a sector that is being read.
LEMMA ByteFields ==
  ASSUME SdInv, host.op = "read", host.at = "bytes"
  PROVE  /\ SdTypes /\ card.mode = "single" /\ Reading /\ card.sect = host.sect
         /\ card.pos = Passed + 1 /\ Byte = <<host.sect, Passed + 1>>
         /\ host.flight = <<host.sect, Passed>>
         /\ Passed \in 0 .. SectorBytes
         /\ card' = Clocked(1) =>
              /\ DOMAIN card' = {"mode", "sect", "pos"}
              /\ card'.sect \in Int /\ card'.pos \in Int
              /\ card'.mode \in {"single", "ready"}
              /\ Passed < SectorBytes =>
                   card'.mode = "single" /\ card'.sect = card.sect /\ card'.pos = card.pos + 1
              /\ Passed = SectorBytes => card'.mode = "ready"
<1>1. /\ SdTypes /\ card.mode = "single" /\ Reading /\ card.sect = host.sect
      /\ card.pos = Passed + 1
      /\ host.flight = <<host.sect, Passed>>
  BY DEF SdInv, SendsOK, InRead, WindowOK, Reading
<1>2. /\ Passed \in 0 .. SectorBytes
  <2>1. /\ host.bc >= 1 /\ host.ofs <= host.asked[1] /\ host.cnt <= host.asked[2]
        /\ host.ofs > 0 => host.cnt = host.asked[2]
        /\ host.bc <= SectorBytes + 1 - host.asked[1] - host.asked[2]
        /\ host.ofs + host.cnt > 0 => host.bc = SectorBytes + 1 - host.asked[1] - host.asked[2]
        /\ host.asked[1] \in Nat /\ host.asked[2] \in Nat
        /\ host.asked[1] + host.asked[2] <= SectorBytes
    BY DEF SdInv, WindowOK
  <2>2. QED
    BY <1>1, <2>1, Consts DEF SdTypes, Passed
<1>3. QED
  BY <1>1, <1>2, ClockedFields, Consts DEF Byte, Fetching, Crc

\* uzefs_sd_read's three loops: skip, take, and the rest of the sector.
LEMMA ReadSkips == ASSUME SdInv, host.op = "read", host.at = "bytes", ReadSkip PROVE SdInv'
<1>1. /\ card' = Clocked(1) /\ UNCHANGED <<kind, type, streaming>> /\ host.ofs > 0
      /\ SdTypes
  BY DEF ReadSkip, NextSpi, Keep, SdInv
<1>2. /\ host'.at = "bytes" /\ host'.flight = Byte /\ host'.ofs = host.ofs - 1
      /\ DOMAIN host' = HostFields
      /\ host'.op = host.op /\ host'.result = host.result /\ host'.sect = host.sect
      /\ host'.cnt = host.cnt /\ host'.bc = host.bc /\ host'.got = host.got
      /\ host'.v = host.v /\ host'.n = host.n /\ host'.done = host.done
      /\ host'.first = host.first /\ host'.late = host.late /\ host'.asked = host.asked
  BY <1>1 DEF ReadSkip, NextSpi, SdTypes, HostFields
<1> DEFINE oa == host.asked[1]
           ca == host.asked[2]
<1>3. /\ oa \in Nat /\ ca \in Nat /\ oa + ca <= SectorBytes
      /\ Len(host.asked) = 2 /\ host.result = "OK"
      /\ host.ofs \in Nat /\ host.cnt \in Nat /\ host.bc \in Int
      /\ host.bc >= 1 /\ host.ofs <= oa /\ host.cnt <= ca
      /\ host.ofs > 0 => host.cnt = ca
      /\ host.bc <= SectorBytes + 1 - oa - ca
      /\ host.ofs + host.cnt > 0 => host.bc = SectorBytes + 1 - oa - ca
      /\ host.got = [i \in 1 .. ca - host.cnt |-> <<host.sect, oa + i - 1>>]
  BY BytesNow
<1>10. host'.asked[1] = oa /\ host'.asked[2] = ca /\ Len(host'.asked) = 2
  BY <1>2, <1>3
<1> HIDE DEF oa, ca
<1>11. /\ oa \in Nat /\ ca \in Nat /\ oa + ca <= SectorBytes
       /\ host.ofs \in Nat /\ host.cnt \in Nat /\ host.bc \in Int
       /\ host.bc >= 1 /\ host.ofs <= oa /\ host.cnt <= ca
       /\ host.ofs > 0 => host.cnt = ca
       /\ host.bc <= SectorBytes + 1 - oa - ca
       /\ host.ofs + host.cnt > 0 => host.bc = SectorBytes + 1 - oa - ca
  BY <1>3
<1>12. host.ofs > 0 /\ host'.ofs = host.ofs - 1 /\ host'.cnt = host.cnt /\ host'.bc = host.bc
  BY <1>1, <1>2
<1>4. Passed' = Passed + 1 /\ Passed < SectorBytes
  BY <1>11, <1>12, Consts DEF Passed
<1>5. /\ card'.mode = "single" /\ card'.sect = host.sect /\ card'.pos = Passed' + 1
      /\ host'.flight = <<host.sect, Passed'>>
      /\ DOMAIN card' = {"mode", "sect", "pos"} /\ card'.sect \in Int /\ card'.pos \in Int
  BY <1>1, <1>2, <1>4, ByteFields
<1>6. SdTypes'
  BY <1>1, <1>2, <1>5, Consts DEF SdTypes
<1>7. TypeIsKind' /\ ReadingOK' /\ SendsOK'
  BY <1>1, <1>2, <1>5 DEF SdInv, TypeIsKind, ReadingOK, Owed, SendsOK, InRead
<1>8. WindowOK'
  <2>1. /\ host'.bc >= 1 /\ host'.ofs <= oa /\ host'.cnt = ca
        /\ host'.bc = SectorBytes + 1 - oa - ca
    BY <1>11, <1>12
  <2>2. host'.op = "read" /\ host'.at = "bytes" /\ host'.result = "OK" /\ host'.sect = host.sect
    BY <1>2, <1>3
  <2>3. host'.got = [i \in 1 .. ca - host'.cnt |-> <<host'.sect, oa + i - 1>>]
    BY <1>2, <1>3
  <2>4. QED
    BY <1>11, <1>5, <1>10, <2>1, <2>2, <2>3, BytesNext, Consts
<1>9. QED
  BY <1>2, <1>6, <1>7, <1>8, OtherCalls DEF SdInv

\* ... take: the byte that is in is the one under way, not the one that is started ...
LEMMA ReadTakes == ASSUME SdInv, host.op = "read", host.at = "bytes", ReadTake PROVE SdInv'
<1>1. /\ card' = Clocked(1) /\ UNCHANGED <<kind, type, streaming>>
      /\ host.ofs = 0 /\ host.cnt > 0
      /\ SdTypes
  BY DEF ReadTake, NextSpi, Keep, SdInv
<1>2. /\ host'.at = "bytes" /\ host'.flight = Byte /\ host'.cnt = host.cnt - 1
      /\ DOMAIN host' = HostFields
      /\ host'.op = host.op /\ host'.result = host.result /\ host'.sect = host.sect
      /\ host'.ofs = host.ofs /\ host'.bc = host.bc
      /\ host'.got = Append(host.got, host.flight)
      /\ host'.v = host.v /\ host'.n = host.n /\ host'.done = host.done
      /\ host'.first = host.first /\ host'.late = host.late /\ host'.asked = host.asked
  BY <1>1 DEF ReadTake, NextSpi, SdTypes, HostFields
<1> DEFINE oa == host.asked[1]
           ca == host.asked[2]
<1>3. /\ oa \in Nat /\ ca \in Nat /\ oa + ca <= SectorBytes
      /\ Len(host.asked) = 2 /\ host.result = "OK"
      /\ host.ofs \in Nat /\ host.cnt \in Nat /\ host.bc \in Int
      /\ host.bc >= 1 /\ host.ofs <= oa /\ host.cnt <= ca
      /\ host.ofs > 0 => host.cnt = ca
      /\ host.bc <= SectorBytes + 1 - oa - ca
      /\ host.ofs + host.cnt > 0 => host.bc = SectorBytes + 1 - oa - ca
      /\ host.got = [i \in 1 .. ca - host.cnt |-> <<host.sect, oa + i - 1>>]
  BY BytesNow
<1>10. host'.asked[1] = oa /\ host'.asked[2] = ca /\ Len(host'.asked) = 2
  BY <1>2, <1>3
<1> HIDE DEF oa, ca
<1>11. /\ oa \in Nat /\ ca \in Nat /\ oa + ca <= SectorBytes
       /\ host.ofs \in Nat /\ host.cnt \in Nat /\ host.bc \in Int
       /\ host.bc >= 1 /\ host.ofs <= oa /\ host.cnt <= ca
       /\ host.ofs > 0 => host.cnt = ca
       /\ host.bc <= SectorBytes + 1 - oa - ca
       /\ host.ofs + host.cnt > 0 => host.bc = SectorBytes + 1 - oa - ca
  BY <1>3
<1>12. /\ host.ofs = 0 /\ host.cnt > 0
       /\ host'.ofs = host.ofs /\ host'.cnt = host.cnt - 1 /\ host'.bc = host.bc
  BY <1>1, <1>2
<1>4. Passed' = Passed + 1 /\ Passed < SectorBytes /\ Passed = oa + (ca - host.cnt)
  BY <1>11, <1>12, Consts DEF Passed
<1>5. /\ card'.mode = "single" /\ card'.sect = host.sect /\ card'.pos = Passed' + 1
      /\ host'.flight = <<host.sect, Passed'>>
      /\ DOMAIN card' = {"mode", "sect", "pos"} /\ card'.sect \in Int /\ card'.pos \in Int
  BY <1>1, <1>2, <1>4, ByteFields
<1>6. SdTypes'
  BY <1>1, <1>2, <1>5, Consts DEF SdTypes
<1>7. TypeIsKind' /\ ReadingOK' /\ SendsOK'
  BY <1>1, <1>2, <1>5 DEF SdInv, TypeIsKind, ReadingOK, Owed, SendsOK, InRead
<1>8. WindowOK'
  <2> DEFINE k == ca - host.cnt
  <2>1. k \in Nat /\ k + 1 = ca - host'.cnt
    BY <1>1, <1>2, <1>3
  <2>2. host.flight = <<host.sect, oa + k>>
    BY <1>4, ByteFields
  <2>3. host.got = [i \in 1 .. k |-> <<host.sect, oa + i - 1>>]
    BY <1>3
  <2> HIDE DEF k
  <2>7. host'.got = Append(host.got, host.flight) /\ oa \in Int
    BY <1>2, <1>3
  <2>4. host'.got = [i \in 1 .. k + 1 |-> <<host.sect, oa + i - 1>>]
    <3>1. Append([i \in 1 .. k |-> <<host.sect, oa + i - 1>>], <<host.sect, oa + k>>)
            = [i \in 1 .. k + 1 |-> <<host.sect, oa + i - 1>>]
      BY <2>1, <2>7, Append1
    <3>2. QED
      BY <2>2, <2>3, <2>7, <3>1
  <2>5. host'.got = [i \in 1 .. ca - host'.cnt |-> <<host'.sect, oa + i - 1>>]
    BY <1>2, <2>1, <2>4
  <2>8. /\ host'.bc >= 1 /\ host'.ofs <= oa /\ host'.cnt <= ca
        /\ host'.ofs > 0 => host'.cnt = ca
        /\ host'.bc <= SectorBytes + 1 - oa - ca
        /\ host'.bc = SectorBytes + 1 - oa - ca
    BY <1>11, <1>12
  <2>9. host'.op = "read" /\ host'.at = "bytes" /\ host'.result = "OK" /\ host'.sect = host.sect
    BY <1>2, <1>3
  <2>6. QED
    BY <1>11, <1>5, <1>10, <2>5, <2>8, <2>9, BytesNext
<1>9. QED
  BY <1>2, <1>6, <1>7, <1>8, OtherCalls DEF SdInv

\* ... and the rest, up to the CRC, which ends the read.
LEMMA ReadRests == ASSUME SdInv, host.op = "read", host.at = "bytes", ReadRest PROVE SdInv'
<1>1. /\ card' = Clocked(1) /\ UNCHANGED <<kind, type, streaming>>
      /\ host.ofs = 0 /\ host.cnt = 0
      /\ SdTypes
  BY DEF ReadRest, NextSpi, Keep, SdInv
<1>2. /\ host'.at = IF host.bc = 1 THEN "release" ELSE "bytes"
      /\ host'.flight = Byte /\ host'.bc = host.bc - 1
      /\ DOMAIN host' = HostFields
      /\ host'.op = host.op /\ host'.result = host.result /\ host'.sect = host.sect
      /\ host'.ofs = host.ofs /\ host'.cnt = host.cnt /\ host'.got = host.got
      /\ host'.v = host.v /\ host'.n = host.n /\ host'.done = host.done
      /\ host'.first = host.first /\ host'.late = host.late /\ host'.asked = host.asked
  BY <1>1 DEF ReadRest, NextSpi, SdTypes, HostFields
<1> DEFINE oa == host.asked[1]
           ca == host.asked[2]
<1>3. /\ oa \in Nat /\ ca \in Nat /\ oa + ca <= SectorBytes
      /\ Len(host.asked) = 2 /\ host.result = "OK"
      /\ host.ofs \in Nat /\ host.cnt \in Nat /\ host.bc \in Int
      /\ host.bc >= 1 /\ host.ofs <= oa /\ host.cnt <= ca
      /\ host.ofs > 0 => host.cnt = ca
      /\ host.bc <= SectorBytes + 1 - oa - ca
      /\ host.ofs + host.cnt > 0 => host.bc = SectorBytes + 1 - oa - ca
      /\ host.got = [i \in 1 .. ca - host.cnt |-> <<host.sect, oa + i - 1>>]
  BY BytesNow
<1>10. host'.asked[1] = oa /\ host'.asked[2] = ca /\ Len(host'.asked) = 2
  BY <1>2, <1>3
<1> HIDE DEF oa, ca
<1>11. /\ oa \in Nat /\ ca \in Nat /\ oa + ca <= SectorBytes
       /\ host.ofs \in Nat /\ host.cnt \in Nat /\ host.bc \in Int
       /\ host.bc >= 1 /\ host.ofs <= oa /\ host.cnt <= ca
       /\ host.ofs > 0 => host.cnt = ca
       /\ host.bc <= SectorBytes + 1 - oa - ca
       /\ host.ofs + host.cnt > 0 => host.bc = SectorBytes + 1 - oa - ca
  BY <1>3
<1>12. /\ host.ofs = 0 /\ host.cnt = 0
       /\ host'.ofs = host.ofs /\ host'.cnt = host.cnt /\ host'.bc = host.bc - 1
  BY <1>1, <1>2
<1>4. Passed' = Passed + 1 /\ (Passed < SectorBytes <=> host.bc > 1)
  BY <1>11, <1>12, Consts DEF Passed
<1>5. /\ DOMAIN card' = {"mode", "sect", "pos"} /\ card'.sect \in Int /\ card'.pos \in Int
      /\ host'.flight = <<host.sect, Passed'>>
      /\ host.bc > 1 => card'.mode = "single" /\ card'.sect = host.sect /\ card'.pos = Passed' + 1
      /\ host.bc = 1 => card'.mode = "ready"
  <2>1. Passed \in 0 .. SectorBytes /\ card.sect = host.sect /\ card.pos = Passed + 1
    BY ByteFields
  <2>2. host.bc = 1 => Passed = SectorBytes
    BY <1>4, <2>1, Consts
  <2>3. QED
    BY <1>1, <1>2, <1>4, <2>1, <2>2, ByteFields
<1>6. SdTypes'
  BY <1>1, <1>2, <1>5, Consts DEF SdTypes
<1>7. TypeIsKind' /\ ReadingOK' /\ SendsOK'
  BY <1>1, <1>2, <1>5, <1>11 DEF SdInv, TypeIsKind, ReadingOK, Owed, SendsOK, InRead, Reading
<1>8. WindowOK'
  <2>1. host'.got = [i \in 1 .. ca |-> <<host'.sect, oa + i - 1>>]
    BY <1>1, <1>2, <1>3
  <2>2. CASE host.bc = 1
    BY <1>2, <1>3, <1>10, <2>1, <2>2 DEF WindowOK
  <2>3. CASE host.bc > 1
    BY <1>1, <1>2, <1>3, <1>5, <1>10, <2>1, <2>3, BytesNext, Consts
  <2>4. QED
    BY <1>3, <2>2, <2>3
<1>9. QED
  BY <1>2, <1>6, <1>7, <1>8, OtherCalls DEF SdInv

\* uzefs_sd_read as a whole.
LEMMA ReadSteps == ASSUME SdInv, SdRead PROVE SdInv'
BY SingleCommand, ReadToken, ReadStarts, ReadSkips, ReadTakes, ReadRests DEF SdRead

\* uzefs_sd_reg as a whole.
LEMMA RegisterSteps == ASSUME SdInv, Register PROVE SdInv'
<1>1. CASE Token({"reg"}, "register")
  BY <1>1, RegToken
<1>2. CASE /\ host.op = "reg" /\ host.at = "register"
           /\ card' = Idle("ready")
           /\ Goes("release")
           /\ Keep /\ UNCHANGED selected
  <2>1. /\ card'.mode = "ready" /\ host'.at = "release" /\ SameArgs
        /\ UNCHANGED <<kind, type, streaming>>
    BY <1>2, Idles, Moves DEF Keep, SdInv
  <2>2. SdTypes' /\ TypeIsKind'
    BY <1>2, <2>1, Idles, SameTypes, KeepsReading DEF SdInv
  <2>3. ReadingOK' /\ SendsOK'
    BY <1>2, <2>1 DEF ReadingOK, Owed, SendsOK, InRead, Reading
  <2>4. QED
    BY <1>2, <2>1, <2>2, <2>3, OtherCalls DEF SdInv, SameArgs
<1>3. QED
  BY <1>1, <1>2 DEF Register

-----------------------------------------------------------------------------
\* A step of uzefs_sd_count or uzefs_sd_gap that leaves the call's arguments.
LEMMA CountSkips == ASSUME SdInv, CountSkip PROVE SdInv'
<1>1. /\ host.op = "count" /\ host.at = "skip" /\ card.mode = "multi" /\ card.pos = 0
      /\ UNCHANGED <<kind, type, streaming>>
      /\ SdTypes /\ card' = Clocked(host.ofs) /\ host.ofs < SectorBytes
  BY DEF CountSkip, Keep, SdInv, SendsOK, InRead, CountOK
<1>2. host.ofs \in Nat
  BY <1>1 DEF SdTypes
<1>3. /\ card'.mode = "multi" /\ card'.sect = card.sect /\ card'.pos = host.ofs
      /\ DOMAIN card' = {"mode", "sect", "pos"} /\ card'.sect \in Int /\ card'.pos \in Int
  BY <1>1, <1>2, ClockedFields, Consts DEF Reading, Fetching, Crc
<1>4. /\ host'.at = "words" /\ host'.bc = SectorBytes - host.ofs
      /\ DOMAIN host' = HostFields
      /\ host'.op = host.op /\ host'.result = host.result /\ host'.sect = host.sect
      /\ host'.ofs = host.ofs /\ host'.cnt = host.cnt
      /\ host'.v = host.v /\ host'.n = host.n /\ host'.done = host.done
      /\ host'.first = host.first /\ host'.late = host.late /\ host'.asked = host.asked
  BY <1>1 DEF CountSkip, SdTypes, HostFields
<1>5. SdTypes'
  BY <1>1, <1>3, <1>4, Consts DEF SdTypes
<1>6. TypeIsKind' /\ ReadingOK' /\ SendsOK'
  BY <1>1, <1>3, <1>4 DEF SdInv, TypeIsKind, ReadingOK, Owed, SendsOK, InRead
<1>7. CountOK'
  <2>1. card'.pos \in 0 .. SectorBytes /\ host'.bc = SectorBytes - card'.pos
    BY <1>1, <1>2, <1>3, <1>4, Consts
  <2>2. card'.sect * SectorBytes + card'.pos = (host.asked[1] + host.done) * Wide
    BY <1>1, <1>3 DEF SdInv, CountOK
  <2>3. QED
    BY <1>1, <1>4, <2>1, <2>2 DEF SdInv, CountOK
<1>8. QED
  BY <1>1, <1>4, <1>5, <1>6, <1>7, OtherCalls DEF SdInv

\* The word under the card's head is the one that the count is at.
LEMMA WordAt ==
  ASSUME SdInv, host.op = "count", host.at = "words", host.bc > 0, host.done < host.n
  PROVE  /\ Word = Words[host.asked[1] + host.done]
         /\ card.pos \in 0 .. SectorBytes - Wide
<1> DEFINE k == host.asked[1] + host.done
<1>1. /\ k \in Nat /\ card.sect * SectorBytes + card.pos = k * Wide
      /\ card.pos \in 0 .. SectorBytes /\ host.bc = SectorBytes - card.pos
      /\ card.sect \in Int
  BY DEF SdInv, CountOK, SdTypes
<1> HIDE DEF k
<1>2. Word = Words[k]
  <2>1. \A x \in Nat, w \in Nat : w > 0 => (x * w) \div w = x
    OBVIOUS
  <2>2. (card.sect * SectorBytes + card.pos) \div Wide = k
    BY <1>1, <2>1, Consts
  <2>3. QED
    BY <2>2 DEF Word
<1>3. host.bc >= Wide
  <2> DEFINE q == SectorBytes \div Wide
             sect == card.sect
             bc == host.bc
  <2>1. q \in Nat /\ SectorBytes = q * Wide
    <3>1. \A x \in Nat, w \in Nat : w > 0 => x \div w \in Nat /\ x = w * (x \div w) + (x % w)
      OBVIOUS
    <3>2. \A x \in Nat, w \in Nat : x * w = w * x
      OBVIOUS
    <3>3. q \in Nat /\ SectorBytes = Wide * q + (SectorBytes % Wide)
      BY <3>1, Consts
    <3>4. q \in Nat /\ SectorBytes = Wide * q
      BY <3>3, Consts
    <3>5. QED
      BY <3>2, <3>4, Consts
  <2>2. bc = sect * SectorBytes + SectorBytes - k * Wide /\ bc \in Int /\ bc > 0 /\ sect \in Int
    BY <1>1, Consts
  <2> HIDE DEF q, sect, bc
  <2>3. bc = (sect * q + q - k) * Wide
    BY <1>1, <2>1, <2>2, Consts
  <2>4. sect * q + q - k \in Int
    BY <1>1, <2>1, <2>2
  <2>5. \A x \in Int, w \in Nat : x * w > 0 => x * w >= w
    OBVIOUS
  <2>6. bc >= Wide
    BY <2>2, <2>3, <2>4, <2>5, Consts
  <2>7. QED
    BY <2>6 DEF bc
<1>4. QED
  BY <1>1, <1>2, <1>3, Consts DEF k

\* A word is compared, counted, and the card is a word further.
LEMMA CountWords == ASSUME SdInv, CountWord PROVE SdInv'
<1>1. /\ host.op = "count" /\ host.at = "words" /\ card.mode = "multi"
      /\ host.bc > 0 /\ host.done < host.n
      /\ UNCHANGED <<kind, type, streaming>>
      /\ SdTypes /\ card' = Clocked(Wide)
  BY DEF CountWord, Keep, SdInv, SendsOK, InRead
<1> DEFINE first == host.asked[1]
           va == host.asked[2]
           na == host.asked[3]
<1>2. /\ Len(host.asked) = 3 /\ first \in Nat /\ va \in Int /\ na \in Nat
      /\ host.done \in Nat /\ host.n = na /\ host.v = va + host.done
      /\ card.sect * SectorBytes + card.pos = (first + host.done) * Wide
      /\ card.pos \in 0 .. SectorBytes - Wide /\ host.bc = SectorBytes - card.pos
      /\ \A i \in 0 .. host.done - 1 : Words[first + i] = va + i
  BY <1>1, WordAt DEF SdInv, CountOK, SdTypes
<1>3. /\ card'.mode = "multi" /\ card'.sect = card.sect /\ card'.pos = card.pos + Wide
      /\ DOMAIN card' = {"mode", "sect", "pos"} /\ card'.sect \in Int /\ card'.pos \in Int
  BY <1>1, <1>2, ClockedFields, Consts DEF Reading, Fetching, Crc
<1>4. CASE Word # host.v
  <2>1. /\ host'.n = host.done
        /\ DOMAIN host' = HostFields
        /\ host'.op = host.op /\ host'.at = host.at /\ host'.result = host.result
        /\ host'.sect = host.sect /\ host'.ofs = host.ofs /\ host'.cnt = host.cnt
        /\ host'.bc = host.bc /\ host'.v = host.v /\ host'.done = host.done
        /\ host'.first = host.first /\ host'.late = host.late /\ host'.asked = host.asked
    BY <1>1, <1>4 DEF CountWord, SdTypes, HostFields
  <2>2. SdTypes'
    BY <1>1, <1>3, <2>1 DEF SdTypes
  <2>3. TypeIsKind' /\ ReadingOK' /\ SendsOK'
    BY <1>1, <1>3, <2>1 DEF SdInv, TypeIsKind, ReadingOK, Owed, SendsOK, InRead
  <2>4. Words[first + host.done] # va + host.done
    BY <1>1, <1>2, <1>4, WordAt
  <2>5. CountOK'
    BY <1>1, <1>2, <2>1, <2>4 DEF CountOK
  <2>6. QED
    BY <1>1, <2>1, <2>2, <2>3, <2>5, OtherCalls DEF SdInv
<1>5. CASE Word = host.v
  <2>1. /\ host'.v = host.v + 1 /\ host'.done = host.done + 1 /\ host'.bc = host.bc - Wide
        /\ DOMAIN host' = HostFields
        /\ host'.op = host.op /\ host'.at = host.at /\ host'.result = host.result
        /\ host'.sect = host.sect /\ host'.ofs = host.ofs /\ host'.cnt = host.cnt
        /\ host'.n = host.n
        /\ host'.first = host.first /\ host'.late = host.late /\ host'.asked = host.asked
    BY <1>1, <1>5 DEF CountWord, SdTypes, HostFields
  <2>2. SdTypes'
    BY <1>1, <1>3, <2>1, Consts DEF SdTypes
  <2>3. TypeIsKind' /\ ReadingOK' /\ SendsOK'
    BY <1>1, <1>3, <2>1 DEF SdInv, TypeIsKind, ReadingOK, Owed, SendsOK, InRead
  <2>4. Words[first + host.done] = va + host.done
    BY <1>1, <1>2, <1>5, WordAt
  <2>5. \A i \in 0 .. host'.done - 1 : Words[first + i] = va + i
    BY <1>2, <2>1, <2>4
  <2>6. card'.sect * SectorBytes + card'.pos = (first + host'.done) * Wide
    <3>1. \A k \in Int, w \in Int : (k + 1) * w = k * w + w
      OBVIOUS
    <3> DEFINE k == first + host.done
    <3>2. k \in Int /\ first + host'.done = k + 1 /\ card.sect * SectorBytes + card.pos = k * Wide
      BY <1>2, <2>1
    <3> HIDE DEF k
    <3>3. (k + 1) * Wide = k * Wide + Wide
      BY <3>1, <3>2, Consts
    <3> DEFINE p == card.sect * SectorBytes
    <3>4. p \in Int /\ card'.sect * SectorBytes = p
      <4>1. card.sect \in Int
        BY <1>1 DEF SdTypes
      <4>2. QED
        BY <1>3, <4>1, Consts
    <3>5. p + card.pos = k * Wide
      BY <3>2
    <3>6. card'.sect * SectorBytes + card'.pos = p + (card.pos + Wide)
      BY <1>3, <3>4
    <3> HIDE DEF p
    <3>7. p + (card.pos + Wide) = (p + card.pos) + Wide
      <4>1. \A a \in Int, b \in Int, c \in Int : a + (b + c) = (a + b) + c
        OBVIOUS
      <4>2. card.pos \in Int
        BY <1>2, Consts
      <4>3. QED
        BY <3>4, <4>1, <4>2, Consts
    <3>8. p + (card.pos + Wide) = k * Wide + Wide
      BY <3>5, <3>7, Zenon
    <3>9. card'.sect * SectorBytes + card'.pos = (k + 1) * Wide
      BY <3>3, <3>6, <3>8, Zenon
    <3>10. QED
      BY <3>2, <3>9
  <2>7. host'.v = va + host'.done
    BY <1>1, <1>2, <2>1 DEF SdTypes, SdInv, CountOK
  <2>8. card'.pos \in 0 .. SectorBytes /\ host'.bc = SectorBytes - card'.pos
    BY <1>2, <1>3, <2>1, Consts
  <2>9. CountOK'
    BY <1>1, <1>2, <2>1, <2>5, <2>6, <2>7, <2>8 DEF CountOK
  <2>10. QED
    BY <1>1, <2>1, <2>2, <2>3, <2>9, OtherCalls DEF SdInv
<1>6. QED
  BY <1>4, <1>5

\* At the end of a sector the count goes on at the next one, from its first byte.
LEMMA CountSectors == ASSUME SdInv, CountSector PROVE SdInv'
<1>1. /\ host.op = "count" /\ host.at = "words" /\ card.mode = "multi"
      /\ host.bc = 0 /\ host.done < host.n
      /\ UNCHANGED <<kind, type, streaming>>
      /\ SdTypes /\ card' = Clocked(Crc)
  BY DEF CountSector, Keep, SdInv, SendsOK, InRead
<1>2. card.pos = SectorBytes
  BY <1>1, Consts DEF SdInv, CountOK, SdTypes
<1>3. /\ card'.mode = "multi" /\ card'.sect = card.sect + 1 /\ card'.pos = Fetching
      /\ DOMAIN card' = {"mode", "sect", "pos"} /\ card'.sect \in Int /\ card'.pos \in Int
  BY <1>1, <1>2, ClockedFields, Consts DEF Reading, Fetching, Crc
<1>4. /\ host'.at = "token" /\ host'.ofs = 0
      /\ DOMAIN host' = HostFields
      /\ host'.op = host.op /\ host'.result = host.result /\ host'.sect = host.sect
      /\ host'.bc = host.bc /\ host'.cnt = host.cnt
      /\ host'.v = host.v /\ host'.n = host.n /\ host'.done = host.done
      /\ host'.first = host.first /\ host'.late = host.late /\ host'.asked = host.asked
  BY <1>1 DEF CountSector, SdTypes, HostFields
<1>5. SdTypes'
  BY <1>1, <1>3, <1>4, Consts DEF SdTypes
<1>6. TypeIsKind' /\ ReadingOK' /\ SendsOK'
  BY <1>1, <1>3, <1>4 DEF SdInv, TypeIsKind, ReadingOK, Owed, SendsOK, InRead
<1>7. CountOK'
  <2> DEFINE word == (host.asked[1] + host.done) * Wide
             sect == card.sect
  <2>1. sect * SectorBytes + SectorBytes = word /\ sect \in Int
    BY <1>1, <1>2 DEF SdInv, CountOK, SdTypes
  <2>2. card'.sect * SectorBytes + host'.ofs = word
    <3>1. \A x \in Int, b \in Int : (x + 1) * b + 0 = x * b + b
      OBVIOUS
    <3>2. card'.sect * SectorBytes + host'.ofs = (sect + 1) * SectorBytes + 0
      BY <1>3, <1>4
    <3> HIDE DEF sect, word
    <3>3. QED
      BY <2>1, <3>1, <3>2, Consts
  <2>3. QED
    BY <1>1, <1>3, <1>4, <2>2, Consts DEF SdInv, CountOK
<1>8. QED
  BY <1>1, <1>4, <1>5, <1>6, <1>7, OtherCalls DEF SdInv

\* uzefs_sd_count is through: CMD12 comes next.
LEMMA CountEnds == ASSUME SdInv, CountEnd PROVE SdInv'
<1>1. /\ host.op = "count" /\ host.at \in {"token", "words"} /\ host.done = host.n
      /\ UNCHANGED <<card, kind, type, streaming>>
      /\ SdTypes
      /\ host'.at = "stop" /\ host'.result = host.result /\ SameArgs
  BY Moves DEF CountEnd, Keep, SdInv
<1>2. SdTypes' /\ TypeIsKind'
  BY <1>1, SameTypes, KeepsReading DEF SdTypes
<1>3. ReadingOK' /\ SendsOK'
  BY <1>1 DEF ReadingOK, Owed, SendsOK, InRead, SameArgs
<1>4. CountOK'
  BY <1>1 DEF SdInv, CountOK, SameArgs
<1>5. QED
  BY <1>1, <1>2, <1>3, <1>4, OtherCalls DEF SdInv, SameArgs

\* A gap is counted at every token but the first.
LEMMA GapTokens == ASSUME SdInv, GapToken PROVE SdInv'
<1>1. /\ host.op = "gap" /\ host.at = "measure" /\ card.mode = "multi"
      /\ UNCHANGED <<card, kind, type, streaming>>
      /\ SdTypes
  BY DEF GapToken, Keep, SdInv, SendsOK, InRead
<1>2. /\ DOMAIN host' = HostFields
      /\ host'.op = host.op /\ host'.result = host.result /\ host'.sect = host.sect
      /\ host'.ofs = host.ofs /\ host'.bc = host.bc /\ host'.cnt = host.cnt
      /\ host'.v = host.v /\ host'.late = host.late /\ host'.asked = host.asked
      /\ host'.first = FALSE
      /\ host.first => /\ host'.at = "sector" /\ host'.done = host.done
                       /\ host'.n = IF host.n = 0 THEN 0 ELSE host.n - 1
      /\ ~host.first => /\ host'.at = IF host.n = 0 THEN "stop" ELSE "sector"
                        /\ host'.done = host.done + 1 /\ host'.n = host.n - 1
  BY <1>1 DEF GapToken, SdTypes, HostFields
<1>3. SdTypes'
  <2>1. host'.n \in Int /\ host'.done \in Nat
    BY <1>1, <1>2 DEF SdTypes
  <2>2. QED
    BY <1>1, <1>2, <2>1 DEF SdTypes
<1>4. TypeIsKind' /\ ReadingOK' /\ SendsOK'
  BY <1>1, <1>2 DEF SdInv, TypeIsKind, ReadingOK, Owed, SendsOK, InRead
<1>5. GapOK'
  <2> DEFINE n == host.asked[1]
  <2>1. /\ n \in Nat /\ Len(host.asked) = 1 /\ host.result = "OK"
        /\ host.n \in Int /\ host.done \in Int
        /\ host.first => host.n = n /\ host.done = 0
        /\ ~host.first => host.n >= 0 /\ host.done + host.n + 1 = IF n = 0 THEN 1 ELSE n
    BY <1>1 DEF SdInv, GapOK, SdTypes
  <2>2. host'.asked[1] = n /\ Len(host'.asked) = 1
    BY <1>2, <2>1
  <2> HIDE DEF n
  <2>3. CASE host.first
    <3>1. host'.n >= 0 /\ host'.done + host'.n + 1 = IF n = 0 THEN 1 ELSE n
      BY <1>2, <2>1, <2>3
    <3>2. QED
      BY <1>1, <1>2, <2>1, <2>2, <2>3, <3>1 DEF GapOK
  <2>4. CASE ~host.first /\ host.n = 0
    BY <1>1, <1>2, <2>1, <2>2, <2>4 DEF GapOK
  <2>5. CASE ~host.first /\ host.n # 0
    BY <1>1, <1>2, <2>1, <2>2, <2>5 DEF GapOK
  <2>6. QED
    BY <2>3, <2>4, <2>5
<1>6. QED
  BY <1>1, <1>2, <1>3, <1>4, <1>5, OtherCalls DEF SdInv

\* The sector between two tokens is clocked away.
LEMMA GapSectors == ASSUME SdInv, GapSector PROVE SdInv'
<1>1. /\ host.op = "gap" /\ host.at = "sector" /\ card.mode = "multi"
      /\ UNCHANGED <<kind, type, streaming>>
      /\ SdTypes /\ card' = Clocked(SectorBytes + Crc)
      /\ host'.at = "token" /\ host'.result = host.result /\ SameArgs
  BY Moves DEF GapSector, Keep, SdInv, SendsOK, InRead
<1>2. /\ card'.mode = "multi"
      /\ DOMAIN card' = {"mode", "sect", "pos"} /\ card'.sect \in Int /\ card'.pos \in Int
  BY <1>1, ClockedFields, Consts DEF Crc
<1>3. SdTypes' /\ TypeIsKind'
  BY <1>1, <1>2, SameTypes, KeepsReading
<1>4. ReadingOK' /\ SendsOK'
  BY <1>1, <1>2 DEF ReadingOK, Owed, SendsOK, InRead, SameArgs
<1>5. GapOK'
  BY <1>1 DEF SdInv, GapOK, SameArgs
<1>6. QED
  BY <1>1, <1>3, <1>4, <1>5, OtherCalls DEF SdInv, SameArgs

-----------------------------------------------------------------------------
\* CMD12 and its busy: the card is left ready, or busy, or was never ready.
LEMMA StopFields ==
  ASSUME SdTypes, NEW ACTION then, NEW ACTION late, StopRead(then, late)
  PROVE  /\ host.at = "stop"
         /\ DOMAIN card' = {"mode", "sect", "pos"} /\ card'.sect \in Int /\ card'.pos \in Int
         /\ ~Reading' /\ card'.mode \in {"ready", "unready", "busy"}
         /\ (then /\ card'.mode \in {"ready", "unready"}) \/ late
<1>1. CASE /\ card' = IF card.mode = "unready" THEN card ELSE Idle("ready")
           /\ then
  BY <1>1, Idles DEF StopRead, SdTypes, Reading
<1>2. CASE card' = Idle("busy") /\ late
  BY <1>2, Idles DEF StopRead, Reading
<1>3. QED
  BY <1>1, <1>2 DEF StopRead

\* CMD12 ends a multiple-block read, or the call fails.
LEMMA MultiStop ==
  ASSUME SdInv, host.op \in {"count", "gap"}, StopRead(Goes("release"), Fails), Keep
  PROVE  SdInv'
<1>1. /\ SdTypes /\ host.at = "stop" /\ UNCHANGED <<kind, type, streaming>>
      /\ DOMAIN card' = {"mode", "sect", "pos"} /\ card'.sect \in Int /\ card'.pos \in Int
      /\ ~Reading'
      /\ Goes("release") \/ Fails
  BY StopFields DEF SdInv, Keep
<1>2. /\ host'.at = "release" /\ SameArgs /\ host'.result \in {host.result, "DISK"}
  BY <1>1, Moves
<1>3. SdTypes' /\ TypeIsKind'
  BY <1>1, <1>2, SameTypes, KeepsReading
<1>4. ReadingOK' /\ SendsOK'
  BY <1>1, <1>2 DEF ReadingOK, Owed, SendsOK, InRead, SameArgs
<1>5. CountOK'
  BY <1>1, <1>2 DEF SdInv, CountOK, SameArgs
<1>6. GapOK'
  BY <1>1, <1>2 DEF SdInv, GapOK, SameArgs
<1>7. QED
  BY <1>1, <1>2, <1>3, <1>4, <1>5, <1>6, OtherCalls DEF SdInv, SameArgs

\* uzefs_sd_count and uzefs_sd_gap as a whole.
LEMMA MultipleSteps == ASSUME SdInv, Multiple PROVE SdInv'
BY MultiCommand, CountToken, CountSkips, CountWords, CountSectors, CountEnds,
   GapTokenComes, GapTokens, GapSectors, MultiStop DEF Multiple

-----------------------------------------------------------------------------
\* CMD18 of uzefs_sd_stream_begin and _restart leaves the card reading.
LEMMA StreamCommands == ASSUME SdInv, StreamCommand PROVE SdInv'
<1>1. /\ host.op \in {"begin", "restart"} /\ host.at = "command"
      /\ UNCHANGED <<kind, type>> /\ SdTypes /\ type = kind
  BY DEF StreamCommand, SdInv, TypeIsKind
<1>2. CASE Accepts("multi") /\ streaming' = TRUE /\ Goes("done")
  <2>1. host'.at = "done" /\ SameArgs
    BY <1>1, <1>2, Moves
  <2>2. SdTypes'
    BY <1>1, <1>2, <2>1, AcceptsFields, SameTypes
  <2>3. TypeIsKind' /\ ReadingOK' /\ SendsOK'
    BY <1>1, <1>2, <2>1 DEF TypeIsKind, ReadingOK, Owed, SendsOK, InRead, SameArgs
  <2>4. QED
    BY <1>1, <2>1, <2>2, <2>3, OtherCalls DEF SdInv, SameArgs
<1>3. CASE Refuses /\ streaming' = FALSE /\ Fails
  <2>1. UNCHANGED card /\ host'.at = "release" /\ SameArgs
    BY <1>1, <1>3, Moves DEF Refuses
  <2>2. SdTypes'
    BY <1>1, <2>1, SameTypes DEF SdTypes
  <2>3. Reading => Owed
    BY <1>1 DEF SdInv, ReadingOK, InRead, NoHost
  <2>4. TypeIsKind' /\ ReadingOK' /\ SendsOK'
    BY <1>1, <1>3, <2>1, <2>3 DEF TypeIsKind, ReadingOK, Owed, SendsOK, InRead, SameArgs, Reading
  <2>5. QED
    BY <1>1, <2>1, <2>2, <2>4, OtherCalls DEF SdInv, SameArgs
<1>4. QED
  BY <1>2, <1>3 DEF StreamCommand

\* The host clocks the stream itself.
LEMMA StreamBytes == ASSUME SdInv, StreamByte PROVE SdInv'
<1>1. /\ streaming /\ host = NoHost /\ card.mode = "multi"
      /\ UNCHANGED <<kind, type, host, streaming>> /\ SdTypes
      /\ card' = IF card.pos = Fetching THEN [card EXCEPT !.pos = 0] ELSE Clocked(1)
  BY DEF StreamByte, SdInv
<1>2. /\ DOMAIN card' = {"mode", "sect", "pos"} /\ card'.sect \in Int /\ card'.pos \in Int
  <2>1. CASE card' = [card EXCEPT !.pos = 0]
    BY <1>1, <2>1 DEF SdTypes
  <2>2. CASE card' = Clocked(1)
    BY <1>1, <2>2, ClockedFields
  <2>3. QED
    BY <1>1, <2>1, <2>2
<1>3. SdTypes'
  BY <1>1, <1>2 DEF SdTypes
<1>4. TypeIsKind' /\ ReadingOK' /\ SendsOK'
  BY <1>1 DEF SdInv, TypeIsKind, ReadingOK, Owed, SendsOK, InRead, NoHost
<1>5. host'.op = "none"
  BY <1>1 DEF NoHost
<1>6. QED
  BY <1>3, <1>4, <1>5, OtherCalls DEF SdInv

\* CMD12 of uzefs_sd_stream_end and _restart.
LEMMA StreamStops == ASSUME SdInv, StreamStop PROVE SdInv'
<1>1. UNCHANGED <<kind, type>> /\ SdTypes
  BY DEF StreamStop, SdInv
<1>2. CASE host.op = "end" /\ StopRead(Goes("release"), Fails) /\ streaming' = FALSE
  <2>1. /\ DOMAIN card' = {"mode", "sect", "pos"} /\ card'.sect \in Int /\ card'.pos \in Int
        /\ ~Reading'
        /\ Goes("release") \/ Fails
    BY <1>1, <1>2, StopFields
  <2>2. host'.at = "release" /\ SameArgs
    BY <1>1, <2>1, Moves
  <2>3. SdTypes'
    BY <1>1, <2>1, <2>2, SameTypes
  <2>4. TypeIsKind' /\ ReadingOK' /\ SendsOK'
    BY <1>1, <1>2, <2>1, <2>2 DEF SdInv, TypeIsKind, ReadingOK, Owed, SendsOK, InRead, SameArgs
  <2>5. QED
    BY <1>2, <2>2, <2>3, <2>4, OtherCalls DEF SdInv, SameArgs
<1>3. CASE /\ host.op = "restart"
           /\ StopRead(Goes("command"), host' = [host EXCEPT !.at = "done", !.result = "DISK"])
           /\ UNCHANGED streaming
  <2>1. /\ DOMAIN card' = {"mode", "sect", "pos"} /\ card'.sect \in Int /\ card'.pos \in Int
        /\ ~Reading'
        /\ Goes("command") \/ host' = [host EXCEPT !.at = "done", !.result = "DISK"]
    BY <1>1, <1>3, StopFields
  <2>2. host'.at \in {"command", "done"} /\ SameArgs
    <3>1. CASE Goes("command")
      BY <1>1, <3>1, Moves
    <3>2. CASE host' = [host EXCEPT !.at = "done", !.result = "DISK"]
      BY <1>1, <3>2 DEF SdTypes, HostFields, SameArgs
    <3>3. QED
      BY <2>1, <3>1, <3>2
  <2>3. SdTypes'
    BY <1>1, <2>1, <2>2, SameTypes
  <2>4. TypeIsKind' /\ ReadingOK' /\ SendsOK'
    BY <1>1, <1>3, <2>1, <2>2 DEF SdInv, TypeIsKind, ReadingOK, Owed, SendsOK, InRead, SameArgs
  <2>5. QED
    BY <1>3, <2>2, <2>3, <2>4, OtherCalls DEF SdInv, SameArgs
<1>4. QED
  BY <1>2, <1>3 DEF StreamStop

\* uzefs_sd_write as a whole.
LEMMA WriteSteps == ASSUME SdInv, Write PROVE SdInv'
<1>1. CASE Command("block", {"write"}, "block")
  BY <1>1, BlockCommand
<1>2. CASE /\ host.op = "write" /\ host.at = "block"
           /\ \/ card' = Idle("ready") /\ (Goes("release") \/ Fails)
              \/ card' = Idle("busy") /\ Fails
           /\ Keep /\ UNCHANGED selected
  <2>1. /\ SdTypes /\ UNCHANGED <<kind, type, streaming>>
        /\ card' \in {Idle("ready"), Idle("busy")}
        /\ host'.at = "release" /\ SameArgs
    BY <1>2, Moves DEF Keep, SdInv
  <2>2. /\ DOMAIN card' = {"mode", "sect", "pos"} /\ card'.sect \in Int /\ card'.pos \in Int
        /\ ~Reading'
    BY <2>1, Idles DEF Reading
  <2>3. SdTypes' /\ TypeIsKind'
    BY <1>2, <2>1, <2>2, SameTypes, KeepsReading
  <2>4. ReadingOK' /\ SendsOK'
    BY <1>2, <2>1, <2>2 DEF ReadingOK, Owed, SendsOK, InRead, SameArgs
  <2>5. QED
    BY <1>2, <2>1, <2>3, <2>4, OtherCalls DEF SdInv, SameArgs
<1>3. QED
  BY <1>1, <1>2 DEF Write

-----------------------------------------------------------------------------
\* uzefs_sd_init's CMD12, for a card that a reset left reading.
LEMMA InitStops == ASSUME SdInv, InitStop PROVE SdInv'
<1>1. /\ host.op = "init" /\ host.at = "stop" /\ SdTypes /\ UNCHANGED <<kind, type, streaming>>
      /\ DOMAIN card' = {"mode", "sect", "pos"} /\ card'.sect \in Int /\ card'.pos \in Int
      /\ ~Reading' /\ card'.mode \in {"ready", "unready", "busy"}
      /\ \/ Goes("idle") /\ card'.mode \in {"ready", "unready"}
         \/ host' = [host EXCEPT !.at = "idle", !.late = TRUE]
  BY StopFields DEF SdInv, InitStop, Keep
<1>2. /\ DOMAIN host' = HostFields
      /\ host'.op = "init" /\ host'.at = "idle" /\ host'.result = host.result
      /\ host'.sect = host.sect /\ host'.ofs = host.ofs /\ host'.cnt = host.cnt
      /\ host'.bc = host.bc /\ host'.v = host.v /\ host'.n = host.n
      /\ host'.done = host.done /\ host'.first = host.first
      /\ \/ host'.late = TRUE
         \/ host'.late = host.late /\ card'.mode \in {"ready", "unready"}
  <2>1. CASE Goes("idle") /\ card'.mode \in {"ready", "unready"}
    BY <1>1, <2>1, Moves DEF SameArgs, SdTypes
  <2>2. CASE host' = [host EXCEPT !.at = "idle", !.late = TRUE]
    BY <1>1, <2>2 DEF SdTypes, HostFields
  <2>3. QED
    BY <1>1, <2>1, <2>2
<1>3. SdTypes'
  BY <1>1, <1>2 DEF SdTypes
<1>4. TypeIsKind' /\ ReadingOK' /\ SendsOK'
  BY <1>1, <1>2 DEF SdInv, TypeIsKind, ReadingOK, Owed, SendsOK, InRead
<1>5. InitFinds'
  BY <1>1, <1>2 DEF SdInv, InitFinds
<1>6. QED
  BY <1>2, <1>3, <1>4, <1>5, OtherCalls DEF SdInv

\* The steps of uzefs_sd_init after CMD12, and what they do to the call.
LEMMA InitFields ==
  ASSUME SdTypes, host.op = "init"
  PROVE  /\ GivesUp =>
              /\ DOMAIN host' = HostFields
              /\ host'.op = "init" /\ host'.at = "release" /\ host'.late = TRUE /\ type' = "none"
              /\ host'.sect = host.sect /\ host'.ofs = host.ofs /\ host'.cnt = host.cnt
              /\ host'.bc = host.bc /\ host'.v = host.v /\ host'.n = host.n
              /\ host'.done = host.done /\ host'.first = host.first
         /\ NotReady => host'.at = "release" /\ SameArgs /\ type' = "none"
BY ZenonT(40) DEF SdTypes, HostFields, SameArgs, GivesUp, NotReady

\* CMD0, for a card that is not reading any more.
LEMMA InitIdles == ASSUME SdInv, InitIdle PROVE SdInv'
<1>1. /\ host.op = "init" /\ host.at = "idle" /\ SdTypes /\ UNCHANGED <<kind, streaming>>
      /\ ~Reading /\ ~streaming
  BY DEF SdInv, InitIdle, ReadingOK, Owed, InRead, NoHost, TypeIsKind
<1>2. CASE card.mode \in {"ready", "unready"}
  <2>1. card' = Idle("unready") /\ Goes("kind") /\ UNCHANGED type
    BY <1>2 DEF InitIdle
  <2>2. /\ host'.at = "kind" /\ host'.result = host.result /\ SameArgs
        /\ ~Reading'
    BY <1>1, <2>1, Moves, Idles DEF Reading
  <2>3. SdTypes'
    BY <1>1, <2>1, <2>2, Idles, SameTypes
  <2>4. TypeIsKind' /\ ReadingOK' /\ SendsOK'
    BY <1>1, <2>1, <2>2 DEF TypeIsKind, ReadingOK, Owed, SendsOK, InRead, SameArgs
  <2>5. InitFinds'
    BY <1>1, <2>1, <2>2 DEF SdInv, InitFinds, SameArgs
  <2>6. QED
    BY <1>1, <2>2, <2>3, <2>4, <2>5, OtherCalls DEF SdInv, SameArgs
<1>3. CASE card.mode \notin {"ready", "unready"}
  <2>1. UNCHANGED card /\ host'.at = "release" /\ SameArgs /\ type' = "none"
    BY <1>1, <1>3, InitFields DEF InitIdle
  <2>2. host.late
    BY <1>1, <1>3 DEF SdInv, InitFinds
  <2>3. SdTypes'
    BY <1>1, <2>1, SameTypes DEF SdTypes
  <2>4. TypeIsKind' /\ ReadingOK' /\ SendsOK'
    BY <1>1, <2>1 DEF TypeIsKind, ReadingOK, Owed, SendsOK, InRead, SameArgs, Reading
  <2>5. InitFinds'
    BY <2>1, <2>2 DEF InitFinds, SameArgs
  <2>6. QED
    BY <1>1, <2>1, <2>3, <2>4, <2>5, OtherCalls DEF SdInv, SameArgs
<1>4. QED
  BY <1>2, <1>3

\* The card does not get ready, or refuses: uzefs_sd_init gives up.
LEMMA InitGivesUp ==
  ASSUME SdInv, host.op = "init", host.at \in {"kind", "block"}, GivesUp,
         UNCHANGED <<card, kind, streaming>>
  PROVE  SdInv'
<1>1. SdTypes /\ ~Reading /\ ~streaming
  BY DEF SdInv, ReadingOK, Owed, InRead, NoHost, TypeIsKind
<1>2. SdTypes'
  BY <1>1, InitFields DEF SdTypes
<1>3. TypeIsKind' /\ ReadingOK' /\ SendsOK'
  BY <1>1, InitFields DEF TypeIsKind, ReadingOK, Owed, SendsOK, InRead, Reading
<1>4. InitFinds'
  BY <1>1, InitFields DEF InitFinds
<1>5. QED
  BY <1>1, <1>2, <1>3, <1>4, InitFields, OtherCalls DEF SdInv

\* CMD8 or ACMD41, then the wait for the card.
LEMMA InitKinds == ASSUME SdInv, InitKind PROVE SdInv'
<1>1. CASE GivesUp /\ UNCHANGED card
  BY <1>1, InitGivesUp DEF InitKind
<1>2. CASE /\ card' = Idle("ready")
           /\ type' = IF kind \in {"SD2", "SDHC"} THEN "SD2" ELSE kind
           /\ Goes("block")
  <2>1. /\ host.op = "init" /\ host.at = "kind" /\ SdTypes /\ UNCHANGED <<kind, streaming>>
        /\ ~streaming /\ ~Reading'
        /\ host'.at = "block" /\ host'.result = host.result /\ SameArgs
    BY <1>2, Moves, Idles DEF SdInv, InitKind, TypeIsKind, Reading
  <2>2. SdTypes'
    BY <1>2, <2>1, Idles, SameTypes
  <2>3. TypeIsKind' /\ ReadingOK' /\ SendsOK'
    BY <1>2, <2>1 DEF TypeIsKind, ReadingOK, Owed, SendsOK, InRead, SameArgs
  <2>4. InitFinds'
    BY <1>2, <2>1 DEF SdInv, InitFinds, SameArgs
  <2>5. QED
    BY <2>1, <2>2, <2>3, <2>4, OtherCalls DEF SdInv, SameArgs
<1>3. QED
  BY <1>1, <1>2 DEF InitKind

\* CMD58 and CMD16: the addressing is known.
LEMMA InitBlocks == ASSUME SdInv, InitBlock PROVE SdInv'
<1>1. CASE GivesUp
  BY <1>1, InitGivesUp DEF InitBlock
<1>2. CASE type' = (IF type = "SD2" THEN kind ELSE type) /\ Goes("release")
  <2>1. /\ host.op = "init" /\ host.at = "block" /\ SdTypes
        /\ UNCHANGED <<card, kind, streaming>>
        /\ ~streaming /\ ~Reading
        /\ host'.at = "release" /\ host'.result = host.result /\ SameArgs
    BY <1>2, Moves DEF SdInv, InitBlock, TypeIsKind, ReadingOK, Owed, InRead, NoHost
  <2>2. SdTypes'
    BY <2>1, SameTypes DEF SdTypes
  <2>3. TypeIsKind' /\ ReadingOK' /\ SendsOK'
    BY <1>2, <2>1, SdAssumption
    DEF SdInv, TypeIsKind, ReadingOK, Owed, SendsOK, InRead, SameArgs, Reading, SdTypes
  <2>4. InitFinds'
    BY <1>2, <2>1, SdAssumption DEF SdInv, InitFinds, TypeIsKind, SameArgs, SdTypes
  <2>5. QED
    BY <2>1, <2>2, <2>3, <2>4, OtherCalls DEF SdInv, SameArgs
<1>3. QED
  BY <1>1, <1>2 DEF InitBlock

-----------------------------------------------------------------------------
\* The card is deselected; the result stands.
LEMMA Releases == ASSUME SdInv, Release PROVE SdInv'
<1>1. /\ host.at = "release" /\ SdTypes /\ UNCHANGED <<card, kind, type, streaming>>
      /\ host'.at = "done" /\ host'.result = host.result /\ SameArgs
  BY Moves DEF SdInv, Release, Keep
<1>2. SdTypes'
  BY <1>1, SameTypes DEF SdTypes
<1>3. TypeIsKind' /\ ReadingOK' /\ SendsOK'
  BY <1>1 DEF SdInv, TypeIsKind, ReadingOK, Owed, SendsOK, InRead, SameArgs, Reading, NoHost
<1>4. WindowOK' /\ CountOK'
  BY <1>1 DEF SdInv, WindowOK, CountOK, SameArgs
<1>5. GapOK' /\ InitFinds'
  BY <1>1 DEF SdInv, GapOK, InitFinds, SameArgs
<1>6. QED
  BY <1>2, <1>3, <1>4, <1>5 DEF SdInv

\* With no call in progress only the card and the addressing matter.
LEMMA NoCall ==
  ASSUME host' = NoHost, kind' \in Kinds,
         DOMAIN card' = {"mode", "sect", "pos"}, card'.sect \in Int, card'.pos \in Int,
         Reading' => type' = "none" \/ streaming' \/ Owed',
         type' \in {"none", kind'}, streaming' => type' = kind'
  PROVE  SdInv'
<1>1. host'.op = "none" /\ host'.at = "none" /\ ~InRead'
  BY DEF NoHost, InRead
<1>2. SdTypes'
  BY DEF NoHost, SdTypes, HostFields
<1>3. TypeIsKind' /\ ReadingOK' /\ SendsOK'
  BY <1>1 DEF TypeIsKind, ReadingOK, Owed, SendsOK
<1>4. QED
  BY <1>1, <1>2, <1>3, OtherCalls DEF SdInv

\* The call returns: only a stream leaves the card reading.
LEMMA Returns == ASSUME SdInv, Return PROVE SdInv'
<1>1. /\ host.at = "done" /\ UNCHANGED <<card, kind, type, streaming>> /\ SdTypes
      /\ host' = NoHost
  BY DEF SdInv, Return
<1>2. Reading => streaming \/ Owed
  BY <1>1 DEF SdInv, ReadingOK, Owed, InRead, NoHost
<1>3. type \in {"none", kind} /\ (streaming => type = kind)
  <2>1. CASE host.op = "init"
    BY <1>1, <2>1 DEF SdInv, InitFinds, TypeIsKind
  <2>2. CASE host.op # "init"
    BY <2>2 DEF SdInv, TypeIsKind
  <2>3. QED
    BY <2>1, <2>2
<1>4. QED
  BY <1>1, <1>2, <1>3, NoCall DEF SdTypes, Reading, Owed

\* The card's busy ends.
LEMMA Readies == ASSUME SdInv, CardReady PROVE SdInv'
<1>1. /\ card.mode = "busy" /\ card' = Idle("ready")
      /\ UNCHANGED <<kind, type, host, streaming>> /\ SdTypes
      /\ InRead => host.at = "stop"
  BY DEF SdInv, CardReady, SendsOK, InRead
<1>2. card'.mode = "ready" /\ SdTypes'
  BY <1>1, Idles DEF SdTypes
<1>3. TypeIsKind' /\ ReadingOK' /\ SendsOK'
  BY <1>1, <1>2 DEF SdInv, TypeIsKind, ReadingOK, Owed, SendsOK, InRead, Reading
<1>4. WindowOK'
  BY <1>1 DEF SdInv, WindowOK, InRead
<1>5. CountOK' /\ GapOK' /\ InitFinds'
  BY <1>1, <1>2 DEF SdInv, CountOK, GapOK, InitFinds, InRead
<1>6. QED
  BY <1>2, <1>3, <1>4, <1>5 DEF SdInv

\* A reset forgets the call, the stream and the kind; the card goes on.
LEMMA Resets == ASSUME SdInv, Reset PROVE SdInv'
BY NoCall DEF SdInv, SdTypes, Reset

-----------------------------------------------------------------------------
\* A call finds the invariant's facts about it in its arguments.
LEMMA Calls == ASSUME SdInv, Call PROVE SdInv'
<1>1. /\ SdTypes /\ host = NoHost /\ UNCHANGED <<card, kind, type, streaming>>
      /\ SdTypes'
  BY CallTypes DEF SdInv, Call, CallInit, CallRead, CallCount, CallGap, CallOther, CallStream,
                   Starting
<1>2. type \in {"none", kind} /\ (streaming => type = kind)
      /\ (Reading => type = "none" \/ streaming \/ Owed)
  BY <1>1 DEF SdInv, TypeIsKind, ReadingOK, Owed, InRead, NoHost
<1>3. CASE CallInit
  <2>1. host'.op = "init" /\ host'.at = "stop" /\ host'.result = "OK" /\ ~streaming
    BY <1>3 DEF CallInit, Starting, Starts, NoHost
  <2>2. TypeIsKind' /\ ReadingOK' /\ SendsOK' /\ InitFinds'
    BY <1>1, <2>1 DEF TypeIsKind, ReadingOK, Owed, SendsOK, InRead, InitFinds
  <2>3. QED
    BY <1>1, <2>1, <2>2, OtherCalls DEF SdInv
<1>4. ASSUME NEW sect \in SectorNo, NEW ofs \in 0 .. SectorBytes, NEW cnt \in 1 .. SectorBytes,
             CallRead(sect, ofs, cnt)
      PROVE  SdInv'
  <2>1. /\ host'.op = "read" /\ host'.at = "command" /\ host'.result = "OK"
        /\ host'.ofs = ofs /\ host'.cnt = cnt /\ host'.got = <<>>
        /\ host'.asked = <<ofs, cnt>> /\ ofs + cnt <= SectorBytes
        /\ type # "none" /\ ~streaming
    BY <1>4 DEF CallRead, Mounted, Starting, Starts, NoHost
  <2>2. TypeIsKind' /\ ReadingOK' /\ SendsOK'
    BY <1>1, <1>2, <2>1 DEF TypeIsKind, ReadingOK, Owed, SendsOK, InRead, Reading
  <2>3. ofs \in Nat /\ cnt \in Nat
    BY <1>4, Consts
  <2>4. WindowOK'
    BY <2>1, <2>3 DEF WindowOK
  <2>5. QED
    BY <1>1, <2>1, <2>2, <2>4, OtherCalls DEF SdInv
<1>5. ASSUME NEW first \in DOMAIN Words, NEW n \in DOMAIN Words, NEW i \in DOMAIN Words,
             CallCount(first, Words[i], n)
      PROVE  SdInv'
  <2> DEFINE v == Words[i]
             sect == (first * Wide) \div SectorBytes
             ofs == (first * Wide) % SectorBytes
  <2>1. /\ host'.op = "count" /\ host'.at = "command" /\ host'.result = "OK"
        /\ host'.sect = sect /\ host'.ofs = ofs
        /\ host'.v = v /\ host'.n = n /\ host'.done = 0
        /\ host'.asked = <<first, v, n>>
        /\ type # "none" /\ ~streaming
    BY <1>5 DEF CallCount, Mounted, Starting, Starts, NoHost
  <2>2. TypeIsKind' /\ ReadingOK' /\ SendsOK'
    BY <1>1, <1>2, <2>1 DEF TypeIsKind, ReadingOK, Owed, SendsOK, InRead, Reading
  <2>3. first \in Nat /\ n \in Nat /\ v \in Int
    BY <1>5, WordsAre
  <2>4. ofs \in Nat /\ ofs < SectorBytes /\ sect * SectorBytes + ofs = first * Wide
    BY <2>3, Consts, DivMod
  <2> HIDE DEF v, sect, ofs
  <2>5. CountOK'
    <3>1. host'.v = v + host'.done
      BY <2>1, <2>3
    <3>2. 0 .. host'.done - 1 = {}
      BY <2>1
    <3>3. QED
      BY <2>1, <2>3, <2>4, <3>1, <3>2 DEF CountOK
  <2>6. QED
    BY <1>1, <2>1, <2>2, <2>5, OtherCalls DEF SdInv
<1>6. ASSUME NEW n \in 0 .. Sectors - 2, CallGap(n) PROVE SdInv'
  <2>1. /\ host'.op = "gap" /\ host'.at = "command" /\ host'.result = "OK"
        /\ host'.n = n /\ host'.done = 0 /\ host'.first = TRUE
        /\ host'.asked = <<n>>
        /\ type # "none" /\ ~streaming
    BY <1>6 DEF CallGap, Mounted, Starting, Starts, NoHost
  <2>2. TypeIsKind' /\ ReadingOK' /\ SendsOK'
    BY <1>1, <1>2, <2>1 DEF TypeIsKind, ReadingOK, Owed, SendsOK, InRead, Reading
  <2>3. n \in Nat
    BY <1>6, Consts
  <2>4. GapOK'
    BY <2>1, <2>3 DEF GapOK
  <2>5. QED
    BY <1>1, <2>1, <2>2, <2>4, OtherCalls DEF SdInv
<1>7. ASSUME NEW op \in {"reg", "write", "begin"}, NEW sect \in SectorNo, CallOther(op, sect)
      PROVE  SdInv'
  <2>1. host'.op = op /\ host'.at = "command" /\ type # "none" /\ ~streaming
    BY <1>7 DEF CallOther, Mounted, Starting, Starts, NoHost
  <2>2. TypeIsKind' /\ ReadingOK' /\ SendsOK'
    BY <1>1, <1>2, <2>1 DEF TypeIsKind, ReadingOK, Owed, SendsOK, InRead, Reading
  <2>3. QED
    BY <1>1, <2>1, <2>2, OtherCalls DEF SdInv
<1>8. ASSUME NEW op \in {"end", "restart"}, NEW sect \in SectorNo, CallStream(op, sect)
      PROVE  SdInv'
  <2>1. host'.op = op /\ host'.at = "stop" /\ streaming
    BY <1>8 DEF CallStream, Starting, Starts, NoHost
  <2>2. TypeIsKind' /\ ReadingOK' /\ SendsOK'
    BY <1>1, <1>2, <2>1 DEF TypeIsKind, ReadingOK, Owed, SendsOK, InRead, Reading
  <2>3. QED
    BY <1>1, <2>1, <2>2, OtherCalls DEF SdInv
<1>9. QED
  BY <1>3, <1>4, <1>5, <1>6, <1>7, <1>8, SMTT(30) DEF Call

-----------------------------------------------------------------------------
\* A step that changes nothing keeps everything.
LEMMA Stutters == ASSUME SdInv, UNCHANGED sdVars PROVE SdInv'
<1>1. UNCHANGED <<card, kind, type, host, streaming>>
  BY DEF sdVars
<1>2. SdTypes' /\ ReadingOK' /\ SendsOK' /\ TypeIsKind'
  BY <1>1 DEF SdInv, SdTypes, ReadingOK, Owed, SendsOK, TypeIsKind, InRead, Reading
<1>3. InitFinds' /\ WindowOK'
  BY <1>1 DEF SdInv, InitFinds, WindowOK, Passed
<1>4. CountOK' /\ GapOK'
  BY <1>1 DEF SdInv, CountOK, GapOK
<1>5. QED
  BY <1>2, <1>3, <1>4 DEF SdInv

\* The invariant holds of a card that was just powered ...
LEMMA SdStarts == ASSUME SdInit PROVE SdInv
<1>1. /\ host.op = "none" /\ host.at = "none" /\ ~Reading /\ type = "none" /\ ~streaming
      /\ DOMAIN card = {"mode", "sect", "pos"} /\ card.sect \in Int /\ card.pos \in Int
  BY Idles DEF SdInit, NoHost, Idle, Reading, Fetching
<1>2. SdTypes
  BY <1>1 DEF SdInit, SdTypes, NoHost, HostFields
<1>3. ReadingOK /\ SendsOK /\ TypeIsKind /\ InitFinds /\ WindowOK /\ CountOK /\ GapOK
  BY <1>1 DEF ReadingOK, Owed, SendsOK, TypeIsKind, InitFinds, WindowOK, CountOK, GapOK, InRead
<1>4. QED
  BY <1>2, <1>3 DEF SdInv

\* ... and every step of driver and card keeps it.
LEMMA SdSteps == ASSUME SdInv, [SdNext]_sdVars PROVE SdInv'
BY Calls, ReadSteps, RegisterSteps, MultipleSteps, StreamCommands, StreamBytes, StreamStops,
   WriteSteps, InitStops, InitIdles, InitKinds, InitBlocks, Releases, Returns, Readies, Resets,
   Stutters DEF SdNext

\* The inductive invariant holds of every behaviour.
LEMMA SdAlways == SdSpec => []SdInv
<1>1. SdInit => SdInv
  BY SdStarts
<1>2. SdInv /\ [SdNext]_sdVars => SdInv'
  BY SdSteps
<1>3. QED
  BY <1>1, <1>2, PTL DEF SdSpec

\* uzefs_sd_read delivers the bytes that were asked for: each byte is taken while
\* the next is under way, and the window it is taken for moves with it.
THEOREM ReadGivesWindow == SdSpec => []SdReadGivesWindow
<1>1. SdInv => SdReadGivesWindow
  BY DEF SdInv, WindowOK, SdReadGivesWindow, Succeeds
<1>2. QED
  BY <1>1, SdAlways, PTL

\* No command but CMD12 goes to a card in the middle of a sector or of an open read,
\* whatever call a reset abandoned; one that still owes a single block, whose wait
\* ran out, gets no CMD0 before CMD12 has ended the read.
THEOREM NoCommandInRead == SdSpec => []SdNoCommandInRead
<1>1. SdInv => SdNoCommandInRead
  BY DEF SdInv, ReadingOK, Owed, InRead, NoHost, SdNoCommandInRead
<1>2. QED
  BY <1>1, SdAlways, PTL

\* uzefs_sd_count gives the length of the run over every sector it crosses, and
\* uzefs_sd_gap measures the gaps that were asked for.
THEOREM CountIsRun == SdSpec => []SdCountIsRun
<1>1. SdInv => SdCountIsRun
  <2>1. ASSUME SdInv, Succeeds("count")
        PROVE  LET first == host.asked[1]
                   v == host.asked[2]
                   k == host.done
               IN  /\ k <= host.asked[3]
                   /\ \A i \in 0 .. k - 1 : Words[first + i] = v + i
                   /\ k < host.asked[3] => Words[first + k] # v + k
    BY <2>1 DEF SdInv, CountOK, Succeeds, SdTypes
  <2>2. ASSUME SdInv, Succeeds("gap")
        PROVE  host.done = IF host.asked[1] = 0 THEN 1 ELSE host.asked[1]
    BY <2>2 DEF SdInv, GapOK, Succeeds
  <2>3. QED
    BY <2>1, <2>2 DEF SdCountIsRun
<1>2. QED
  BY <1>1, SdAlways, PTL

\* uzefs_sd_init finds a card that answers in time and its addressing, whatever
\* the card was doing when the console was reset.
THEOREM InitFindsCard == SdSpec => []SdInitFinds
<1>1. SdInv => SdInitFinds
  BY DEF SdInv, InitFinds, SdInitFinds
<1>2. QED
  BY <1>1, SdAlways, PTL
=============================================================================
