------------------------------ MODULE SdDriver ------------------------------
(***************************************************************************)
(* The SD card driver of UzeFS (uzefs_sd.c): the host (the driver, one     *)
(* call at a time) and the card, which is external and modelled from what  *)
(* the driver's comments say of it: a card that is reading takes no        *)
(* command but CMD12, a card that is not in a read ignores CMD12, and CMD12 *)
(* is followed by a busy time.  The console may be reset between any two   *)
(* steps of a call while the card stays powered.                           *)
(*                                                                         *)
(* A command with its answer is one step, and so is a byte of a sector     *)
(* that the host counts.  Byte i of sector s is <<s, i>>; the FAT's words  *)
(* have values, which uzefs_sd_count compares.                             *)
(***************************************************************************)
EXTENDS Integers, Sequences

CONSTANTS SectorBytes, \* bytes of a sector (512)
          Wide,        \* bytes of a FAT entry
          Sectors,     \* how many sectors the card has
          Words,       \* the FAT's words, a function on their indices from 0 on
          Kinds        \* the kinds of card: some of "MMC", "SD1", "SD2", "SDHC"

ASSUME SdAssumption == /\ SectorBytes \in Nat \ {0} /\ Wide \in Nat \ {0} /\ Sectors \in Nat
                       /\ SectorBytes % Wide = 0
                       /\ DOMAIN Words \subseteq Nat
                       /\ \A i \in DOMAIN Words : Words[i] \in Int
                       /\ Kinds \subseteq {"MMC", "SD1", "SD2", "SDHC"}

VARIABLES card,        \* the card: mode, the sector it reads, and the byte to come
          kind,        \* its kind
          selected,    \* PORTD's chip select
          type,        \* card_type: "none" until uzefs_sd_init
          host,        \* the call in progress
          streaming    \* between uzefs_sd_stream_begin and uzefs_sd_stream_end

sdVars == <<card, kind, selected, type, host, streaming>>

Fetching == -1
Crc == 2
Idle(mode) == [mode |-> mode, sect |-> 0, pos |-> Fetching]
NoHost == [op |-> "none", at |-> "none", result |-> "OK",
           sect |-> 0, ofs |-> 0, cnt |-> 0, bc |-> 0,       \* uzefs_sd_read's
           flight |-> <<0, 0>>, got |-> <<>>,
           v |-> 0, n |-> 0, done |-> 0, first |-> TRUE,     \* uzefs_sd_count's, _gap's
           late |-> FALSE,    \* history: the card kept uzefs_sd_init waiting or refused
           asked |-> <<>>]    \* history: the arguments

SdInit ==
    /\ kind \in Kinds
    /\ card = Idle("unready")
    /\ selected = FALSE /\ streaming = FALSE
    /\ type = "none"
    /\ host = NoHost

Reading == card.mode \in {"single", "multi"}
Byte == <<card.sect, card.pos>>

\* The card after the host clocked k more bytes of the sector it sends.
Clocked(k) ==
    IF ~Reading \/ card.pos = Fetching THEN card
    ELSE IF card.pos + k < SectorBytes + Crc THEN [card EXCEPT !.pos = @ + k]
    ELSE IF card.mode = "single" THEN Idle("ready")
    ELSE [card EXCEPT !.sect = @ + 1, !.pos = Fetching]

(***************************************************************************)
(* Commands.                                                               *)
(***************************************************************************)
\* cmd_sect: byte-addressed unless the card is block-addressed ...
Address(sect) == IF type = "SDHC" THEN sect ELSE sect * SectorBytes

\* ... and the sector this card finds there.
Found(address) == IF kind = "SDHC" THEN address ELSE address \div SectorBytes

Goes(place) == host' = [host EXCEPT !.at = place]
Fails == host' = [host EXCEPT !.at = "release", !.result = "DISK"]

\* send_cmd, with an answer of 0 or any other.
Accepts(mode) ==
    /\ card.mode = "ready"
    /\ selected' = TRUE
    /\ card' = [mode |-> mode, sect |-> Found(Address(host.sect)), pos |-> Fetching]

Refuses == selected' = TRUE /\ UNCHANGED card

Keep == UNCHANGED <<kind, type, streaming>>

Command(mode, op, place) ==
    /\ host.op \in op /\ host.at = "command"
    /\ (Accepts(mode) /\ Goes(place)) \/ (Refuses /\ Fails)
    /\ Keep

\* The wait for a token: the data, or an error token, or 40000 bytes of 0xFF.  An
\* open read is stopped then.  A single block is not: its error token ends it, but
\* where the wait ran out the card is left in the read.
Token(op, place) ==
    /\ host.op \in op /\ host.at = "token"
    /\ \/ card' = [card EXCEPT !.pos = IF @ = Fetching THEN 0 ELSE @] /\ Goes(place)
       \/ /\ card.mode = "multi"
          /\ UNCHANGED card /\ host' = [host EXCEPT !.at = "stop", !.result = "DISK"]
       \/ /\ card.mode # "multi"
          /\ card' = Idle("ready") \/ UNCHANGED card
          /\ Fails
    /\ Keep /\ UNCHANGED selected

\* stop_read: CMD12 wherever the card is, then its busy, which may outlast the wait.
StopRead(then, late) ==
    /\ host.at = "stop"
    /\ selected' = TRUE
    /\ \/ /\ card' = IF card.mode = "unready" THEN card ELSE Idle("ready")
          /\ then
       \/ /\ card.mode \in {"multi", "single", "busy"}
          /\ card' = Idle("busy")
          /\ late

\* The card's busy ends, however late.
CardReady ==
    /\ card.mode = "busy"
    /\ card' = Idle("ready")
    /\ UNCHANGED <<kind, selected, type, host, streaming>>

\* release
Release ==
    /\ host.at = "release"
    /\ selected' = FALSE
    /\ Goes("done")
    /\ Keep /\ UNCHANGED card

Return ==
    /\ host.at = "done"
    /\ host' = NoHost
    /\ UNCHANGED <<card, kind, selected, type, streaming>>

(***************************************************************************)
(* uzefs_sd_read: 514 bytes, with one always started ahead ("flight").     *)
(***************************************************************************)
ReadStart ==
    /\ host.op = "read" /\ host.at = "start"
    /\ host' = [host EXCEPT !.at = "bytes", !.flight = Byte,
                            !.bc = SectorBytes + 1 - host.ofs - host.cnt]
    /\ card' = Clocked(1)
    /\ Keep /\ UNCHANGED selected

\* next_spi: the byte in flight is in, the next one is started.
NextSpi(to) ==
    /\ host.op = "read" /\ host.at = "bytes"
    /\ card' = Clocked(1)
    /\ host' = [to EXCEPT !.flight = Byte]
    /\ Keep /\ UNCHANGED selected

ReadSkip == host.ofs > 0 /\ NextSpi([host EXCEPT !.ofs = @ - 1])

\* Mutant of ReadTake: it stores the byte it starts.
ReadTakeNext ==
    /\ host.ofs = 0 /\ host.cnt > 0
    /\ NextSpi([host EXCEPT !.cnt = @ - 1, !.got = Append(@, Byte)])

ReadTake ==
    /\ host.ofs = 0 /\ host.cnt > 0
    /\ NextSpi([host EXCEPT !.cnt = @ - 1, !.got = Append(@, host.flight)])

ReadRest ==
    /\ host.ofs = 0 /\ host.cnt = 0
    /\ NextSpi([host EXCEPT !.bc = @ - 1,
                            !.at = IF host.bc = 1 THEN "release" ELSE "bytes"])

SdRead ==
    \/ Command("single", {"read", "reg"}, "token")
    \/ Token({"read"}, "start")
    \/ ReadStart
    \/ host.op = "read" /\ host.at = "bytes" /\ (ReadSkip \/ ReadTake \/ ReadRest)

\* uzefs_sd_reg: 16 bytes and a CRC, taken here as one block.
Register ==
    \/ Token({"reg"}, "register")
    \/ /\ host.op = "reg" /\ host.at = "register"
       /\ card' = Idle("ready")
       /\ Goes("release")
       /\ Keep /\ UNCHANGED selected

(***************************************************************************)
(* uzefs_sd_count and uzefs_sd_gap: multiple-block reads.                  *)
(***************************************************************************)
CountSkip ==
    /\ host.op = "count" /\ host.at = "skip"
    /\ card' = Clocked(host.ofs)
    /\ host' = [host EXCEPT !.at = "words", !.bc = SectorBytes - host.ofs]
    /\ Keep /\ UNCHANGED selected

Word == Words[(card.sect * SectorBytes + card.pos) \div Wide]

CountWord ==
    /\ host.op = "count" /\ host.at = "words" /\ host.bc > 0 /\ host.done < host.n
    /\ card' = Clocked(Wide)
    /\ host' = IF Word # host.v THEN [host EXCEPT !.n = host.done]
               ELSE [host EXCEPT !.v = @ + 1, !.done = @ + 1, !.bc = @ - Wide]
    /\ Keep /\ UNCHANGED selected

\* Mutant of CountSector: the next sector is read from the same offset on.
CountSectorSkips ==
    /\ host.op = "count" /\ host.at = "words" /\ host.bc = 0 /\ host.done < host.n
    /\ card' = Clocked(Crc)
    /\ Goes("token")
    /\ Keep /\ UNCHANGED selected

\* The sector is through: its CRC, and the next one from its first byte.
CountSector ==
    /\ host.op = "count" /\ host.at = "words" /\ host.bc = 0 /\ host.done < host.n
    /\ card' = Clocked(Crc)
    /\ host' = [host EXCEPT !.at = "token", !.ofs = 0]
    /\ Keep /\ UNCHANGED selected

CountEnd ==
    /\ host.op = "count" /\ host.at \in {"token", "words"} /\ host.done = host.n
    /\ Goes("stop")
    /\ Keep /\ UNCHANGED <<card, selected>>

\* A gap is measured at every token but the first; n counts them down.
GapToken ==
    /\ host.op = "gap" /\ host.at = "measure"
    /\ host' = IF host.first
               THEN [host EXCEPT !.first = FALSE, !.at = "sector",
                                 !.n = IF @ = 0 THEN 0 ELSE @ - 1]
               ELSE [host EXCEPT !.done = @ + 1, !.n = @ - 1,
                                 !.at = IF host.n = 0 THEN "stop" ELSE "sector"]
    /\ Keep /\ UNCHANGED <<card, selected>>

GapSector ==
    /\ host.op = "gap" /\ host.at = "sector"
    /\ card' = Clocked(SectorBytes + Crc)
    /\ Goes("token")
    /\ Keep /\ UNCHANGED selected

Multiple ==
    \/ Command("multi", {"count", "gap"}, "token")
    \/ host.done < host.n /\ Token({"count"}, "skip")
    \/ CountSkip \/ CountWord \/ CountSector \/ CountEnd
    \/ Token({"gap"}, "measure") \/ GapToken \/ GapSector
    \/ host.op \in {"count", "gap"} /\ StopRead(Goes("release"), Fails) /\ Keep

(***************************************************************************)
(* Streaming.                                                              *)
(***************************************************************************)
\* CMD18 of begin and restart: the read is left open, or the card deselected.
StreamCommand ==
    /\ host.op \in {"begin", "restart"} /\ host.at = "command"
    /\ \/ Accepts("multi") /\ streaming' = TRUE /\ Goes("done")
       \/ Refuses /\ streaming' = FALSE /\ Fails
    /\ UNCHANGED <<kind, type>>

\* The host's own clocking: a token, or a byte.
StreamByte ==
    /\ streaming /\ host = NoHost
    /\ card.mode = "multi"
    /\ card' = IF card.pos = Fetching THEN [card EXCEPT !.pos = 0] ELSE Clocked(1)
    /\ card'.sect < Sectors
    /\ UNCHANGED <<kind, selected, type, host, streaming>>

\* Mutant of StreamStop: restart does not end the read.
StreamStopNot ==
    /\ \/ /\ host.op = "end"
          /\ StopRead(Goes("release"), Fails)
          /\ streaming' = FALSE
       \/ /\ host.op = "restart" /\ host.at = "stop"
          /\ Goes("command")
          /\ UNCHANGED <<card, selected, streaming>>
    /\ UNCHANGED <<kind, type>>

StreamStop ==
    /\ \/ /\ host.op = "end"
          /\ StopRead(Goes("release"), Fails)
          /\ streaming' = FALSE
       \/ /\ host.op = "restart"
          /\ StopRead(Goes("command"), host' = [host EXCEPT !.at = "done", !.result = "DISK"])
          /\ UNCHANGED streaming
    /\ UNCHANGED <<kind, type>>

(***************************************************************************)
(* uzefs_sd_write and uzefs_sd_init.                                       *)
(***************************************************************************)
\* The block, the card's response, then its busy.
Write ==
    \/ Command("block", {"write"}, "block")
    \/ /\ host.op = "write" /\ host.at = "block"
       /\ \/ card' = Idle("ready") /\ (Goes("release") \/ Fails)
          \/ card' = Idle("busy") /\ Fails
       /\ Keep /\ UNCHANGED selected

\* Mutant of InitStop: CMD0 is sent at once.
InitStopNot ==
    /\ host.op = "init" /\ host.at = "stop"
    /\ Goes("idle")
    /\ Keep /\ UNCHANGED <<card, selected>>

\* CMD12 for a card that was left in a read; its result is not looked at.
InitStop ==
    /\ host.op = "init"
    /\ StopRead(Goes("idle"), host' = [host EXCEPT !.at = "idle", !.late = TRUE])
    /\ Keep

NotReady == host' = [host EXCEPT !.at = "release", !.result = "NOT_READY"] /\ type' = "none"

\* CMD0 resets the card, if it takes commands at all.
InitIdle ==
    /\ host.op = "init" /\ host.at = "idle"
    /\ selected' = TRUE
    /\ IF card.mode \in {"ready", "unready"}
       THEN card' = Idle("unready") /\ Goes("kind") /\ UNCHANGED type
       ELSE UNCHANGED card /\ NotReady
    /\ UNCHANGED <<kind, streaming>>

\* The card does not get ready in time, or refuses a command.
GivesUp ==
    /\ host' = [host EXCEPT !.at = "release", !.result = "NOT_READY", !.late = TRUE]
    /\ type' = "none"

\* CMD8 or ACMD41 tell the kind apart, then the card gets ready in 10000 tries or not.
InitKind ==
    /\ host.op = "init" /\ host.at = "kind"
    /\ \/ /\ card' = Idle("ready")
          /\ type' = IF kind \in {"SD2", "SDHC"} THEN "SD2" ELSE kind
          /\ Goes("block")
       \/ GivesUp /\ UNCHANGED card
    /\ UNCHANGED <<kind, selected, streaming>>

\* CMD58 of a v2 card says whether it is block-addressed; CMD16 is for the others.
\* Both may be refused.
InitBlock ==
    /\ host.op = "init" /\ host.at = "block"
    /\ \/ type' = (IF type = "SD2" THEN kind ELSE type) /\ Goes("release")
       \/ GivesUp
    /\ UNCHANGED <<card, kind, selected, streaming>>

(***************************************************************************)
(* Calls.                                                                  *)
(***************************************************************************)
Starts(op, at) == [NoHost EXCEPT !.op = op, !.at = at]

Starting(call) == /\ host = NoHost /\ host' = call
                  /\ UNCHANGED <<card, kind, selected, type, streaming>>
Mounted == type # "none" /\ ~streaming
SectorNo == 0 .. Sectors - 1

CallInit == ~streaming /\ Starting(Starts("init", "stop"))

CallRead(sect, ofs, cnt) ==
    /\ Mounted
    /\ ofs + cnt <= SectorBytes
    /\ Starting([Starts("read", "command") EXCEPT !.sect = sect, !.ofs = ofs, !.cnt = cnt,
                                                  !.asked = <<ofs, cnt>>])

\* n words from the word "first" on, counting up from v.
CallCount(first, v, n) ==
    /\ Mounted
    /\ first + n \in DOMAIN Words
    /\ LET byte == first * Wide
       IN  Starting([Starts("count", "command") EXCEPT
                        !.sect = byte \div SectorBytes, !.ofs = byte % SectorBytes,
                        !.v = v, !.n = n, !.asked = <<first, v, n>>])

CallGap(n) ==
    /\ Mounted
    /\ Starting([Starts("gap", "command") EXCEPT !.n = n, !.asked = <<n>>])

CallOther(op, sect) ==
    /\ Mounted
    /\ Starting([Starts(op, "command") EXCEPT !.sect = sect])

CallStream(op, sect) ==
    /\ streaming
    /\ Starting([Starts(op, "stop") EXCEPT !.sect = sect])

Call ==
    \/ CallInit
    \/ \E sect \in SectorNo, ofs \in 0 .. SectorBytes, cnt \in 1 .. SectorBytes :
          CallRead(sect, ofs, cnt)
    \/ \E first, n \in DOMAIN Words : \E i \in DOMAIN Words : CallCount(first, Words[i], n)
    \/ \E n \in 0 .. Sectors - 2 : CallGap(n)
    \/ \E op \in {"reg", "write", "begin"}, sect \in SectorNo : CallOther(op, sect)
    \/ \E op \in {"end", "restart"}, sect \in SectorNo : CallStream(op, sect)

\* The console is reset; a card that is taking a block is left out.
Reset ==
    /\ card.mode # "block"
    /\ host' = NoHost /\ type' = "none" /\ streaming' = FALSE /\ selected' = FALSE
    /\ UNCHANGED <<card, kind>>

SdNext == \/ Call \/ SdRead \/ Register \/ Multiple
          \/ StreamCommand \/ StreamByte \/ StreamStop
          \/ Write \/ InitStop \/ InitIdle \/ InitKind \/ InitBlock
          \/ Release \/ Return \/ CardReady \/ Reset

SdSpec == SdInit /\ [][SdNext]_sdVars

(***************************************************************************)
(* Properties.                                                             *)
(***************************************************************************)
Succeeds(op) == host.op = op /\ host.at = "done" /\ host.result = "OK"

\* The bytes uzefs_sd_read delivers are the ones that were asked for, for every
\* window, although each is taken while the next is under way.
SdReadGivesWindow ==
    Succeeds("read") =>
        host.got = [i \in 1 .. host.asked[2] |-> <<host.sect, host.asked[1] + i - 1>>]

\* No command but CMD12 goes to a card in the middle of a sector or of an open
\* read: every call that got a token ends what it began (514 bytes, or CMD12).
\* Only a single block that kept its token back for all of the wait is still to
\* come then, and uzefs_sd_init ends that too, and what a reset cut off.
SdNoCommandInRead ==
    /\ host.at = "command" /\ Reading => card.mode = "single" /\ card.pos = Fetching
    /\ host.at = "idle" => ~Reading

\* uzefs_sd_count gives the length of the run, over the sectors it crosses;
\* uzefs_sd_gap measures n gaps, and one for n = 0.
SdCountIsRun ==
    /\ Succeeds("count") =>
         LET first == host.asked[1]
             v == host.asked[2]
             k == host.done
         IN  /\ k <= host.asked[3]
             /\ \A i \in 0 .. k - 1 : Words[first + i] = v + i
             /\ k < host.asked[3] => Words[first + k] # v + k
    /\ Succeeds("gap") => host.done = IF host.asked[1] = 0 THEN 1 ELSE host.asked[1]

\* uzefs_sd_init finds a working card and its addressing, whatever the card was
\* doing when the console was reset.
SdInitFinds ==
    host.op = "init" /\ host.at = "done" /\ ~host.late => host.result = "OK" /\ type = kind
=============================================================================
