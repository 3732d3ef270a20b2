------------------------------ MODULE WstStream ------------------------------
(***************************************************************************)
(* Uzeamp's song stream (wst.c, gen_wst.py and the kernel's SOUND_STREAM): *)
(* a song is played from the sound buffer, used as a ring, while one       *)
(* multiple-block read of the card stays open.  In the blank the kernel    *)
(* plays a sample a line and wst_fill reads ahead; in the frame, with      *)
(* interrupts off, each line plays a sample and clocks a byte itself.      *)
(*                                                                         *)
(* Samples are numbered from 1; 0 is silence.  A line of the field is a    *)
(* step; the program's steps are the code between two places where a line  *)
(* can be told to come.                                                    *)
(***************************************************************************)
EXTENDS Integers, Sequences

CONSTANTS RingSize,       \* MIX_BUF_SIZE
          Margin,         \* WST_MARGIN
          FillMax,        \* WST_FILL_MAX
          Batch,          \* the bytes wst_fill takes between two checks
          SongLength,     \* the samples of the song
          Froms,          \* where it is started
          DataOffset,     \* the first one's place in the file
          SectSize,       \* the bytes of a sector
          BlankLines, FrameLines,
          WordSize,       \* 2^16
          Latency,        \* the most bytes of 0xFF before a token
          MaxEvents,      \* bound: calls of wst_start and error tokens together
          LateFill        \* may wst_fill be called in the line before the frame

ASSUME WstAssumption ==
    /\ {RingSize, Margin, FillMax, Batch, SongLength, DataOffset, SectSize, BlankLines,
        FrameLines, WordSize, Latency, MaxEvents} \subseteq Nat
    /\ FillMax > 0 /\ Batch > 0 /\ Margin < FillMax + Batch
    /\ FillMax + Batch + 2 < RingSize
    /\ Froms \subseteq 0 .. SongLength /\ SectSize > 0
    /\ BlankLines > 3 /\ FrameLines > 1
    /\ FillMax + Batch + BlankLines + FrameLines + 2 < WordSize
    /\ LateFill \in BOOLEAN

VARIABLES mixBuf, mixPos,  \* the ring and the kernel's place in it
          streamW,         \* sound_stream_w, the slot the next sample goes to
          wst,             \* the frame's and the fill's state: off, k, left, stored
          wsong,           \* the program's: state, from, stored, s16
          wcall,           \* the program's call
          lines,           \* the lines left in the field; the frame's are the last
          frameDone,       \* GetVsyncFlag: a frame has ended that WaitVsync has not yet seen
          read,            \* the card's read: the next byte's place, the sector's bytes left
          faults, starts,
          lastPlayed           \* history: the last sample played

wstVars == <<mixBuf, mixPos, streamW, wst, wsong, wcall, lines, frameDone, read, faults, starts,
             lastPlayed>>

Silence == 0
CRC == 2
AfterToken == SectSize + CRC   \* k after the token
Field == BlankLines + FrameLines

\* A count of samples as a word, 0xFFFF if it is more.
Capped(n) == IF n > WordSize - 1 THEN WordSize - 1 ELSE n

Slot(a, n) == (a + n) % RingSize
RingUnread == (streamW - mixPos) % RingSize

Closed(r) == [r EXCEPT !.open = FALSE, !.left = 0, !.wait = 0]
NoCall == [at |-> "none"]

WstInit ==
    /\ mixBuf = [i \in 0 .. RingSize - 1 |-> Silence]
    /\ mixPos = 0 /\ streamW = 0
    /\ wst = [off |-> TRUE, k |-> 0, left |-> 0, stored |-> 0]
    /\ wsong = [state |-> "idle", from |-> 0, stored |-> 0, s16 |-> 0]
    /\ wcall = NoCall
    /\ lines = Field /\ frameDone = FALSE
    /\ read = [open |-> FALSE, place |-> 0, left |-> 0, wait |-> 0]
    /\ faults = 0 /\ starts = 0 /\ lastPlayed = 0

(***************************************************************************)
(* The card: 0xFF until the token, the sector, its CRC, or an error token  *)
(* that ends the read.                                                     *)
(***************************************************************************)
\* The places past the song are one.
Beyond(place) == IF place > DataOffset + SongLength THEN DataOffset + SongLength ELSE place

Sample(place) ==
    IF place - DataOffset \in 0 .. SongLength - 1 THEN place - DataOffset + 1 ELSE SongLength + 1

Answer(is, r) == [is |-> is, sample |-> Sample(read.place), read |-> r, bad |-> 0]

Answers ==
    IF ~read.open THEN {Answer("ff", read)}
    ELSE IF read.left > CRC
    THEN {Answer("byte", [read EXCEPT !.left = @ - 1, !.place = Beyond(@ + 1)])}
    ELSE IF read.left > 1 THEN {Answer("byte", [read EXCEPT !.left = @ - 1])}
    ELSE IF read.left = 1
    THEN {Answer("byte", [read EXCEPT !.left = 0, !.wait = n]) : n \in 0 .. Latency}
    ELSE IF read.wait > 0 THEN {Answer("ff", [read EXCEPT !.wait = @ - 1])}
    ELSE {Answer("token", [read EXCEPT !.left = AfterToken])}
         \cup {[Answer("bad", Closed(read)) EXCEPT !.bad = 1] : n \in {starts + faults} \ {MaxEvents}}

(***************************************************************************)
(* The framing state machine, which the frame's lines and the fill share:  *)
(* a byte goes to W if it is data that is still wanted, silence if not.    *)
(***************************************************************************)
\* Mutant of Taken: an error token is waited over.
TakenDeaf(m, a) ==
    LET data == m.k > CRC /\ m.left > 0
    IN  [buf |-> [m.buf EXCEPT ![m.w] = IF data THEN a.sample ELSE Silence],
         w |-> IF data THEN Slot(m.w, 1) ELSE m.w,
         left |-> IF data THEN m.left - 1 ELSE m.left,
         k |-> IF m.k > 0 THEN m.k - 1 ELSE IF a.is = "token" THEN AfterToken ELSE 0,
         off |-> m.off,
         n |-> IF data THEN m.n + 1 ELSE m.n]

Taken(m, a) ==
    LET data == m.k > CRC /\ m.left > 0
    IN  [buf |-> [m.buf EXCEPT ![m.w] = IF data THEN a.sample ELSE Silence],
         w |-> IF data THEN Slot(m.w, 1) ELSE m.w,
         left |-> IF data THEN m.left - 1 ELSE m.left,
         k |-> IF m.k > 0 THEN m.k - 1 ELSE IF a.is = "token" THEN AfterToken ELSE 0,
         off |-> m.off \/ (m.k = 0 /\ a.is \notin {"token", "ff"}),
         n |-> IF data THEN m.n + 1 ELSE m.n]

(***************************************************************************)
(* A line: update_sound plays a sample and leaves silence in its place; at *)
(* W it plays silence and stays.                                           *)
(***************************************************************************)
Holds == mixPos = streamW
LeftOver == IF Holds THEN mixBuf ELSE [mixBuf EXCEPT ![mixPos] = Silence]

Plays ==
    /\ mixPos' = IF Holds THEN mixPos ELSE Slot(mixPos, 1)
    /\ lastPlayed' = IF mixBuf[mixPos] = Silence THEN lastPlayed ELSE mixBuf[mixPos]

InFrame == lines < FrameLines

\* The fill is never a line away from its next check or its end.
Filling == wcall.at \in {"entered", "slots", "last"}
InTime == Filling => wcall.fresh

\* The bytes stored since the last poll, the difference of two words.
SincePoll == (wst.stored - wsong.s16) % WordSize

\* The most a fill stores: the ring's room and what is played meanwhile.
FillRoom == FillMax + Batch + 1 + BlankLines

\* wst_poll is called once a field; a program that leaves fields out does so only
\* while the word counts what the frames store.
Unpolled == SincePoll + (IF wcall.at = "fill" \/ Filling THEN FillRoom ELSE 0)
PollsInTime == ~wst.off => Unpolled + FrameLines < WordSize - 1

BlankLine ==
    /\ lines > FrameLines
    /\ InTime
    /\ lines = FrameLines + 1 => PollsInTime
    /\ Plays /\ mixBuf' = LeftOver
    /\ lines' = lines - 1
    /\ wcall' = IF Filling THEN [wcall EXCEPT !.fresh = FALSE] ELSE wcall
    /\ UNCHANGED <<streamW, wst, wsong, read, faults, starts, frameDone>>

\* The frame's line: the sample first, then a byte unless the stream is off.
FrameLine ==
    /\ lines <= FrameLines
    /\ InTime
    /\ Plays
    /\ lines' = IF lines = 1 THEN Field ELSE lines - 1
    /\ frameDone' = (frameDone \/ lines = 1)
    /\ IF wst.off
       THEN /\ mixBuf' = [LeftOver EXCEPT ![streamW] = Silence]
            /\ wst' = [wst EXCEPT !.k = 0]
            /\ UNCHANGED <<streamW, read, faults>>
       ELSE \E a \in Answers :
              LET m == Taken([buf |-> LeftOver, w |-> streamW, left |-> wst.left, k |-> wst.k,
                              off |-> FALSE, n |-> 0], a)
              IN  /\ mixBuf' = m.buf /\ streamW' = m.w
                  /\ wst' = [off |-> m.off, k |-> m.k, left |-> m.left,
                             stored |-> (wst.stored + m.n) % WordSize]
                  /\ read' = a.read /\ faults' = faults + a.bad
    /\ UNCHANGED <<wsong, wcall, starts>>

(***************************************************************************)
(* wst_fill: bytes in the blank, until FillMax are unread, max are stored, *)
(* the read stops or the frame is near.                                    *)
(***************************************************************************)
InBlank(from) == ~InFrame /\ wcall.at = from
SameLine == UNCHANGED <<mixPos, lines, frameDone, starts, lastPlayed>>

\* Its loads; nothing if the stream is off.
FillEnter ==
    /\ InBlank("fill")
    /\ lines > FrameLines \/ LateFill
    /\ wcall' = IF wst.off THEN NoCall
                ELSE [at |-> "entered", max |-> wcall.max, w |-> streamW, k |-> wst.k,
                      off |-> FALSE, n |-> 0, fresh |-> TRUE]
    /\ SameLine /\ UNCHANGED <<mixBuf, streamW, wst, wsong, read, faults>>

\* Mutant of Near: the frame is seen when it has begun.
NearLate == lines < FrameLines

Near == lines - FrameLines \in 0 .. 2

\* W is published, then the reasons to stop are looked at.
FillCheck ==
    /\ InBlank("entered") \/ (InBlank("slots") /\ wcall.batch = 0)
    /\ LET stops == Near \/ wcall.off \/ wcall.n >= wcall.max
                    \/ (wcall.w - mixPos) % RingSize >= FillMax
       IN  wcall' = [at |-> IF stops THEN "last" ELSE "slots", max |-> wcall.max, w |-> wcall.w,
                     k |-> wcall.k, off |-> wcall.off, n |-> wcall.n, batch |-> Batch,
                     fresh |-> ~stops \/ wcall.fresh]
    /\ streamW' = wcall.w
    /\ SameLine /\ UNCHANGED <<mixBuf, wst, wsong, read, faults>>

\* What the next byte is, read as 0xFF once the read has stopped, and what it does.
FillAnswers == IF wcall.off THEN {Answer("ff", read)} ELSE Answers
FillTaken(a) == Taken([buf |-> mixBuf, w |-> wcall.w, left |-> wst.left, k |-> wcall.k,
                       off |-> wcall.off, n |-> wcall.n], a)

\* A byte: its store and W's move with interrupts off.
FillSlot(a, m) ==
    /\ mixBuf' = m.buf /\ streamW' = m.w
    /\ read' = a.read /\ faults' = faults + a.bad
    /\ SameLine /\ UNCHANGED wsong

FillByte ==
    /\ InBlank("slots") /\ wcall.batch > 0
    /\ \E a \in FillAnswers :
          LET m == FillTaken(a)
          IN  /\ FillSlot(a, m)
              /\ wcall' = [wcall EXCEPT !.batch = @ - 1, !.w = m.w, !.k = m.k, !.off = m.off,
                                        !.n = m.n]
              /\ wst' = [wst EXCEPT !.left = m.left]

\* The byte under way is let in and the state stored for the frame.
FillLast ==
    /\ InBlank("last")
    /\ \E a \in FillAnswers :
          LET m == FillTaken(a)
          IN  /\ FillSlot(a, m)
              /\ wcall' = NoCall
              /\ wst' = [off |-> m.off, k |-> m.k, left |-> m.left,
                         stored |-> (wst.stored + m.n) % WordSize]

(***************************************************************************)
(* open_at: the command, then the token and the sector's bytes before the  *)
(* sample; wst_start and wst_poll go on with the stream on.                *)
(***************************************************************************)
Due == wsong.from + wsong.stored
Skip == (DataOffset + Due) % SectSize
Want == SongLength - Due

OpenFails(r) == wcall' = [at |-> "end", then |-> "failed"] /\ read' = r

OpenCommand ==
    /\ InBlank("open")
    /\ \/ \E n \in 0 .. Latency :
             read' = [open |-> TRUE, place |-> DataOffset + Due - Skip, left |-> 0, wait |-> n]
          /\ wcall' = [wcall EXCEPT !.at = "token"]
       \/ OpenFails(Closed(read))
    /\ SameLine /\ UNCHANGED <<mixBuf, streamW, wst, wsong, faults>>

OpenToken ==
    /\ InBlank("token")
    /\ \/ /\ read' = [read EXCEPT !.place = @ + Skip, !.left = AfterToken - Skip, !.wait = 0]
          /\ wcall' = [wcall EXCEPT !.at = "opened"]
       \/ OpenFails(Closed(read))
    /\ SameLine /\ UNCHANGED <<mixBuf, streamW, wst, wsong, faults>>

Opened ==
    /\ InBlank("opened")
    /\ IF wcall.restart
       THEN /\ wst' = [wst EXCEPT !.k = AfterToken - Skip, !.off = FALSE]
            /\ wcall' = [at |-> "fill", max |-> Capped(Want)]
            /\ UNCHANGED <<streamW, wsong>>
       ELSE /\ wst' = [wst EXCEPT !.k = AfterToken - Skip, !.off = FALSE, !.left = Capped(Want)]
            /\ wcall' = [at |-> "fill", max |-> Want % WordSize]
            /\ streamW' = Slot(mixPos, Margin)
            /\ wsong' = [wsong EXCEPT !.state = "playing", !.s16 = wst.stored]
    /\ SameLine /\ UNCHANGED <<mixBuf, read, faults>>

(***************************************************************************)
(* The program's calls.                                                    *)
(***************************************************************************)
Busy == wsong.state \in {"playing", "ending"}

\* wst_start up to open_at: the ring silent, the stream off.
WstStart(from) ==
    /\ InBlank("none") /\ ~Busy /\ starts + faults < MaxEvents
    /\ starts' = starts + 1
    /\ wsong' = [state |-> "idle", from |-> from, stored |-> 0, s16 |-> 0]
    /\ mixBuf' = [i \in 0 .. RingSize - 1 |-> Silence]
    /\ wst' = [wst EXCEPT !.off = TRUE, !.k = 0]
    /\ streamW' = mixPos
    /\ wcall' = [at |-> "open", restart |-> FALSE]
    /\ lastPlayed' = from
    /\ frameDone' = FALSE
    /\ UNCHANGED <<mixPos, lines, read, faults>>

\* The ring has played out.
Ended == RingUnread = 0

\* Mutant of Counted: the count is not taken over.
CountedTwice == [wsong EXCEPT !.stored = @ + SincePoll]

Counted == [wsong EXCEPT !.stored = @ + SincePoll, !.s16 = wst.stored]

\* wst_poll up to its first choice, after WaitVsync.
WstPoll ==
    /\ InBlank("none") /\ Busy
    /\ frameDone /\ frameDone' = FALSE
    /\ LET now == Counted
           want == SongLength - now.from - now.stored
       IN  /\ wst' = [wst EXCEPT !.left = Capped(want)]
           /\ IF wsong.state = "ending"
              THEN /\ wsong' = [now EXCEPT !.state = IF Ended THEN "done" ELSE @]
                   /\ UNCHANGED wcall
              ELSE /\ wsong' = now
                   /\ wcall' = IF want <= 0 THEN [at |-> "song end", extra |-> -want]
                               ELSE IF wst.off THEN [at |-> "open", restart |-> TRUE]
                               ELSE [at |-> "fill", max |-> Capped(want)]
    /\ UNCHANGED <<mixBuf, mixPos, streamW, lines, read, faults, starts, lastPlayed>>

\* The song's end: W goes back to after its last sample, what came after is silenced.
SongEnd ==
    /\ InBlank("song end")
    /\ LET extra == IF wcall.extra > RingUnread THEN RingUnread ELSE wcall.extra
       IN  /\ streamW' = Slot(streamW, RingSize - extra)
           /\ mixBuf' = [i \in 0 .. RingSize - 1 |->
                            IF (i - streamW') % RingSize < extra THEN Silence ELSE mixBuf[i]]
    /\ wst' = [wst EXCEPT !.off = TRUE]
    /\ wcall' = [at |-> "end", then |-> "ending"]
    /\ SameLine /\ UNCHANGED <<wsong, read, faults>>

\* uzefs_stream_end and the state after it.
StreamEnd ==
    /\ InBlank("end")
    /\ read' = Closed(read)
    /\ wsong' = [wsong EXCEPT !.state = wcall.then]
    /\ wcall' = NoCall
    /\ SameLine /\ UNCHANGED <<mixBuf, streamW, wst, faults>>

WstStop ==
    /\ InBlank("none") /\ Busy
    /\ wst' = [wst EXCEPT !.off = TRUE]
    /\ IF wsong.state = "playing"
       THEN wcall' = [at |-> "end", then |-> "idle"] /\ UNCHANGED wsong
       ELSE wsong' = [wsong EXCEPT !.state = "idle"] /\ UNCHANGED wcall
    /\ SameLine /\ UNCHANGED <<mixBuf, streamW, read, faults>>

GoOn == FillEnter \/ FillCheck \/ FillByte \/ FillLast \/ OpenCommand \/ OpenToken \/ Opened
        \/ SongEnd \/ StreamEnd

WstNext == BlankLine \/ FrameLine \/ GoOn \/ WstPoll \/ WstStop
           \/ \E from \in Froms : WstStart(from)

\* The field goes on, and the program, which polls in every field.
WstSpec == /\ WstInit /\ [][WstNext]_wstVars
           /\ WF_wstVars(BlankLine \/ FrameLine) /\ SF_wstVars(GoOn) /\ SF_wstVars(WstPoll)

(***************************************************************************)
(* Properties.                                                             *)
(***************************************************************************)
\* The samples stored since wst_start.
StoredSoFar ==
    wsong.stored + SincePoll
    + (IF Filling THEN wcall.n ELSE 0)

Ring == [i \in 1 .. RingUnread |-> mixBuf[Slot(mixPos, i - 1)]]

\* Every sample is played once and in order, whatever error tokens, fills,
\* frames and polls do to the ring: what is unread in it, after the margin's
\* silence, are the samples from the last one played to the last one stored,
\* the slot the kernel may wait at is silent, and a song that is done was played
\* to its end.
SongInOrder ==
    /\ Busy =>
        LET due == wsong.from + StoredSoFar - lastPlayed
        IN  /\ due \in 0 .. RingUnread
            /\ \A i \in 1 .. RingUnread :
                  Ring[i] = IF i <= RingUnread - due THEN Silence ELSE lastPlayed + i - (RingUnread - due)
            /\ mixBuf[streamW] = Silence
    /\ wsong.state = "done" => lastPlayed = SongLength

\* The frame clocks the card only while the program does not.
OneClock ==
    InFrame /\ ~wst.off => ~Filling /\ wcall.at \notin {"open", "token", "end"}

\* A song ends: it plays to its end, or the card fails, or it is stopped.
SongEnds == []<>~Busy
=============================================================================
