----------------------------- MODULE SongStream -----------------------------
(***************************************************************************)
(* The stream song player with its song in SPI RAM (MUSIC_ENGINE STREAM,   *)
(* STREAM_MUSIC_RAM 1).  ProcessMusic takes commands of one or two bytes   *)
(* from a ring, in the vsync interrupt; the program fills the ring while   *)
(* it waits for the end of a frame, as CustomWaitVsync of SPIRamMusicDemo  *)
(* does, and learns only afterwards that the player has gone back to the   *)
(* loop's start.  What it read past the loop's end is right all the same:  *)
(* there the file repeats the loop.                                        *)
(*                                                                         *)
(* A byte is the index of its place in the song: the properties tell bytes *)
(* apart by where they come from and by the command they begin.            *)
(***************************************************************************)
EXTENDS Naturals, Sequences

CONSTANTS Song,      \* the kind of each byte, from index 0 to its "loopEnd"
          LoopAt,    \* the index after its "loopStart"
          Padding,   \* how many bytes of the loop follow the song in the file
          SONG_BUFFER_SIZE,
          Limit,     \* bufferLimiter
          PerFrame,  \* bpfLimiter
          LateRestart  \* a song may be started over with the last one's end pending

SONG_BUFFER_MIN == 2
LoopLength == Len(Song) - LoopAt
Kind(i) == Song[i + 1]

ASSUME StreamAssumption == /\ {LoopAt, Padding, SONG_BUFFER_SIZE, Limit, PerFrame} \subseteq Nat
                           /\ SONG_BUFFER_SIZE > SONG_BUFFER_MIN
                           /\ Limit >= SONG_BUFFER_MIN
                           /\ PerFrame > 0
                           /\ LateRestart \in BOOLEAN

\* A song's markers, and how far past its end the program may come to read.
ASSUME SongAssumption ==
    /\ Song \in Seq(STRING) /\ LoopAt < Len(Song)
    /\ \A i \in 0 .. Len(Song) - 1 : /\ Kind(i) = "loopEnd" <=> i + 1 = Len(Song)
                                     /\ Kind(i) = "loopStart" <=> i + 1 = LoopAt
                                     /\ Kind(i) = "note" => Kind(i + 1) = "second"
    /\ SONG_BUFFER_SIZE + PerFrame <= Padding + 2
    /\ SONG_BUFFER_SIZE + PerFrame <= LoopLength + 2

VARIABLES songBuf, songBufIn, songBufOut,
          songPos, loopStart, loopEnd,
          nextDeltaTime, playSong,
          beam,        \* "field", or "blank" between the vsync flag and ProcessMusic
          vsyncFlag,
          playing,     \* ProcessMusic is in its loop
          main,        \* where the program is in CustomWaitVsync
          songOff,     \* where in the file the program reads next
          total,       \* total_bytes, what it has written in this frame
          due          \* history: the byte of the song the player must get next

streamVars == <<songBuf, songBufIn, songBufOut, songPos, loopStart, loopEnd, nextDeltaTime,
                playSong, beam, vsyncFlag, playing, main, songOff, total, due>>

ring == <<songBuf, songBufIn, songBufOut>>
player == <<songPos, nextDeltaTime, playing, due>>
filler == <<main, songOff, total>>

\* The byte at an offset of the file: the song, then its loop again.
FileByte(off) == IF off < Len(Song) THEN off
                 ELSE IF off < Len(Song) + Padding THEN LoopAt + ((off - Len(Song)) % LoopLength)
                 ELSE Len(Song)  \* what lies behind

\* The byte of the song after byte i.
NextByte(i) == IF i + 1 = Len(Song) THEN LoopAt ELSE i + 1

StreamInit ==
    /\ songBuf = [i \in 0 .. SONG_BUFFER_SIZE - 1 |-> 0]
    /\ songBufIn = 0 /\ songBufOut = 0
    /\ songPos = 0 /\ loopStart = 0 /\ loopEnd = 0
    /\ nextDeltaTime = 0 /\ playSong = TRUE
    /\ beam = "field" /\ vsyncFlag = FALSE /\ playing = FALSE
    /\ main = "game" /\ songOff = 0 /\ total = 0 /\ due = 0

SongBufBytes == (SONG_BUFFER_SIZE + songBufIn - songBufOut) % SONG_BUFFER_SIZE
\* Mutant of Starved: the ring must be full, to the one byte it never holds.
StarvedUnlessFull == SongBufBytes < SONG_BUFFER_SIZE

\* Fewer bytes than a command may have.
Starved == SongBufBytes < SONG_BUFFER_MIN

SongBufFull == songBufOut = (songBufIn + 1) % SONG_BUFFER_SIZE

(***************************************************************************)
(* The interrupt.                                                          *)
(***************************************************************************)
FrameEnds ==
    /\ beam = "field"
    /\ beam' = "blank"
    /\ vsyncFlag' = TRUE
    /\ UNCHANGED <<ring, player, loopStart, loopEnd, playSong, filler>>

StreamProcess ==
    /\ beam = "blank"
    /\ beam' = IF playSong THEN "music" ELSE "field"
    /\ nextDeltaTime' = IF playSong /\ nextDeltaTime > 0 THEN nextDeltaTime - 1 ELSE nextDeltaTime
    /\ playing' = playSong
    /\ UNCHANGED <<ring, songPos, due, loopStart, loopEnd, playSong, vsyncFlag, filler>>

MusicDone ==
    /\ playing /\ nextDeltaTime # 0
    /\ playing' = FALSE /\ beam' = "field"
    /\ UNCHANGED <<ring, songPos, nextDeltaTime, due, loopStart, loopEnd, playSong, vsyncFlag, filler>>

\* The song waits for a frame.
Stall ==
    /\ playing /\ nextDeltaTime = 0
    /\ Starved
    /\ nextDeltaTime' = 1
    /\ UNCHANGED <<ring, songPos, playing, due, loopStart, loopEnd, playSong, beam, vsyncFlag, filler>>

\* SongBufRead, "n" times.
Take(n) ==
    /\ songBufOut' = (songBufOut + n) % SONG_BUFFER_SIZE
    /\ due' = IF n = 1 THEN NextByte(due) ELSE NextByte(NextByte(due))
    /\ UNCHANGED <<songBuf, songBufIn>>

\* One turn of the loop: the kind is that of the byte in the ring, the first of
\* a command as long as RingHoldsSong holds.
Turn(kind) ==
    /\ playing /\ nextDeltaTime = 0
    /\ ~Starved
    /\ Kind(songBuf[songBufOut]) = kind
    /\ UNCHANGED <<playing, playSong, beam, vsyncFlag, filler>>

Note ==
    /\ Turn("note")
    /\ Take(2)
    /\ songPos' = songPos + 2
    /\ UNCHANGED <<nextDeltaTime, loopStart, loopEnd>>

TickEnd ==
    /\ Turn("tickEnd")
    /\ Take(1)
    /\ songPos' = songPos + 1
    /\ nextDeltaTime' = 1
    /\ UNCHANGED <<loopStart, loopEnd>>

LoopStarts ==
    /\ Turn("loopStart")
    /\ Take(1)
    /\ songPos' = songPos + 1
    /\ loopStart' = songPos + 1
    /\ UNCHANGED <<nextDeltaTime, loopEnd>>

StreamLoopEnds ==
    /\ Turn("loopEnd")
    /\ Take(1)
    /\ loopEnd' = songPos + 1
    /\ songPos' = loopStart
    /\ UNCHANGED <<nextDeltaTime, loopStart>>

Interrupt == \/ FrameEnds \/ StreamProcess \/ MusicDone \/ Stall
             \/ Note \/ TickEnd \/ LoopStarts \/ StreamLoopEnds

(***************************************************************************)
(* The program, which waits while ProcessMusic runs.                       *)
(***************************************************************************)
MainStep(from, to) ==
    /\ main = from /\ ~playing
    /\ main' = to
    /\ UNCHANGED <<player, loopStart, beam>>

\* CustomWaitVsync begins: has the player gone back since the last time?
Enter ==
    /\ MainStep("game", IF loopEnd # 0 THEN "rewound" ELSE "wait")
    /\ songOff' = IF loopEnd # 0 THEN songOff - loopEnd + loopStart ELSE songOff
    /\ total' = 0
    /\ UNCHANGED <<ring, loopEnd, playSong, vsyncFlag>>

Rewound ==
    /\ MainStep("rewound", "wait")
    /\ loopEnd' = 0
    /\ UNCHANGED <<ring, playSong, vsyncFlag, songOff, total>>

\* Mutant of SongBufWrite: the check for a full ring is left to the limit.
SongBufWriteUnchecked ==
    /\ MainStep("wait", "written")
    /\ ~vsyncFlag
    /\ SongBufBytes < Limit /\ total < PerFrame
    /\ songBuf' = [songBuf EXCEPT ![songBufIn] = FileByte(songOff)]
    /\ UNCHANGED <<songBufIn, songBufOut, loopEnd, playSong, vsyncFlag, songOff, total>>

SongBufWrite ==
    /\ MainStep("wait", "written")
    /\ ~vsyncFlag
    /\ ~SongBufFull /\ SongBufBytes < Limit /\ total < PerFrame
    /\ songBuf' = [songBuf EXCEPT ![songBufIn] = FileByte(songOff)]
    /\ UNCHANGED <<songBufIn, songBufOut, loopEnd, playSong, vsyncFlag, songOff, total>>

Written ==
    /\ MainStep("written", "wait")
    /\ songBufIn' = (songBufIn + 1) % SONG_BUFFER_SIZE
    /\ songOff' = songOff + 1
    /\ total' = total + 1
    /\ UNCHANGED <<songBuf, songBufOut, loopEnd, playSong, vsyncFlag>>

\* GetVsyncFlag ends the wait, ClearVsyncFlag follows.
FrameSeen ==
    /\ MainStep("wait", "seen")
    /\ vsyncFlag
    /\ UNCHANGED <<ring, loopEnd, playSong, vsyncFlag, songOff, total>>

ClearFlag ==
    /\ MainStep("seen", "game")
    /\ vsyncFlag' = FALSE
    /\ UNCHANGED <<ring, loopEnd, playSong, songOff, total>>

\* BTN_SELECT: StopSong, an empty ring, the first byte of a song, StartSong.
StopSong ==
    /\ loopEnd # 0 => LateRestart
    /\ MainStep("game", "stopped")
    /\ playSong' = FALSE
    /\ UNCHANGED <<ring, loopEnd, vsyncFlag, songOff, total>>

StartSong ==
    /\ main = "stopped" /\ ~playing
    /\ main' = "game"
    /\ songBufIn' = 0 /\ songBufOut' = 0 /\ songOff' = 0
    /\ songPos' = 0 /\ loopStart' = 0 /\ nextDeltaTime' = 0 /\ playSong' = TRUE
    /\ due' = 0
    /\ UNCHANGED <<songBuf, loopEnd, beam, vsyncFlag, playing, total>>

Fill == Enter \/ Rewound \/ SongBufWrite \/ Written \/ FrameSeen \/ ClearFlag

StreamNext == Interrupt \/ Fill \/ StopSong \/ StartSong

\* Frames go by; the program runs between interrupts, and the game leaves it
\* part of the time of some frames to fill the ring in.
StreamSpec == /\ StreamInit /\ [][StreamNext]_streamVars
              /\ WF_streamVars(Interrupt) /\ SF_streamVars(Fill)
              /\ SF_streamVars(Enter /\ ~vsyncFlag) /\ SF_streamVars(SongBufWrite)

(***************************************************************************)
(* Properties.                                                             *)
(***************************************************************************)
StreamTypeOK ==
    /\ songBuf \in [0 .. SONG_BUFFER_SIZE - 1 -> 0 .. Len(Song)]
    /\ {songBufIn, songBufOut} \subseteq 0 .. SONG_BUFFER_SIZE - 1
    /\ songOff \in 0 .. Len(Song) + Padding /\ due \in 0 .. Len(Song) - 1
    /\ total \in 0 .. PerFrame

\* The n-th byte after byte i of the song played on and on.
Played(i, n) == IF i + n < Len(Song) THEN i + n
                ELSE LoopAt + ((i + n - Len(Song)) % LoopLength)

\* What waits in the ring is the song from the player's place on, over the
\* loop's end, although the program goes back in the file only long after the
\* player has: no byte is lost, repeated or taken from behind the file.  And
\* songPos, which the loop markers rely on, is that place.
RingHoldsSong ==
    /\ songPos = due
    /\ \A n \in 0 .. SongBufBytes - 1 :
          songBuf[(songBufOut + n) % SONG_BUFFER_SIZE] = Played(due, n)

\* The player is at the loop's start, or the song is started over.
SongComesRound == due = LoopAt \/ main = "stopped"
=============================================================================
