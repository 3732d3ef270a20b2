----------------------------- MODULE SoundTracks -----------------------------
(***************************************************************************)
(* The tracks of the sound engine (uzeboxSoundEngine.c).  The program      *)
(* starts effects with TriggerFx; the vsync interrupt runs ProcessMusic,   *)
(* which plays the song's events and then each track's patch, a stream of  *)
(* timed commands.  Both write the same track records without a lock.      *)
(*                                                                         *)
(* The song is any sequence of events; volumes and waves are left out.  A  *)
(* step of ProcessMusic is one event or one command: the program does not  *)
(* run between them.  TriggerFx is cut where the interrupt's effect could  *)
(* differ; it is far shorter than a frame, so the interrupt hits it once.  *)
(***************************************************************************)
EXTENDS Integers, Sequences, FiniteSetsExt

CONSTANTS Wave,          \* the wave channels that effects take, 1 and 2
          Noise,         \* channel 3
          Patches,
          Stream,        \* a patch's commands, <<delta, command, parameter>>, or <<>>: NULL
          FxPatches,     \* the patches the program plays as effects
          NoiseFx,       \* those of type 1
          SongPatches,   \* the patches the song plays
          MaxTime,       \* where patchPlayingTime saturates (255)
          MaxEvents,     \* bound: song events in a frame
          Preempted      \* the interrupt may fall inside TriggerFx

Channels == Wave \cup {Noise}

ASSUME TracksAssumption == /\ \A p \in Patches : Stream[p] # <<>> =>
                                Stream[p][Len(Stream[p])][2] = "end"
                           /\ SongPatches \cup FxPatches \subseteq Patches

VARIABLES tracks,      \* the track records
          playSong,
          fxCall,      \* TriggerFx, where the program is in it
          music,       \* ProcessMusic, where the interrupt is in it
          owner,       \* history: the effect a channel was given to, until it ends
          instrument   \* history: the patch the song last chose for a channel

trackVars == <<tracks, playSong, fxCall, music, owner, instrument>>

None == "none"
NoStream == [patch |-> None, at |-> 0]

InitMusicPlayer ==
    /\ tracks = [c \in Channels |->
         [playing |-> FALSE, priority |-> FALSE, hold |-> FALSE,
          patchNo |-> CHOOSE p \in SongPatches : TRUE, fxPatchNo |-> None,
          note |-> 0, loopCount |-> 0, time |-> 0,
          stream |-> NoStream, curr |-> 0, next |-> 0]]
    /\ playSong = FALSE
    /\ fxCall = [at |-> None]
    /\ music = [at |-> None]
    /\ owner = [c \in Channels |-> None]
    /\ instrument = [c \in Channels |-> CHOOSE p \in SongPatches : TRUE]

(***************************************************************************)
(* TriggerCommon, up to the choice of the patch field and after it.  The   *)
(* notes are counted from the one the track was triggered with.            *)
(***************************************************************************)
Reset(t) == [t EXCEPT !.time = 0, !.hold = FALSE, !.note = 0, !.loopCount = 0]

\* Mutant of WithPatch: the patch of an effect replaces the song's.
WithPatchOnly(t, patch, isFx) ==
    LET u == [t EXCEPT !.fxPatchNo = patch, !.patchNo = patch]
    IN  IF Stream[patch] = <<>> THEN [u EXCEPT !.stream = NoStream]
        ELSE [u EXCEPT !.stream = [patch |-> patch, at |-> 1],
                       !.curr = 0, !.next = Stream[patch][1][1]]

WithPatch(t, patch, isFx) ==
    LET u == IF isFx THEN [t EXCEPT !.fxPatchNo = patch] ELSE [t EXCEPT !.patchNo = patch]
    IN  IF Stream[patch] = <<>> THEN [u EXCEPT !.stream = NoStream]
        ELSE [u EXCEPT !.stream = [patch |-> patch, at |-> 1],
                       !.curr = 0, !.next = Stream[patch][1][1]]

(***************************************************************************)
(* TriggerFx, in the program.                                              *)
(***************************************************************************)
Taken(c, patch, retrig) ==
    tracks[c].priority /\ ~(retrig /\ tracks[c].fxPatchNo = patch)

FxChannel(patch, retrig) ==
    IF patch \in NoiseFx THEN Noise
    ELSE IF ~Taken(1, patch, retrig) THEN 1
    ELSE IF ~Taken(2, patch, retrig) THEN 2
    ELSE IF tracks[1].time > tracks[2].time THEN 1 ELSE 2

TriggerFx(patch, retrig) ==
    /\ fxCall.at = None /\ music.at = None
    /\ fxCall' = [at |-> "claim", patch |-> patch, channel |-> FxChannel(patch, retrig),
                  flags |-> None, hit |-> FALSE]
    /\ UNCHANGED <<tracks, playSong, music, owner, instrument>>

FxStep(from, to, flags) ==
    /\ fxCall.at = from /\ music.at = None
    /\ fxCall' = IF to = None THEN [at |-> None] ELSE [fxCall EXCEPT !.at = to, !.flags = flags]
    /\ UNCHANGED <<playSong, music, instrument>>

\* flags = PRIORITY, and no patch stream.
FxClaim ==
    /\ FxStep("claim", "common", None)
    /\ tracks' = [tracks EXCEPT ![fxCall.channel] =
                    [@ EXCEPT !.priority = TRUE, !.playing = FALSE, !.hold = FALSE,
                              !.stream = NoStream]]
    /\ owner' = [owner EXCEPT ![fxCall.channel] = None]

\* TriggerCommon tells an effect by the priority flag.
FxCommon ==
    /\ FxStep("common", "patch", IF tracks[fxCall.channel].priority THEN "fx" ELSE "note")
    /\ tracks' = [tracks EXCEPT ![fxCall.channel] = Reset(@)]
    /\ UNCHANGED owner

FxPatch ==
    /\ FxStep("patch", "load", None)
    /\ tracks' = [tracks EXCEPT ![fxCall.channel] = WithPatch(@, fxCall.patch, fxCall.flags = "fx")]
    /\ UNCHANGED owner

\* flags |= PLAYING, in its load and its store.
FxLoad ==
    /\ FxStep("load", "store", tracks[fxCall.channel].priority)
    /\ UNCHANGED <<tracks, owner>>

FxStore ==
    /\ FxStep("store", None, None)
    /\ tracks' = [tracks EXCEPT ![fxCall.channel] =
                    [@ EXCEPT !.playing = TRUE, !.priority = fxCall.flags]]
    /\ owner' = [owner EXCEPT ![fxCall.channel] = fxCall.patch]

\* StartSong and StopSong, between two interrupts.
StartSong ==
    /\ fxCall.at = None /\ music.at = None
    /\ tracks' = [c \in Channels |-> [tracks[c] EXCEPT !.priority = FALSE]]
    /\ owner' = [c \in Channels |-> None]
    /\ playSong' = TRUE
    /\ UNCHANGED <<fxCall, music, instrument>>

StopSong ==
    /\ fxCall.at = None /\ music.at = None
    /\ playSong' = FALSE
    /\ UNCHANGED <<tracks, fxCall, music, owner, instrument>>

(***************************************************************************)
(* ProcessMusic, in the vsync interrupt.                                   *)
(***************************************************************************)
Vsync ==
    /\ music.at = None
    /\ fxCall.at # None => Preempted /\ ~fxCall.hit
    /\ fxCall' = IF fxCall.at = None THEN fxCall ELSE [fxCall EXCEPT !.hit = TRUE]
    /\ music' = [at |-> IF playSong THEN "song" ELSE "enter", left |-> MaxEvents, track |-> 1]
    /\ UNCHANGED <<tracks, playSong, owner, instrument>>

SongStep == /\ music.at = "song" /\ music.left > 0
            /\ music' = [music EXCEPT !.left = @ - 1]
            /\ UNCHANGED <<playSong, fxCall>>

SongDone == /\ music.at = "song"
            /\ music' = [music EXCEPT !.at = "enter"]
            /\ UNCHANGED <<tracks, playSong, fxCall, owner, instrument>>

Program(c, patch) ==
    /\ SongStep
    /\ tracks' = [tracks EXCEPT ![c].patchNo = patch]
    /\ instrument' = [instrument EXCEPT ![c] = patch]
    /\ UNCHANGED owner

\* Mutant of MayNote: a note takes the channel of an effect as well.
MayNoteAlways(c) == TRUE

MayNote(c) == ~tracks[c].playing \/ ~tracks[c].priority

\* TriggerNote with a volume; the noise channel's note is its patch.
NoteOn(c, note) ==
    /\ SongStep
    /\ LET t == Reset([tracks[c] EXCEPT !.priority = FALSE, !.stream = NoStream])
           patch == IF c = Noise THEN note ELSE t.patchNo
       IN  IF MayNote(c)
           THEN /\ tracks' = [tracks EXCEPT ![c] =
                                [WithPatch(t, patch, FALSE) EXCEPT !.playing = TRUE]]
                /\ instrument' = IF c = Noise THEN [instrument EXCEPT ![c] = patch] ELSE instrument
           ELSE UNCHANGED <<tracks, instrument>>
    /\ UNCHANGED owner

\* TriggerNote without: it only lets a held patch go on.
NoteOff(c) ==
    /\ SongStep
    /\ MayNote(c)
    /\ tracks' = [tracks EXCEPT ![c].hold = FALSE]
    /\ UNCHANGED <<owner, instrument>>

Current == tracks[music.track]
Entry == Stream[Current.stream.patch][Current.stream.at]

\* To the next track, or out of the interrupt.
NextTrack(t) ==
    /\ tracks' = [tracks EXCEPT ![music.track] =
                    [t EXCEPT !.time = IF t.playing /\ @ < MaxTime THEN @ + 1 ELSE @]]
    /\ music' = IF \E c \in Channels : c > music.track
                THEN [music EXCEPT !.at = "enter",
                                   !.track = Min({c \in Channels : c > music.track})]
                ELSE [at |-> None]

\* Whether the frame still runs this track's patch: the hold is looked at only
\* before its first command of the frame.
Running == \/ music.at = "run"
           \/ /\ music.at = "enter"
              /\ Current.playing /\ Current.stream # NoStream /\ ~Current.hold

Idle ==
    /\ music.at = "enter" /\ ~Running
    /\ NextTrack(Current)
    /\ UNCHANGED <<playSong, fxCall, owner, instrument>>

\* Mutant of Wait: the frames of the delta are not counted.
WaitUncounted ==
    /\ Running
    /\ Current.curr # Current.next
    /\ NextTrack(Current)
    /\ UNCHANGED <<playSong, fxCall, owner, instrument>>

Wait ==
    /\ Running
    /\ Current.curr # Current.next
    /\ NextTrack([Current EXCEPT !.curr = @ + 1])
    /\ UNCHANGED <<playSong, fxCall, owner, instrument>>

\* Mutant of LoopBody: the command to go back to is off by one.
LoopBodyShort(patch, i, back) ==
    IF back # 0 THEN i - back + 1
    ELSE 1 + Max({k \in 1 .. i - 1 : Stream[patch][k][2] \in {"loop start", "end"}})

\* Where PatchCommand14 goes back to from the command at i, "back" commands or
\* to the one after the loop's start.
LoopBody(patch, i, back) ==
    IF back # 0 THEN i - back
    ELSE 1 + Max({k \in 1 .. i - 1 : Stream[patch][k][2] \in {"loop start", "end"}})

\* The command's effect on the track; the stream is past it already.  Those of
\* volume, wave, slide and tremolo leave nothing here.
Command(t, cmd, param) ==
    CASE cmd = "cut"   -> [t EXCEPT !.playing = FALSE, !.priority = FALSE]
      [] cmd = "hold"  -> [t EXCEPT !.hold = TRUE]
      [] cmd = "note"  -> [t EXCEPT !.note = @ + param]
      [] cmd = "loop start" -> [t EXCEPT !.loopCount = param]
      [] cmd = "loop end" ->
            IF t.loopCount = 0 THEN t
            ELSE [t EXCEPT !.loopCount = @ - 1,
                           !.stream.at = LoopBody(t.stream.patch, @ - 1, param)]
      [] OTHER -> t

RunCommand ==
    /\ Running
    /\ Current.curr = Current.next
    /\ Entry[2] # "end"
    /\ LET t == Command([Current EXCEPT !.stream.at = @ + 1], Entry[2], Entry[3])
       IN  tracks' = [tracks EXCEPT ![music.track] =
                        [t EXCEPT !.curr = 0, !.next = Stream[t.stream.patch][t.stream.at][1]]]
    /\ owner' = IF Entry[2] = "cut" THEN [owner EXCEPT ![music.track] = None] ELSE owner
    /\ music' = [music EXCEPT !.at = "run"]
    /\ UNCHANGED <<playSong, fxCall, instrument>>

\* PATCH_END gives the channel back to the song.
PatchEnd ==
    /\ Running
    /\ Current.curr = Current.next
    /\ Entry[2] = "end"
    /\ NextTrack([Current EXCEPT !.priority = FALSE, !.stream = NoStream, !.curr = @ + 1])
    /\ owner' = [owner EXCEPT ![music.track] = None]
    /\ UNCHANGED <<playSong, fxCall, instrument>>

Interrupt ==
    \/ Vsync
    \/ SongDone
    \/ \E c \in Channels, p \in SongPatches : Program(c, p) \/ NoteOn(c, p)
    \/ \E c \in Channels : NoteOff(c)
    \/ Idle \/ Wait \/ RunCommand \/ PatchEnd

FxGoesOn == FxClaim \/ FxCommon \/ FxPatch \/ FxLoad \/ FxStore

TracksNext ==
    \/ \E p \in FxPatches, retrig \in BOOLEAN : TriggerFx(p, retrig)
    \/ FxGoesOn
    \/ StartSong \/ StopSong
    \/ Interrupt

\* The interrupt's request is latched: it comes in every frame, whatever the
\* program does, and goes on to its end.  A call of the program ends.
TracksSpec == /\ InitMusicPlayer /\ [][TracksNext]_trackVars
              /\ SF_trackVars(Interrupt) /\ WF_trackVars(FxGoesOn)

(***************************************************************************)
(* Properties.                                                             *)
(***************************************************************************)
\* An effect the program started plays its patch to the end, or until another
\* effect takes the channel or a song starts: no event of the song touches it
\* ("allow only other music notes", TriggerNote).
FxPlaysOut == \A c \in Channels : owner[c] # None =>
    /\ tracks[c].playing /\ tracks[c].priority
    /\ tracks[c].fxPatchNo = owner[c]
    /\ Stream[owner[c]] # <<>> => tracks[c].stream.patch = owner[c]

\* When an effect is over the song goes on with its own instrument on that
\* channel: patchNo is what the song chose last, whatever effects came between.
SongKeepsInstrument == \A c \in Channels : tracks[c].patchNo = instrument[c]

\* The loops of a patch run as often as PC_LOOP_START says, whether PC_LOOP_END
\* counts the way back or searches it: every patch here ends on the note it
\* began with if, and only if, each of its loops ran count + 1 times.
LoopsRunOut == \A c \in Channels :
    tracks[c].playing /\ tracks[c].stream = NoStream => tracks[c].note = 0

\* A channel that was taken for an effect with a patch stream comes back to the
\* song: the stream reaches its end, or the effect is started again.
FxEnds == \A c \in Channels : []<>(owner[c] = None)
=============================================================================
