------------------------------- MODULE MCEngine -------------------------------
(***************************************************************************)
(* The two parts of the kernel that run in the sync interrupt and share    *)
(* state with the program, one of them in each behaviour: the tracks of    *)
(* the sound engine, and the sync pulses with the vsync work, in which     *)
(* ProcessMusic is no more than time that passes.                          *)
(*                                                                         *)
(* Three channels with two song patches, of which one holds its note and   *)
(* loops by search, and two effects: one that loops by count and one for   *)
(* the noise channel that cuts itself.  A field of six half-line pulses    *)
(* and six lines, two of them with a picture; vsync work that may last for *)
(* nine steps of it, which is all but the last; a fader of three steps.    *)
(***************************************************************************)
EXTENDS SoundTracks, VideoSync

VARIABLE part   \* the part that runs

engine == <<part, trackVars, videoVars>>

MCStream ==
    [fxLoop |-> << <<0, "loop start", 1>>, <<0, "note", 1>>, <<1, "loop end", 1>>,
                   <<0, "note", -2>>, <<0, "end", 0>> >>,
     fxCut  |-> << <<1, "cut", 0>>, <<0, "end", 0>> >>,
     held   |-> << <<0, "loop start", 1>>, <<0, "note", 1>>, <<0, "loop end", 0>>,
                   <<0, "hold", 0>>, <<1, "note", -2>>, <<0, "end", 0>> >>,
     plain  |-> << >>]

EngineInit ==
    /\ part \in {"tracks", "video"}
    /\ InitMusicPlayer /\ VideoInit

Tracks(A) == part = "tracks" /\ A /\ UNCHANGED <<part, videoVars>>
Video(A) == part = "video" /\ A /\ UNCHANGED <<part, trackVars>>

EngineNext == Tracks(TracksNext) \/ Video(VideoNext)

\* The fairness of TracksSpec and of VideoSpec: of the actions joined in one
\* condition only those of the part that runs are ever enabled.
EngineSpec ==
    /\ EngineInit /\ [][EngineNext]_engine
    /\ SF_engine(Tracks(Interrupt) \/ Video(GoOn))
    /\ WF_engine(Tracks(FxGoesOn) \/ Video(Pulse \/ Work))
=============================================================================
