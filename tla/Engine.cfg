\* The tracks, the interrupt between calls of TriggerFx only, or the sync pulses.
CONSTANTS
    Wave = {1, 2}
    Noise = 3
    Patches = {"fxLoop", "fxCut", "held", "plain"}
    Stream <- MCStream
    FxPatches = {"fxLoop", "fxCut"}
    NoiseFx = {"fxCut"}
    SongPatches = {"held", "plain"}
    MaxTime = 1
    MaxEvents = 1
    Preempted = FALSE
    PreEq = 2
    Eq = 2
    PostEq = 2
    Lines = 6
    First = 2
    Count = 2
    Block = 6
    FADER_STEPS = 3
    Speeds = {1}
    MaxWork = 9
SPECIFICATION EngineSpec
INVARIANTS
    FxPlaysOut
    SongKeepsInstrument
    LoopsRunOut
    SoundKeepsAhead
    FieldIsWhole
    FadeEndsAsAsked
PROPERTIES
    FxEnds
    ProgramGoesOn
