\* One part of the kernel in each behaviour.
CONSTANTS
    d = d
    e = e
    NoteOn = NoteOn
    Control = Control
    Program = Program
    Other = Other
    RealTime = RealTime
    Data = {d, e}
    Blank = d
    Bytes = {NoteOn, Program, Other, RealTime, d, e}
    RxSize = 4
    TxSize = 4
    HalfDuplex = FALSE
    MidiBytes = 5
    Inside = FALSE
    Song <- MCSong
    LoopAt = 1
    Padding = 6
    SONG_BUFFER_SIZE = 5
    Limit = 5
    PerFrame = 3
    LateRestart = FALSE
    SectorBytes = 4
    Wide = 2
    Sectors = 3
    Words <- MCWords
    Kinds = {"SD1", "SDHC"}
    EEPROM_MAX_BLOCKS = 3
    Ids <- MCIds
    BlockData = {"p", "q"}
    EEPROM_SIGNATURE <- MCSignature
    Erased = "ff"
    Shipped <- MCShipped
    Presses = 3
    RingSize = 5
    Margin = 1
    FillMax = 1
    Batch = 1
    SongLength = 11
    Froms = {0}
    DataOffset = 1
    SectSize = 3
    BlankLines = 4
    FrameLines = 2
    WordSize = 11
    Latency = 1
    MaxEvents = 2
    LateFill = FALSE
SPECIFICATION DevicesSpec
INVARIANTS
    RingHoldsSong
    SdReadGivesWindow
    SdNoCommandInRead
    SdCountIsRun
    SdInitFinds
    SavedIsRead
    KeysInOrder
    DecoderRests
    SongInOrder
    OneClock
PROPERTIES
    TxIsQueue
    RxIsQueue
    MidiPlaysAll
    StreamGoesOn
    SongEnds
