\* wst_fill may be called in the line before the frame.
CONSTANTS
    RingSize = 7
    Margin = 1
    FillMax = 2
    Batch = 2
    SongLength = 4
    Froms = {1}
    DataOffset = 1
    SectSize = 2
    BlankLines = 4
    FrameLines = 2
    WordSize = 16
    Latency = 1
    MaxEvents = 2
    LateFill = TRUE
SPECIFICATION WstSpec
INVARIANTS
    SongInOrder
