SPECIFICATION TransferSpec
CONSTANTS
    Chunk = 3
    Window = 2
    Word = 4
    MaxSize = 7
    MayChange = FALSE
    Empty = Empty
INVARIANTS
    Complete
    UploadComplete
    TransferFailsForAReason
PROPERTY TransferEnds
CHECK_DEADLOCK FALSE
