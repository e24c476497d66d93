SPECIFICATION Spec
CONSTANTS
    Byte <- MCByte
    MAGIC <- MCMagic
    MaxU32 = 15
    ToBeBytes <- MCToBeBytes
    FromBeBytes <- MCFromBeBytes
    ChunkLists <- MCChunkLists
    Frames <- MCFrames
    NoList = NoList
INVARIANTS
    TypeOK
    AcceptsOnlyFrames
    ReadsWhatItWrote
CHECK_DEADLOCK FALSE
