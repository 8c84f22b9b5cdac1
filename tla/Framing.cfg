SPECIFICATION FairSpec
CONSTANTS
    Stream <- MCStream
    MaxFrames = 4
    HeaderLen = 2
    MaxBody = 3
    MaxBuf = 7
    Chunk = 3
    MaxFailures = 3
INVARIANTS TypeOK FramesExact StrikesExact BufferBounded
PROPERTIES EveryFrameHandled ClosedAfterFin 
CHECK_DEADLOCK FALSE
