SPECIFICATION FairSpec
CONSTANTS
    Worker = {w1, w2}
    Main = Main
    NoThread = NoThread
    Conn = {c1}
    NoConn = NoConn
    HeadLen = 1
    BodyLen = 2
    SndBuf = 2
    MaxCalls = 3
INVARIANTS TypeOK NoDeadlock
PROPERTIES ImplementsFrameChannel CallsEnd
CHECK_DEADLOCK FALSE
