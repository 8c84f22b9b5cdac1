SPECIFICATION FairSpec
CONSTANTS
    Worker = {w1, w2}
    Main = Main
    Fd = {f1, f2}
    NoFd = NoFd
    Session = {s1, s2, s3}
    NoSession = NoSession
    Listen = Listen
    MaxTasks = 2
INVARIANTS TypeOK HeldStaysOpen EventFresh GenerationExact
PROPERTIES DescriptorReturned
CHECK_DEADLOCK FALSE
