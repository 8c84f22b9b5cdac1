SPECIFICATION Spec
CONSTANTS
    Session = {s1, s2, s3}
    User = {u1, u2}
    NoUser = NoUser
    Room = Room
    NoSession = NoSession
    Worker = {w1, w2}
    Main = Main
    PushLimit = 1
    ReqLimit = 1
    MaxTime = 1
    MaxHandlers = 3
SYMMETRY MCSymmetry
INVARIANTS TypeOK NoMessageMissed  ListCurrent
CHECK_DEADLOCK FALSE
