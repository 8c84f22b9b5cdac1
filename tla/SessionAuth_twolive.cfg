SPECIFICATION Spec
CONSTANTS
    Session = {s1, s2, s3}
    User = {u1}
    NoUser = NoUser
    NoSession = NoSession
    Worker = {w1, w2}
    Main = Main
    Request <- MCLoginFrames
    MaxFrames = 1
    Pipelined = FALSE
    RandCanFail = FALSE
SYMMETRY MCSymmetry
INVARIANT LiveUnique
CHECK_DEADLOCK FALSE
