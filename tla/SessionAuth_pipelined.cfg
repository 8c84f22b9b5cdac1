SPECIFICATION Spec
CONSTANTS
    Session = {s1, s2}
    User = {u1}
    NoUser = NoUser
    NoSession = NoSession
    Worker = {w1, w2}
    Main = Main
    Request <- MCRegisterFrames
    MaxFrames = 2
    Pipelined = TRUE
    RandCanFail = TRUE
SYMMETRY MCSymmetry
INVARIANT UniqueLogin
CHECK_DEADLOCK FALSE
