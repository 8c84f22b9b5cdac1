SPECIFICATION FairSpec
CONSTANTS
    Session = {s1, s2}
    User = {u1}
    NoUser = NoUser
    NoSession = NoSession
    Worker = {w1, w2}
    Main = Main
    Request <- MCRegisterFrames
    MaxFrames = 2
    Pipelined = FALSE
    RandCanFail = FALSE
PROPERTIES ReservationReleased 
CHECK_DEADLOCK FALSE
