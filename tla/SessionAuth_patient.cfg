SPECIFICATION Spec
CONSTANTS
    Session = {s1, s2}
    User = {u1, u2}
    NoUser = NoUser
    NoSession = NoSession
    Worker = {w1, w2}
    Main = Main
    Request <- MCAllFrames
    MaxFrames = 2
    Pipelined = FALSE
    RandCanFail = FALSE
SYMMETRY MCSymmetry
INVARIANTS TypeOK PresenceExact ReservationOwned
PROPERTY ImplementsNameService
CHECK_DEADLOCK FALSE
