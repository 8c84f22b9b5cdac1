SPECIFICATION Spec
CONSTANTS
    User = {u1, u2}
    NoUser = NoUser
    PushLimit = 1
    ReqLimit = 2
    MaxClicks = 4
    MaxTasks = 2
    MaxRoom = 2
SYMMETRY MCSymmetry
INVARIANTS TypeOK ClientInv UserAgrees 
CHECK_DEADLOCK FALSE
