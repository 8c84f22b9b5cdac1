SPECIFICATION Spec
CONSTANTS
    Worker = {w1, w2, w3, w4, w5, w6}
    MaxAttempts = 5
    Window = 1
    BlockTime = 5
    MaxTime = 15
SYMMETRY MCSymmetry
 
PROPERTY BlockHolds
CHECK_DEADLOCK FALSE
