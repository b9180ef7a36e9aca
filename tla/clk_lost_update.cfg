SPECIFICATION Spec
CONSTANTS
    c1 = c1
    c2 = c2
    c3 = c3
    NoCall = NoCall
    Calls <- TwoCalls
    Seconds = {1, 3}
    MaxWall = 2
    MaxAdvances = 3
PROPERTY MovesForward
CHECK_DEADLOCK FALSE
