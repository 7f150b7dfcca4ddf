CONSTANTS
    c1 = c1  c2 = c2
    Call = {c1}
    Identity <- Keys
    maxSSHAttempts = 4
    None = None
    MayCrash = FALSE
SPECIFICATION Spec
PROPERTIES FailedCommandNotRepeated
CHECK_DEADLOCK FALSE
