CONSTANTS
    c1 = c1  c2 = c2
    Call = {c1, c2}
    Identity <- Keys
    maxSSHAttempts = 3
    None = None
    MayCrash = TRUE
SPECIFICATION FairSpec
INVARIANTS TypeOK KeysRemoved SuccessMeansFinished
PROPERTIES RepeatedOnlyWhenTransient ImplementsCommand CallsReturn
CHECK_DEADLOCK FALSE
