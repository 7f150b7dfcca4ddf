CONSTANTS
    r1 = r1  r2 = r2
    lan = lan  opt1 = opt1  opt2 = opt2
    d0 = d0  d1 = d1  d2 = d2  d3 = d3  n1 = n1  n2 = n2  a = a  b = b
    None = None  Blank = Blank
    Resource = {r1, r2}
    Section = {lan, opt1, opt2}
    Device = {d0, d1, d2, d3}
    Descr = {n1, n2}
    Addr = {a, b}
    Blocks <- TwoBlocks
    Existing <- Worlds
    Faults = {"broken", "retried", "silent", "crash"}
    Admin = {lan, opt1}
    MaxFaults = 1
    MaxOrphans = 1
    MaxEdits = 1
SPECIFICATION FairSpec
INVARIANTS TypeOK DeviceBoundOnce OwnSectionsOnly
PROPERTIES ForeignUntouched Converges EventuallyQuiet Realised SuccessMeansInPlace
