CONSTANTS
    r1 = r1  r2 = r2  u1 = u1  u2 = u2  u3 = u3  u4 = u4  u5 = u5
    name = name  note = note  a = a  b = b
    None = None  Malformed = Malformed  Settings = Settings
    Resource = {r1}
    Uuid = {u1, u2, u3, u4, u5}
    Key = {name, note}
    Value = {a, b}
    Default <- Fresh
    ReadBack <- Sorting
    Preexisting = {u1}
    Configs <- ItemConfigs
    ImportHints = {TRUE}
    Faults = {}
    Admin = {}
    MaxFaults = 0
    MaxEdits = 0
SPECIFICATION FairSpec
PROPERTIES EventuallyQuiet
