CONSTANTS
    r1 = r1  r2 = r2  u1 = u1  u2 = u2  u3 = u3  u4 = u4  u5 = u5
    name = name  note = note  a = a  b = b
    None = None  Malformed = Malformed  Settings = Settings
    Resource = {r1}
    Uuid = {u1, u2, u3}
    Key = {name}
    Value = {a, b}
    Default <- Fresh
    ReadBack <- Verbatim
    Preexisting = {u1}
    Configs <- AllConfigs
    ImportHints = {TRUE}
    Faults = {"garbled"}
    Admin = {}
    MaxFaults = 1
    MaxEdits = 0
SPECIFICATION Spec
PROPERTIES DropMeansGone
