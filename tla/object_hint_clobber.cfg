CONSTANTS
    r1 = r1  r2 = r2  u1 = u1  u2 = u2  u3 = u3  u4 = u4  u5 = u5
    name = name  note = note  a = a  b = b
    None = None  Malformed = Malformed  Settings = Settings
    Resource = {r1}
    Uuid = {u1, u2, u3}
    Key = {name, note}
    Value = {a, b}
    Default <- Fresh
    ReadBack <- Verbatim
    Preexisting = {u1}
    Configs <- HintConfigs
    ImportHints = {TRUE, FALSE}
    Faults = {}
    Admin = {"edit"}
    MaxFaults = 0
    MaxEdits = 2
SPECIFICATION Spec
PROPERTIES UndeclaredUntouched
