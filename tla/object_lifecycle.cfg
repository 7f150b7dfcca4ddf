CONSTANTS
    r1 = r1  r2 = r2  u1 = u1  u2 = u2  u3 = u3  u4 = u4  u5 = u5
    name = name  note = note  a = a  b = b
    None = None  Malformed = Malformed  Settings = Settings
    Resource = {r1}
    Uuid = {u1, u2, u3, u4, u5}
    Key = {name, note}
    Value = {a, b}
    Default <- Fresh
    ReadBack <- Verbatim
    Preexisting = {u1}
    Configs <- MixedConfigs
    ImportHints = {TRUE}
    Faults = {"refused", "missing", "lost", "garbled", "void", "late", "applyRejected", "crash"}
    Admin = {"edit", "delete"}
    MaxFaults = 1
    MaxEdits = 2
SPECIFICATION FairSpec
INVARIANTS LeaksNeedFaults
PROPERTIES UndeclaredUntouched Converges EventuallyQuiet
