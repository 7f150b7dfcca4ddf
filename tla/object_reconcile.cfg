CONSTANTS
    r1 = r1  r2 = r2  u1 = u1  u2 = u2  u3 = u3  u4 = u4  u5 = u5
    name = name  a = a  b = b
    plugin = plugin  items = items  settings = settings
    None = None  Malformed = Malformed  Settings = Settings
    Resource = {r1}
    Uuid = {u1, u2, u3, u4}
    Key = {name}
    Value = {a, b}
    Default <- Fresh
    ReadBack <- Verbatim
    Preexisting = {u1}
    Configs <- HintConfigs
    ImportHints = {TRUE}
    Faults = {"refused", "lost", "garbled", "late", "applyRejected", "crash"}
    Admin = {"edit"}
    MaxFaults = 1
    MaxEdits = 2
    Endpoint = {plugin, items, settings}
    Endpoints <- Declared
    Applies <- Reloads
    Absent = {plugin}
SPECIFICATION ReconcileFairSpec
INVARIANTS ReconcileTypeOK FailuresReported
PROPERTIES LiveConverges
