CONSTANTS
    r1 = r1  r2 = r2  u1 = u1  u2 = u2  u3 = u3  u4 = u4  u5 = u5
    name = name  note = note  a = a  b = b
    None = None  Malformed = Malformed  Settings = Settings
    Resource = {r1, r2}
    Uuid = {u1, u2, u3}
    Key = {name}
    Value = {a, b}
    Default <- Fresh
    ReadBack <- Verbatim
    Preexisting = {u1}
    Configs <- TrackingConfigs
    ImportHints = {TRUE, FALSE}
    Faults = {"refused", "lost", "void", "crash"}
    Admin = {}
    MaxFaults = 2
    MaxEdits = 1
SPECIFICATION Spec
SYMMETRY Symmetric
INVARIANTS TypeOK TrackedDistinct LeaksNeedFaults
PROPERTIES DropMeansGone SuccessMeansApplied ImplementsLifecycle
