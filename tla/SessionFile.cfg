\* Every client's saveSession may have ended.
SPECIFICATION Spec
CONSTANTS
    Clients = {c1, c2}
    Old = old
    NoFile = nofile
CHECK_DEADLOCK FALSE
INVARIANTS
    FailedSaveIsUndone
    SyncedSaveIsDurable
PROPERTIES
    ImplementsRegister
