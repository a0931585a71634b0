SPECIFICATION Spec
CONSTANTS
    MaxTries = 4
    MaxErrors = 2
    MinBackoff = 2
    MaxBackoff = 30
    MaxPauses = 5
INVARIANTS
    GrantedSessionIsKept
