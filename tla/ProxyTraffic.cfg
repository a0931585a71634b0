SPECIFICATION FairSpec
CONSTANTS
    None = none
    Senders <- MCSenders
    Setter = "pinger"
    InitialMTU = 1280
    MTUs = {1280, 1420}
    QueueSize = 2
    EventSize = 2
    Rounds = 2
    Setups <- MCSetups
INVARIANTS
    WorkersNeverPanic
    WireGuardLearnsMTU
    LookupDecides
PROPERTIES
    RequestEnds
