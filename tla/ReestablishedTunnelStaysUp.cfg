SPECIFICATION Spec
CONSTANTS
    NoAddr = noaddr
    e1 = e1
    e2 = e2
    e3 = e3
    Endpoints <- MCEndpoints
    First = e1
    CandidateQueue <- MCCandidateQueue
    Rounds = 2
    MaxRecoveries = 2
    MaxFailures = 2
PROPERTIES
    ReestablishedTunnelStaysUp
