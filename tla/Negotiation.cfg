SPECIFICATION FairSpec
CONSTANTS
    None = none
    NoAddr = none
    direct4 = direct4
    direct6 = direct6
    relay = relay
    Addrs = {direct4, direct6, relay}
    Sockets = {"v4", "v6"}
    FamilyOf <- MCFamilyOf
    Public = {direct6, relay}
    Reaching = {direct6, relay}
    Advertisements <- MCAdvertisements
    WaitSeq <- MCWaitSeq
    MaxLogs = 2
    Slack = 0
INVARIANTS
    TypeOK
    ExclusiveReader
    ReadersStopOnlyWhenTold
    TurnOnlyEndpoint
    BestAnswerWins
    RetryQueueComplete
PROPERTIES
    AttemptEnds
