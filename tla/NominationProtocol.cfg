SPECIFICATION FairSpec
CONSTANTS
    Addrs = {a1, a2}
    None = none
    WaitSeq <- MCWaitSeq
    StrayWaits <- MCStrayWaits
INVARIANTS
    TypeOK
    SelectedIsNominated
    ClosedOnceWithSelection
    NoMissedNomination
PROPERTIES
    ImplementsChoice
    EventuallySelected
