SPECIFICATION FairSpec
CONSTANTS
    Base = 1280
    Milestones <- MCMilestones
    MaxTarget = 1420
    MaxProbes = 2
    MaxFailures = 2
    ManualMTUs <- MCManualMTUs
    PathMTUs <- MCPathMTUs
INVARIANTS
    TypeOK
    StackMTUIsConfirmed
    ConfirmedWasCarried
    UnhealthyAtBaseline
    MTUWithinLimits
PROPERTIES
    SearchEnds
