SPECIFICATION FairSpec
CONSTANTS
    FleetSize = 4
    TierPlans <- MCTierPlans
    Thresholds <- MCThresholds
CHECK_DEADLOCK FALSE
INVARIANTS
    TypeOK
    CanaryContainment
    VerdictIsRight
    RollbackReachesAll
PROPERTIES
    RolloutReturns
