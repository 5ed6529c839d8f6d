SPECIFICATION Spec
CONSTANTS
    FleetSize = 4
    TierPlans <- MCTierPlans
    Thresholds <- MCThresholds
CHECK_DEADLOCK FALSE
INVARIANT RollbackIsAtomic
