SPECIFICATION FairSpec
CONSTANTS
    fix = fix
    wipe = wipe
    break = break
    open = open
    Command <- MCCommand
    Blocked = {fix}
    Unsafe = {wipe}
    Healthy <- MCHealthy
    Insecure <- MCInsecure
    MaxCycles = 2
    MaxProbes = 4
    MaxSteps = 5
CHECK_DEADLOCK FALSE
INVARIANTS
    TypeOK
    OneAttemptAtATime
    SuccessIsSafe
PROPERTIES
    RunEnds
