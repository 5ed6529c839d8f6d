SPECIFICATION Spec
CONSTANTS
    t1 = t1
    t2 = t2
    t3 = t3
    bench = bench
    collect = collect
    Task = {t1, t2, t3}
    Job = {bench, collect}
    Collector = {collect}
    Batch <- MCBatch
    Workers = 2
    MaxSteps = 2
    NoTask = NoTask
CHECK_DEADLOCK FALSE
INVARIANTS
    TypeOK
    GaugeIsExact
    NoInstanceLeaks
    TrajectoriesAreSound
    ResultsAreComplete
PROPERTIES
    ImplementsPool
