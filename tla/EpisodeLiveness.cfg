SPECIFICATION FairSpec
CONSTANTS
    t1 = t1
    t2 = t2
    t3 = t3
    bench = bench
    collect = collect
    Task = {t1, t2, t3}
    Job = {bench, collect}
    Collector = {collect}
    Batch <- MCBatch
    Workers = 1
    MaxSteps = 2
    NoTask = NoTask
CHECK_DEADLOCK FALSE
PROPERTY JobsEnd
