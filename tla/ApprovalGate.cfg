SPECIFICATION FairSpec
CONSTANTS
    Request = {r1, r2}
    Waiter = {w1, w2, w3}
    NoRequest = NoRequest
    Undecided = Undecided
CHECK_DEADLOCK FALSE
INVARIANTS
    TypeOK
    OneAnswer
    DecisionsWereGiven
PROPERTIES
    TimeoutIsFinal
    EveryCallReturns
