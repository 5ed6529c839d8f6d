SPECIFICATION Spec
CONSTANTS
    a = a
    b = b
    c = c
    Node <- MCNode
    Key = {disk}
    NoNode = NoNode
    NoLock = NoLock
    NoReply = NoReply
    InitialPeers <- MCPeers
    InitialLinks <- MCLinks
    Ttl = 0
    Yields = FALSE
    MaxTerm = 2
    MaxTime = 1
SYMMETRY Symmetry
CHECK_DEADLOCK FALSE
INVARIANTS
    TypeOK
    VoteOncePerTerm
    ElectionSafety
    LocksWereGranted
PROPERTIES
    FollowsElected
    AgreementIsStable
