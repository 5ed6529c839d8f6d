SPECIFICATION Spec
CONSTANTS
    CmdProc = {p, q}
    CmdRounds = 2
    Domains = {"network", "storage"}
    MaxDivergence = {5, 25}
    Driver = {"incus", "firecracker", "proxmox"}
    DrvValue = {"a", "b"}
    DrvSnap = {"s1", "s2"}
    McpCaller = {c1, c2}
    McpId = {i1, i2}
    ChEngine = {e1, e2}
    ChSession = {s1, s2}
    ChNodes = 2
    LoopIterations = 2
    LoopThreshold = 50
    LoopRate = {40, 60, 80}
    LoopStarts = 2
    FvNode = {"a", "b", "c"}
    FvPort = {22, 53}
    FvLength = 3
    FvLines = 2
    DlgScenario = {"dns", "dpkg"}
    DlgRetries = {0, 3}
    DlgMaxSteps = 2
    DlgEpisodes = 2
INVARIANTS
    CmdNoLeak
    CmdNoTheft
    VerdictIsEarned
    RevertRestores
    PatchedIffRestored
    McpSound
    ChSound
    StableIsIntact
    JudgedFairly
    ProvedSafeIsSafe
    DialogueIsSound
CHECK_DEADLOCK FALSE
SYMMETRY InvocationSymmetry
