CONSTANTS
    Window = 2
    DropPct = 20
    MinLiquidity = 3
    Cooldown = 3
    RugpullPct = 50
    StateGc = 2
    V2Pools = {p2}
    V3Pools = {}
    EthQuoted = {}
    Prices = {5, 10}
    Liquidities = {4}
    RefreshBlocks = 2
    GcEvery = 1
    FirstBlock = 5
    MaxBlock = 8
    MaxOps = 1
    MissedSlots = 0
    CatchingUp = 0
    Faults = 1
    FaultKinds = {"restart"}
SPECIFICATION Spec
INVARIANTS CooldownRespected
