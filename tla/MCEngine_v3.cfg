CONSTANTS
    Window = 2
    DropPct = 20
    MinLiquidity = 3
    Cooldown = 2
    RugpullPct = 50
    StateGc = 2
    V2Pools = {}
    V3Pools = {p3}
    EthQuoted = {p3}
    Prices = {5, 10}
    Liquidities = {1, 4}
    RefreshBlocks = 2
    GcEvery = 2
    FirstBlock = 5
    MaxBlock = 8
    MaxOps = 1
    MissedSlots = 0
    CatchingUp = 0
    Faults = 2
    FaultKinds = {"eth", "prime", "refresh", "time", "restart"}
SPECIFICATION Spec
INVARIANTS NoFalseAlert LiquidityFresh NoMissedV3Dump
