CONSTANTS
    Window = 1
    DropPct = 20
    MinLiquidity = 3
    Cooldown = 4
    RugpullPct = 50
    StateGc = 1
    V2Pools = {p2}
    V3Pools = {}
    EthQuoted = {p2}
    Prices = {5, 10}
    Liquidities = {1, 4}
    RefreshBlocks = 2
    GcEvery = 1
    FirstBlock = 5
    MaxBlock = 8
    MaxOps = 2
    MissedSlots = 0
    CatchingUp = 0
    Faults = 1
    FaultKinds = {"skip", "restart"}
SPECIFICATION Spec
INVARIANTS TypeOK NoMissedDump RugpullExact CooldownKept WindowExact
