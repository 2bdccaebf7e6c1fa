\* Every order and delay of three requests; until FaultsUntil Redis may also fail,
\* come back and lose its data.
SPECIFICATION Spec
CONSTANTS
    r1 = r1   r2 = r2   r3 = r3
    Requests = {r1, r2, r3}
    Window = 2
    Patience = 1
    MaxTime = 6
    FaultsUntil = 3
    Faults = {"redis", "dataLoss"}
SYMMETRY Alike
INVARIANTS
    TypeOK
    CountsTheWindow
    BurstSeen
CHECK_DEADLOCK FALSE
