SPECIFICATION Spec
CONSTANTS
    r1 = r1
    r2 = r2
    r3 = r3
    r4 = r4
    c1 = c1
    c2 = c2
    Reqs <- MCReqs
    Clients <- MCClients
    PerClientRate = 1
    PerClientBurst = 1
    GlobalRate = 1
    GlobalBurst = 3
    MaxClients = 1
    SweepBudget = 256
    MaxConcurrent = 1
    MaxStale = 1
    MaxClock = 3
CHECK_DEADLOCK FALSE
SYMMETRY Symmetry
INVARIANTS
    TypeOK
    SlotsAccounted
    TrackedClientsBounded
    BudgetKept
PROPERTY OwnFaultOnly
