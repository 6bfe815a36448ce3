\* The documented promise, which an overflow of the table breaks.

SPECIFICATION Spec
CONSTANTS
    c1 = c1
    c2 = c2
    k1 = k1
    k2 = k2
    k3 = k3
    Callers = {c1, c2}
    ReplayKeys = {k1, k2, k3}
    ReplayTTL = 2
    ReplayMaxSize = 2
    MaxTime = 5
SYMMETRY Symmetry
PROPERTIES
    RefusedThereafter
