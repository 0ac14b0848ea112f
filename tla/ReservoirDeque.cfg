SPECIFICATION Spec
CONSTANTS
    Key = {k1, k2}
    Times = {0, 1, 2}
    TTLs = {0, 1, 2}
    Caps = {0, 1, 2, 3}
    MaxPushes = 4
INVARIANTS
    TakeAgrees
    PutAgrees
