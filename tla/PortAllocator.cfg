CONSTANTS
    Owners = {vs1, vs2, vs3}
    RangeStart = 6000
    RangeEnd = 6003
    Free = Free
SPECIFICATION AllocSpec
INVARIANTS AllocTypeOK MapsAgree
PROPERTY PoolSpec
