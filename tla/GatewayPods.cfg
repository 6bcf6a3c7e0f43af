CONSTANTS
    Owners = {vs1}
    RangeStart = 6000
    RangeEnd = 6002
    Free = Free
    SvcPorts = {80}
    InvalidPorts = {}
    Workers = {w1}
    Pods = {p1, p2}
    Labels = {"app", "other"}
    Selected <- MCSelected
    Absent = Absent
    NodePorts = TRUE
    UserOps = {}
    PodOps = {"delete"}
    MaxUserOps = 1
    MaxPodOps = 3
    MaxRestarts = 1
    ProxyFaults = FALSE
SPECIFICATION Spec
CHECK_DEADLOCK FALSE
INVARIANT BackendsConverge
