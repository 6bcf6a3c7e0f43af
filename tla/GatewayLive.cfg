CONSTANTS
    Owners = {vs1}
    RangeStart = 6000
    RangeEnd = 6001
    Free = Free
    SvcPorts = {80, 443}
    InvalidPorts = {443}
    Workers = {w1}
    Pods = {p1}
    Labels = {"app", "other"}
    Selected <- MCSelected
    Absent = Absent
    NodePorts = FALSE
    UserOps = {"edit", "delete", "service"}
    PodOps = {"relabel", "delete", "relist"}
    MaxUserOps = 2
    MaxPodOps = 3
    MaxRestarts = 0
    ProxyFaults = FALSE
SPECIFICATION FairSpec
CHECK_DEADLOCK FALSE
PROPERTY EventuallyReported
