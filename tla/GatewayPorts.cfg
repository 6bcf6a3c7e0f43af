CONSTANTS
    Owners = {vs1, vs2}
    RangeStart = 6000
    RangeEnd = 6002
    Free = Free
    SvcPorts = {80}
    InvalidPorts = {}
    Workers = {w1, w2}
    Pods = {}
    Labels = {"app"}
    Selected <- MCSelected
    Absent = Absent
    NodePorts = FALSE
    UserOps = {"delete"}
    PodOps = {}
    MaxUserOps = 3
    MaxPodOps = 0
    MaxRestarts = 0
    ProxyFaults = FALSE
SYMMETRY Symmetry
SPECIFICATION Spec
CHECK_DEADLOCK FALSE
INVARIANTS TypeOK RecordedPortsExclusive FrontendsExclusive NothingLeftBehind ReadyIsConfigured
PROPERTY PortsLostToOwnerOnly
