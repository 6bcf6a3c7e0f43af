CONSTANTS
    ContainerPorts = {53, 80, 443, 8080}
    Slots = {0, 1, 63}
    MaxPorts = 4
    Repeats = FALSE
SPECIFICATION Spec
CHECK_DEADLOCK FALSE
INVARIANTS RoutesToTarget
