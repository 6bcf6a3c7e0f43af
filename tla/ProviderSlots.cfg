CONSTANTS
    Pods = {p1, p2}
    KeyOf <- MCKeys
    Policy <- MCMixed
    Slots = {0}
    Machines = {m1, m2}
    Workers = {w1}
    MaxGen = 0
    MaxRetries = 0
    Faults = {"report", "destroy", "vanish"}
    Deletes = FALSE
    MaxRestarts = 1
    Nil = Nil
SYMMETRY MachineSymmetry
SPECIFICATION Spec
CHECK_DEADLOCK FALSE
INVARIANTS TypeOK SlotsExclusive NoPanic
PROPERTIES PhaseSticks
