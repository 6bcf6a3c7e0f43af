CONSTANTS
    Pods = {p1}
    KeyOf <- MCKeys
    Policy <- MCOnFailure
    Slots = {0}
    Machines = {m1}
    Workers = {w1}
    MaxGen = 2
    MaxRetries = 0
    Faults = {"vanish", "update", "report"}
    Deletes = TRUE
    MaxRestarts = 1
    Nil = Nil
SPECIFICATION Spec
CHECK_DEADLOCK FALSE
INVARIANTS OneLoop CancelsSet SlotsNotLost
