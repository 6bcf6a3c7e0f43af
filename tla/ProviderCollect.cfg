CONSTANTS
    Pods = {p1}
    KeyOf <- MCKeys
    Policy <- MCNever
    Slots = {0}
    Machines = {m1, m2}
    Workers = {w1}
    MaxGen = 0
    MaxRetries = 1
    Faults = {"destroy", "rent", "machine", "report"}
    Deletes = TRUE
    MaxRestarts = 1
    Nil = Nil
SPECIFICATION FairSpec
CHECK_DEADLOCK FALSE
PROPERTIES MachinesCollected 
