SPECIFICATION FairSpec
CONSTANTS
    Pods = {p1}
    Nodes = {"gpu"}
    NodeOf <- MCOneNode
    Prefixed <- MCNone
    Auths = {1, 2}
    Machines = {1, 2, 3}
    MaxRetries = 1
    MaxRestarts = 1
    Nil = Nil
INVARIANTS TypeOK AuthTakenOnce
PROPERTIES RentsInTheEnd AuthsCollected
CHECK_DEADLOCK FALSE
