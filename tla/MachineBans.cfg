CONSTANTS
    Pods = {p1, p2}
    p1 = p1
    p2 = p2
    Hosts = {"a", "b"}
    Offers = {1, 2, 3}
    HostOf <- MCHostOf
    FileEnabled = TRUE
    Timeout = 1
    MaxCrashes = 1
    NoPod = NoPod
    Unset = Unset
    Torn = Torn
SPECIFICATION FairSpec
INVARIANTS TypeOK BanKept
PROPERTIES RetriesElsewhere BansExpire
