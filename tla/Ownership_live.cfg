SPECIFICATION FairSpec
CONSTANTS
    n1 = n1
    n2 = n2
    Node <- TwoNodes
    None = None
    TTL = 3
    Margin = 1
    Delay = 0
    MaxLease = 2
    MaxFault = 1
    MaxRing = 1
    Shutdown = FALSE
    LostAcquire = FALSE
PROPERTIES Settles
