\* Three calls, overlapping or one at a time, under fair scheduling.
SPECIFICATION FairSpec
CONSTANTS
    c1 = c1
    c2 = c2
    c3 = c3
    a1 = a1
    a2 = a2
    None = None
    HostNs = HostNs
    Addr <- Addrs
    Call <- Calls
    Resolve <- Given
    ResolveDefault <- GivenDefault
INVARIANTS
    TypeOK
    OneTunnel
    OwnNamespace
    OwnSocks
    OwnPid
    CleanExit
    OwnPair
    DisableClears
PROPERTIES
    TunnelSpec
    StopFreesLock
    LostNamespaceEnds
CHECK_DEADLOCK FALSE
