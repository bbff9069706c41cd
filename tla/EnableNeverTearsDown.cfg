\* An enable that trusts a status file someone else wrote.
SPECIFICATION Spec
CONSTANTS
    c1 = c1
    c2 = c2
    c3 = c3
    a1 = a1
    a2 = a2
    None = None
    HostNs = HostNs
    Addr <- Addrs
    Call <- Calls
    Resolve <- Given
    ResolveDefault <- GivenDefault
PROPERTY EnableNeverTearsDown
CHECK_DEADLOCK FALSE
