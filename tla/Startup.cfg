\* Installs that fail halfway, hand-edited files, ports and addresses in use.
SPECIFICATION Spec
CONSTANTS
    None = None
    home = home
    work = work
    default = default
    dnsDefault = dnsDefault
    dnsWork = dnsWork
    creds = creds
    Short = Short
    Empty = Empty
    DefaultDns <- OneDns
    DefaultPort <- OnePort
    DefaultSubnet <- UsualSubnet
    Scan <- Scanned
    MaxPort <- ThreePorts
    Span <- TwoTried
    Text <- Texts
    Creds <- OneCreds
    Edited <- ByHand
    MaxInstalls = 2
    MaxRestarts = 1
INVARIANTS
    TypeOK
    InstallMends
    TunnelOfOneInstall
    RelayReachesSocks
CHECK_DEADLOCK FALSE
