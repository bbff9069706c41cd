\* The popup, storage, the port and the tunnel, each misbehaving a little.
SPECIFICATION Spec
CONSTANTS
    kit = kit
    uni = uni
    Domain <- Domains
    DefaultDomains <- Defaults
    DefaultPort <- Preferred
    OtherPort <- Fallback
    MaxUserOps = 2
    MaxFaults = 1
    MaxErrors = 1
    MaxExits = 1
    MaxMessages = 1
INVARIANTS
    TypeOK
    RoutingSettles
    ConnectedOrError
CHECK_DEADLOCK FALSE
