\* Fair scheduling, and one helper that fails.
SPECIFICATION FairSpec
CONSTANTS
    kit = kit
    uni = uni
    Domain <- OneDomain
    DefaultDomains <- Defaults
    DefaultPort <- Preferred
    OtherPort <- Fallback
    MaxUserOps = 1
    MaxFaults = 1
    MaxErrors = 1
    MaxExits = 1
    MaxMessages = 2
PROPERTY SelfHealing
CHECK_DEADLOCK FALSE
