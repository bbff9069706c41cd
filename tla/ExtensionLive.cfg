\* Fair scheduling, and whatever else goes wrong.
SPECIFICATION FairSpec
CONSTANTS
    kit = kit
    uni = uni
    Domain <- OneDomain
    DefaultDomains <- Defaults
    DefaultPort <- Preferred
    OtherPort <- Fallback
    MaxUserOps = 1
    MaxFaults = 2
    MaxErrors = 2
    MaxExits = 2
    MaxMessages = 1
PROPERTIES
    HealsUnlessFlagHangs
    PortConverges
CHECK_DEADLOCK FALSE
