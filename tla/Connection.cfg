\* Two relays in a row, with ends that send, end, abort or vanish.
SPECIFICATION FairSpec
CONSTANTS
    Cap <- Room
    MaxData <- Chunks
INVARIANT TypeOK
PROPERTIES
    UpIsPipe
    DownIsPipe
    Delivered
    AllEnds
CHECK_DEADLOCK FALSE
