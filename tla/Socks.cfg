\* One connection, two DNS servers, answers late and doubled, stray packets.
SPECIFICATION FairSpec
CONSTANTS
    ip1 = ip1
    ip2 = ip2
    None = None
    Ip <- Ips
    Servers <- TwoServers
    Message <- Messages
    MaxAnswers <- Twice
    MaxStrays <- Twice
INVARIANTS
    TypeOK
    OneFinalReply
    FirstAnswerWins
    OldestOfferDecides
PROPERTY RequestAnswered
CHECK_DEADLOCK FALSE
