SPECIFICATION FairSpec
CONSTANTS
    talk = talk
    ping = ping
    Requests = {talk, ping}
    Events = {ping}
    Reserving = {talk, ping}
    PoolSize = 3
    MaxMessages = 1
    MaxDeploys = 2
    MayCut = {talk}
    MayBreak = {talk, ping}
INVARIANT TypeOK
INVARIANT NothingAfterTheEnd
PROPERTY StreamIsAnswered
PROPERTY ServedDeployIsConfirmed
PROPERTY RequestEnds
CHECK_DEADLOCK FALSE
