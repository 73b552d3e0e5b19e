SPECIFICATION FairSpec
CONSTANTS
    first = first
    second = second
    third = third
    fourth = fourth
    mcp = mcp
    Requests = {first, second, third, fourth, mcp}
    Uncounted = {mcp}
    MayFail = {first}
    RequestsLimit = 1
    MaxPolls = 2
INVARIANT NoneUncounted
PROPERTY StopsWhenIdle
PROPERTY NoRequestAfterTheLimit
PROPERTY LimitStopsTheServer
CHECK_DEADLOCK FALSE
