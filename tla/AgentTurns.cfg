SPECIFICATION FairSpec
CONSTANTS
    front = front
    helper = helper
    coded = coded
    Agents = {front, helper, coded}
    FrontMan = front
    Code = {coded}
    Tools <- MCTools
    Slow = {front, helper}
    Retries = 2
    MaxIterations = 2
    MaxHistory = 2
    MaxCalls = 3
    MaxTurns = 2
INVARIANT OriginsAreUnique
INVARIANT NoOrphans
INVARIANT InTimeAnswersCount
INVARIANT TurnCleansUp
PROPERTY TurnEnds
CHECK_DEADLOCK FALSE
