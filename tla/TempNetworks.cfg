SPECIFICATION FairSpec
CONSTANTS
    d1 = d1
    r1 = r1
    mine = mine
    other = other
    theirs = theirs
    Agents = {mine, other, theirs}
    Deployers = {d1}
    Requests = {r1}
    Expirer = expirer
    Unlocked = unlocked
    Elsewhere = elsewhere
    Owner <- MCOwner
    Lifetime <- MCLifetime
    MaxLifetime = 2
    MaxTime = 3
    MaxDeploys = 2
    Redeploy = {mine}
    Wanted = {mine, theirs}
    UseBase = TRUE
INVARIANT ValidIsServed
INVARIANT TablesTogether
PROPERTY NeverRemovedEarly
PROPERTY ExpiredIsDropped
PROPERTY ThreadsReturn
