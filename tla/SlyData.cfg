SPECIFICATION Spec
CONSTANTS
    main = main
    near = near
    far = far
    front = front
    helper = helper
    near_front = near_front
    far_front = far_front
    user = user
    k1 = k1
    k2 = k2
    Networks = {main, near, far}
    Client = user
    First = main
    FrontMan <- MCFrontMan
    Agents <- MCAgents
    External <- MCExternal
    Writes <- MCWrites
    Given = {k1}
    Keys = {k1, k2, request_metadata}
    Metadata = request_metadata
    AllowChoices <- MCAllowChoices
    MaxCalls = 3
    No = No
INVARIANT SlyDataIsAllowed
PROPERTY OwnDataStays
CHECK_DEADLOCK FALSE
