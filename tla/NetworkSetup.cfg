SPECIFICATION SetupSpec
CONSTANTS
    x = x
    y = y
    ref_x = ref_x
    ref_y = ref_y
    a = a
    b = b
    c = c
    slashed = slashed
    unslashed = unslashed
    server = server
    k1 = k1
    k2 = k2
    k3 = k3
    word = word
    model = model
    other = other
    ghost = ghost
    url = url
    ref_z = ref_z
    mcp_url = mcp_url
    number = number
    safe_x = safe_x
    safe_y = safe_y
    box = box
    class = class
    t1 = t1
    t2 = t2
    Order <- MCOrder
    Others = {ghost, url}
    Urls = {url}
    Graphs <- MCGraphs
    Externals = {ref_x, ref_y, ref_z, mcp_url}
    McpUrls = {mcp_url}
    Malformed = {number}
    SafeNameOf <- MCSafeNameOf
    Prefixed <- MCPrefixed
    ToolChoices <- MCTools
    AgentChoices <- MCAgents
    DictTools = {server}
    Slashed = {slashed}
    Corrected <- MCCorrected
    Reference <- MCReference
    ManifestChoices <- MCManifests
    ConfigChoices <- MCConfigs
    LlmChoices <- MCLlms
INVARIANT LastManifestDecides
INVARIANT NothingLeftToReplace
INVARIANT ReportIsExact
INVARIANT MostSpecificWins
INVARIANT CyclesAreFound
INVARIANT ReachableIsExact
INVARIANT RightToolIsCalled
INVARIANT ConnectionsAreReleased
INVARIANT MiddlewareIsAsListed
CHECK_DEADLOCK FALSE
