SPECIFICATION Spec
CONSTANTS
    client = client
    proxy = proxy
    Requests = {p1, p2, p3, p4}
    Clients <- MCClients
    Paths <- MCPaths
    NoClient = NoClient
    Rules <- MCRules
    HttpsPaths = {"login", "refresh", "logout"}
    Production = TRUE
    Proxies = {proxy}
    Arrivals <- MCArrivals
    Second = 2
    MaxStall = 1
    Cap = 1
    MaxClock = 9
SYMMETRY RequestSymmetry
INVARIANTS
    WindowsExact
    BurstBounded
    RetryAfterHonest
    RateInvariant
