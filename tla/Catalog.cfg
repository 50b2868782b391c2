\* Two administrators, and two requests for a model of a Vertex AI project.
SPECIFICATION FairSpec
CONSTANTS
    p1 = p1
    p2 = p2
    k1 = k1
    k2 = k2
    m1 = m1
    n1 = n1
    j1 = j1
    h1 = h1
    NoRow = NoRow
    Calls = {c1, c2}
    Requests = {r1, r2}
    Providers = {p1, p2}
    ProviderKeys = {k1, k2}
    Models = {m1}
    Addresses = {j1, h1}
    VertexProjects = {j1}
    PublicNames = {n1}
    KeyStatuses = {"active", "disabled"}
    Catalogs <- MCCatalogs
    MaxCrashes = 1
INVARIANTS
    OneClientPerProject
    TrailIsTrue
PROPERTIES
    RouteIsCurrent
    ClientRequestsEnd
CHECK_DEADLOCK FALSE
