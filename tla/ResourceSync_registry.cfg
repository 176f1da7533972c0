\* Two writers, two owners and every registration operation.
CONSTANTS
    o1 = o1
    o2 = o2
    c1 = c1
    k1 = k1
    k2 = k2
    t1 = t1
    w1 = w1
    w2 = w2
    NoApp = NoApp
    NoRow = NoRow
    Writers = {w1, w2}
    Owners = {o1, o2}
    Keys = {k1, k2}
    Types = {t1}
    TypeOf <- MCTypeOf
    Clients = {c1}
    UserOf <- MCUserOf
    Limits = {0}
    DefaultLimit = 2
    MaxLimit = 2
    Declarations <- MCDeclarations
    MaxSeq = 3
    MaxAppId = 2
SPECIFICATION FairSpec
INVARIANTS TypeOK ResourceHasApp ClockOrdersVersions
PROPERTIES VersionsAdvance SkipsOnlyInFlight EventuallyDrained
