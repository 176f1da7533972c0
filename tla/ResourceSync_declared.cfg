\* A create whose app is changed between its check and its insert.
CONSTANTS
    o1 = o1
    o2 = o2
    c1 = c1
    k1 = k1
    k2 = k2
    t1 = t1
    w1 = w1
    w2 = w2
    NoApp = NoApp
    NoRow = NoRow
    Writers = {w1}
    Owners = {o1}
    Keys = {k1}
    Types = {t1}
    TypeOf <- MCTypeOf
    Clients = {c1}
    UserOf <- MCUserOf
    Limits = {0}
    DefaultLimit = 1
    MaxLimit = 1
    Declarations <- MCDeclarations
    MaxSeq = 2
    MaxAppId = 1
SPECIFICATION FairSpec
PROPERTIES CreatedAsDeclared
