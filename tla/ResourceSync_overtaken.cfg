\* Two writes in flight, committed out of change_seq order.
CONSTANTS
    o1 = o1
    o2 = o2
    c1 = c1
    k1 = k1
    k2 = k2
    t1 = t1
    w1 = w1
    w2 = w2
    NoApp = NoApp
    NoRow = NoRow
    Writers = {w1, w2}
    Owners = {o1}
    Keys = {k1, k2}
    Types = {t1}
    TypeOf <- MCTypeOf
    Clients = {c1}
    UserOf <- MCUserOf
    Limits = {0, 2}
    DefaultLimit = 1
    MaxLimit = 2
    Declarations <- MCDeclared
    MaxSeq = 4
    MaxAppId = 1
SPECIFICATION Spec
INVARIANTS NothingSkipped
