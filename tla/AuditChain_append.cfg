\* r3 is a RevokeDevice request; r1 and r2 update the same row.
CONSTANTS
    r1 = r1
    r2 = r2
    r3 = r3
    b1 = b1
    b2 = b2
    None = None
    NoActor = NoActor
    Req = {r1, r2, r3}
    BestEffort = {r3}
    Rows = {b1, b2}
    Target <- MCTarget
    Users = {u1}
    Nanos <- MCNanos
    NanosPerMicro = 2
SPECIFICATION FairSpec
INVARIANTS ChainIntact AuditedTogether IInv
PROPERTIES AppendOnly ImplementsAuditLog EveryRequestEnds
