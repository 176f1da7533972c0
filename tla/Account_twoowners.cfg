\* Two Bootstrap calls at a time.
CONSTANTS
    e1 = e1
    e2 = e2
    p1 = p1
    p2 = p2
    s1 = s1
    s2 = s2
    s3 = s3
    t1 = t1
    t2 = t2
    u1 = u1
    u2 = u2
    None = None
    Slots = {s1, s2}
    UserIds = {u1, u2}
    Emails = {e1, e2}
    Passwords = {p1}
    Tokens = {t1, t2}
SPECIFICATION Spec
INVARIANTS OneOwner
