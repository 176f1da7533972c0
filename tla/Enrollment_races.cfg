\* Any three calls, two at a time.
CONSTANTS
    u1 = u1
    u2 = u2
    e1 = e1
    e2 = e2
    c1 = c1
    c2 = c2
    c3 = c3
    i1 = i1
    d1 = d1
    None = None
    Deleted = Deleted
    Users = {u1, u2}
    Emails = {e1, e2}
    Creds = {c1, c2, c3}
    hotp <- MCHotp
    MAX_AUTHENTICATORS = 1
    MaxStep = 1
    Codes <- MCCodes
    Typed <- MCTyped
    Invites = {i1}
    EmailOf <- MCEmailOf
    Devices = {d1}
    SlotCount = 2
    MaxCalls = 3
SPECIFICATION Spec
INVARIANTS StepsAreSingleUse AuthenticatorLimit OneActiveCode EachCodeServesOnce RevokedForGood
PROPERTIES InUseUntilDeleted InviteStaysClosed
SYMMETRY MCSymmetry
