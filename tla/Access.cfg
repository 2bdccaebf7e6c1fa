\* Two requests at once, of any kind, again and again.
SPECIFICATION Spec
CONSTANTS
    q1 = q1   q2 = q2   s1 = s1   s2 = s2   k1 = k1   e1 = e1   e2 = e2
    None = None
    Requests = {q1, q2}
    Sids = {s1, s2}
    Tokens = {k1}
    Emails = {e1, e2}
    Minute = 1
    MaxTime = 3
SYMMETRY Alike
VIEW Seen
INVARIANTS
    TypeOK
    OneAccount
    GoneIsRefused
    ManagedByAdmins
PROPERTIES
    SessionsOnlyEnd
    LastUsedTracks
CHECK_DEADLOCK FALSE
