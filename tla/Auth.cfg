SPECIFICATION Spec
CONSTANTS
    Users = {u1, u2}
    SsIps = {s1}
    Pwds = {p1, p2}
    Ips = {i1}
    Sessions = {d1}
    Cities = {t1}
    Segs = {g1}
    Addrs = {a1, a2}
    Reach <- AnyAddress
    Lives = {0, 1}
    Calls = {c1, c2}
    Workers = {w1}
    AuthTtl = 1
    MaxTime = 2
    MaxWrites = 2
    none = none
SYMMETRY Symmetry
INVARIANTS
    StaleBounded
    SessionSticky
PROPERTIES
    AddKeepsRecord
CHECK_DEADLOCK FALSE
