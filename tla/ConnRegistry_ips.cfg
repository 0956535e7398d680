SPECIFICATION Spec
CONSTANTS
    Conns = {c1, c2}
    Users = {u1}
    Ips = {i1}
    OpenShadowSocks = TRUE
    Ctxs = {x1, x2, x3}
    Closers = {w1}
    Confs <- Unlimited
    r1 = r1
    r2 = r2
    nil = nil
INVARIANTS
    IpDisconnectMissesNobody
