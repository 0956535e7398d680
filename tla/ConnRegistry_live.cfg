SPECIFICATION FairSpec
CONSTANTS
    Conns = {c1, c2}
    Users = {u1}
    Ips = {i1}
    OpenShadowSocks = FALSE
    Ctxs = {x1, x2, x3}
    Closers = {w1}
    Confs <- Unlimited
    r1 = r1
    r2 = r2
    nil = nil
PROPERTIES
    DisconnectTakesEffect
    StopDrains
