SPECIFICATION Spec
CONSTANTS
    c1 = c1
    c2 = c2
    c3 = c3
    d1 = d1
    a1 = a1
    a2 = a2
    home1 = home1
    home2 = home2
    NoData = NoData
    Caches = {c1, c2, c3}
    DMAs = {}
    Dirs = {home1, home2}
    Addrs = {a1, a2}
    Home <- TwoHomes
    Assoc = 2
    LineSize = 1
    Val = {0}
    OpsOf <- Stores
SYMMETRY Symmetry
INVARIANT NotWedged
