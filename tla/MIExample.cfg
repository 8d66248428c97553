SPECIFICATION Spec
CONSTANTS
    c1 = c1
    c2 = c2
    c3 = c3
    d1 = d1
    a1 = a1
    a2 = a2
    home1 = home1
    home2 = home2
    NoData = NoData
    Caches = {c1, c2}
    DMAs = {d1}
    Dirs = {home1}
    Addrs = {a1}
    Home <- OneHome
    Assoc = 1
    LineSize = 1
    Val = {0, 1}
    OpsOf <- WholeLines
INVARIANTS TypeOK OneCopy OwnerIsLast NotWedged
PROPERTIES Coherent Settles
