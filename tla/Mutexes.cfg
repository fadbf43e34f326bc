CONSTANTS
    t1 = t1  t2 = t2  k1 = k1  k2 = k2  l1 = l1  l2 = l2
    Threads = {t1, t2}
    Resources = {r1, r2}
    Locks = {k1, k2, l1, l2}
    User <- TwoEach
    none = none
    MaxLeaks = 1
SPECIFICATION Spec
INVARIANTS
    HeldByOne
    CountsItsLocks
SYMMETRY Symmetry
