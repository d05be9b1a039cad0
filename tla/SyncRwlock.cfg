CONSTANTS
    t1 = t1  t2 = t2  m1 = m1  m2 = m2  rw = rw  cv = cv
    o1 = o1  o2 = o2  o3 = o3  o4 = o4
    Threads = {t1, t2}
    Slots = {m1, rw}
    Kind <- MutexAndRwlock
    Clock <- AllMonotonic
    Objs = {o1, o2, o3}
    MAX_TRACKED_OBJS = 3
    Null = Null
    Garbage = Garbage
    Storage <- NoReuse
    MaxLeaks = 0
    MaxDepth = 2
SPECIFICATION Spec
SYMMETRY Symmetry
INVARIANT Exclusion
PROPERTY ImplementsPosix
CHECK_DEADLOCK FALSE
