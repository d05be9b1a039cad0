CONSTANTS
    t1 = t1  t2 = t2  m1 = m1  m2 = m2  rw = rw  cv = cv
    o1 = o1  o2 = o2  o3 = o3  o4 = o4
    Threads = {t1, t2}
    Slots = {m1, m2}
    Kind <- TwoMutexes
    Clock <- AllMonotonic
    Objs = {o1, o2, o3, o4}
    MAX_TRACKED_OBJS = 1
    Null = Null
    Garbage = Garbage
    Storage <- NoReuse
    MaxLeaks = 0
    MaxDepth = 1
SPECIFICATION Spec
SYMMETRY Symmetry
INVARIANT Exclusion
CHECK_DEADLOCK FALSE
