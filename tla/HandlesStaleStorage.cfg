CONSTANTS
    t1 = t1  t2 = t2  m1 = m1  m2 = m2  rw = rw  cv = cv
    o1 = o1  o2 = o2  o3 = o3  o4 = o4
    Threads = {t1, t2}
    Slots = {m1, m2}
    Kind <- TwoMutexes
    Objs = {o1, o2, o3, o4}
    MAX_TRACKED_OBJS = 4
    Null = Null
    Garbage = Garbage
    Storage <- StaleStorage
    MaxLeaks = 1
SPECIFICATION HandleSpec
SYMMETRY Symmetry
INVARIANT NoUseAfterFree
