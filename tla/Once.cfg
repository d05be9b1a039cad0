CONSTANTS
    t1 = t1  t2 = t2  t3 = t3  a = a  b = b
    Threads = {t1, t2, t3}
    Onces = {a, b}
    Needs <- OneInside
    Null = Null
SPECIFICATION FairSpec
INVARIANT TypeOK
PROPERTIES ImplementsOnce OnceReturns
