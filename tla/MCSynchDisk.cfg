SPECIFICATION FairSpec
CONSTANTS
    Thread = {t1, t2, t3}
    Sector = {s1}
    Data = {d1, d2}
    NoThread = noThread
    MaxCalls = 2
INVARIANTS TypeOK OneRequest ReturnAfterInterrupt
PROPERTIES Implements EveryCallReturns
CHECK_DEADLOCK FALSE
