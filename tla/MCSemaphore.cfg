SPECIFICATION FairSpec
CONSTANTS
    Thread = {t1, t2, t3, t4}
    InitialValue = 1
    MaxValue = 3
INVARIANTS TypeOK QueueOfSleepers NoLostWakeup
PROPERTY Implements
