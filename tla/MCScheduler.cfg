SPECIFICATION FairSpec
CONSTANTS
    Thread = {main, a, b, c}
    Main = main
    NoThread = noThread
INVARIANTS TypeOK OnePlace SafeDestruction
PROPERTIES  DeviceWaitEnds
CHECK_DEADLOCK FALSE
