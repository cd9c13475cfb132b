SPECIFICATION FairSpec
CONSTANTS
    Thread = {main, a, b}
    Main = main
    NoThread = noThread
PROPERTY ReadyRuns
CHECK_DEADLOCK FALSE
