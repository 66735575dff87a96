SPECIFICATION SpecTasks
CONSTANTS
    ping = ping
    run = run
    dog = dog
    host = host
    Calls <- JustPing
    Runs <- JustRun
    Watchdog <- NoneOfThem
    Hosts <- NoneOfThem
    Leaving <- JustRun
    Noisy = {1}
    MaxSpawns = 2
    PipeCap = 1
INVARIANT NoOrphan
INVARIANT NoLostWaiter
PROPERTY AtMostOnce
PROPERTY CrashWakesCallers
PROPERTY AckedRunEnds
CHECK_DEADLOCK FALSE
