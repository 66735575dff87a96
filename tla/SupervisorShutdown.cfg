SPECIFICATION SpecChecks
CONSTANTS
    ping = ping
    run = run
    dog = dog
    host = host
    Calls <- NoneOfThem
    Runs <- JustRun
    Watchdog <- JustDog
    Hosts <- JustHost
    Leaving <- JustRun
    Noisy = {1}
    MaxSpawns = 1
    PipeCap = 1
PROPERTY EveryCallReturns
CHECK_DEADLOCK FALSE
