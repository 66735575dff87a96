SPECIFICATION SpecWatchdog
CONSTANTS
    ping = ping
    run = run
    dog = dog
    host = host
    Calls <- JustPing
    Runs <- JustRun
    Watchdog <- JustDog
    Hosts <- NoneOfThem
    Leaving <- NoneOfThem
    Noisy = {}
    MaxSpawns = 2
    PipeCap = 1
PROPERTY IdleSidecarStops
CHECK_DEADLOCK FALSE
