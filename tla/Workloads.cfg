SPECIFICATION HostSpec
CONSTANTS
    j1 = j1
    j2 = j2
    j3 = j3
    s1 = s1
    Jobs <- ThreeJobs
    Stops <- OneStop
    VoiceCalls <- TwoVoices
INVARIANT OneProcess
INVARIANT VoicesHaveFiles
PROPERTY EveryRequestReturns
CHECK_DEADLOCK FALSE
