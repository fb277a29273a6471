\* Every program once: up to two producers and two consumers, two messages each.
SPECIFICATION Spec
CONSTANTS
    MaxMade = 2
    MaxLatency = 2
    Buckets = 3
    MaxThreads = 5
    Samples = 2
    SoloSamples = 3
    Depth = 2
    Rounds = 2
    Producers = 2
    Consumers = 2
    BoostCapacity = 1
INVARIANT TypeOK
INVARIANT EverythingMeasured
INVARIANT AtMostOneLate
INVARIANT StartTogether
INVARIANT CountsAgree
INVARIANT StatsRight
PROPERTY InOrder
PROPERTY Terminates
PROPERTY NoInterference
