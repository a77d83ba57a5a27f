SPECIFICATION FairSpec
CONSTANTS
    WorkerCounts <- MCWorkerCounts
    Minutes <- MCMinutes
    Minute = 3
    Overflow = 8
INVARIANTS
    LifecycleTypeOK
    DatabaseOutlivesWorker
    ReleasedOnExit
    FailureReported
    ServingWhileWaiting
    ConsumerIsSane
PROPERTIES
    RefinesConsumerHost
    StopCompletes
