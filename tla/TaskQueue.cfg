SPECIFICATION FairSpec
CONSTANTS
    w1 = w1
    w2 = w2
    u1 = u1
    u2 = u2
    k1 = k1
    k2 = k2
    k3 = k3
    Worker <- MCWorker
    Pusher <- MCPusher
    Owner = Owner
    Task <- MCTask
    NoTask = NoTask
    Finishing <- MCFinishing
    MaxSize = 1
PROPERTIES
    TaskQueueDestroyed
INVARIANTS
    FinishWaitsForTasks
    DestroyedMeansRun
