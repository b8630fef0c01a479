\* A loop whose threads may all have left.
SPECIFICATION PollsSpec
CONSTANTS
    t1 = t1
    t2 = t2
    t3 = t3
    x1 = x1
    x2 = x2
    x3 = x3
    None = None
    Threads <- McThreads
    Crew <- McCrew
    Outside = t3
    Tasks <- McTasks
    Items <- McItems
    TqConfs <- McTqConfs
    MaxTime = 3
    LoopConfs <- McLoopConfs
    Ctxs <- McCtxs
    MaxWork = 1
    FiberScenes <- McFiberScenes
    Fibers <- McFibers
    IoNets <- McIoNets
INVARIANT PendingTasksExecuted
CHECK_DEADLOCK FALSE
