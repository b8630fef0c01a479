\* What is shared is destroyed, and the clock stops.
SPECIFICATION Spec
CONSTANTS
    t1 = t1
    t2 = t2
    t3 = t3
    x1 = x1
    x2 = x2
    x3 = x3
    None = None
    Threads <- McThreads
    Crew <- McCrew
    Outside = t3
    Tasks <- McTasks
    Items <- McItems
    TqConfs <- McTqConfs
    MaxTime = 3
    LoopConfs <- McLoopConfs
    Ctxs <- McCtxs
    MaxWork = 1
    FiberScenes <- McFiberScenes
    Fibers <- McFibers
    IoNets <- McIoNets
INVARIANTS CallbacksQuiet LoopAwake FibersRight 
PROPERTIES StrandSerial TimersHonest EvProgress
CHECK_DEADLOCK FALSE
