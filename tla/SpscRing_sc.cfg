\* Sequentially consistent atomics: both threads wait, with fairness.
SPECIFICATION FairSpec
CONSTANTS
    Size = 2
    W = 4
    Funcs = {f1}
    NoFunc = NoFunc
    Waiters = {"p", "c"}
    StoreBuffer = FALSE
INVARIANT WakeupPending
PROPERTIES SatisfiedWaitIsSignalled CallsReturn
