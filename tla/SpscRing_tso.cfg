\* Release stores and acquire loads as on x86: a wait may miss its wake-up.
SPECIFICATION FairSpec
CONSTANTS
    Size = 1
    W = 4
    Funcs = {f1}
    NoFunc = NoFunc
    Waiters = {"c"}
    StoreBuffer = TRUE
PROPERTY SatisfiedWaitIsSignalled
