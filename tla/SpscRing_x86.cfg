\* Release stores and acquire loads as on x86; the consumer waits, with two
\* signal functions.  W = 5 is no multiple of Size, as in no real build: the
\* positions wrap at every offset.
SPECIFICATION Spec
CONSTANTS
    Size = 2
    W = 5
    Funcs = {f1, f2}
    NoFunc = NoFunc
    Waiters = {"c"}
    StoreBuffer = TRUE
INVARIANTS RegionsDisjoint CtxAsserts FuncArgExclusive SignalOnlyWaiting
PROPERTY ImplementsFifo
