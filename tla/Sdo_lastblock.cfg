\* A segment of the last block is lost.
SPECIFICATION LastBlockSpec
INVARIANT LastBlockIsRepaired
