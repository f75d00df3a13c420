CONSTANT MaxThreads = 2
SPECIFICATION Spec
INVARIANT JoinedMeansStopped
CHECK_DEADLOCK FALSE
