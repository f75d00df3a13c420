CONSTANT MaxThreads = 3
SPECIFICATION Spec
INVARIANTS OneEmulator
PROPERTIES SleeperWakes DestroyReturns
CHECK_DEADLOCK FALSE
