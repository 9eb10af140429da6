SPECIFICATION Spec
CHECK_DEADLOCK FALSE
INVARIANTS OnlyMovesTerminate OfferedCompile
