\* Three callables that may hold, refer to and be moved into each other.
CONSTANTS
  Callables = {f1, f2, f3}
  MaxDepth = 6
  Invalid = invalid
  NullPointer = nullpointer
  Function = function
  Unasked = unasked
SPECIFICATION FairSpec
INVARIANTS TypeOK BoolForetellsCalls OnlyCyclesOverflow
PROPERTIES BoolNeverThrows CallsEnd
CHECK_DEADLOCK FALSE
