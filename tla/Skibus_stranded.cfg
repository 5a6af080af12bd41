CONSTANTS
  NumSkiers = 1
  NumStops = 1
  BusCapacity = 1
SPECIFICATION Spec
INVARIANT NobodyLeftBehind
\* the program ends, or waits for ever: both are real ends of it
CHECK_DEADLOCK FALSE
