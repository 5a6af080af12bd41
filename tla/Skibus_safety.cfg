CONSTANTS
  NumSkiers = 3
  NumStops = 1
  BusCapacity = 2
SPECIFICATION Spec
INVARIANT TypeOK
INVARIANT BoardsAtItsStop
INVARIANT LoadMatches
INVARIANT OneWriter
INVARIANT NumberingExact
\* the program ends, or waits for ever: both are its real ends
CHECK_DEADLOCK FALSE
