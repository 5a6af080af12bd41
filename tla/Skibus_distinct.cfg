CONSTANTS
  NumSkiers = 2
  NumStops = 2
  BusCapacity = 1
SPECIFICATION DistinctFairSpec
PROPERTY CountedSkierRides
\* the program ends, or waits for ever: both are real ends of it
CHECK_DEADLOCK FALSE
