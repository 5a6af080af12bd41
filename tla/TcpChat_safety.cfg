CONSTANTS
  MaxLines = 2
  MaxSaid = 2
SPECIFICATION FairSpec
INVARIANT TypeOK
INVARIANT NothingLost
INVARIANT GoodbyeEnds
PROPERTY InOrder
PROPERTY TerminationHandled
\* the client ends
CHECK_DEADLOCK FALSE
