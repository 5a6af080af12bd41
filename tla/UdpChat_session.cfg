CONSTANTS
  MaxRetries = 2
  MaxSends = 3
  MaxServerIds = 1
  InboxSize = 1
SPECIFICATION FairSpec
INVARIANT TypeOK
INVARIANT AtMostOnce
INVARIANT BinaryAckReceived
INVARIANT OpenIsAuthorised
PROPERTY WaitEnds
PROPERTY TerminationHandled
\* the client ends, and may wait for ever in recvfrom
CHECK_DEADLOCK FALSE
