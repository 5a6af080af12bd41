CONSTANTS
  Table <- OwnPorts
  Hosts <- OwnHosts
  Self = "lo"
  Timeout = 1
  Batch = 2
  BufferSize = 3
  MaxPort = 4
  Distinct = TRUE
SPECIFICATION FairSpec
INVARIANT TypeOK
INVARIANT VerdictTrue
PROPERTY GivenUpInTime
PROPERTY InTimeAnswersCount
PROPERTY ScanEnds
\* the scan ends
CHECK_DEADLOCK FALSE
