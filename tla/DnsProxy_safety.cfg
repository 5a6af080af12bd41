CONSTANTS
  Queries <- AllQueries
  Blocked <- MCBlocked
  FwdIds = {1, 2}
  Timeout = 1
  ListenSize = 1
  UpSize = 2
SPECIFICATION Spec
INVARIANT TypeOK
INVARIANT MappedIsForwarded
INVARIANT OnlyAllowedForwarded
INVARIANT RightClient
PROPERTY KeptUntilTimeout
\* the server ends when it is told to
CHECK_DEADLOCK FALSE
