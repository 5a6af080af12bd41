CONSTANTS
  Queries <- FewQueries
  Blocked <- MCBlocked
  FwdIds = {1, 2}
  Timeout = 1
  ListenSize = 1
  UpSize = 2
SPECIFICATION FairSpec
PROPERTY StopsWhenAsked
PROPERTY ExpiredGoWhenQuiet
PROPERTY AnswersReadWhileIdsLast
\* the server ends when it is told to
CHECK_DEADLOCK FALSE
