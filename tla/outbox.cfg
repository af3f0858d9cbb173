SPECIFICATION FairOutboxSpec
CONSTANTS
  Sessions = {s1, s2}
  Host = host
  Nobody = nobody
  MaxAttempts = 2
  MaxMoves = 1
  MaxRefusals = 1
  MaxFailures = 1
  MaxSlow = 1
  MaxInjected = 4
INVARIANTS
  TypeOK
  StatusIsTrue
  DuplicatesAccounted
PROPERTIES
  OutboxSettles
CHECK_DEADLOCK FALSE
