SPECIFICATION FairCompletionSpec
CONSTANTS
  Sessions = {s1}
  NoSession = NoSession
  Watchers = {s1}
  Dispatcher = NoSession
  SendProblems = {"busy", "busyUnseen"}
  MaxMoves = 0
  MaxCrashes = 2
  MaxRefusals = 3
  MaxSlow = 1
  MaxFaults = 1
  Holders <- Channels
  NoHolder = NoHolder
  Processes = {s1}
  ProcessOf <- SessionOf
  MaxAttempts = 4
  WritesTear = FALSE
  MaxDelivered = 4
CHECK_DEADLOCK FALSE
INVARIANTS InjectionsAccounted
PROPERTY ArrivesUnlessCrash
