SPECIFICATION CompletionSpec
CONSTANTS
  Sessions = {s1, s2}
  NoSession = NoSession
  Watchers = {s1, s2}
  Dispatcher = NoSession
  SendProblems = {"busy", "failed", "busyUnseen"}
  MaxMoves = 2
  MaxCrashes = 1
  MaxRefusals = 2
  MaxSlow = 1
  MaxFaults = 1
  Holders <- Channels
  NoHolder = NoHolder
  Processes = {s1, s2}
  ProcessOf <- SessionOf
  MaxAttempts = 4
  WritesTear = TRUE
  MaxDelivered = 4
CHECK_DEADLOCK FALSE
INVARIANTS DeliveryTypeOK 
