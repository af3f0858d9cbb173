SPECIFICATION FairInjectionSpec
CONSTANTS
  Holders = {h1, h2}
  NoHolder = NoHolder
  Processes = {h1, h2}
  ProcessOf <- ProcessEach
  MaxAttempts = 3
  WritesTear = TRUE
  MaxCrashes = 1
  MaxRefusals = 1
  MaxSlow = 1
  MaxFaults = 1
  MaxDelivered = 4
CHECK_DEADLOCK FALSE
INVARIANTS ClaimIsExclusive RacesAccounted
PROPERTY Converges
