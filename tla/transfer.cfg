SPECIFICATION FairTransferSpec
CONSTANTS
  new1 = new1
  new2 = new2
  Sessions = {old, new1, new2}
  FirstOwner = old
  Nobody = Nobody
  MaxTransfers = 2
  SuccessorOf <- TwoSuccessors
  MaxGeneration = 3
  MaxMishaps = 1
  MaxTokens = 1
INVARIANTS TypeOK RecordTrue WindowAccounted
PROPERTIES TransferEnds
CHECK_DEADLOCK FALSE
