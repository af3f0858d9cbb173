SPECIFICATION FairSuccessionSpec
CONSTANTS
  Sessions = {s1, s2}
  FirstOwner = s1
  Host = host
  MaxGeneration = 2
  MaxCrashes = 1
  MaxBusy = 2
INVARIANTS
  TypeOK
  OncePerGeneration
PROPERTIES
  ProposalArrives
CHECK_DEADLOCK FALSE
