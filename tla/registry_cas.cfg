SPECIFICATION RegistrySpec
CONSTANTS
  s1 = s1
  s2 = s2
  Sessions = {s1, s2}
  NoSession = NoSession
  Nonces = {1}
  MaxGeneration = 3
  MaxTokens = 6
  LeaseMayAge = FALSE
  HeartbeatCallers = {}
SYMMETRY SessionSymmetry
INVARIANTS OneOwnerPerGeneration LeaseProtects
PROPERTY ImplementsOwnership
