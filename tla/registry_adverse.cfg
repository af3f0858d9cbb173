SPECIFICATION RegistrySpec
CONSTANTS
  s1 = s1
  s2 = s2
  Sessions = {s1, s2}
  NoSession = NoSession
  Nonces = {1}
  MaxGeneration = 2
  MaxTokens = 1
  LeaseMayAge = TRUE
  HeartbeatCallers = {s1, s2}
SYMMETRY SessionSymmetry
INVARIANTS TokenBuysSuccession GrantChain
