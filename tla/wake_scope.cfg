SPECIFICATION FairWakeSpec
CONSTANTS
  Sessions = {s1, s2}
  NoSession = NoSession
  Letters = {l1, l2}
  Loop = "scope"
  MaxCrashes = 1
  MaxFailures = 1
  MaxMoves = 1
  MaxRests = 1
CHECK_DEADLOCK FALSE
INVARIANTS TypeOK PromptsAccounted UnreadOnlyIfAbandoned
PROPERTY LettersSettle
