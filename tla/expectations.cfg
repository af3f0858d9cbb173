SPECIFICATION FairExpectationSpec
CONSTANTS
  Processes = {p1, p2}
  Declarer = p1
  Replies = {good, other}
  Matching = {good}
  Deadlines = {0, 1}
  None = None
  MaxReplies = 1
  MaxTime = 1
  MaxEdits = 2
  MaxMishaps = 1
INVARIANTS
  TypeOK
  OneOutcome
  JournalTrue
  AtRestAgree
PROPERTIES
  NobodyWaitsInSilence
CHECK_DEADLOCK FALSE
