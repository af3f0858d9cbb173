SPECIFICATION FairCommandSpec
CONSTANTS
  pauseKey = pauseKey
  autoKey = autoKey
  otherKey = otherKey
  Keys = {pauseKey, autoKey, otherKey}
  NoKey = NoKey
  KindOf <- ThreeKinds
  Host = Host
  Sessions = {s1, s2}
  NoSession = NoSession
  Letters = {l1}
  NoLetter = NoLetter
  MaxRequests = 2
  MaxFailures = 1
  MaxCrashes = 1
  MaxMoves = 1
  MaxEdits = 1
CHECK_DEADLOCK FALSE
INVARIANTS AnswersTrue AnswersAgree AckedWasDecided
PROPERTIES ImplementsOneShot LettersSettle
