SPECIFICATION FairTimersSpec
CONSTANTS
  Mains = {m1, m2}
  Tab = tab
  MaxTime = 1
  OrphanAge = 1
  MaxMishaps = 1
INVARIANTS TimerTypeOK FiresAccounted
CHECK_DEADLOCK FALSE
PROPERTIES TimerFires
