\* Two nodes that are switched on and started at any time.
CONSTANTS
  MaxUnicast = 1
  Name = {1, 2}
  SelfConfig = {2}
  First = 1
  Second = 2
  RetryPref = 0
  Pref = {0, 1}
  Prompt = TRUE
  MaxStarts = 3
  MaxQueue = 100
SPECIFICATION FairSpec
INVARIANTS ConflictIsReported StrongerIsKnown
PROPERTIES ConflictsEnd
CHECK_DEADLOCK FALSE
