\* Every operation, remove included.
CONSTANTS
  MaxUnicast = 2
  Name = {1, 2, 3}
  SelfConfig = {1, 3}
SPECIFICATION Spec
INVARIANTS TypeOK ListenerCurrent FullMeansNoneAvailable SearchIsComplete
