\* insert, release and clear: the operations the components of jay call.
CONSTANTS
  MaxUnicast = 2
  Name = {1, 2, 3, 4}
  SelfConfig = {2, 4}
SPECIFICATION SpecInUse
INVARIANTS HolderMatches UniqueAddress
PROPERTY PriorityWins
