\* A claim of lower priority for the address the name holds.
CONSTANTS
  MaxUnicast = 1
  Name = {1, 2}
  SelfConfig = {1, 2}
  Self = 1
  RetryPref = 0
  Heard = {2}
  MaxQueue = 1
SPECIFICATION Spec
PROPERTIES HeldAddressIsDefended
