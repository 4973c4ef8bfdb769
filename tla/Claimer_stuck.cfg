\* The guards of ev_timeout for a name that is not in the network.
CONSTANTS
  MaxUnicast = 1
  Name = {1, 2}
  SelfConfig = {}
  Self = 2
  RetryPref = 0
  Heard = {1}
  MaxQueue = 1
SPECIFICATION Spec
INVARIANTS NoValidAddressAsDocumented
