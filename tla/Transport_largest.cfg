\* The longest broadcast, of 3 packets here.
CONSTANTS
  MaxUnicast = 1
  SeqSize = 4
  Self = 1
  Payload = {7}
  MaxSessions = 1
SPECIFICATION Spec
PROPERTIES LargestIsSupported
