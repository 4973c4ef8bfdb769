\* One endpoint, any frames: numbers 0 to 3, so that the longest message wraps.
CONSTANTS
  MaxUnicast = 1
  SeqSize = 4
  Self = 1
  Payload = {7}
  MaxSessions = 1
SPECIFICATION Spec
INVARIANTS TypeOK HoldsWhatCame AsksForFirstMissing
PROPERTIES DeliversOnceAndWhole
