\* A self configurable name between one of higher and one of lower priority.
CONSTANTS
  MaxUnicast = 1
  Name = {1, 2, 3}
  SelfConfig = {1, 2, 3}
  Self = 2
  RetryPref = 0
  Heard = {1, 3}
  MaxQueue = 2
SPECIFICATION FairSpec
INVARIANTS TypeOK HolderAgrees NetworkAgrees ClaimCannotStall
PROPERTIES LossIsNoticed LostIsLeft ClaimingSettles RequestIsAnswered
