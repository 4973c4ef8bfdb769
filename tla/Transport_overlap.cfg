\* A reliable bus; messages replace each other and timeouts come at any time.
CONSTANTS
  MaxUnicast = 1
  SeqSize = 4
  Window = 2
  MaxSend = 2
  MaxFaults = 0
  Sizes = {2, 3}
  Overlap = TRUE
  Prompt = FALSE
SPECIFICATION Spec
PROPERTIES DeliversMessages
CHECK_DEADLOCK FALSE
