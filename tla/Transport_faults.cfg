\* A bus that loses and repeats frames; one message at a time on a link.
CONSTANTS
  MaxUnicast = 1
  SeqSize = 4
  Window = 2
  MaxSend = 2
  MaxFaults = 1
  Sizes = {2, 3}
  Overlap = FALSE
  Prompt = TRUE
SPECIFICATION FairSpec
PROPERTIES DeliversMessages MessagesArrive ExchangesEnd
CHECK_DEADLOCK FALSE
