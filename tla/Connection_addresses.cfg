\* A connection with and without names, with two names and two addresses.
CONSTANTS
  MaxUnicast = 1
  Name = {1, 2}
  SelfConfig = {1, 2}
  SeqSize = 3
  Local = {2}
  Target = {1}
  MaxSessions = 1
SPECIFICATION Spec
INVARIANTS SentUnderOwnAddress 
