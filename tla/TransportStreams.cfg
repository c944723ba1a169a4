SPECIFICATION FairSpec
CONSTANTS
  Readers <- MCReaders
  Publishers <- MCPublishers
  StartFrom <- MCStartFrom
  MaxMessages = 2
  ReplayLimit = 2
  PollLimit = 1
  MaxPolls = 2
  MaxPackets = 3
  MaxEpochs = 2
INVARIANT TypeOK
INVARIANT CursorCovers
 
PROPERTY EventuallyDelivered
CHECK_DEADLOCK FALSE
