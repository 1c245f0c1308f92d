CONSTANTS
  Requests = {1, 2, 3, 4}
  None = None
  MaxBatch = 2
  ChannelCapacity = 3
  CheckpointEvery = 2
  BridgeCapacity = 18
SPECIFICATION Spec
INVARIANTS AnswersAreTrue SuccessIsComplete BlameResolvable ChannelHasRoom BridgeHasRoom
PROPERTIES EveryTicketAnswered ImportEnds
