CONSTANTS
  Owner = owner
  Workers = {w1}
  None = None
  Counters = {1, 2}
  InboxSize = 1
  FailureSlots = 1
  Jobs = 1
  OwnerEvents = 1
  MayBreak = TRUE
SPECIFICATION Spec
INVARIANTS EverythingRendered WorkersNeverWait BrokenPipeReported
PROPERTIES ProcessExits
