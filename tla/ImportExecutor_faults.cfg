CONSTANTS
  f1 = f1
  f2 = f2
  f3 = f3
  m1 = m1
  m2 = m2
  m3 = m3
  File = {f1, f2, f3}
  Mount = {m1, m2}
  MountOf <- TwoMounts
  Worker = {w1, w2}
  None = None
  WorkersPerMount = 1
  SchedulerCapacity = 2
  JobCapacity = 1
  CompletionCapacity = 1
  Faults = {"read", "scan", "renderer", "writer"}
SPECIFICATION Spec
INVARIANTS ActiveIsAdmitted FailureSlotFree SuccessIsComplete
PROPERTIES ExecutorReturns
