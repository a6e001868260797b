CONSTANTS
  Note = {n1, n2}
  Callback = {c1}
  QueueSize = 1
  MaxErrors = 0
  AutoAck = FALSE
  None = None
SPECIFICATION Spec
INVARIANT RefusedMeansAcknowledged
CHECK_DEADLOCK FALSE
