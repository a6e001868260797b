CONSTANTS
  Note = {n1, n2}
  Callback = {c1}
  QueueSize = 1
  MaxErrors = 0
  AutoAck = TRUE
  None = None
SPECIFICATION Spec
PROPERTY NextDeliveredReportsLoss
CHECK_DEADLOCK FALSE
