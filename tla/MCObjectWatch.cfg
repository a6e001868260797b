CONSTANTS
  Note = {n1, n2}
  Callback = {c1, c2}
  QueueSize = 1
  MaxErrors = 2
  AutoAck = TRUE
  None = None
SPECIFICATION Spec
INVARIANTS TypeOK LossAccounting OneAck ReleasedWhenQuiet AnswerInHand
PROPERTIES KeepsEveryLoss OverflowAcknowledged NotifierAnswered CloseEnds
CHECK_DEADLOCK FALSE
