SPECIFICATION Spec
CONSTANTS
  Wide = 4096
  Safe = 1024
  Narrow = 16
  Byte = 8
  Written <- MCWritten
INVARIANTS ExactOrRefused QueueIsBounded LockLastsAsAsked
