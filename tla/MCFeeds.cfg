CONSTANTS
  Feed = {log1, log2, update}
  Log = {log1, log2}
  Callback = {c1, c2}
  Item = {n1, n2, n3}
  QueueSize = 1
  OneAtATime = TRUE
  None = None
SPECIFICATION Spec
INVARIANTS TypeOK CountedOnce ReleasedWhenQuiet UnseenQueued OpenIsHeard
PROPERTIES KeepsEveryItem SignalSeen CloseEnds
CHECK_DEADLOCK FALSE
