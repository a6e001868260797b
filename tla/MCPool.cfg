\* As many notifies as workers, so that they can take every worker.
CONSTANTS
  Worker = {w1, w2}
  Notify = {n1, n2}
  WatchClose = {c1, c2}
  IoClose = {d1}
  None = None
SPECIFICATION Spec
INVARIANTS PendingIsAtWork ResolvedIsClosed TeardownSucceeds
PROPERTIES TimesOutOnlyWhenFull Settles
CHECK_DEADLOCK FALSE
