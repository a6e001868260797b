CONSTANTS
  cluster = cluster
  io = io
  image = image
  watch = watch
  w1 = w1
  w2 = w2
  JS = JS
  Nobody = Nobody
  Handle <- MCHandle
  Thread <- MCThread
  Cluster = {cluster}
  Io = {io}
  Image = {image}
  Sub = {watch}
  Parent <- MCParent
  Source <- WatchOnImage
  Lapses = {"overlap", "orphan"}
SYMMETRY Workers
SPECIFICATION Spec
INVARIANTS NoUseAfterDestroy ChildCountExact NothingLeaks NoDeadlock FreeToStep
CHECK_DEADLOCK FALSE
