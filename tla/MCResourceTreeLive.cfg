CONSTANTS
  cluster = cluster
  io = io
  image = image
  watch = watch
  w1 = w1
  w2 = w2
  JS = JS
  Nobody = Nobody
  Handle = {cluster, io}
  Thread <- MCThread
  Cluster = {cluster}
  Io = {io}
  Image = {}
  Sub = {watch}
  Parent <- IoParent
  Source <- WatchOnIo
  Lapses = {}
SPECIFICATION Spec
PROPERTY OperationsEnd
CHECK_DEADLOCK FALSE
