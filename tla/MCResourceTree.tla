---------------------------- MODULE MCResourceTree ---------------------------
(* A chain cluster <- context <- image with one subscription, the JS thread  *)
(* and two interchangeable workers.                                          *)
EXTENDS ResourceTree, TLC

CONSTANTS cluster, io, image, watch, w1, w2

MCHandle == {cluster, io, image}
MCThread == {JS, w1, w2}
MCParent == (io :> cluster) @@ (image :> io)
IoParent == io :> cluster
WatchOnCluster == watch :> cluster
WatchOnIo == watch :> io
WatchOnImage == watch :> image
Workers == Permutations({w1, w2})
=============================================================================
