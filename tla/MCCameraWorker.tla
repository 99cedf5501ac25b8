--------------------------- MODULE MCCameraWorker ---------------------------
(* CameraWorker on small instances: the limits a configuration is tried    *)
(* with, 0 (retry for ever) and 2.                                         *)
EXTENDS CameraWorker

MCLimits == {0, 2}
=============================================================================
