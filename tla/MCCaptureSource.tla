-------------------------- MODULE MCCaptureSource --------------------------
(* CaptureSource on a small instance.  Liveness is checked together with    *)
(* safety, so that no symmetry is declared.                                 *)
EXTENDS CaptureSource
=============================================================================
