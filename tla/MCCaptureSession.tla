-------------------------- MODULE MCCaptureSession --------------------------
(* A small instance of CaptureSession on its own. *)
EXTENDS CaptureSession
=============================================================================
