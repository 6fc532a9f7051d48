--------------------------- MODULE MCCaptureEngine ---------------------------
(* Small instances of CaptureEngine for TLC. *)
EXTENDS CaptureEngine
=============================================================================
