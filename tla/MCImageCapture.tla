-------------------------- MODULE MCImageCapture --------------------------
(* Instances of ImageCapture for TLC. *)
EXTENDS ImageCapture
=============================================================================
