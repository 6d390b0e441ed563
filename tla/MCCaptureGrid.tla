---------------------------- MODULE MCCaptureGrid ----------------------------
(* CaptureGrid on a small instance: two clock units to the second, a session *)
(* that opens after the first second and closes before the last.             *)
EXTENDS CaptureGrid
=============================================================================
