------------------------- MODULE MCCaptureLifecycle -------------------------
(* CaptureLifecycle on a small instance: a trading day, a holiday and        *)
(* another trading day.                                                      *)
EXTENDS CaptureLifecycle

MCHolidays == {2}
=============================================================================
