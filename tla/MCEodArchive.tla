---------------------------- MODULE MCEodArchive ----------------------------
(* EodArchive on a small instance: two files of one date, up to three      *)
(* frames each, so that a file can be archived, begun again, and be then     *)
(* shorter than its archive, as long, or (at three) longer.                 *)
EXTENDS EodArchive, TLC

CONSTANTS nifty, stocks

MCFiles == {nifty, stocks}
=============================================================================
