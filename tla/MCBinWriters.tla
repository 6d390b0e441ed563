---------------------------- MODULE MCBinWriters ----------------------------
(* BinWriters on a small instance: two files over two seconds, so that one  *)
(* writer can fail while the other has the second; three processes, so that *)
(* a file can be torn and re-opened twice; one failing call; and one frame  *)
(* at most that a scan finds behind a tear.                                 *)
EXTENDS BinWriters
=============================================================================
