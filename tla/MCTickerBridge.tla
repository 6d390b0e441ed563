---------------------------- MODULE MCTickerBridge ----------------------------
(* TickerBridge on a small instance: ladders of two attempts, and enough      *)
(* trouble for a late answer of one ticker to meet the next one's start.      *)
EXTENDS TickerBridge
=============================================================================
