--------------------------- MODULE MCBrokerSession ---------------------------
(* Two dates and three tokens: one to die, one to replace it, one to race it. *)
EXTENDS BrokerSession
=============================================================================
