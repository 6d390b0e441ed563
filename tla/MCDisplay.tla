------------------------------ MODULE MCDisplay ------------------------------
(* Two pages, on the first topic and on the last, and two incidents: enough   *)
(* for a page to be pruned, to be reconnected by its watchdog and to be       *)
(* pruned again before it got a frame, beside a neighbour that is well.       *)
EXTENDS Display

MCTopicOf == [c \in Clients |-> IF c = "chain" THEN "market-data" ELSE "session"]
=============================================================================
