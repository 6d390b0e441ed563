---------------------------- MODULE MCMarketDataBus ----------------------------
(* Two captures, two starts of the bus, two batches and a token map, with     *)
(* queues and pipes short enough to overflow and two faults.                  *)
EXTENDS MarketDataBus
=============================================================================
