------------------------------ MODULE MCTicker ------------------------------
(* A period of two milliseconds in thirds, over a good eleven of them: up  *)
(* to five ticks, each in time or up to several milliseconds late.         *)
EXTENDS Ticker
=============================================================================
