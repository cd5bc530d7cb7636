----------------------------- MODULE MCOffline -----------------------------
(* A small instance of Offline: a history with and without an outage, and   *)
(* intervals that start or end on a candle, inside one and in the future.   *)
EXTENDS Offline

MCHistories == {Bars, Bars \ {3}}
MCIntervals == {<<2, 2 * MaxBar + 1>>, <<3, 2 * MaxBar>>, <<4, 4>>}
=============================================================================
