---------------------------- MODULE MCStatsPath ----------------------------
(* The receiver of timestamps and the statistics producer for TLC.         *)
EXTENDS StatsPath

MCMbufs == {"m1", "m2", "m3"}
=============================================================================
