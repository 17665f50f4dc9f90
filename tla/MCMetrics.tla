----------------------------- MODULE MCMetrics -----------------------------
(* The two summaries a program prints at its end, on small sessions.       *)
(* Metrics: gains and losses divisible by 1 .. 5, large enough to move the *)
(* peak, to fall below the start and below zero.  LatencyStats: samples on *)
(* both sides of every bound, enough of them for the 95th percentile to    *)
(* differ from the largest, and a sum that may reach the end of its type.  *)
(* They share no state, so each is explored with the other empty.          *)
EXTENDS Metrics, LatencyStats

MCPnls == {-120, -60, 0, 60, 180}
MCBounds == <<2, 20>>
MCSamples == {1, 2, 19, 20}

SessionInit == Init /\ LatencyInit

SessionNext ==
    \/ stats.count = 0 /\ Next /\ UNCHANGED latency
    \/ records = <<>> /\ LatencyNext /\ UNCHANGED vars

Session == SessionInit /\ [][SessionNext]_<<vars, latency>>
=============================================================================
