-------------------------- MODULE MCStatsObserver --------------------------
(* Model values for checking StatsObserver with TLC: one index goroutine, *)
(* one engine and one query goroutine beside the Stats() caller.          *)
EXTENDS StatsObserver, TLC

CONSTANTS w1, e1, q1

MCWorkers == {w1}
MCEngines == {e1}
MCQueriers == {q1}
=============================================================================
