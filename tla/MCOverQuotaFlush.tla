-------------------------- MODULE MCOverQuotaFlush --------------------------
(* Model values for checking OverQuotaFlush with TLC: a single index       *)
(* goroutine, engine and query goroutine suffice for the wedge.           *)
EXTENDS OverQuotaFlush, TLC

CONSTANTS w1, e1, q1

MCWorkers == {w1}
MCEngines == {e1}
MCQueriers == {q1}
=============================================================================
