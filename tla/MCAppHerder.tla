---------------------------- MODULE MCAppHerder ----------------------------
(* Model values and bounds for checking AppHerder with TLC.                *)
EXTENDS AppHerder, TLC

CONSTANTS w1, w2, w3, e1, e2, q1, q2

MCWorkers == {w1, w2}

\* Three batch goroutines: a Broadcast wakes two waiters while a third tests.
MCWorkers3 == {w1, w2, w3}
MCEngines == {e1, e2}
MCQueriers == {q1, q2}

\* A negative ratio (cfg files have no negative literals): the ratio
\* that disables a quota class together with appQuota.
MCNegativePercent == -50

\* Workers and queriers are interchangeable goroutines.
MCSymmetry == Permutations(MCWorkers3) \cup Permutations(MCQueriers)
=============================================================================
