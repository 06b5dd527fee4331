--------------------------- MODULE StatsObserver ---------------------------
(***************************************************************************)
(* The herder composed with a caller of Stats() (part_000, lines 92-99).   *)
(* Stats() builds its map from four separate atomic loads, evaluated in    *)
(* the lexical order of the map literal; the gate's goroutines update the  *)
(* counters between them.  The herder side is AppHerder unchanged.         *)
(***************************************************************************)
EXTENDS AppHerder, Sequences

VARIABLES
    rpc,   \* index in LoadOrder of the load Stats() makes next; past the
           \* end once it has returned
    snap   \* the values Stats() has loaded so far

obsVars == <<vars, rpc, snap>>

\* The map literal's values, in the order Go evaluates their loads.
LoadOrder == <<"TotWaitingIn", "TotWaitingOut",
               "TotOnBatchExecuteStartBeg", "TotOnBatchExecuteStartEnd">>

Returned == rpc > Len(LoadOrder)

\* One atomic.LoadUint64 of the map literal.
StatsLoad ==
    /\ ~Returned
    /\ snap' = [snap EXCEPT ![LoadOrder[rpc]] = stats[LoadOrder[rpc]]]
    /\ rpc' = rpc + 1
    /\ UNCHANGED vars

\* The next call of Stats().
StatsCall ==
    /\ Returned
    /\ rpc' = 1
    /\ snap' = [f \in StatNames |-> 0]
    /\ UNCHANGED vars

ObsInit == Init /\ rpc = 1 /\ snap = [f \in StatNames |-> 0]

ObsNext ==
    \/ Next /\ UNCHANGED <<rpc, snap>>
    \/ StatsLoad
    \/ StatsCall

ObsSpec == ObsInit /\ [][ObsNext]_obsVars

\* What Stats() returns satisfies spec 8.6 as a test reading it would
\* check: no more batches have left the gate than entered it, and no more
\* waiters have left the wait than entered it.
StatsSnapshotOrdered ==
    Returned =>
        /\ snap.TotOnBatchExecuteStartEnd <= snap.TotOnBatchExecuteStartBeg
        /\ snap.TotWaitingOut <= snap.TotWaitingIn
=============================================================================
