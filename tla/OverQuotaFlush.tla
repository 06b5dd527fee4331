--------------------------- MODULE OverQuotaFlush ---------------------------
(***************************************************************************)
(* The herder composed with an overQuotaCh consumer that reclaims memory   *)
(* the way spec 4.7 describes it: on each signal it forces a persister     *)
(* flush and waits for it, and the flush ends with the persister's         *)
(* onPersisterProgress callback, which takes a.m.  The consumer is not     *)
(* under src/; the herder side is AppHerder unchanged.                     *)
(***************************************************************************)
EXTENDS AppHerder

VARIABLE flushing   \* the consumer is inside a forced flush

flushVars == <<vars, flushing>>

\* Receive one signal and start a flush.
ReceiveAndFlush ==
    /\ ~flushing
    /\ ReceiveOverQuota
    /\ flushing' = TRUE

\* The flush persists every open engine; the persister then runs
\* onPersisterProgress, which needs a.m, before the consumer loops.
ForcedFlush ==
    /\ flushing /\ LockFree
    /\ flushing' = FALSE
    /\ engineSize' = [e \in Engines |-> IF e \in open THEN 0 ELSE engineSize[e]]
    /\ AwakeWaiters
    /\ UNCHANGED <<statsErr, loads, batchOn, indexes, waiting, stats, runningQueryUsed, qpc,
                   qSize, qDepth, open, persistPending, curMem, dropPending, ch,
                   budget>>

FlushInit == Init /\ flushing = FALSE

FlushNext ==
    \/ HerderNext /\ UNCHANGED flushing
    \/ ReceiveAndFlush
    \/ ForcedFlush

FlushSpec ==
    /\ FlushInit /\ [][FlushNext]_flushVars
    /\ HerderFairness
    /\ WF_flushVars(ReceiveAndFlush) /\ WF_flushVars(ForcedFlush)
=============================================================================
