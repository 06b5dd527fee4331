--------------------------- MODULE AdmissionGate ---------------------------
(***************************************************************************)
(* What onBatchExecuteStart promises the engines' batch goroutines,        *)
(* without the mutex, the condition variable, the overquota channel or the *)
(* counters: a batch is admitted by a check that finds memory under quota, *)
(* or at once when indexing bypasses the herder; a check that finds it     *)
(* over quota parks the batch until a wake-up makes it check again.        *)
(*                                                                         *)
(* overQuota is the verdict overMemQuotaForIndexing gives, or will give   *)
(* on what it has read so far.  It depends on state the gate does not own  *)
(* (RSS, engine sizes, the batches in flight), so every step may change it.*)
(***************************************************************************)
CONSTANTS
    Workers,  \* batch goroutines
    Bypass    \* indexQuota < 0: every batch proceeds unchecked

VARIABLES
    status,    \* [Workers -> {"idle", "checking", "parked", "admitted"}]
    overQuota  \* the memory predicate's current verdict

vars == <<status, overQuota>>

Status == {"idle", "checking", "parked", "admitted"}

TypeOK == status \in [Workers -> Status] /\ overQuota \in BOOLEAN

Init == status = [w \in Workers |-> "idle"] /\ overQuota \in BOOLEAN

\* A batch asks to execute.
Arrive(w) ==
    /\ status[w] = "idle"
    /\ status' = [status EXCEPT ![w] = IF Bypass THEN "admitted" ELSE "checking"]
    /\ overQuota' \in BOOLEAN

\* The predicate has been evaluated; its verdict decides park or admit.
Check(w) ==
    /\ status[w] = "checking"
    /\ status' = [status EXCEPT ![w] = IF overQuota THEN "parked" ELSE "admitted"]
    /\ overQuota' \in BOOLEAN

\* A wake-up sends some parked batches back to check.
Wake(S) ==
    /\ S # {}
    /\ \A w \in S : status[w] = "parked"
    /\ status' = [w \in Workers |-> IF w \in S THEN "checking" ELSE status[w]]
    /\ overQuota' \in BOOLEAN

\* The admitted batch has executed.
Finish(w) ==
    /\ status[w] = "admitted"
    /\ status' = [status EXCEPT ![w] = "idle"]
    /\ overQuota' \in BOOLEAN

\* Memory changes outside the gate.
Environment == overQuota' \in BOOLEAN /\ UNCHANGED status

Next ==
    \/ \E w \in Workers : Arrive(w) \/ Check(w) \/ Finish(w)
    \/ \E S \in SUBSET Workers : Wake(S)
    \/ Environment

Spec == Init /\ [][Next]_vars
=============================================================================
