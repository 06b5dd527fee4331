---------------------------- MODULE QuotaConfig ----------------------------
(***************************************************************************)
(* newAppHerder's derivation of the three quotas (src/unnamed/part_000,    *)
(* lines 56-90) over every memQuota and ratio of a small range, and what  *)
(* the quotas' signs make of the two admission paths.  Ratios are given as *)
(* percentages.                                                            *)
(***************************************************************************)
EXTENDS Integers, GoInt

CONSTANTS
    MemQuotas,   \* uint64 values passed as memQuota
    Percents     \* ratios * 100 passed as appRatio, indexRatio, queryRatio

ASSUME /\ MemQuotas \subseteq 0..(Word - 1)
       /\ Percents \subseteq Int

Classes == {"app", "index", "query"}

VARIABLES
    configured,  \* newAppHerder has returned
    memQuota,    \* its memQuota argument
    ratio,       \* [Classes -> percentage] of its ratio arguments
    appQuota, indexQuota, queryQuota   \* the herder's int64 fields

vars == <<configured, memQuota, ratio, appQuota, indexQuota, queryQuota>>

\* newAppHerder: int64(memQuota), then each int64(float64(q) * ratio).
NewAppHerder(m, r) ==
    /\ ~configured
    /\ configured' = TRUE
    /\ memQuota' = m /\ ratio' = r
    /\ appQuota' \in Int64OfFloat(ScaleQuota(ToInt64(m), r["app"]))
    /\ indexQuota' \in Int64OfFloat(ScaleQuota(appQuota', r["index"]))
    /\ queryQuota' \in Int64OfFloat(ScaleQuota(appQuota', r["query"]))

\* onBatchExecuteStart can block: indexQuota is not negative (line 134) and
\* one of the two tests of overMemQuotaForIndexingLOCKED can be true.
IndexingGated == indexQuota >= 0 /\ (indexQuota > 0 \/ appQuota > 0)

\* onQueryStart can reject: queryQuota is not negative (line 253) and one
\* of its two tests can be true.
QueryingGated == queryQuota >= 0 /\ (queryQuota > 0 \/ appQuota > 0)

Init ==
    /\ configured = FALSE
    /\ memQuota = 0
    /\ ratio = [c \in Classes |-> 0]
    /\ appQuota = 0 /\ indexQuota = 0 /\ queryQuota = 0

Next ==
    \/ \E m \in MemQuotas, r \in [Classes -> Percents] : NewAppHerder(m, r)
    \/ configured /\ UNCHANGED vars

Spec == Init /\ [][Next]_vars

\* Spec section 3's sign conventions hold for the quotas newAppHerder
\* stores: ratios that are all non-negative (spec 4.1's inputs) never make
\* indexing or querying bypass the herder (a negative quota, lines 134 and
\* 253), and a negative appQuota ("<0 additionally causes subordinate
\* quotas (index, query) to be bypassed entirely") leaves neither class
\* with a test that can block or reject.
QuotaSignsAsSpecified ==
    configured =>
        /\ (\A c \in Classes : ratio[c] >= 0) => indexQuota >= 0 /\ queryQuota >= 0
        /\ appQuota < 0 => ~IndexingGated /\ ~QueryingGated
=============================================================================
