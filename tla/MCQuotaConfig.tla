--------------------------- MODULE MCQuotaConfig ---------------------------
(* Inputs of newAppHerder for checking QuotaConfig at WordBits = 4: int64  *)
(* values are -8..7 and memQuota ranges over the whole uint64 0..15.       *)
EXTENDS QuotaConfig

\* Every uint64 memQuota.
MCAllMemQuotas == 0..(Word - 1)

\* Negative, zero and unit ratios, and 1.5, a ratio above 1.0.
MCSignPercents == {-100, 0, 100, 150}
=============================================================================
