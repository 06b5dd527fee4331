------------------------------- MODULE GoInt --------------------------------
(***************************************************************************)
(* Go's 64-bit integer conversions, at a width of WordBits bits so that    *)
(* TLC can reach the boundaries: uint64 values are 0..Word-1 and int64     *)
(* values MinInt64..MaxInt64.                                              *)
(***************************************************************************)
EXTENDS Integers

CONSTANT WordBits

ASSUME WordBits \in Nat \ {0}

Word == 2^WordBits
MinInt64 == -(Word \div 2)
MaxInt64 == Word \div 2 - 1

\* Go's int64(x) of a uint64 x: two's complement reinterpretation.
ToInt64(x) == IF x >= Word \div 2 THEN x - Word ELSE x

\* Truncating division, as a float64 to integer conversion truncates.
TruncDiv(a, b) == IF a >= 0 THEN a \div b ELSE -((-a) \div b)

\* float64(x) * ratio truncated, with ratio = p / 100.  The percentages
\* used are exact binary fractions, so the float product is exact.
ScaleQuota(x, p) == TruncDiv(x * p, 100)

\* Go's int64(f) of a float64 with integral part v.  Out of range, the
\* result is implementation-dependent: amd64's CVTTSD2SQ yields MinInt64,
\* arm64's FCVTZS saturates.  The set holds what the two builds produce.
Int64OfFloat(v) ==
    IF MinInt64 <= v /\ v <= MaxInt64 THEN {v}
    ELSE IF v > MaxInt64 THEN {MinInt64, MaxInt64}
    ELSE {MinInt64}
=============================================================================
