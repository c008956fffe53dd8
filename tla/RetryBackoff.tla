---------------------------- MODULE RetryBackoff ----------------------------
(***************************************************************************)
(* retry_delay_seconds of service.rs in the arithmetic of its integers:    *)
(* two's complement of IntWidth bits, 64 in the code.                      *)
(***************************************************************************)
EXTENDS Integers

CONSTANT IntWidth

ASSUME IntWidthAssumption == IntWidth \in Nat /\ IntWidth >= 2

MaxInt == 2^(IntWidth - 1) - 1
MinInt == -(2^(IntWidth - 1))

AtMost(a, b)  == IF a <= b THEN a ELSE b
Clamp(i, low, high) == IF i < low THEN low ELSE IF i > high THEN high ELSE i
Saturated(i) == Clamp(i, MinInt, MaxInt)

\* i64::saturating_sub, i64::saturating_mul
SaturatingSub(a, b) == Saturated(a - b)
SaturatingMul(a, b) == Saturated(a * b)

\* 1_i64.checked_shl(k).unwrap_or(i64::MAX): the top bit is the sign.
ShiftedOne(k) ==
  IF k >= IntWidth THEN MaxInt ELSE IF k = IntWidth - 1 THEN MinInt ELSE 2^k

\* Fault: clamped to the width of the shift, not to the positive powers.
ExponentToSign(attempt) == Clamp(SaturatingSub(attempt, 1), 0, IntWidth - 1)

\* .clamp(0, 62)
Exponent(attempt) == Clamp(SaturatingSub(attempt, 1), 0, IntWidth - 2)

RetryDelaySeconds(attempt, base, max) ==
  AtMost(SaturatingMul(base, ShiftedOne(Exponent(attempt))), max)
=============================================================================
