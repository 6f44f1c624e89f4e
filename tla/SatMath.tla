------------------------------- MODULE SatMath -------------------------------
(***************************************************************************)
(* Saturating arithmetic (sat_math.hpp) over integers of a width whose     *)
(* expressions do not widen (int and wider in the code).                   *)
(*                                                                         *)
(* The C++ operators are partial here: a signed result out of range is     *)
(* undefined behaviour and an unsigned one wraps.  Undefined marks both,   *)
(* whatever happens to it afterwards, so no result may rest on one.        *)
(***************************************************************************)
EXTENDS Integers

CONSTANTS Bits, Undefined
SatMathAssumption == Bits \in Nat \ {0, 1} /\ Undefined \notin Int

VARIABLES a, b, signed, \* the operands and std::is_signed_v<T>
          result        \* what the four functions return; none yet
vars == <<a, b, signed, result>>

MinOf(s) == IF s THEN -(2 ^ (Bits - 1)) ELSE 0
MaxOf(s) == IF s THEN 2 ^ (Bits - 1) - 1 ELSE 2 ^ Bits - 1
lowest == MinOf(signed)
highest == MaxOf(signed)

\* The value of an expression of the type
Of(n) == IF n \in lowest .. highest THEN n ELSE Undefined

\* Division truncates towards zero.
Abs(n) == IF n < 0 THEN -n ELSE n
Quotient(n, d) == IF (n < 0) = (d < 0) THEN Abs(n) \div Abs(d) ELSE -(Abs(n) \div Abs(d))

-----------------------------------------------------------------------------
\* IF condition over a value that may be undefined
Limited(bound, Passed(_), limit, otherwise) ==
  IF bound = Undefined THEN Undefined ELSE IF Passed(bound) THEN limit ELSE otherwise

SatAdd ==
  CASE signed /\ a <= 0 /\ b <= 0 -> Limited(Of(lowest - b), LAMBDA n : n >= a, lowest, Of(a + b))
    [] signed /\ ~(a <= 0 /\ b <= 0) /\ (a < 0 \/ b < 0) -> Of(a + b)
    [] OTHER -> Limited(Of(highest - b), LAMBDA n : n <= a, highest, Of(a + b))

SatSub ==
  CASE signed /\ a < 0 /\ b <= 0 -> Of(a - b)
    [] signed /\ a < 0 /\ b > 0 -> Limited(Of(lowest + b), LAMBDA n : n >= a, lowest, Of(a - b))
    [] signed /\ a >= 0 /\ b < 0 -> Limited(Of(highest + b), LAMBDA n : n <= a, highest, Of(a - b))
    [] ~signed /\ b >= a -> 0
    [] OTHER -> Of(a - b)

\* Seeded bug: the lower limit is divided by the negative operand.
SatMulByNegative ==
  CASE a = 0 \/ b = 0 -> 0
    [] a < 0 /\ b < 0 -> Limited(Of(Quotient(highest, b)), LAMBDA n : n > a, highest, Of(a * b))
    [] a < 0 /\ b > 0 -> Limited(Of(Quotient(lowest, a)), LAMBDA n : n > b, lowest, Of(a * b))
    [] a > 0 /\ b < 0 -> Limited(Of(Quotient(lowest, a)), LAMBDA n : n > b, lowest, Of(a * b))
    [] OTHER -> Limited(Of(Quotient(highest, b)), LAMBDA n : n < a, highest, Of(a * b))

SatMul ==
  CASE a = 0 \/ b = 0 -> 0
    [] a < 0 /\ b < 0 -> Limited(Of(Quotient(highest, b)), LAMBDA n : n > a, highest, Of(a * b))
    [] a < 0 /\ b > 0 -> Limited(Of(Quotient(lowest, b)), LAMBDA n : n > a, lowest, Of(a * b))
    [] a > 0 /\ b < 0 -> Limited(Of(Quotient(lowest, a)), LAMBDA n : n > b, lowest, Of(a * b))
    [] OTHER -> Limited(Of(Quotient(highest, b)), LAMBDA n : n < a, highest, Of(a * b))

\* b # 0, as for the operator
SatDiv == IF signed /\ a = lowest /\ b = -1 THEN highest ELSE Of(Quotient(a, b))

-----------------------------------------------------------------------------
Pending == <<>>
Init == /\ signed \in BOOLEAN /\ result = Pending
        /\ a \in MinOf(signed) .. MaxOf(signed) /\ b \in MinOf(signed) .. MaxOf(signed)

Compute ==
  /\ result = Pending
  /\ result' = <<SatAdd, SatSub, SatMul, IF b = 0 THEN Undefined ELSE SatDiv>>
  /\ UNCHANGED <<a, b, signed>>

Next == Compute
Spec == Init /\ [][Next]_vars

-----------------------------------------------------------------------------
Clamped(n) == IF n < lowest THEN lowest ELSE IF n > highest THEN highest ELSE n

\* Every function returns the exact result clamped to the type, and none of its
\* comparisons overflows on the way, at every pair of operands (sat_math.hpp:28-110).
ResultsAreClamped ==
  result # Pending =>
    /\ result[1] = Clamped(a + b) /\ result[2] = Clamped(a - b) /\ result[3] = Clamped(a * b)
    /\ b # 0 => result[4] = Clamped(Quotient(a, b))
=============================================================================
