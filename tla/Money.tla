------------------------------- MODULE Money -------------------------------
(***************************************************************************)
(* internal/money: amounts in minor units.  The Go type is an int64; here  *)
(* the width is a parameter, MaxMinor, so that the machine's wrap-around   *)
(* is modelled and the overflow test of Add can be compared with exact     *)
(* arithmetic at every width.  One currency: the mismatch test of Add is a *)
(* guard that involves no arithmetic.                                      *)
(***************************************************************************)
EXTENDS Integers, Sequences

CONSTANT MaxMinor     \* math.MaxInt64

ASSUME MaxMinorAssumption == MaxMinor \in Nat \ {0}

MinMinor == -MaxMinor - 1                     \* math.MinInt64
Int64 == MinMinor .. MaxMinor

\* Two's complement wrap-around of the sum or the negation of int64 values.
Wrap(x) == IF x > MaxMinor THEN x - (2 * MaxMinor + 2)
           ELSE IF x < MinMinor THEN x + (2 * MaxMinor + 2)
           ELSE x

\* New rejects MinInt64, which has no positive counterpart.
Representable(minor) == minor # MinMinor

\* Mutant of Overflows: a sum of exactly zero is let through.
OverflowsMutant(x, y) == LET sum == Wrap(x + y)
                         IN  \/ x > 0 /\ y > 0 /\ sum <= 0
                             \/ x < 0 /\ y < 0 /\ sum > 0

\* The test of Add: the operands share a sign and the result does not.
Overflows(x, y) == LET sum == Wrap(x + y)
                   IN  \/ x > 0 /\ y > 0 /\ sum <= 0
                       \/ x < 0 /\ y < 0 /\ sum >= 0

\* Mutant of Neg: the complement, without the one.
NegMutant(x) == -x - 1

Neg(x) == Wrap(-x)

\* Sum adds left to right and stops at the first overflow; it is asked for the
\* sum of at least one amount.
Sum(amounts) ==
    LET failed == [ok |-> FALSE, minor |-> 0]
        acc[i \in 1 .. Len(amounts)] ==
            IF i = 1
            THEN [ok |-> TRUE, minor |-> amounts[1]]
            ELSE IF ~acc[i - 1].ok \/ Overflows(acc[i - 1].minor, amounts[i])
                 THEN failed
                 ELSE [ok |-> TRUE, minor |-> Wrap(acc[i - 1].minor + amounts[i])]
    IN  acc[Len(amounts)]
=============================================================================
