----------------------------- MODULE MoneyCalc -----------------------------
(***************************************************************************)
(* A caller of internal/money that keeps an amount and an operand and      *)
(* combines them with New, Add, Sub and Neg in any order.  "exact" records *)
(* whether every result so far was the one of integer arithmetic.          *)
(***************************************************************************)
EXTENDS Money

VARIABLES amount,    \* Minor of the amount being computed
          operand,   \* Minor of the operand
          exact      \* has no operation returned a wrong amount

calc == <<amount, operand, exact>>

CalcInit == /\ amount = 0
            /\ operand = 0
            /\ exact = TRUE

\* New(minor, c), for the operand.
New(minor) == /\ Representable(minor)
              /\ operand' = minor
              /\ UNCHANGED <<amount, exact>>

\* Add reports ErrOverflow and leaves both amounts alone, or returns the sum.
Add == /\ ~Overflows(amount, operand)
       /\ amount' = Wrap(amount + operand)
       /\ exact' = (exact /\ amount' = amount + operand)
       /\ UNCHANGED operand

\* Sub is Add of the negated operand.
Sub == /\ ~Overflows(amount, Neg(operand))
       /\ amount' = Wrap(amount + Neg(operand))
       /\ exact' = (exact /\ amount' = amount - operand)
       /\ UNCHANGED operand

Negate == /\ amount' = Neg(amount)
          /\ exact' = (exact /\ amount' = -amount)
          /\ UNCHANGED operand

\* The caller starts a new computation with the result as its operand.
Reuse == /\ operand' = amount
         /\ amount' = operand
         /\ UNCHANGED exact

CalcNext == \/ \E minor \in Int64 : New(minor)
            \/ Add
            \/ Sub
            \/ Negate
            \/ Reuse

CalcSpec == CalcInit /\ [][CalcNext]_calc

-----------------------------------------------------------------------------
\* Amounts stay within the machine's integers.
CalcTypeOK == /\ amount \in Int64
              /\ operand \in Int64
              /\ exact \in BOOLEAN

\* Add's sign test reports an overflow exactly when the exact sum does not fit
\* in int64: "never wrapped silently" (ErrOverflow), and never a false alarm
\* that would refuse a legal posting.
OverflowIsExact == Overflows(amount, operand) <=> amount + operand \notin Int64

\* Sub inherits that exactness from Neg, for every operand New can build.
SubIsExact ==
    Representable(operand) =>
        (Overflows(amount, Neg(operand)) <=> amount - operand \notin Int64)

\* "Neg returns -a. Total, because New rejects math.MinInt64": an operation that
\* reports no error returns the right amount, unless it negates math.MinInt64,
\* which New rejects and Add can build.
OnlyMinIsInexact == [][exact /\ ~exact' => MinMinor \in {amount, operand}]_calc

=============================================================================
