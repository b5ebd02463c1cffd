------------------------------- MODULE MCEod -------------------------------
(***************************************************************************)
(* Instances of Eod: more than a year of end of days on their own, and the *)
(* days around month ends with customers and failures.                     *)
(***************************************************************************)
EXTENDS Eod

\* "1 April 2028 is a Saturday" (accrual.go), and dates return to themselves.
ASSUME CivilAssumption ==
    /\ Weekday(Date(2028, 4, 1)) = 6
    /\ \A y \in Years, m \in 1 .. 12, d \in 1 .. 28 :
           LET t == Date(y, m, d) IN Year(t) = y /\ Month(t) = m /\ Day(t) = d

MCYears == 2026 .. 2030
MCAccounts == <<"chk", "sav", "sus">>
MCProductOf == [chk |-> "CHK01", sav |-> "SAV01", sus |-> "SUSPENSE"]
MCOpening == <<[acct |-> "chk", amount |-> 110000], [acct |-> "sav", amount |-> 2000]>>
MCPostAmounts == {13000, -13000}
MCOffsets == {-5}

\* From 20 December 2027: a Saturday 1 January, and a leap year.
Long == [from |-> Date(2027, 12, 20), days |-> 385, acts |-> 0]

\* From the last business day of a month to the first of the next, and those of
\* February and March 2028 with two acts.  A posting of 13000 on 30 April 2027
\* makes a tie.
MCWindows == {Long,
              [from |-> Date(2027, 4, 30), days |-> 3, acts |-> 1],
              [from |-> Date(2027, 12, 31), days |-> 3, acts |-> 1],
              [from |-> Date(2028, 2, 29), days |-> 1, acts |-> 1],
              [from |-> Date(2028, 2, 29), days |-> 0, acts |-> 2],
              [from |-> Date(2028, 3, 1), days |-> 0, acts |-> 2]}

\* April 2028 ends on a Sunday.
MCFeeWindows == {[from |-> Date(2028, 4, 27), days |-> 6, acts |-> 0]}
=============================================================================
