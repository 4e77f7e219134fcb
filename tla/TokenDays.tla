------------------------------ MODULE TokenDays ------------------------------
(***************************************************************************)
(* The validity of a one time token of package ott in days.  The day since *)
(* 2010 is kept in an unsigned integer of Bits bits (16), in the token and *)
(* in the comparison with today.                                           *)
(***************************************************************************)
EXTENDS Integers

CONSTANTS DayBits,  \* width of a day in bits
          Horizon   \* last day looked at

ASSUME DaysAssumption == DayBits \in Nat \ {0} /\ Horizon \in Nat

VARIABLES made, now, timeout   \* day of generation, today, TimeoutDays

daysVars == <<made, now, timeout>>

\* 2 ^ DayBits
Width ==
    LET pow[n \in 0..DayBits] == IF n = 0 THEN 1 ELSE 2 * pow[n - 1]
    IN  pow[DayBits]

DaysInit == made \in 0..Horizon /\ now \in 0..Horizon /\ timeout \in 0..(Width - 1)

\* Truncated to the width, also when negative.
Days(d) == d % Width

\* Mutant of Validate: the last day is not counted.
ValidateShort(ts, today) == Days(today - ts) < timeout

\* Today's day less the token's ts in the same width, compared with the timeout.
Validate(ts, today) == Days(today - ts) <= timeout

\* A token is valid on its day and timeout days after, and on no other day that
\* is less than 2^16 days away from those; a token from the future is not.
ValidDays ==
    now - made \in (timeout - Width + 1)..(Width - 1) =>
        (Validate(Days(made), Days(now)) <=> now - made \in 0..timeout)
=============================================================================
