----------------------------- MODULE PeriodText -----------------------------
(***************************************************************************)
(* The text of a period, as store.Period formats it and the backends       *)
(* compare it.  A month is numbered from January of year 0; its text is    *)
(* the sequence of the characters of YYYY-MM-DD, a digit as its value and  *)
(* the dash, which sorts below every digit, as -1.                         *)
(***************************************************************************)
EXTENDS Integers, Sequences

Digit(n, unit) == (n \div unit) % 10

Dash == -1

\* Go prints a year with four digits, or with as many as it needs.
YearText(y) ==
    IF y < 10000
    THEN <<Digit(y, 1000), Digit(y, 100), Digit(y, 10), Digit(y, 1)>>
    ELSE <<Digit(y, 10000), Digit(y, 1000), Digit(y, 100), Digit(y, 10), Digit(y, 1)>>

\* Mutant of Text: the month is printed without its leading zero.
Text_NoPadding(p) ==
    LET m == (p % 12) + 1 IN
    YearText(p \div 12) \o <<Dash>>
        \o (IF m < 10 THEN <<m>> ELSE <<1, m - 10>>) \o <<Dash, 0, 1>>

\* The first day of the month p.
Text(p) ==
    LET m == (p % 12) + 1 IN
    YearText(p \div 12) \o <<Dash, m \div 10, m % 10, Dash, 0, 1>>

\* The months of the years 0000 to 9999.
FourDigitMonths == 0..119999

\* a < b as Go compares strings: at the first place where they differ, or
\* where a has ended.
TextLess(a, b) ==
    \E k \in DOMAIN b :
      /\ k \in DOMAIN a => a[k] < b[k]
      /\ \A j \in 1..(k - 1) : j \in DOMAIN a /\ a[j] = b[j]
=============================================================================
