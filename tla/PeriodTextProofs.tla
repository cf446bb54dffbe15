-------------------------- MODULE PeriodTextProofs --------------------------
(***************************************************************************)
(* Periods are compared as the strings they are: proof that this is the    *)
(* order of the months while years have four digits, and that it is not    *)
(* when they have five.                                                    *)
(***************************************************************************)
EXTENDS PeriodText, TLAPS

FourDigitYears == 0..9999

\* These are the four digits of y, and those of a month's text.
YearDigits(y, a1, a2, a3, a4) ==
    /\ y = 1000 * a1 + 100 * a2 + 10 * a3 + a4
    /\ Digit(y, 1000) = a1 /\ Digit(y, 100) = a2
    /\ Digit(y, 10) = a3 /\ Digit(y, 1) = a4

TextDigits(p, a1, a2, a3, a4, a6, a7) ==
    /\ 10 * a6 + a7 \in 1..12
    /\ p = 12 * (1000 * a1 + 100 * a2 + 10 * a3 + a4) + 10 * a6 + a7 - 1
    /\ DOMAIN Text(p) = 1..10
    /\ Text(p)[1] = a1 /\ Text(p)[2] = a2 /\ Text(p)[3] = a3 /\ Text(p)[4] = a4
    /\ Text(p)[5] = Dash /\ Text(p)[6] = a6 /\ Text(p)[7] = a7
    /\ Text(p)[8] = Dash /\ Text(p)[9] = 0 /\ Text(p)[10] = 1

\* A number below 10000 is the value of its four digits.
LEMMA DigitsOfYear ==
    ASSUME NEW n \in FourDigitYears
    PROVE  \E a1, a2, a3, a4 \in 0..9 : YearDigits(n, a1, a2, a3, a4)
<1>1. n \in Nat /\ n <= 9999
  BY DEF FourDigitYears
<1>2. n \div 1 = n
  BY <1>1
<1>3. n \div 1000 \in 0..9
  BY <1>1
<1>4. (n \div 1000) % 10 = n \div 1000
  BY <1>3
<1>5. n = 10 * (n \div 10) + (n % 10)
  BY <1>1
<1>6. n \div 10 = 10 * (n \div 100) + ((n \div 10) % 10)
  BY <1>1
<1>7. n \div 100 = 10 * (n \div 1000) + ((n \div 100) % 10)
  BY <1>1
<1>8. n % 10 \in 0..9 /\ (n \div 10) % 10 \in 0..9 /\ (n \div 100) % 10 \in 0..9
  BY <1>1
<1> DEFINE a1 == n \div 1000
           a2 == (n \div 100) % 10
           a3 == (n \div 10) % 10
           a4 == n % 10
<1>9. n = 1000 * a1 + 100 * a2 + 10 * a3 + a4
  BY <1>1, <1>5, <1>6, <1>7
<1>10. /\ Digit(n, 1000) = a1 /\ Digit(n, 100) = a2
       /\ Digit(n, 10) = a3 /\ Digit(n, 1) = a4
  BY <1>2, <1>4 DEF Digit
<1>11. a1 \in 0..9 /\ a2 \in 0..9 /\ a3 \in 0..9 /\ a4 \in 0..9
  BY <1>3, <1>8
<1> HIDE DEF a1, a2, a3, a4
<1>12. YearDigits(n, a1, a2, a3, a4)
  BY <1>9, <1>10 DEF YearDigits
<1> QED  BY <1>11, <1>12

\* The month within the year, as two digits.
LEMMA DigitsOfMonth ==
    ASSUME NEW p \in FourDigitMonths
    PROVE  LET m == (p % 12) + 1 IN
           /\ p \div 12 \in 0..9999
           /\ m \in 1..12 /\ p = 12 * (p \div 12) + m - 1
           /\ m \div 10 \in 0..9 /\ m % 10 \in 0..9 /\ m = 10 * (m \div 10) + (m % 10)
<1> DEFINE m == (p % 12) + 1
<1>1. p \in Nat /\ p <= 119999
  BY DEF FourDigitMonths
<1>2. p \div 12 \in 0..9999
  BY <1>1
<1>3. p % 12 \in 0..11 /\ p = 12 * (p \div 12) + (p % 12)
  BY <1>1
<1>4. m \in 1..12
  BY <1>3
<1>5. p = 12 * (p \div 12) + m - 1
  BY <1>1, <1>2, <1>3
<1> HIDE DEF m
<1>6. m \div 10 \in 0..9
  BY <1>4
<1>7. m % 10 \in 0..9 /\ m = 10 * (m \div 10) + (m % 10)
  BY <1>4
<1> QED  BY <1>2, <1>4, <1>5, <1>6, <1>7 DEF m

\* The characters of two strings joined.
LEMMA Joined ==
    ASSUME NEW a1 \in Int, NEW a2 \in Int, NEW a3 \in Int, NEW a4 \in Int,
           NEW b1 \in Int, NEW b2 \in Int, NEW b3 \in Int,
           NEW b4 \in Int, NEW b5 \in Int, NEW b6 \in Int
    PROVE  LET t == <<a1, a2, a3, a4>> \o <<b1, b2, b3, b4, b5, b6>> IN
           /\ DOMAIN t = 1..10
           /\ t[1] = a1 /\ t[2] = a2 /\ t[3] = a3 /\ t[4] = a4 /\ t[5] = b1
           /\ t[6] = b2 /\ t[7] = b3 /\ t[8] = b4 /\ t[9] = b5 /\ t[10] = b6
OBVIOUS

\* The characters of a text.
LEMMA Characters ==
    ASSUME NEW p \in FourDigitMonths
    PROVE  LET y == p \div 12  m == (p % 12) + 1  t == Text(p) IN
           /\ DOMAIN t = 1..10
           /\ t[1] = Digit(y, 1000) /\ t[2] = Digit(y, 100)
           /\ t[3] = Digit(y, 10) /\ t[4] = Digit(y, 1)
           /\ t[5] = Dash /\ t[6] = m \div 10 /\ t[7] = m % 10
           /\ t[8] = Dash /\ t[9] = 0 /\ t[10] = 1
<1> DEFINE y == p \div 12
           m == (p % 12) + 1
<1>1. y \in 0..9999 /\ m \in 1..12 /\ m \div 10 \in 0..9 /\ m % 10 \in 0..9
  BY DigitsOfMonth
<1>2. Text(p) = YearText(y) \o <<Dash, m \div 10, m % 10, Dash, 0, 1>>
  BY DEF Text
<1> HIDE DEF y, m
<1>3. YearText(y) = <<Digit(y, 1000), Digit(y, 100), Digit(y, 10), Digit(y, 1)>>
  BY <1>1 DEF YearText
<1>4. /\ Digit(y, 1000) \in Int /\ Digit(y, 100) \in Int
      /\ Digit(y, 10) \in Int /\ Digit(y, 1) \in Int
  BY <1>1 DEF Digit
<1>5. Dash \in Int /\ m \div 10 \in Int /\ m % 10 \in Int
  BY <1>1 DEF Dash
<1>6. Text(p) = <<Digit(y, 1000), Digit(y, 100), Digit(y, 10), Digit(y, 1)>>
                  \o <<Dash, m \div 10, m % 10, Dash, 0, 1>>
  BY <1>2, <1>3
<1>7. /\ DOMAIN Text(p) = 1..10
      /\ Text(p)[1] = Digit(y, 1000) /\ Text(p)[2] = Digit(y, 100)
      /\ Text(p)[3] = Digit(y, 10) /\ Text(p)[4] = Digit(y, 1)
      /\ Text(p)[5] = Dash /\ Text(p)[6] = m \div 10 /\ Text(p)[7] = m % 10
      /\ Text(p)[8] = Dash /\ Text(p)[9] = 0 /\ Text(p)[10] = 1
  BY <1>4, <1>5, <1>6, Joined
<1> QED  BY <1>7 DEF y, m

\* The beginning of a string, and two strings joined.
LEMMA Prefix ==
    ASSUME NEW S, NEW t \in Seq(S), NEW n \in Nat, n <= Len(t)
    PROVE  LET s == SubSeq(t, 1, n) IN
           /\ s \in Seq(S) /\ Len(s) = n
           /\ s \in [1..n -> S]
           /\ \A k \in 1..n : s[k] = t[k]
<1>1. SubSeq(t, 1, n) \in Seq(S) /\ Len(SubSeq(t, 1, n)) = n
  OBVIOUS
<1>2. \A k \in 1..n : SubSeq(t, 1, n)[k] = t[k]
  OBVIOUS
<1>3. SubSeq(t, 1, n) \in [1..n -> S]
  <2>1. \A u \in Seq(S) : u \in [1..Len(u) -> S]
    OBVIOUS
  <2> QED  BY <1>1, <2>1, Zenon
<1> QED  BY <1>1, <1>2, <1>3

LEMMA Joins ==
    ASSUME NEW S, NEW a \in Seq(S), NEW b \in Seq(S)
    PROVE  /\ a \o b \in Seq(S) /\ Len(a \o b) = Len(a) + Len(b)
           /\ \A k \in 1..Len(a) : (a \o b)[k] = a[k]
           /\ \A k \in 1..Len(b) : (a \o b)[Len(a) + k] = b[k]
<1>1. a \o b \in Seq(S) /\ Len(a \o b) = Len(a) + Len(b)
  OBVIOUS
<1>2. \A k \in 1..Len(a) : (a \o b)[k] = a[k]
  OBVIOUS
<1>3. \A k \in 1..Len(b) : (a \o b)[Len(a) + k] = b[k]
  OBVIOUS
<1> QED  BY <1>1, <1>2, <1>3

\* A text is a string of ten characters.
LEMMA TextIsString ==
    ASSUME NEW p \in FourDigitMonths
    PROVE  Text(p) \in Seq(Int) /\ Len(Text(p)) = 10
<1> DEFINE y == p \div 12
           m == (p % 12) + 1
           a == <<Digit(y, 1000), Digit(y, 100), Digit(y, 10), Digit(y, 1)>>
           b == <<Dash, m \div 10, m % 10, Dash, 0, 1>>
<1>1. y \in 0..9999 /\ m \in 1..12 /\ m \div 10 \in 0..9 /\ m % 10 \in 0..9
  BY DigitsOfMonth
<1>2. Text(p) = YearText(y) \o b
  BY DEF Text
<1> HIDE DEF y, m
<1>3. YearText(y) = a
  BY <1>1 DEF YearText
<1>4. a \in Seq(Int) /\ Len(a) = 4
  BY <1>1 DEF Digit
<1>5. b \in Seq(Int) /\ Len(b) = 6
  BY <1>1 DEF Dash
<1> HIDE DEF a, b
<1>6. a \o b \in Seq(Int) /\ Len(a \o b) = Len(a) + Len(b)
  BY <1>4, <1>5, Joins, Zenon
<1>7. Text(p) = a \o b
  BY <1>2, <1>3
<1> QED  BY <1>4, <1>5, <1>6, <1>7

\* A month is the value of the digits in its text.
LEMMA ValueOfText ==
    ASSUME NEW p \in FourDigitMonths
    PROVE  \E a1, a2, a3, a4, a6, a7 \in 0..9 : TextDigits(p, a1, a2, a3, a4, a6, a7)
<1> DEFINE y == p \div 12
           m == (p % 12) + 1
<1>1. /\ y \in 0..9999 /\ m \in 1..12 /\ p = 12 * y + m - 1
      /\ m \div 10 \in 0..9 /\ m % 10 \in 0..9 /\ m = 10 * (m \div 10) + (m % 10)
  BY DigitsOfMonth
<1>2. /\ DOMAIN Text(p) = 1..10
      /\ Text(p)[1] = Digit(y, 1000) /\ Text(p)[2] = Digit(y, 100)
      /\ Text(p)[3] = Digit(y, 10) /\ Text(p)[4] = Digit(y, 1)
      /\ Text(p)[5] = Dash /\ Text(p)[6] = m \div 10 /\ Text(p)[7] = m % 10
      /\ Text(p)[8] = Dash /\ Text(p)[9] = 0 /\ Text(p)[10] = 1
  BY Characters
<1> HIDE DEF y, m
<1>3. PICK a1, a2, a3, a4 \in 0..9 : YearDigits(y, a1, a2, a3, a4)
  <2>1. y \in FourDigitYears
    BY <1>1 DEF FourDigitYears
  <2> QED  BY <2>1, DigitsOfYear, Zenon
<1> DEFINE a6 == m \div 10
           a7 == m % 10
<1>4. a6 \in 0..9 /\ a7 \in 0..9 /\ m = 10 * a6 + a7
  BY <1>1
<1> HIDE DEF a6, a7
<1>5. 10 * a6 + a7 \in 1..12
  BY <1>1, <1>4
<1>6. p = 12 * (1000 * a1 + 100 * a2 + 10 * a3 + a4) + 10 * a6 + a7 - 1
  BY <1>1, <1>3, <1>4 DEF YearDigits
<1>7. /\ Text(p)[1] = a1 /\ Text(p)[2] = a2 /\ Text(p)[3] = a3 /\ Text(p)[4] = a4
      /\ Text(p)[6] = a6 /\ Text(p)[7] = a7
  BY <1>2, <1>3 DEF YearDigits, a6, a7
<1>8. TextDigits(p, a1, a2, a3, a4, a6, a7)
  BY <1>2, <1>5, <1>6, <1>7 DEF TextDigits
<1> QED  BY <1>3, <1>4, <1>8, Zenon

\* Comparing the strings of two periods, as the in-memory backend does, is
\* comparing the months, for all years of four digits.
THEOREM TextOrderIsMonthOrder ==
    \A p, q \in FourDigitMonths : TextLess(Text(p), Text(q)) <=> p < q
<1> TAKE p, q \in FourDigitMonths
<1> DEFINE s == Text(p)
           t == Text(q)
<1>1. PICK a1, a2, a3, a4, a6, a7 \in 0..9 : TextDigits(p, a1, a2, a3, a4, a6, a7)
  BY ValueOfText, Zenon
<1>2. PICK b1, b2, b3, b4, b6, b7 \in 0..9 : TextDigits(q, b1, b2, b3, b4, b6, b7)
  BY ValueOfText, Zenon
<1> USE DEF TextDigits
<1>3. p < q <=>
        \/ a1 < b1
        \/ a1 = b1 /\ a2 < b2
        \/ a1 = b1 /\ a2 = b2 /\ a3 < b3
        \/ a1 = b1 /\ a2 = b2 /\ a3 = b3 /\ a4 < b4
        \/ a1 = b1 /\ a2 = b2 /\ a3 = b3 /\ a4 = b4 /\ a6 < b6
        \/ a1 = b1 /\ a2 = b2 /\ a3 = b3 /\ a4 = b4 /\ a6 = b6 /\ a7 < b7
  BY <1>1, <1>2
<1>4. TextLess(s, t) <=>
        \E k \in 1..10 : s[k] < t[k] /\ \A j \in 1..(k - 1) : s[j] = t[j]
  BY <1>1, <1>2 DEF TextLess
<1>5. ~(s[5] < t[5]) /\ ~(s[8] < t[8]) /\ ~(s[9] < t[9]) /\ ~(s[10] < t[10])
  BY <1>1, <1>2 DEF Dash
<1>6. ASSUME NEW k \in 1..10, s[k] < t[k], \A j \in 1..(k - 1) : s[j] = t[j]
      PROVE  p < q
  BY <1>1, <1>2, <1>3, <1>5, <1>6
<1>7. ASSUME p < q
      PROVE  \E k \in 1..10 : s[k] < t[k] /\ \A j \in 1..(k - 1) : s[j] = t[j]
  BY <1>1, <1>2, <1>3, <1>7
<1> QED  BY <1>4, <1>6, <1>7 DEF s, t

\* The limit of it: December 9999 is not before January 10000, since a year of
\* five digits is compared with the four of another from the left.
THEOREM TextOrderEnds == ~TextLess(Text(119999), Text(120000))
<1>1. DOMAIN Text(119999) = 1..10 /\ Text(119999)[1] = 9
  <2>1. 119999 \in FourDigitMonths
    BY DEF FourDigitMonths
  <2>2. DOMAIN Text(119999) = 1..10 /\ Text(119999)[1] = Digit(119999 \div 12, 1000)
    BY <2>1, Characters
  <2> QED  BY <2>2 DEF Digit
<1>2. Text(120000)[1] = 1
  BY DEF Text, YearText, Digit, Dash
<1>3. ASSUME NEW k \in DOMAIN Text(120000)
      PROVE  ~ /\ k \in DOMAIN Text(119999) => Text(119999)[k] < Text(120000)[k]
               /\ \A j \in 1..(k - 1) : j \in DOMAIN Text(119999)
                                         /\ Text(119999)[j] = Text(120000)[j]
  <2>1. CASE k = 1   BY <1>1, <1>2, <2>1
  <2>2. CASE k # 1
    <3>1. DOMAIN Text(120000) \subseteq Nat \ {0}
      BY DEF Text, YearText, Digit, Dash
    <3>2. 1 \in 1..(k - 1)
      BY <2>2, <3>1
    <3> QED  BY <1>1, <1>2, <3>2
  <2> QED  BY <2>1, <2>2
<1> QED  BY <1>3 DEF TextLess
=============================================================================
