---------------------- MODULE GregorianCalendar_proofs ----------------------
(***************************************************************************)
(* Theorems about GregorianCalendar: day numbers and dates correspond, the *)
(* order of days is the order of dates, and what adding months does.  They *)
(* hold for every day, not only for the days of a model.  The provers have *)
(* no induction here: that every day lies in a year is shown by splitting  *)
(* its number into eras of 400 years, centuries, fours of years and years. *)
(***************************************************************************)
EXTENDS GregorianCalendar, TLAPS

\* The days of a common year, of four years, a century and 400 years: as many as
\* any such period has at least, the last two without and with its leap years.
Year == 365
Quad == 1461
Century == 36524
Era == 146097

DayOfYear == 0..Year

LeapDay(y) == IF IsLeapYear(y) THEN 1 ELSE 0

InYear(y, n) == DaysBeforeYear(y) <= n /\ n < DaysBeforeYear(y + 1)

InMonth(y, m, rest) ==
    DaysBeforeMonth(y, m) <= rest /\ rest < DaysBeforeMonth(y, m) + DaysInMonth(y, m)

IsDate(y, m, d) == y \in Nat /\ y >= 1 /\ m \in 1..12 /\ d \in 1..DaysInMonth(y, m)

\* The two choices of DateOf.
YearOf(n) ==
    CHOOSE y \in ((n \div 366) + 1)..((n \div 365) + 1) :
        DaysBeforeYear(y) <= n /\ n < DaysBeforeYear(y + 1)

MonthOf(y, rest) ==
    CHOOSE m \in 1..12 :
        DaysBeforeMonth(y, m) <= rest /\ rest < DaysBeforeMonth(y, m) + DaysInMonth(y, m)

\* Months counted from the beginning of the year 0.
MonthIndex(n) == 12 * DateOf(n).year + DateOf(n).month

----------------------------------------------------------------------------
(* Every day lies in a year *)

\* The year after w years of an era.
EraYear(a, w, y) == y = (400 * a + w) + 1

LEMMA DaysBeforeEraYear ==
  ASSUME NEW a \in Nat, NEW w \in 0..399, NEW y, EraYear(a, w, y)
  PROVE  DaysBeforeYear(y) = Era * a + ((365 * w + (w \div 4)) - (w \div 100))
  <1>1. (y - 1) = 400 * a + w
    BY SMT DEF EraYear
  <1>2. (400 * a + w) \div 400 = a
    BY SMT
  <1>4. (400 * a + w) \div 100 = 4 * a + (w \div 100)
    <2>1. CASE w \in 0..99
      BY <2>1, SMT
    <2>2. CASE w \in 100..199
      BY <2>2, SMT
    <2>3. CASE w \in 200..299
      BY <2>3, SMT
    <2>4. CASE w \in 300..399
      BY <2>4, SMT
    <2> QED BY <2>1, <2>2, <2>3, <2>4, SMT
  <1>5. (400 * a + w) \div 4 = 100 * a + (w \div 4)
    BY SMT
  <1>3. DaysBeforeYear(y) = ((365 * (400 * a + w) + (100 * a + (w \div 4))) - (4 * a + (w \div 100))) + a
    BY <1>1, <1>2, <1>4, <1>5, SMT DEF DaysBeforeYear
  <1>7. (w \div 4) \in Int /\ (w \div 100) \in Int
    BY SMT
  <1> DEFINE p == w \div 4
             q == w \div 100
             from == ((365 * (400 * a + w) + (100 * a + p)) - (4 * a + q)) + a
             to == Era * a + ((365 * w + p) - q)
  <1>9. from = to
    <2>1. p \in Int /\ q \in Int
      BY <1>7
    <2> HIDE DEF p, q
    <2> QED BY <2>1, SMT DEF Era
  <1>10. DaysBeforeYear(y) = from
    BY <1>3, SMT
  <1> SUFFICES DaysBeforeYear(y) = to
    OBVIOUS
  <1> HIDE DEF from, to
  <1> QED BY <1>9, <1>10

\* The year after so many eras, centuries, fours of years and years.
CycleYear(a, b, c, d, y) == y = (400 * a + (100 * b + (4 * c + d))) + 1

LEMMA DaysBeforeCycleYear ==
  ASSUME NEW a \in Nat, NEW b \in 0..3, NEW c \in 0..24, NEW d \in 0..3,
         NEW y, CycleYear(a, b, c, d, y)
  PROVE  y \in Nat /\ y >= 1 /\ DaysBeforeYear(y) = Era * a + (Century * b + (Quad * c + 365 * d))
  <1> DEFINE v == 4 * c + d
             w == 100 * b + v
  <1>1. v \in 0..99
    BY SMT
  <1>2. 365 * v + (v \div 4) = Quad * c + 365 * d
    BY SMT DEF Quad
  <1> HIDE DEF v
  <1>8. w = 100 * b + v
    OBVIOUS
  <1>3. w \in 0..399
    BY <1>1, SMT
  <1>7. y = (400 * a + w) + 1
    BY Zenon DEF CycleYear, v
  <1> HIDE DEF w
  <1>4. (365 * w + (w \div 4)) - (w \div 100) = Century * b + (365 * v + (v \div 4))
    <2>1. w \div 100 = b
      BY <1>1, <1>8, SMT
    <2>2. w \div 4 = 25 * b + (v \div 4)
      BY <1>1, <1>8, SMT
    <2> QED BY <1>8, <2>1, <2>2, <1>1, SMT DEF Century
  <1>5. DaysBeforeYear(y) = Era * a + ((365 * w + (w \div 4)) - (w \div 100))
    <2>1. EraYear(a, w, y)
      BY <1>7 DEF EraYear
    <2> QED BY <1>3, <2>1, DaysBeforeEraYear
  <1>6. (400 * a + w) \in Nat
    BY <1>3, SMT
  <1>9. y \in Nat /\ y >= 1
    BY <1>6, <1>7
  <1> QED BY <1>2, <1>4, <1>5, <1>9

\* Which of those years is a leap year.
LEMMA LeapCycleYear ==
  ASSUME NEW a \in Nat, NEW b \in 0..3, NEW c \in 0..24, NEW d \in 0..3,
         NEW y, CycleYear(a, b, c, d, y)
  PROVE  IsLeapYear(y) <=> d = 3 /\ (c = 24 => b = 3)
  <1>1. y % 4 = 0 <=> d = 3
    BY SMT DEF CycleYear
  <1>2. ASSUME d = 3 PROVE y % 100 = 0 <=> c = 24
    BY <1>2, SMT DEF CycleYear
  <1>3. ASSUME d = 3, c = 24 PROVE y % 400 = 0 <=> b = 3
    BY <1>3, SMT DEF CycleYear
  <1> QED BY <1>1, <1>2, <1>3 DEF IsLeapYear

\* Division with a rest.
LEMMA Division ==
  ASSUME NEW n \in Nat, NEW k \in Nat \ {0}
  PROVE  (n \div k) \in Nat /\ (n % k) \in 0..(k - 1) /\ n = k * (n \div k) + (n % k)
  <1>1. (n \div k) \in Nat
    BY SMT
  <1>2. (n % k) \in 0..(k - 1)
    BY SMT
  <1>3. n = k * (n \div k) + (n % k)
    BY SMT
  <1> QED BY <1>1, <1>2, <1>3

\* A number up to four times a unit is so many units and a rest; the rest is a
\* whole unit only at the upper end.
LEMMA FourParts ==
  ASSUME NEW u \in Nat, u > 0, NEW t \in 0..(4 * u)
  PROVE  \E d \in 0..3, e \in 0..u : t = u * d + e /\ (e = u => d = 3 /\ t = 4 * u)
  <1>1. CASE t < u
    <2>1. t = u * 0 + t /\ t \in 0..u /\ t # u
      BY <1>1, SMT
    <2> QED BY <2>1, SMT
  <1>2. CASE u <= t /\ t < 2 * u
    <2>1. t = u * 1 + (t - u) /\ (t - u) \in 0..u /\ t - u # u
      BY <1>2, SMT
    <2> QED BY <2>1, SMT
  <1>3. CASE 2 * u <= t /\ t < 3 * u
    <2>1. t = u * 2 + (t - 2 * u) /\ (t - 2 * u) \in 0..u /\ t - 2 * u # u
      BY <1>3, SMT
    <2> QED BY <2>1, SMT
  <1>4. CASE 3 * u <= t
    <2>1. t = u * 3 + (t - 3 * u) /\ (t - 3 * u) \in 0..u /\ (t - 3 * u = u => t = 4 * u)
      BY <1>4, SMT
    <2> QED BY <2>1, SMT
  <1> QED BY <1>1, <1>2, <1>3, <1>4, SMT

\* Every number of days is a number of eras, centuries, fours of years and years,
\* and the days of a year: 366 of them in the last year of four, unless that is
\* the last one of one of the first three centuries.
IsSplit(n, a, b, c, d, e) ==
  /\ n = Era * a + (Century * b + (Quad * c + (Year * d + e)))
  /\ e = Year => d = 3 /\ (c = 24 => b = 3)

LEMMA Decomposition ==
  ASSUME NEW n \in Nat
  PROVE  \E a \in Nat, b \in 0..3, c \in 0..24, d \in 0..3, e \in DayOfYear :
             IsSplit(n, a, b, c, d, e)
  <1>1. PICK a \in Nat, r \in 0..(Era - 1) : n = Era * a + r
    <2>1. Era \in Nat \ {0}
      BY SMT DEF Era
    <2> QED BY <2>1, Division, Zenon
  <1>2. PICK b \in 0..3, s \in 0..Century :
            r = Century * b + s /\ (s = Century => b = 3 /\ r = 4 * Century)
    <2>1. Century \in Nat /\ Century > 0 /\ r \in 0..(4 * Century)
      BY SMT DEF Century, Era
    <2> QED BY <2>1, FourParts, Zenon
  <1>3. PICK c \in 0..24, t \in 0..(Quad - 1) : s = Quad * c + t /\ (t = Quad - 1 => (c = 24 => s = Century))
    <2>1. Quad \in Nat \ {0} /\ s \in Nat
      BY SMT DEF Quad, Century
    <2>2. (s \div Quad) \in Nat /\ (s % Quad) \in 0..(Quad - 1) /\ s = Quad * (s \div Quad) + (s % Quad)
      BY <2>1, Division
    <2>3. (s \div Quad) <= 24
      BY SMTT(30) DEF Quad, Century
    <2>4. (s \div Quad) \in 0..24
      BY <2>2, <2>3, SMT
    <2>5. ASSUME s % Quad = Quad - 1, s \div Quad = 24 PROVE s = Century
      BY <2>2, <2>5, SMT DEF Quad, Century
    <2> QED BY <2>2, <2>4, <2>5, Zenon
  <1>4. PICK d \in 0..3, e \in 0..Year : t = Year * d + e /\ (e = Year => d = 3 /\ t = 4 * Year)
    <2>1. Year \in Nat /\ Year > 0 /\ t \in 0..(4 * Year)
      BY SMT DEF Quad, Year
    <2> QED BY <2>1, FourParts, Zenon
  <1>5. n = Era * a + (Century * b + (Quad * c + (Year * d + e)))
    BY <1>1, <1>2, <1>3, <1>4, Zenon
  <1>6. 4 * Year = Quad - 1
    BY SMT DEF Year, Quad
  <1>7. IsSplit(n, a, b, c, d, e)
    BY <1>2, <1>3, <1>4, <1>5, <1>6, Zenon DEF IsSplit
  <1> QED BY <1>7, Zenon DEF DayOfYear

----------------------------------------------------------------------------
(* The months of a year *)

MonthTable(y, m, first, days) == DaysBeforeMonth(y, m) = first /\ DaysInMonth(y, m) = days

LEMMA LeapDayIs ==
  ASSUME NEW y
  PROVE  LeapDay(y) \in 0..1
  BY DEF LeapDay

LEMMA MonthsAre ==
  ASSUME NEW m \in 1..12
  PROVE  \/ m = 1 \/ m = 2 \/ m = 3 \/ m = 4 \/ m = 5 \/ m = 6
         \/ m = 7 \/ m = 8 \/ m = 9 \/ m = 10 \/ m = 11 \/ m = 12
  BY SMT

MonthTables(y) ==
  /\ MonthTable(y, 1, 0, 31)
  /\ MonthTable(y, 2, 31, 28 + LeapDay(y))
  /\ MonthTable(y, 3, 59 + LeapDay(y), 31)
  /\ MonthTable(y, 4, 90 + LeapDay(y), 30)
  /\ MonthTable(y, 5, 120 + LeapDay(y), 31)
  /\ MonthTable(y, 6, 151 + LeapDay(y), 30)
  /\ MonthTable(y, 7, 181 + LeapDay(y), 31)
  /\ MonthTable(y, 8, 212 + LeapDay(y), 31)
  /\ MonthTable(y, 9, 243 + LeapDay(y), 30)
  /\ MonthTable(y, 10, 273 + LeapDay(y), 31)
  /\ MonthTable(y, 11, 304 + LeapDay(y), 30)
  /\ MonthTable(y, 12, 334 + LeapDay(y), 31)

\* The first day and the length of every month.
LEMMA MonthsTabled ==
  ASSUME NEW y
  PROVE  MonthTables(y)
  <1>1. MonthTable(y, 1, 0, 31)
    BY SMT DEF DaysBeforeMonth, DaysInMonth, MonthTable, LeapDay
  <1>2. MonthTable(y, 2, 31, 28 + LeapDay(y))
    BY SMT DEF DaysBeforeMonth, DaysInMonth, MonthTable, LeapDay
  <1>3. MonthTable(y, 3, 59 + LeapDay(y), 31)
    BY SMT DEF DaysBeforeMonth, DaysInMonth, MonthTable, LeapDay
  <1>4. MonthTable(y, 4, 90 + LeapDay(y), 30)
    BY SMT DEF DaysBeforeMonth, DaysInMonth, MonthTable, LeapDay
  <1>5. MonthTable(y, 5, 120 + LeapDay(y), 31)
    BY SMT DEF DaysBeforeMonth, DaysInMonth, MonthTable, LeapDay
  <1>6. MonthTable(y, 6, 151 + LeapDay(y), 30)
    BY SMT DEF DaysBeforeMonth, DaysInMonth, MonthTable, LeapDay
  <1>7. MonthTable(y, 7, 181 + LeapDay(y), 31)
    BY SMT DEF DaysBeforeMonth, DaysInMonth, MonthTable, LeapDay
  <1>8. MonthTable(y, 8, 212 + LeapDay(y), 31)
    BY SMT DEF DaysBeforeMonth, DaysInMonth, MonthTable, LeapDay
  <1>9. MonthTable(y, 9, 243 + LeapDay(y), 30)
    BY SMT DEF DaysBeforeMonth, DaysInMonth, MonthTable, LeapDay
  <1>10. MonthTable(y, 10, 273 + LeapDay(y), 31)
    BY SMT DEF DaysBeforeMonth, DaysInMonth, MonthTable, LeapDay
  <1>11. MonthTable(y, 11, 304 + LeapDay(y), 30)
    BY SMT DEF DaysBeforeMonth, DaysInMonth, MonthTable, LeapDay
  <1>12. MonthTable(y, 12, 334 + LeapDay(y), 31)
    BY SMT DEF DaysBeforeMonth, DaysInMonth, MonthTable, LeapDay
  <1> QED BY <1>1, <1>2, <1>3, <1>4, <1>5, <1>6, <1>7, <1>8, <1>9, <1>10, <1>11, <1>12 DEF MonthTables

LEMMA MonthTypes ==
  ASSUME NEW y, NEW m \in 1..12
  PROVE  DaysBeforeMonth(y, m) \in Nat /\ DaysInMonth(y, m) \in 28..31
  BY MonthsTabled, LeapDayIs, MonthsAre, SMT DEF MonthTable, MonthTables

LEMMA MonthInYear ==
  ASSUME NEW y, NEW m \in 1..12
  PROVE  DaysBeforeMonth(y, m) + DaysInMonth(y, m) <= 365 + LeapDay(y)
  BY MonthsTabled, LeapDayIs, MonthsAre, SMT DEF MonthTable, MonthTables

\* Every day of a year lies in a month, and in one only.
LEMMA MonthExists ==
  ASSUME NEW y, NEW rest \in Nat, rest < 365 + LeapDay(y)
  PROVE  \E m \in 1..12 : InMonth(y, m, rest)
  <1>1. LeapDay(y) \in 0..1
    BY LeapDayIs
  <1>2. \/ InMonth(y, 1, rest) \/ InMonth(y, 2, rest) \/ InMonth(y, 3, rest) \/ InMonth(y, 4, rest)
        \/ InMonth(y, 5, rest) \/ InMonth(y, 6, rest) \/ InMonth(y, 7, rest) \/ InMonth(y, 8, rest)
        \/ InMonth(y, 9, rest) \/ InMonth(y, 10, rest) \/ InMonth(y, 11, rest) \/ InMonth(y, 12, rest)
    BY <1>1, MonthsTabled, SMT DEF MonthTable, InMonth, MonthTables
  <1> QED BY <1>2, SMT

LEMMA MonthsInOrder ==
  ASSUME NEW y, NEW m \in 1..12, NEW k \in 1..12, m < k
  PROVE  DaysBeforeMonth(y, m) + DaysInMonth(y, m) <= DaysBeforeMonth(y, k)
  <1>1. LeapDay(y) \in 0..1
    BY LeapDayIs
  <1> QED BY <1>1, MonthsTabled, MonthsAre, SMT DEF MonthTable, MonthTables

----------------------------------------------------------------------------
(* Years *)

LEMMA YearLength ==
  ASSUME NEW y \in Nat, y >= 1
  PROVE  DaysBeforeYear(y) \in Nat /\ DaysBeforeYear(y + 1) = DaysBeforeYear(y) + (365 + LeapDay(y))
  <1>1. DaysBeforeYear(y) \in Nat
    BY SMTT(30) DEF DaysBeforeYear
  <1>2. DaysBeforeYear(y + 1) \in Nat
    BY SMTT(30) DEF DaysBeforeYear
  <1>3. DaysBeforeYear(y + 1) - DaysBeforeYear(y) = IF IsLeapYear(y) THEN 366 ELSE 365
    BY SMTT(30) DEF DaysBeforeYear, IsLeapYear
  <1> QED BY <1>1, <1>2, <1>3, SMT DEF LeapDay

LEMMA YearsInOrder ==
  ASSUME NEW y \in Nat, NEW k \in Nat, y >= 1, y < k
  PROVE  DaysBeforeYear(y + 1) <= DaysBeforeYear(k)
  BY SMTT(30) DEF DaysBeforeYear

\* DateOf looks for the year where it is.
LEMMA YearInRange ==
  ASSUME NEW y \in Nat, NEW n \in Nat, y >= 1, InYear(y, n)
  PROVE  y \in ((n \div 366) + 1)..((n \div 365) + 1)
  BY SMTT(30) DEF DaysBeforeYear, InYear

\* Every day lies in a year, and in one only.
LEMMA YearExists ==
  ASSUME NEW n \in Nat
  PROVE  \E y \in Nat : y >= 1 /\ InYear(y, n)
  <1>1. PICK a \in Nat, b \in 0..3, c \in 0..24, d \in 0..3, e \in DayOfYear : IsSplit(n, a, b, c, d, e)
    BY Decomposition
  <1> DEFINE y == (400 * a + (100 * b + (4 * c + d))) + 1
  <1>2. y \in Nat /\ y >= 1 /\ DaysBeforeYear(y) = Era * a + (Century * b + (Quad * c + Year * d))
    <2>1. CycleYear(a, b, c, d, y)
      BY DEF CycleYear
    <2>2. y \in Nat /\ y >= 1 /\ DaysBeforeYear(y) = Era * a + (Century * b + (Quad * c + 365 * d))
      BY <2>1, DaysBeforeCycleYear
    <2> QED BY <2>2 DEF Year
  <1>3. IsLeapYear(y) <=> d = 3 /\ (c = 24 => b = 3)
    <2>1. CycleYear(a, b, c, d, y)
      BY DEF CycleYear
    <2> QED BY <2>1, LeapCycleYear
  <1> HIDE DEF y
  <1>4. n = DaysBeforeYear(y) + e
    BY <1>1, <1>2, SMT DEF IsSplit, DayOfYear, Era, Century, Quad, Year
  <1>5. DaysBeforeYear(y) \in Nat /\ DaysBeforeYear(y + 1) = DaysBeforeYear(y) + (365 + LeapDay(y))
    BY <1>2, YearLength
  <1>6. e = 365 => LeapDay(y) = 1
    BY <1>1, <1>3, SMT DEF IsSplit, LeapDay, Year
  <1>7. InYear(y, n)
    BY <1>4, <1>5, <1>6, LeapDayIs, SMT DEF InYear, DayOfYear, Year
  <1> QED BY <1>2, <1>7

LEMMA OneYear ==
  ASSUME NEW n \in Nat, NEW y \in Nat, NEW k \in Nat, y >= 1, k >= 1,
         InYear(y, n), InYear(k, n)
  PROVE  y = k
  <1>1. DaysBeforeYear(y) \in Nat /\ DaysBeforeYear(k) \in Nat /\ DaysBeforeYear(y + 1) \in Nat /\ DaysBeforeYear(k + 1) \in Nat
    BY YearLength, LeapDayIs, SMT
  <1>2. CASE y < k
    BY <1>1, <1>2, YearsInOrder, SMT DEF InYear
  <1>3. CASE k < y
    BY <1>1, <1>3, YearsInOrder, SMT DEF InYear
  <1> QED BY <1>2, <1>3, SMT

LEMMA OneMonth ==
  ASSUME NEW y, NEW rest \in Nat, NEW m \in 1..12, NEW k \in 1..12,
         InMonth(y, m, rest), InMonth(y, k, rest)
  PROVE  m = k
  <1>1. DaysBeforeMonth(y, m) \in Nat /\ DaysBeforeMonth(y, k) \in Nat /\ DaysInMonth(y, m) \in Nat /\ DaysInMonth(y, k) \in Nat
    BY MonthTypes, SMT
  <1>2. CASE m < k
    BY <1>1, <1>2, MonthsInOrder, SMT DEF InMonth
  <1>3. CASE k < m
    BY <1>1, <1>3, MonthsInOrder, SMT DEF InMonth
  <1> QED BY <1>2, <1>3, SMT

----------------------------------------------------------------------------
(* Dates *)

LEMMA DateOfIs ==
  ASSUME NEW n
  PROVE  LET y    == YearOf(n)
             rest == n - DaysBeforeYear(y)
             m    == MonthOf(y, rest)
         IN  DateOf(n) = [year |-> y, month |-> m,
                          day |-> rest - DaysBeforeMonth(y, m) + 1]
  BY DEF DateOf, YearOf, MonthOf

LEMMA YearOfIs ==
  ASSUME NEW n \in Nat
  PROVE  YearOf(n) \in Nat /\ YearOf(n) >= 1 /\ InYear(YearOf(n), n)
  <1>1. PICK y \in Nat : y >= 1 /\ InYear(y, n)
    BY YearExists
  <1>2. y \in ((n \div 366) + 1)..((n \div 365) + 1)
    BY <1>1, YearInRange
  <1> DEFINE years == ((n \div 366) + 1)..((n \div 365) + 1)
  <1>3. YearOf(n) \in years /\ InYear(YearOf(n), n)
    <2>1. YearOf(n) = CHOOSE k \in years : InYear(k, n)
      BY SMT DEF YearOf, InYear
    <2>2. y \in years /\ InYear(y, n)
      BY <1>1, <1>2
    <2> HIDE DEF years
    <2> QED BY <2>1, <2>2, Zenon
  <1>4. (n \div 366) \in Nat
    BY SMTT(30)
  <1>5. (n \div 365) \in Nat
    BY SMTT(30)
  <1> QED BY <1>3, <1>4, <1>5, SMT

LEMMA MonthOfIs ==
  ASSUME NEW y, NEW rest \in Nat, rest < 365 + LeapDay(y)
  PROVE  MonthOf(y, rest) \in 1..12 /\ InMonth(y, MonthOf(y, rest), rest)
  <1>1. \E m \in 1..12 : InMonth(y, m, rest)
    BY MonthExists
  <1> QED BY <1>1, Zenon DEF InMonth, MonthOf

\* The date of a day is a date, and its day number is that day.
THEOREM DayNumberOfDate ==
  ASSUME NEW n \in Nat
  PROVE  LET r == DateOf(n)
         IN  /\ IsDate(r.year, r.month, r.day)
             /\ DayNumber(r.year, r.month, r.day) = n
             /\ r = [year |-> r.year, month |-> r.month, day |-> r.day]
  <1> DEFINE y == YearOf(n)
             rest == n - DaysBeforeYear(y)
             m == MonthOf(y, rest)
             d == rest - DaysBeforeMonth(y, m) + 1
  <1>1. y \in Nat /\ y >= 1 /\ InYear(y, n)
    BY YearOfIs
  <1>2. DateOf(n) = [year |-> y, month |-> m, day |-> d]
    BY DateOfIs
  <1> HIDE DEF y
  <1>3. DaysBeforeYear(y) \in Nat /\ DaysBeforeYear(y + 1) = DaysBeforeYear(y) + (365 + LeapDay(y))
    BY <1>1, YearLength
  <1>4. rest \in Nat /\ rest < 365 + LeapDay(y) /\ n = DaysBeforeYear(y) + rest
    BY <1>1, <1>3, LeapDayIs, SMT DEF InYear
  <1> HIDE DEF rest
  <1>5. m \in 1..12 /\ InMonth(y, m, rest)
    BY <1>4, MonthOfIs
  <1> HIDE DEF m
  <1>6. DaysBeforeMonth(y, m) \in Nat /\ DaysInMonth(y, m) \in 28..31
    BY <1>5, MonthTypes
  <1>7. d \in 1..DaysInMonth(y, m)
    BY <1>4, <1>5, <1>6, SMT DEF InMonth
  <1>8. DayNumber(y, m, d) = n
    BY <1>3, <1>4, <1>5, <1>6, SMT DEF DayNumber
  <1> HIDE DEF d
  <1>9. IsDate(y, m, d)
    BY <1>1, <1>5, <1>7 DEF IsDate
  <1>10. DateOf(n).year = y /\ DateOf(n).month = m /\ DateOf(n).day = d
    BY <1>2
  <1> QED BY <1>2, <1>8, <1>9, <1>10, Zenon

\* The date of the day number of a date is that date: DateOf and DayNumber are
\* inverse to each other.
THEOREM DateOfDayNumber ==
  ASSUME NEW y, NEW m, NEW d, IsDate(y, m, d)
  PROVE  DayNumber(y, m, d) \in Nat /\ DateOf(DayNumber(y, m, d)) = [year |-> y, month |-> m, day |-> d]
  <1> DEFINE n == DayNumber(y, m, d)
  <1>1. y \in Nat /\ y >= 1 /\ m \in 1..12 /\ d \in 1..DaysInMonth(y, m)
    BY DEF IsDate
  <1>2. DaysBeforeYear(y) \in Nat /\ DaysBeforeYear(y + 1) = DaysBeforeYear(y) + (365 + LeapDay(y))
    BY <1>1, YearLength
  <1>3. DaysBeforeMonth(y, m) \in Nat /\ DaysInMonth(y, m) \in 28..31 /\ DaysBeforeMonth(y, m) + DaysInMonth(y, m) <= 365 + LeapDay(y)
    BY <1>1, MonthTypes, MonthInYear
  <1>4. n = DaysBeforeYear(y) + DaysBeforeMonth(y, m) + d - 1
    BY DEF DayNumber
  <1> HIDE DEF n
  <1>5. n \in Nat
    BY <1>1, <1>2, <1>3, <1>4, SMT
  <1>6. InYear(y, n)
    BY <1>1, <1>2, <1>3, <1>4, LeapDayIs, SMT DEF InYear
  <1>7. YearOf(n) = y
    BY <1>1, <1>5, <1>6, YearOfIs, OneYear
  <1> DEFINE rest == n - DaysBeforeYear(y)
  <1>8. rest \in Nat /\ rest < 365 + LeapDay(y) /\ InMonth(y, m, rest) /\ rest - DaysBeforeMonth(y, m) + 1 = d
    BY <1>1, <1>2, <1>3, <1>4, LeapDayIs, SMT DEF InMonth
  <1> HIDE DEF rest
  <1>9. MonthOf(y, rest) = m
    BY <1>1, <1>8, MonthOfIs, OneMonth
  <1>10. DateOf(n) = [year |-> y, month |-> m, day |-> rest - DaysBeforeMonth(y, m) + 1]
    BY <1>7, <1>9, DateOfIs DEF rest
  <1>11. DateOf(n) = [year |-> y, month |-> m, day |-> d]
    BY <1>10, <1>8
  <1> QED BY <1>5, <1>11 DEF n

\* A date of an earlier month is an earlier day.
LEMMA DatesInOrder ==
  ASSUME NEW y, NEW m, NEW d, NEW k, NEW l, NEW e,
         IsDate(y, m, d), IsDate(k, l, e), 12 * y + m < 12 * k + l
  PROVE  DayNumber(y, m, d) < DayNumber(k, l, e)
  <1>1. y \in Nat /\ y >= 1 /\ m \in 1..12 /\ d \in 1..DaysInMonth(y, m) /\ k \in Nat /\ k >= 1 /\ l \in 1..12 /\ e \in 1..DaysInMonth(k, l)
    BY DEF IsDate
  <1>2. DaysBeforeYear(y) \in Nat /\ DaysBeforeYear(y + 1) = DaysBeforeYear(y) + (365 + LeapDay(y)) /\ DaysBeforeYear(k) \in Nat
    BY <1>1, YearLength
  <1>3. DaysBeforeMonth(y, m) \in Nat /\ DaysInMonth(y, m) \in 28..31 /\ DaysBeforeMonth(y, m) + DaysInMonth(y, m) <= 365 + LeapDay(y)
    BY <1>1, MonthTypes, MonthInYear
  <1>4. DaysBeforeMonth(k, l) \in Nat /\ DaysInMonth(k, l) \in 28..31
    BY <1>1, MonthTypes
  <1>5. CASE y = k
    <2>1. m < l
      BY <1>1, <1>5, SMT
    <2>2. DaysBeforeMonth(y, m) + DaysInMonth(y, m) <= DaysBeforeMonth(y, l)
      BY <1>1, <2>1, MonthsInOrder
    <2> QED BY <1>1, <1>2, <1>3, <1>4, <1>5, <2>2, SMT DEF DayNumber
  <1>6. CASE y < k
    <2>1. DaysBeforeYear(y + 1) <= DaysBeforeYear(k)
      BY <1>1, <1>6, YearsInOrder
    <2> QED BY <1>1, <1>2, <1>3, <1>4, LeapDayIs, <2>1, SMT DEF DayNumber
  <1>7. y = k \/ y < k
    BY <1>1, SMT
  <1> QED BY <1>5, <1>6, <1>7

----------------------------------------------------------------------------
(* Adding months *)

\* The date that is reached, as long as it is not before the year 1.
LEMMA MonthsAdded ==
  ASSUME NEW n \in Nat, NEW months \in Int,
         12 * DateOf(n).year + DateOf(n).month - 1 + months >= 12
  PROVE  \E y \in Nat, m \in 1..12, d \in 1..31 :
          /\ IsDate(y, m, d)
          /\ 12 * y + m - 1 = 12 * DateOf(n).year + DateOf(n).month - 1 + months
          /\ PlusMonths(n, months) = DayNumber(y, m, d)
          /\ d = IF DateOf(n).day <= DaysInMonth(y, m) THEN DateOf(n).day ELSE DaysInMonth(y, m)
  <1> DEFINE from == DateOf(n)
             to == 12 * from.year + from.month - 1 + months
             y == to \div 12
             m == (to % 12) + 1
             d == IF from.day <= DaysInMonth(y, m) THEN from.day ELSE DaysInMonth(y, m)
  <1>1. IsDate(from.year, from.month, from.day)
    BY DayNumberOfDate
  <1>0. PlusMonths(n, months) = DayNumber(y, m, d)
    BY DEF PlusMonths
  <1>2. from.year \in Nat /\ from.month \in 1..12 /\ from.day \in Nat /\ from.day >= 1
    <2>1. DaysInMonth(from.year, from.month) \in 28..31
      BY <1>1, MonthTypes DEF IsDate
    <2> QED BY <1>1, <2>1, SMT DEF IsDate
  <1>9. to >= 12
    OBVIOUS
  <1> HIDE DEF from
  <1>3. to \in Nat
    BY <1>2, <1>9, SMT
  <1>10. to = 12 * DateOf(n).year + DateOf(n).month - 1 + months
    BY DEF from
  <1> HIDE DEF to
  <1>4. y \in Nat /\ y >= 1 /\ m \in 1..12
    BY <1>3, <1>9, SMTT(30)
  <1>5. 12 * y + m - 1 = to
    BY <1>3, SMTT(30)
  <1> HIDE DEF y, m
  <1>6. DaysInMonth(y, m) \in 28..31
    BY <1>4, MonthTypes
  <1>7. d \in 1..31 /\ d \in 1..DaysInMonth(y, m)
    BY <1>6, <1>2, SMT
  <1>11. d = IF DateOf(n).day <= DaysInMonth(y, m) THEN DateOf(n).day ELSE DaysInMonth(y, m)
    BY DEF from
  <1> HIDE DEF d
  <1>8. IsDate(y, m, d)
    BY <1>4, <1>7 DEF IsDate
  <1>12. 12 * y + m - 1 = 12 * DateOf(n).year + DateOf(n).month - 1 + months
    BY <1>5, <1>10
  <1> QED BY <1>0, <1>4, <1>7, <1>8, <1>11, <1>12

LEMMA MonthIndexIs ==
  ASSUME NEW n \in Nat
  PROVE  MonthIndex(n) \in Nat /\ MonthIndex(n) >= 13
  BY DayNumberOfDate, SMT DEF MonthIndex, IsDate

LEMMA EarlierMonth ==
  ASSUME NEW n \in Nat, NEW k \in Nat, MonthIndex(n) < MonthIndex(k)
  PROVE  n < k
  <1>1. IsDate(DateOf(n).year, DateOf(n).month, DateOf(n).day) /\ DayNumber(DateOf(n).year, DateOf(n).month, DateOf(n).day) = n
    BY DayNumberOfDate
  <1>2. IsDate(DateOf(k).year, DateOf(k).month, DateOf(k).day) /\ DayNumber(DateOf(k).year, DateOf(k).month, DateOf(k).day) = k
    BY DayNumberOfDate
  <1> QED BY <1>1, <1>2, DatesInOrder DEF MonthIndex

\* Adding months leads that many months on, whatever their lengths.
THEOREM PlusMonthsCounts ==
  ASSUME NEW n \in Nat, NEW months \in Int, MonthIndex(n) + months >= 13
  PROVE  PlusMonths(n, months) \in Nat /\ MonthIndex(PlusMonths(n, months)) = MonthIndex(n) + months
  <1>0. MonthIndex(n) \in Nat /\ DateOf(n).year \in Nat /\ DateOf(n).month \in 1..12
    BY MonthIndexIs, DayNumberOfDate DEF IsDate
  <1>1. 12 * DateOf(n).year + DateOf(n).month - 1 + months >= 12
    BY <1>0, SMT DEF MonthIndex
  <1>2. PICK y \in Nat, m \in 1..12, d \in 1..31 :
          /\ IsDate(y, m, d)
          /\ 12 * y + m - 1 = 12 * DateOf(n).year + DateOf(n).month - 1 + months
          /\ PlusMonths(n, months) = DayNumber(y, m, d)
    BY <1>1, MonthsAdded
  <1>3. PlusMonths(n, months) \in Nat /\ DateOf(PlusMonths(n, months)) = [year |-> y, month |-> m, day |-> d]
    BY <1>2, DateOfDayNumber
  <1>4. MonthIndex(PlusMonths(n, months)) = 12 * y + m
    BY <1>3 DEF MonthIndex
  <1> QED BY <1>0, <1>2, <1>3, <1>4, SMT DEF MonthIndex

\* Twelve months on is the same date of the next year, 28 February after a 29th.
THEOREM TwelveMonthsAreAYear ==
  ASSUME NEW n \in Nat
  PROVE  LET first == DateOf(n)
             next  == DateOf(PlusMonths(n, 12))
         IN  /\ next.year = first.year + 1
             /\ next.month = first.month
             /\ next.day = IF first.month = 2 /\ first.day = 29 THEN 28 ELSE first.day
  <1> DEFINE Y == DateOf(n).year
             M == DateOf(n).month
             D == DateOf(n).day
  <1>1. Y \in Nat /\ Y >= 1 /\ M \in 1..12 /\ D \in 1..DaysInMonth(Y, M)
    BY DayNumberOfDate DEF IsDate
  <1> HIDE DEF Y, M, D
  <1>2. 12 * Y + M - 1 + 12 >= 12
    BY <1>1, SMT
  <1>3. PICK y \in Nat, m \in 1..12, d \in 1..31 :
          /\ IsDate(y, m, d)
          /\ 12 * y + m - 1 = 12 * Y + M - 1 + 12
          /\ PlusMonths(n, 12) = DayNumber(y, m, d)
          /\ d = IF D <= DaysInMonth(y, m) THEN D ELSE DaysInMonth(y, m)
    BY <1>2, MonthsAdded DEF Y, M, D
  <1>4. DateOf(PlusMonths(n, 12)) = [year |-> y, month |-> m, day |-> d]
    BY <1>3, DateOfDayNumber
  <1>5. y = Y + 1 /\ m = M
    BY <1>1, <1>3, SMT
  <1>6. d = IF M = 2 /\ D = 29 THEN 28 ELSE D
    <2>1. CASE M # 2
      <3>1. DaysInMonth(y, m) = DaysInMonth(Y, M)
        BY <2>1, <1>5, SMT DEF DaysInMonth
      <3> QED BY <3>1, <2>1, <1>1, <1>3, MonthTypes, SMT
    <2>2. CASE M = 2
      <3>1. DaysInMonth(y, m) = 28 + LeapDay(y) /\ DaysInMonth(Y, M) = 28 + LeapDay(Y)
        BY <2>2, <1>5, SMT DEF DaysInMonth, LeapDay
      <3>2. LeapDay(Y) = 1 => LeapDay(y) = 0
        BY <1>1, <1>5, SMT DEF LeapDay, IsLeapYear
      <3> QED BY <3>1, <3>2, <2>2, <1>1, <1>3, LeapDayIs, SMT
    <2> QED BY <2>1, <2>2
  <1> QED BY <1>4, <1>5, <1>6 DEF Y, M, D
=============================================================================
